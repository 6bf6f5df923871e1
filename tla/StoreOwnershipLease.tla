------------------------- MODULE StoreOwnershipLease -------------------------
(***************************************************************************)
(* The lease on a profile directory, taken by processes that share nothing *)
(* but the file system: acquireStoreOwnershipLease, the reclamation of the *)
(* lease of a dead process, the cleanup of what such processes left, and   *)
(* releaseStoreOwnershipLease.  An action is one file-system call with the *)
(* local computation around it; processes interleave between them and die  *)
(* between them.                                                           *)
(*                                                                         *)
(* A lease file has a token.  A process makes a fresh token per attempt,   *)
(* but at most one of them gets the canonical path, the others are         *)
(* unlinked by the process itself: here the token is the process.          *)
(* The bytes of token p have at most two names: the canonical path and an  *)
(* anchor, which is p's owner file (<token>.owner) or the reclaim file of  *)
(* a process q that reclaims it (<token>.reclaim.<q's own token>).         *)
(***************************************************************************)
EXTENDS Naturals

CONSTANTS
  Process,   \* the processes that open the profile, each once
  None,
  Attempts   \* 16 in the code

ASSUME LeaseAssumption == None \notin Process /\ Attempts \in Nat \ {0, 1}

VARIABLES
  canonical,  \* the token at leasePath, None if there is no such file
  anchor,     \* anchor[p] = p: p's owner file; q: q's reclaim file of p; None
  torn,       \* the owner files created whose bytes are not written yet
  alive,      \* the processes that run
  pc,         \* where each is
  attempt,    \* the attempts it made
  expected,   \* the token it found at leasePath and wants to reclaim
  found,      \* the anchor findStoreLeaseAnchor returned
  orphans,    \* the entries cleanupOrphanedStoreLeaseFiles has yet to look at
  alone,      \* (history) no other process worked since this one started
  opened,     \* (history) the processes that got the lease
  raced       \* (history) a reclamation unlinked a lease it had not verified

files == <<canonical, anchor, torn>>
locals == <<attempt, expected, found, orphans>>
history == <<alone, opened, raced>>
vars == <<files, alive, pc, locals, history>>

Acquiring ==
  {"create", "write", "link", "discard", "look", "read", "find", "claim",
   "verify", "unlinkLease", "unlinkClaim", "restore", "assert", "scan", "clean"}
Releasing == {"release", "unlinkOwn", "unlinkOwner"}
Labels == {"off", "owner", "done"} \cup Acquiring \cup Releasing

Working == {p \in alive : pc[p] \in Acquiring \cup Releasing \cup {"owner"}}

At(p, label) == p \in alive /\ pc[p] = label
Goto(p, label) == pc' = [pc EXCEPT ![p] = label]

Init ==
  /\ canonical = None
  /\ anchor = [p \in Process |-> None]
  /\ torn = {}
  /\ alive = {}
  /\ pc = [p \in Process |-> "off"]
  /\ attempt = [p \in Process |-> 0]
  /\ expected = [p \in Process |-> None]
  /\ found = [p \in Process |-> None]
  /\ orphans = [p \in Process |-> {}]
  /\ alone = {}
  /\ opened = {}
  /\ raced = FALSE

Start(p) ==
  /\ pc[p] = "off"
  /\ alive' = alive \cup {p}
  /\ Goto(p, "create")
  /\ attempt' = [attempt EXCEPT ![p] = 1]
  /\ alone' = IF Working = {} THEN {p} ELSE {}
  /\ UNCHANGED <<files, expected, found, orphans, opened, raced>>

-----------------------------------------------------------------------------
(* acquireStoreOwnershipLease.                                             *)

\* writeStoreLeaseFile opens the owner file exclusively ...
CreateOwnerFile(p) ==
  /\ At(p, "create")
  /\ anchor' = [anchor EXCEPT ![p] = p]
  /\ torn' = torn \cup {p}
  /\ Goto(p, "write")
  /\ UNCHANGED <<canonical, alive, locals, history>>

\* ... and writes it.
WriteOwnerFile(p) ==
  /\ At(p, "write")
  /\ torn' = torn \ {p}
  /\ Goto(p, "link")
  /\ UNCHANGED <<canonical, anchor, alive, locals, history>>

\* The owner file is renamed over what is there: a mutant of Link.
Link_Replaces(p) ==
  /\ At(p, "link")
  /\ canonical' = p
  /\ Goto(p, "assert")
  /\ UNCHANGED <<anchor, torn, alive, locals, history>>

Link(p) ==
  /\ At(p, "link")
  /\ \/ /\ canonical = None
        /\ canonical' = p
        /\ Goto(p, "assert")
     \/ /\ canonical # None
        /\ Goto(p, "discard")
        /\ UNCHANGED canonical
  /\ UNCHANGED <<anchor, torn, alive, locals, history>>

DiscardOwnerFile(p) ==
  /\ At(p, "discard")
  /\ anchor' = [anchor EXCEPT ![p] = None]
  /\ Goto(p, "look")
  /\ UNCHANGED <<canonical, torn, alive, locals, history>>

\* No limit on attempts: a mutant of Again.
Again_Forever(p) ==
  /\ attempt' = [attempt EXCEPT ![p] = @ + 1]
  /\ Goto(p, "create")

\* Where the next attempt begins, if there is one.
Again(p) ==
  IF attempt[p] < Attempts
    THEN /\ attempt' = [attempt EXCEPT ![p] = @ + 1]
         /\ Goto(p, "create")
    ELSE /\ Goto(p, "done")
         /\ UNCHANGED attempt

\* inspectStoreOwnershipLease(leasePath): the lstat ...
Look(p) ==
  /\ At(p, "look")
  /\ \/ /\ canonical = None
        /\ Again(p)
        /\ UNCHANGED expected
     \/ /\ canonical # None
        /\ expected' = [expected EXCEPT ![p] = canonical]
        /\ Goto(p, "read")
        /\ UNCHANGED attempt
  /\ UNCHANGED <<files, alive, found, orphans, history>>

\* The lease is reclaimed whoever holds it: a mutant of Read.
Read_AnyHolder(p) ==
  /\ At(p, "read")
  /\ IF canonical = expected[p] THEN Goto(p, "find") ELSE Goto(p, "done")
  /\ UNCHANGED <<files, alive, locals, history>>

\* ... and the open and read, which fail if the file is not that one any more;
\* then processIsAlive.
Read(p) ==
  /\ At(p, "read")
  /\ IF canonical = expected[p] /\ expected[p] \notin alive
       THEN Goto(p, "find")
       ELSE Goto(p, "done")
  /\ UNCHANGED <<files, alive, locals, history>>

-----------------------------------------------------------------------------
(* reclaimStoreOwnershipLease.                                             *)

\* Reclaim files left by a crash are not looked for: a mutant of Find.
Find_OwnerFileOnly(p) ==
  /\ At(p, "find")
  /\ \/ /\ anchor[expected[p]] # expected[p]
        /\ Again(p)
        /\ UNCHANGED found
     \/ /\ anchor[expected[p]] = expected[p]
        /\ found' = [found EXCEPT ![p] = expected[p]]
        /\ Goto(p, "claim")
        /\ UNCHANGED attempt
  /\ UNCHANGED <<files, alive, expected, orphans, history>>

Find(p) ==
  /\ At(p, "find")
  /\ \/ /\ anchor[expected[p]] = None
        /\ Again(p)
        /\ UNCHANGED found
     \/ /\ anchor[expected[p]] # None
        /\ found' = [found EXCEPT ![p] = anchor[expected[p]]]
        /\ Goto(p, "claim")
        /\ UNCHANGED attempt
  /\ UNCHANGED <<files, alive, expected, orphans, history>>

\* The anchor is unlinked and not renamed: a mutant of Claim.
Claim_Unlinks(p) ==
  /\ At(p, "claim")
  /\ \/ /\ anchor[expected[p]] = found[p]
        /\ anchor' = [anchor EXCEPT ![expected[p]] = None]
        /\ Goto(p, "verify")
        /\ UNCHANGED attempt
     \/ /\ anchor[expected[p]] # found[p]
        /\ Again(p)
        /\ UNCHANGED anchor
  /\ UNCHANGED <<canonical, torn, alive, expected, found, orphans, history>>

\* The rename of the anchor: another process may have renamed it since.
Claim(p) ==
  /\ At(p, "claim")
  /\ \/ /\ anchor[expected[p]] = found[p]
        /\ anchor' = [anchor EXCEPT ![expected[p]] = p]
        /\ Goto(p, "verify")
        /\ UNCHANGED attempt
     \/ /\ anchor[expected[p]] # found[p]
        /\ Again(p)
        /\ UNCHANGED anchor
  /\ UNCHANGED <<canonical, torn, alive, expected, found, orphans, history>>

Verify(p) ==
  /\ At(p, "verify")
  /\ IF canonical = expected[p] /\ anchor[expected[p]] = p
       THEN Goto(p, "unlinkLease")
       ELSE Goto(p, "restore")
  /\ UNCHANGED <<files, alive, locals, history>>

\* fs.unlink(leasePath) removes whatever is there by now.
UnlinkLease(p) ==
  /\ At(p, "unlinkLease")
  /\ canonical' = None
  /\ IF canonical # None THEN Goto(p, "unlinkClaim") ELSE Goto(p, "restore")
  /\ raced' = (raced \/ canonical \notin {None, expected[p]})
  /\ UNCHANGED <<anchor, torn, alive, locals, alone, opened>>

UnlinkClaim(p) ==
  /\ At(p, "unlinkClaim")
  /\ \/ /\ anchor[expected[p]] = p
        /\ anchor' = [anchor EXCEPT ![expected[p]] = None]
        /\ Again(p)
     \/ /\ anchor[expected[p]] # p
        /\ Goto(p, "restore")
        /\ UNCHANGED <<anchor, attempt>>
  /\ UNCHANGED <<canonical, torn, alive, expected, found, orphans, history>>

\* The catch: the anchor gets its name back if the lease is still there.
Restore(p) ==
  /\ At(p, "restore")
  /\ anchor' = IF canonical = expected[p] /\ anchor[expected[p]] = p
                 THEN [anchor EXCEPT ![expected[p]] = found[p]]
                 ELSE anchor
  /\ Goto(p, "done")
  /\ UNCHANGED <<canonical, torn, alive, locals, history>>

-----------------------------------------------------------------------------
(* The lease is linked: assertStoreOwnershipLease, then the cleanup.       *)

HoldsLease(p) == canonical = p /\ anchor[p] = p

AssertLease(p) ==
  /\ At(p, "assert")
  /\ IF HoldsLease(p) THEN Goto(p, "scan") ELSE Goto(p, "release")
  /\ UNCHANGED <<files, alive, locals, history>>

\* cleanupOrphanedStoreLeaseFiles reads the directory ...
Scan(p) ==
  /\ At(p, "scan")
  /\ orphans' = [orphans EXCEPT ![p] =
       {<<q, anchor[q]>> : q \in {q \in Process \ {p} : anchor[q] # None}}]
  /\ Goto(p, "clean")
  /\ UNCHANGED <<files, alive, attempt, expected, found, history>>

\* ... and inspects each file: one that is being written, or whose writer died
\* at it, fails the integrity check; one that went away is skipped, unless it
\* went between the lstat and the open.
Clean(p) ==
  /\ At(p, "clean")
  /\ \E e \in orphans[p] :
       LET token == e[1]
           present == anchor[token] = e[2]
       IN \/ /\ present => token \in torn
             /\ Goto(p, "release")
             /\ UNCHANGED <<anchor, orphans>>
          \/ /\ ~present \/ token \notin torn
             /\ anchor' = IF present /\ token \notin alive
                            THEN [anchor EXCEPT ![token] = None] ELSE anchor
             /\ orphans' = [orphans EXCEPT ![p] = @ \ {e}]
             /\ UNCHANGED pc
  /\ UNCHANGED <<canonical, torn, alive, attempt, expected, found, history>>

Open(p) ==
  /\ At(p, "clean") /\ orphans[p] = {}
  /\ opened' = opened \cup {p}
  /\ Goto(p, "owner")
  /\ UNCHANGED <<files, alive, locals, alone, raced>>

-----------------------------------------------------------------------------
(* releaseStoreOwnershipLease.                                             *)

Close(p) ==
  /\ At(p, "owner")
  /\ Goto(p, "release")
  /\ UNCHANGED <<files, alive, locals, history>>

Release(p) ==
  /\ At(p, "release")
  /\ IF HoldsLease(p) THEN Goto(p, "unlinkOwn") ELSE Goto(p, "done")
  /\ UNCHANGED <<files, alive, locals, history>>

UnlinkOwnLease(p) ==
  /\ At(p, "unlinkOwn")
  /\ canonical' = None
  /\ IF canonical # None THEN Goto(p, "unlinkOwner") ELSE Goto(p, "done")
  /\ UNCHANGED <<anchor, torn, alive, locals, history>>

UnlinkOwnerFile(p) ==
  /\ At(p, "unlinkOwner")
  /\ anchor' = IF anchor[p] = p THEN [anchor EXCEPT ![p] = None] ELSE anchor
  /\ Goto(p, "done")
  /\ UNCHANGED <<canonical, torn, alive, locals, history>>

\* A process may end anywhere, and leaves its files.
Die(p) ==
  /\ p \in alive
  /\ alive' = alive \ {p}
  /\ UNCHANGED <<files, pc, locals, history>>

-----------------------------------------------------------------------------
AcquireStep(p) ==
  \/ CreateOwnerFile(p) \/ WriteOwnerFile(p) \/ Link(p) \/ DiscardOwnerFile(p)
  \/ Look(p) \/ Read(p)
  \/ AssertLease(p) \/ Scan(p) \/ Clean(p) \/ Open(p)

ReclaimStep(p) ==
  Find(p) \/ Claim(p) \/ Verify(p) \/ UnlinkLease(p) \/ UnlinkClaim(p) \/ Restore(p)

ReleaseStep(p) ==
  Close(p) \/ Release(p) \/ UnlinkOwnLease(p) \/ UnlinkOwnerFile(p)

Next ==
  \E p \in Process :
    Start(p) \/ AcquireStep(p) \/ ReclaimStep(p) \/ ReleaseStep(p) \/ Die(p)

Spec == Init /\ [][Next]_vars

-----------------------------------------------------------------------------
(* Properties.                                                             *)

TypeOK ==
  /\ canonical \in Process \cup {None}
  /\ anchor \in [Process -> Process \cup {None}]
  /\ torn \subseteq Process
  /\ alive \subseteq Process
  /\ pc \in [Process -> Labels]
  /\ attempt \in [Process -> 0..Attempts]
  /\ expected \in [Process -> Process \cup {None}]
  /\ found \in [Process -> Process \cup {None}]
  /\ orphans \in [Process -> SUBSET (Process \X Process)]
  /\ alone \subseteq Process
  /\ opened \subseteq Process
  /\ raced \in BOOLEAN

Owners == {p \in alive : pc[p] \in {"owner", "release", "unlinkOwn"} /\ p \in opened}

\* The profile has one live owner at most: the database it guards is opened by
\* one process (ApplicationPersistence.open, withOwnership).
AtMostOneOwner == \A p, q \in Owners : p = q

\* A live owner is alone, and the lease file is its own, unless a reclamation
\* unlinked a lease it had not verified.
OwnsUntilRaced ==
  ~raced => AtMostOneOwner /\ \A p \in Owners : canonical = p

\* The lease file of a dead process keeps an anchor by which it can be
\* reclaimed: without one every later start would try and give up.
StaleIsReclaimable ==
  ~raced /\ canonical # None /\ canonical \notin alive =>
    anchor[canonical] # None

\* A start that nobody contends gets the lease, unless a process died while it
\* wrote its owner file: that file fails the integrity check of every cleanup.
LoneStartSucceeds ==
  \A p \in alone :
    ~raced /\ At(p, "done") => p \in opened \/ \E q \in torn : q \notin alive

\* The files implement the lease, until a reclamation goes wrong.
Lease ==
  INSTANCE ProfileLease WITH
    owner <- IF Owners = {} THEN None ELSE CHOOSE p \in Owners : TRUE,
    dead <- {p \in Process : pc[p] # "off"} \ alive

KeepsLease ==
  /\ Lease!Init
  /\ [][Lease!Next \/ raced']_(Lease!leaseVars)

==============================================================================
