---------------------- MODULE StoreOwnershipLeaseProofs ----------------------
(***************************************************************************)
(* Proofs about StoreOwnershipLease, for any processes and any number of   *)
(* attempts.  Until a reclamation unlinks a lease it had not verified, a   *)
(* live process that linked its owner file has its name at leasePath; the  *)
(* processes a reclamation works on are dead and stay dead.  From this     *)
(* follow the one owner, that a stale lease keeps an anchor, that the      *)
(* files implement ProfileLease, and that a start alone gets the lease.    *)
(***************************************************************************)
EXTENDS StoreOwnershipLease, TLAPS

-----------------------------------------------------------------------------
(* The inductive invariant.                                                *)

\* Where a process's own lease is linked, where its owner file is there, and
\* where it works on the lease of another.
Holding == {"assert", "scan", "clean", "owner", "release", "unlinkOwn"}
Anchored == Holding \cup {"write", "link", "discard"}
Claiming == {"claim", "verify", "unlinkLease", "unlinkClaim", "restore"}
Reclaiming == Claiming \cup {"find"}

\* Only processes that started are alive, hold the lease or are reclaimed, and
\* one that got the lease does not try again.
Started ==
  /\ \A p \in alive : pc[p] # "off"
  /\ canonical # None => pc[canonical] # "off"
  /\ \A p \in Process : pc[p] \in Reclaiming \cup {"read"} =>
       expected[p] \in Process /\ pc[expected[p]] # "off"
  /\ \A p \in opened : pc[p] \in {"owner", "done"} \cup Releasing

ReclaimsTheDead ==
  /\ \A p \in Process : pc[p] \in Reclaiming => expected[p] \notin alive
  /\ \A p \in Process : pc[p] \in Claiming => found[p] # None
  /\ \A p \in Process : pc[p] = "unlinkClaim" => canonical # expected[p]

\* Nobody but its owner touches the owner file of a live process.
OwnFile ==
  /\ \A p \in alive : pc[p] \in Anchored => anchor[p] = p
  /\ \A p \in Process : \A e \in orphans[p] : e[1] # p

HoldersNamed ==
  ~raced => \A p \in alive : pc[p] \in Holding <=> canonical = p

LeaseAnchored == ~raced /\ canonical # None => anchor[canonical] # None

IInv ==
  /\ TypeOK
  /\ Started
  /\ ReclaimsTheDead
  /\ OwnFile
  /\ HoldersNamed
  /\ LeaseAnchored

-----------------------------------------------------------------------------
LEMMA InitIInv == Init => IInv
  <1> SUFFICES ASSUME Init PROVE IInv
    OBVIOUS
  <1> USE LeaseAssumption DEF Init
  <1>1. TypeOK
    <2>1. attempt \in [Process -> 0..Attempts]
      OBVIOUS
    <2>2. orphans \in [Process -> SUBSET (Process \X Process)]
      OBVIOUS
    <2> QED
      BY <2>1, <2>2 DEF TypeOK, Labels
  <1>2. Started /\ ReclaimsTheDead /\ OwnFile
    BY DEF Started, ReclaimsTheDead, OwnFile, Reclaiming, Claiming, Releasing
  <1>3. HoldersNamed /\ LeaseAnchored
    BY DEF HoldersNamed, LeaseAnchored
  <1> QED
    BY <1>1, <1>2, <1>3 DEF IInv

\* The steps of acquireStoreOwnershipLease.
LEMMA AcquireIInv ==
  ASSUME IInv, NEW p \in Process, AcquireStep(p)
  PROVE  IInv'
  <1> USE LeaseAssumption DEF IInv, TypeOK, Labels, Acquiring, Releasing, files,
          locals, history, At, Goto, Holding, Anchored, Claiming, Reclaiming
  <1>1. CASE CreateOwnerFile(p)
    BY <1>1 DEF CreateOwnerFile, Started, ReclaimsTheDead, OwnFile, HoldersNamed,
       LeaseAnchored
  <1>2. CASE WriteOwnerFile(p)
    BY <1>2 DEF WriteOwnerFile, Started, ReclaimsTheDead, OwnFile, HoldersNamed,
       LeaseAnchored
  <1>3. CASE Link(p)
    BY <1>3 DEF Link, Started, ReclaimsTheDead, OwnFile, HoldersNamed, LeaseAnchored
  <1>4. CASE DiscardOwnerFile(p)
    BY <1>4 DEF DiscardOwnerFile, Started, ReclaimsTheDead, OwnFile, HoldersNamed,
       LeaseAnchored
  <1>5. CASE Look(p)
    BY <1>5 DEF Look, Again, Started, ReclaimsTheDead, OwnFile, HoldersNamed,
       LeaseAnchored
  <1>6. CASE Read(p)
    BY <1>6 DEF Read, Started, ReclaimsTheDead, OwnFile, HoldersNamed, LeaseAnchored
  <1>7. CASE AssertLease(p)
    BY <1>7 DEF AssertLease, HoldsLease, Started, ReclaimsTheDead, OwnFile,
       HoldersNamed, LeaseAnchored
  <1>8. CASE Scan(p)
    BY <1>8 DEF Scan, Started, ReclaimsTheDead, OwnFile, HoldersNamed, LeaseAnchored
  <1>9. CASE Clean(p)
    BY <1>9 DEF Clean, Started, ReclaimsTheDead, OwnFile, HoldersNamed, LeaseAnchored
  <1>10. CASE Open(p)
    BY <1>10 DEF Open, Started, ReclaimsTheDead, OwnFile, HoldersNamed, LeaseAnchored
  <1> QED
    BY <1>1, <1>2, <1>3, <1>4, <1>5, <1>6, <1>7, <1>8, <1>9, <1>10 DEF AcquireStep

\* The steps of reclaimStoreOwnershipLease.
LEMMA ReclaimIInv ==
  ASSUME IInv, NEW p \in Process, ReclaimStep(p)
  PROVE  IInv'
  <1> USE LeaseAssumption DEF IInv, TypeOK, Labels, Acquiring, Releasing, files,
          locals, history, At, Goto, Again, Holding, Anchored, Claiming, Reclaiming
  <1>1. CASE Find(p)
    BY <1>1 DEF Find, Started, ReclaimsTheDead, OwnFile, HoldersNamed, LeaseAnchored
  <1>2. CASE Claim(p)
    BY <1>2 DEF Claim, Started, ReclaimsTheDead, OwnFile, HoldersNamed, LeaseAnchored
  <1>3. CASE Verify(p)
    BY <1>3 DEF Verify, Started, ReclaimsTheDead, OwnFile, HoldersNamed, LeaseAnchored
  <1>4. CASE UnlinkLease(p)
    <2>1. TypeOK' /\ Started' /\ ReclaimsTheDead' /\ OwnFile'
      BY <1>4 DEF UnlinkLease, Started, ReclaimsTheDead, OwnFile
    <2>2. HoldersNamed'
      <3>1. expected[p] \notin alive
        BY <1>4 DEF UnlinkLease, ReclaimsTheDead
      <3>2. ~raced' => ~raced /\ canonical \in {None, expected[p]}
        BY <1>4 DEF UnlinkLease
      <3>3. ASSUME ~raced', NEW q \in alive' PROVE ~(pc'[q] \in Holding)
        <4>1. q \in alive /\ q \in Process /\ canonical # q
          BY <1>4, <3>1, <3>2, <3>3 DEF UnlinkLease
        <4>2. pc[q] \notin Holding
          BY <3>2, <3>3, <4>1 DEF HoldersNamed
        <4> QED
          BY <1>4, <4>1, <4>2 DEF UnlinkLease
      <3> QED
        BY <1>4, <3>3 DEF UnlinkLease, HoldersNamed
    <2>3. LeaseAnchored'
      BY <1>4 DEF UnlinkLease, LeaseAnchored
    <2> QED
      BY <2>1, <2>2, <2>3
  <1>5. CASE UnlinkClaim(p)
    BY <1>5 DEF UnlinkClaim, Started, ReclaimsTheDead, OwnFile, HoldersNamed,
       LeaseAnchored
  <1>6. CASE Restore(p)
    BY <1>6 DEF Restore, Started, ReclaimsTheDead, OwnFile, HoldersNamed, LeaseAnchored
  <1> QED
    BY <1>1, <1>2, <1>3, <1>4, <1>5, <1>6 DEF ReclaimStep

\* The steps of releaseStoreOwnershipLease.
LEMMA ReleaseIInv ==
  ASSUME IInv, NEW p \in Process, ReleaseStep(p)
  PROVE  IInv'
  <1> USE LeaseAssumption DEF IInv, TypeOK, Labels, Acquiring, Releasing, files,
          locals, history, At, Goto, Holding, Anchored, Claiming, Reclaiming
  <1>1. CASE Close(p)
    BY <1>1 DEF Close, Started, ReclaimsTheDead, OwnFile, HoldersNamed, LeaseAnchored
  <1>2. CASE Release(p)
    BY <1>2 DEF Release, HoldsLease, Started, ReclaimsTheDead, OwnFile, HoldersNamed,
       LeaseAnchored
  <1>3. CASE UnlinkOwnLease(p)
    BY <1>3 DEF UnlinkOwnLease, Started, ReclaimsTheDead, OwnFile, HoldersNamed,
       LeaseAnchored
  <1>4. CASE UnlinkOwnerFile(p)
    BY <1>4 DEF UnlinkOwnerFile, Started, ReclaimsTheDead, OwnFile, HoldersNamed,
       LeaseAnchored
  <1> QED
    BY <1>1, <1>2, <1>3, <1>4 DEF ReleaseStep

LEMMA NextIInv == IInv /\ [Next]_vars => IInv'
  <1> SUFFICES ASSUME IInv, [Next]_vars PROVE IInv'
    OBVIOUS
  <1> USE LeaseAssumption DEF files, locals, history, Goto, Holding, Anchored,
          Claiming, Reclaiming, Started, ReclaimsTheDead, OwnFile, HoldersNamed,
          LeaseAnchored
  <1>1. ASSUME NEW p \in Process, Start(p) PROVE IInv'
    BY <1>1 DEF Start, IInv, TypeOK, Labels, Acquiring, Releasing, Working
  <1>2. ASSUME NEW p \in Process, Die(p) PROVE IInv'
    BY <1>2 DEF Die, IInv, TypeOK, Labels
  <1>3. CASE UNCHANGED vars
    BY <1>3 DEF vars, IInv, TypeOK
  <1> QED
    BY <1>1, <1>2, <1>3, AcquireIInv, ReclaimIInv, ReleaseIInv DEF Next

LEMMA Invariant == Spec => []IInv
  BY InitIInv, NextIInv, PTL DEF Spec

-----------------------------------------------------------------------------
(* What follows from it.                                                   *)

\* Type correctness: TypeOK of the run, for any processes and attempts.
THEOREM TypeCorrect == Spec => []TypeOK
  <1>1. IInv => TypeOK
    BY DEF IInv
  <1> QED
    BY <1>1, Invariant, PTL

LEMMA OwnersHold == IInv => OwnsUntilRaced
  BY DEF IInv, TypeOK, HoldersNamed, OwnsUntilRaced, AtMostOneOwner, Owners, Holding

\* One live process at most owns the profile, and the lease file is its own,
\* until a reclamation unlinks a lease it had not verified.
THEOREM OneOwnerTheorem == Spec => []OwnsUntilRaced
  BY OwnersHold, Invariant, PTL

\* The lease of a dead process keeps the anchor a reclamation needs.
THEOREM StaleTheorem == Spec => []StaleIsReclaimable
  <1>1. IInv => StaleIsReclaimable
    BY DEF IInv, LeaseAnchored, StaleIsReclaimable
  <1> QED
    BY <1>1, Invariant, PTL

-----------------------------------------------------------------------------
(* The files implement the lease.                                          *)

LeaseOwner == IF Owners = {} THEN None ELSE CHOOSE p \in Owners : TRUE
LeaseDead == {p \in Process : pc[p] # "off"} \ alive

\* Until then there is no owner or one, and it is alive.
LEMMA OwnerIs ==
  ASSUME IInv, ~raced
  PROVE  /\ Owners \subseteq Process \cap alive
         /\ \A p \in Owners : Owners = {p} /\ LeaseOwner = p /\ canonical = p
         /\ Owners = {} => LeaseOwner = None
  <1>1. Owners \subseteq Process \cap alive
    BY DEF Owners, IInv, TypeOK
  <1>2. \A p \in Owners : Owners = {p} /\ canonical = p
    BY OwnersHold DEF OwnsUntilRaced, AtMostOneOwner
  <1>3. \A p \in Owners : LeaseOwner = p
    BY <1>2 DEF LeaseOwner
  <1> QED
    BY <1>1, <1>2, <1>3 DEF LeaseOwner

\* A step that opens or gives up no profile and ends no process.
LEMMA LeaseStutters ==
  ASSUME Owners' = Owners, LeaseDead' = LeaseDead
  PROVE  UNCHANGED Lease!leaseVars
  <1>1. LeaseOwner' = LeaseOwner
    BY DEF LeaseOwner
  <1> QED
    BY <1>1 DEF Lease!leaseVars, LeaseOwner, LeaseDead

LEMMA LeaseStep ==
  ASSUME IInv, IInv', ~raced', [Next]_vars
  PROVE  [Lease!Next]_(Lease!leaseVars)
  <1> USE LeaseAssumption DEF files, locals, history, At, Goto
  <1>1. ~raced
    BY DEF Next, vars, Start, Die, AcquireStep, ReclaimStep, ReleaseStep,
           CreateOwnerFile, WriteOwnerFile, Link, DiscardOwnerFile, Look, Read,
           AssertLease, Scan, Clean, Open, Find, Claim, Verify, UnlinkLease,
           UnlinkClaim, Restore, Close, Release, UnlinkOwnLease, UnlinkOwnerFile
  <1>2. ASSUME NEW p \in Process, Open(p) PROVE [Lease!Next]_(Lease!leaseVars)
    <2>1. Owners' = Owners \cup {p} /\ LeaseDead' = LeaseDead /\ p \in alive
      BY <1>2 DEF Open, Owners, LeaseDead, IInv, TypeOK
    <2>2. p \notin Owners /\ canonical = p
      BY <1>1, <1>2 DEF Open, Owners, IInv, HoldersNamed, Holding
    <2>3. Owners = {}
      BY <1>1, <2>2, OwnerIs
    <2>4. LeaseOwner = None /\ LeaseOwner' = p /\ p \notin LeaseDead
      BY <2>1, <2>3 DEF LeaseOwner, LeaseDead
    <2> QED
      BY <2>1, <2>4 DEF Lease!Next, Lease!Acquire, LeaseOwner, LeaseDead
  <1>3. ASSUME NEW p \in Process, Die(p) PROVE [Lease!Next]_(Lease!leaseVars)
    <2>1. Owners' = Owners \ {p} /\ LeaseDead' = LeaseDead \cup {p} /\ p \notin LeaseDead
      BY <1>3 DEF Die, Owners, LeaseDead, IInv, TypeOK, Started
    <2>2. LeaseOwner' = IF LeaseOwner = p THEN None ELSE LeaseOwner
      <3>1. CASE Owners = {}
        BY <1>1, <2>1, <3>1, OwnerIs DEF LeaseOwner
      <3>2. CASE Owners # {}
        BY <1>1, <2>1, <3>2, OwnerIs DEF LeaseOwner
      <3> QED
        BY <3>1, <3>2
    <2> QED
      BY <2>1, <2>2 DEF Lease!Next, Lease!Die, LeaseOwner, LeaseDead
  <1>4. ASSUME NEW p \in Process, ReleaseStep(p) PROVE [Lease!Next]_(Lease!leaseVars)
    <2>1. LeaseDead' = LeaseDead
      BY <1>4 DEF ReleaseStep, Close, Release, UnlinkOwnLease, UnlinkOwnerFile,
                  LeaseDead, IInv, TypeOK
    <2>2. CASE Owners' = Owners
      BY <2>1, <2>2, LeaseStutters
    <2>3. CASE Owners' # Owners
      <3>1. p \in Owners /\ Owners' = Owners \ {p}
        BY <1>4, <2>3 DEF ReleaseStep, Close, Release, UnlinkOwnLease,
                          UnlinkOwnerFile, Owners, IInv, TypeOK
      <3>2. LeaseOwner = p /\ LeaseOwner' = None
        BY <1>1, <3>1, OwnerIs DEF LeaseOwner
      <3> QED
        BY <2>1, <3>2 DEF Lease!Next, Lease!GiveUp, LeaseOwner, LeaseDead
    <2> QED
      BY <2>2, <2>3
  <1>5. ASSUME NEW p \in Process,
               \/ Start(p) \/ ReclaimStep(p)
               \/ AcquireStep(p) /\ ~Open(p)
        PROVE  [Lease!Next]_(Lease!leaseVars)
    <2> USE DEF Owners, IInv, TypeOK, Started, Releasing
    <2>1. Owners' = Owners
      <3>1. CASE Start(p)
        BY <3>1 DEF Start
      <3>2. CASE ReclaimStep(p)
        BY <3>2 DEF ReclaimStep, Find, Claim, Verify, UnlinkLease, UnlinkClaim,
                    Restore, Again
      <3>3. CASE AcquireStep(p) /\ ~Open(p)
        BY <3>3 DEF AcquireStep, CreateOwnerFile, WriteOwnerFile, Link,
                    DiscardOwnerFile, Look, Read, AssertLease, Scan, Clean, Again
      <3> QED
        BY <1>5, <3>1, <3>2, <3>3
    <2>2. LeaseDead' = LeaseDead
      BY <1>5 DEF Start, ReclaimStep, AcquireStep, CreateOwnerFile, WriteOwnerFile,
           Link, DiscardOwnerFile, Look, Read, AssertLease, Scan, Clean, Find, Claim,
           Verify, UnlinkLease, UnlinkClaim, Restore, Again, LeaseDead, IInv, TypeOK
    <2> QED
      BY <2>1, <2>2, LeaseStutters
  <1>6. CASE UNCHANGED vars
    <2>1. Owners' = Owners /\ LeaseDead' = LeaseDead
      BY <1>6 DEF vars, Owners, LeaseDead
    <2> QED
      BY <2>1, LeaseStutters
  <1> QED
    BY <1>2, <1>3, <1>4, <1>5, <1>6 DEF Next

\* The lease files implement ProfileLease: every step gets, gives up or loses
\* the lease as the abstract lease allows it, until a reclamation unlinks one it
\* had not verified.
THEOREM ImplementsLease == Spec => KeepsLease
  <1>1. Init => Lease!Init
    BY DEF Init, Lease!Init, Owners
  <1>2. IInv /\ IInv' /\ [Next]_vars => [Lease!Next \/ raced']_(Lease!leaseVars)
    BY LeaseStep
  <1> QED
    BY <1>1, <1>2, Invariant, PTL DEF Spec, KeepsLease

-----------------------------------------------------------------------------
(* A start that nobody contends.                                           *)

\* A file that is being written is its writer's; who starts alone stays alone
\* while it lives, the others have ended their work.
Alone ==
  /\ \A q \in torn : pc[q] # "off" /\ (q \in alive => pc[q] = "write")
  /\ \A p \in alone : pc[p] # "off"
  /\ \A p \in alone \cap alive : \A q \in alive \ {p} : pc[q] = "done"

TornLeft == \E q \in torn : q \notin alive

\* The lease such a start finds is a dead process's, which it reclaims at its
\* first attempt; its second finds no lease, and its cleanup no surprise.
Unhindered(p) ==
  /\ pc[p] \in {"create", "write", "link"} => attempt[p] = 1 \/ canonical = None
  /\ pc[p] \in {"discard", "look", "read"} \cup Reclaiming => attempt[p] = 1
  /\ pc[p] \in {"discard", "look"} => canonical # None
  /\ pc[p] \in {"read", "find", "claim", "verify", "unlinkLease"} =>
       canonical = expected[p]
  /\ pc[p] = "claim" => anchor[expected[p]] = found[p]
  /\ pc[p] \in {"verify", "unlinkLease", "unlinkClaim"} => anchor[expected[p]] = p
  /\ pc[p] = "unlinkClaim" => canonical = None
  /\ pc[p] = "clean" => \A e \in orphans[p] : anchor[e[1]] = e[2]
  /\ pc[p] # "restore"
  /\ pc[p] \in {"owner", "done"} \cup Releasing => p \in opened

LoneGoesOn == ~raced /\ ~TornLeft => \A p \in alone \cap alive : Unhindered(p)

LoneInv == IInv /\ Alone /\ LoneGoesOn

\* A step of a process moves that process only.
LEMMA OneMoves ==
  ASSUME IInv, NEW p \in Process, AcquireStep(p) \/ ReclaimStep(p) \/ ReleaseStep(p)
  PROVE  /\ p \in alive /\ pc[p] \notin {"off", "done"} /\ pc'[p] # "off"
         /\ alive' = alive /\ alone' = alone /\ (raced => raced')
         /\ \A q \in Process \ {p} : pc'[q] = pc[q]
         /\ \/ torn' = torn /\ pc[p] # "write"
            \/ torn' = torn \cup {p} /\ pc'[p] = "write"
            \/ torn' = torn \ {p}
  <1> USE DEF files, locals, history, At, Goto
  <1>0. pc \in [Process -> Labels]
    BY DEF IInv, TypeOK
  <1>1. /\ p \in alive /\ pc[p] \notin {"off", "done"} /\ pc'[p] # "off"
        /\ alive' = alive /\ alone' = alone
        /\ \A q \in Process \ {p} : pc'[q] = pc[q]
    <2>1. CASE AcquireStep(p)
      BY <1>0, <2>1 DEF AcquireStep, CreateOwnerFile, WriteOwnerFile, Link,
         DiscardOwnerFile, Look, Read, AssertLease, Scan, Clean, Open, Again
    <2>2. CASE ReclaimStep(p)
      BY <1>0, <2>2 DEF ReclaimStep, Find, Claim, Verify, UnlinkLease, UnlinkClaim,
         Restore, Again
    <2>3. CASE ReleaseStep(p)
      BY <1>0, <2>3 DEF ReleaseStep, Close, Release, UnlinkOwnLease, UnlinkOwnerFile
    <2> QED
      BY <2>1, <2>2, <2>3
  <1>2. raced' = raced \/ UnlinkLease(p)
    BY DEF AcquireStep, CreateOwnerFile, WriteOwnerFile, Link, DiscardOwnerFile, Look,
       Read, AssertLease, Scan, Clean, Open, ReclaimStep, Find, Claim, Verify,
       UnlinkClaim, Restore, ReleaseStep, Close, Release, UnlinkOwnLease,
       UnlinkOwnerFile
  <1>3. raced => raced'
    BY <1>2 DEF UnlinkLease
  <1>4. \/ torn' = torn /\ pc[p] # "write"
        \/ torn' = torn \cup {p} /\ pc'[p] = "write"
        \/ torn' = torn \ {p}
    <2>1. CASE AcquireStep(p)
      BY <1>0, <2>1 DEF AcquireStep, CreateOwnerFile, WriteOwnerFile, Link,
         DiscardOwnerFile, Look, Read, AssertLease, Scan, Clean, Open
    <2>2. CASE ReclaimStep(p)
      BY <2>2 DEF ReclaimStep, Find, Claim, Verify, UnlinkLease, UnlinkClaim, Restore
    <2>3. CASE ReleaseStep(p)
      BY <2>3 DEF ReleaseStep, Close, Release, UnlinkOwnLease, UnlinkOwnerFile
    <2> QED
      BY <2>1, <2>2, <2>3
  <1> QED
    BY <1>1, <1>3, <1>4

LEMMA AloneKept ==
  ASSUME IInv, Alone, [Next]_vars
  PROVE  Alone' /\ (TornLeft => TornLeft')
  <1> USE DEF files, locals, history
  <1>0. TypeOK /\ Started
    BY DEF IInv
  <1>1. ASSUME NEW p \in Process, AcquireStep(p) \/ ReclaimStep(p) \/ ReleaseStep(p)
        PROVE  Alone' /\ (TornLeft => TornLeft')
    <2>1. \A d \in alone \cap alive : d = p
      BY <1>1, OneMoves DEF Alone
    <2>2. \A q \in torn' : pc'[q] # "off" /\ (q \in alive' => pc'[q] = "write")
      BY <1>0, <1>1, OneMoves DEF Alone, TypeOK
    <2>3. \A d \in alone' : pc'[d] # "off"
      BY <1>0, <1>1, OneMoves DEF Alone, TypeOK
    <2>4. \A d \in alone' \cap alive' : \A q \in alive' \ {d} : pc'[q] = "done"
      BY <1>0, <1>1, <2>1, OneMoves DEF Alone, TypeOK
    <2> QED
      BY <1>1, <2>2, <2>3, <2>4, OneMoves DEF Alone, TornLeft
  <1>2. ASSUME NEW p \in Process, Start(p)
        PROVE  Alone' /\ (TornLeft => TornLeft')
    <2>1. \A q \in Process \ {p} : pc'[q] = pc[q]
      BY <1>0, <1>2 DEF Start, Goto, TypeOK
    <2>2. pc'[p] = "create" /\ pc[p] = "off" /\ alive' = alive \cup {p} /\ torn' = torn
      BY <1>0, <1>2 DEF Start, Goto, TypeOK
    <2>3. Working = {} => \A q \in alive : pc[q] = "done"
      BY <1>0 DEF Working, TypeOK, Started, Labels
    <2>4. alone' = IF Working = {} THEN {p} ELSE {}
      BY <1>2 DEF Start
    <2> QED
      BY <1>0, <2>1, <2>2, <2>3, <2>4 DEF Alone, TornLeft, TypeOK
  <1>3. ASSUME NEW p \in Process, Die(p)
        PROVE  Alone' /\ (TornLeft => TornLeft')
    BY <1>3 DEF Die, Alone, TornLeft
  <1>4. CASE UNCHANGED vars
    BY <1>4 DEF vars, Alone, TornLeft
  <1> QED
    BY <1>1, <1>2, <1>3, <1>4 DEF Next

\* What a start that is alone finds: no lease of a live process, and no torn file.
LEMMA FindsTheDead ==
  ASSUME IInv, Alone, ~raced, ~TornLeft, NEW p \in alone \cap alive, NEW q \in Process
  PROVE  /\ canonical = q /\ pc[p] \notin Holding => q \notin alive
         /\ pc[p] # "write" => q \notin torn
  <1>1. canonical = q /\ q \in alive => pc[q] \in Holding
    BY DEF IInv, HoldersNamed
  <1>2. q \in alive => q = p \/ pc[q] = "done"
    BY DEF Alone
  <1>3. q \in torn => q \in alive /\ pc[q] = "write"
    BY DEF Alone, TornLeft
  <1> QED
    BY <1>1, <1>2, <1>3 DEF Holding

\* A start that is alone goes on without a hindrance, step by step.
LEMMA LoneSteps ==
  ASSUME IInv, Alone, ~raced, ~TornLeft, NEW p \in alone \cap alive, Unhindered(p),
         p \in Process, AcquireStep(p) \/ ReclaimStep(p) \/ ReleaseStep(p)
  PROVE  Unhindered(p)'
  <1> USE LeaseAssumption DEF IInv, TypeOK, Labels, Acquiring, Releasing, files, locals,
          history, At, Goto, Again, Unhindered, Reclaiming, Claiming
  <1>1. CASE CreateOwnerFile(p)
    BY <1>1 DEF CreateOwnerFile
  <1>2. CASE WriteOwnerFile(p)
    BY <1>2 DEF WriteOwnerFile
  <1>3. CASE Link(p)
    BY <1>3 DEF Link
  <1>4. CASE DiscardOwnerFile(p)
    BY <1>4 DEF DiscardOwnerFile
  <1>5. CASE Look(p)
    BY <1>5 DEF Look
  <1>6. CASE Read(p)
    <2>1. canonical \notin alive
      BY <1>6, FindsTheDead DEF Read, Holding
    <2> QED
      BY <1>6, <2>1 DEF Read
  <1>7. CASE AssertLease(p)
    <2>1. HoldsLease(p)
      BY <1>7 DEF AssertLease, HoldersNamed, OwnFile, Holding, Anchored, HoldsLease
    <2> QED
      BY <1>7, <2>1 DEF AssertLease
  <1>8. CASE Scan(p)
    BY <1>8 DEF Scan
  <1>9. CASE Clean(p)
    <2>1. PICK e \in orphans[p] :
            /\ e[1] \notin torn /\ anchor[e[1]] = e[2]
            /\ pc' = pc /\ orphans' = [orphans EXCEPT ![p] = @ \ {e}]
            /\ anchor' \in {anchor, [anchor EXCEPT ![e[1]] = None]}
      BY <1>9, FindsTheDead DEF Clean
    <2>2. \A f \in orphans[p] \ {e} : f[1] # e[1] /\ f[1] \in Process
      BY <1>9, <2>1 DEF Clean
    <2> QED
      BY <1>9, <2>1, <2>2 DEF Clean
  <1>10. CASE Open(p)
    BY <1>10 DEF Open
  <1>11. CASE Find(p)
    BY <1>11 DEF Find, LeaseAnchored, ReclaimsTheDead
  <1>12. CASE Claim(p)
    BY <1>12 DEF Claim, Started
  <1>13. CASE Verify(p)
    BY <1>13 DEF Verify
  <1>14. CASE UnlinkLease(p)
    BY <1>14 DEF UnlinkLease, Started
  <1>15. CASE UnlinkClaim(p)
    BY <1>15 DEF UnlinkClaim
  <1>16. CASE Restore(p)
    BY <1>16 DEF Restore
  <1>17. CASE ReleaseStep(p)
    BY <1>17 DEF ReleaseStep, Close, Release, UnlinkOwnLease, UnlinkOwnerFile, Started
  <1> QED
    BY <1>1, <1>2, <1>3, <1>4, <1>5, <1>6, <1>7, <1>8, <1>9, <1>10, <1>11, <1>12,
       <1>13, <1>14, <1>15, <1>16, <1>17 DEF AcquireStep, ReclaimStep

LEMMA LoneNext ==
  ASSUME LoneInv, [Next]_vars
  PROVE  LoneInv'
  <1>1. IInv /\ IInv' /\ Alone /\ Alone' /\ LoneGoesOn /\ (TornLeft => TornLeft')
    BY NextIInv, AloneKept DEF LoneInv
  <1>2. ASSUME ~raced', ~TornLeft', NEW d \in alone' \cap alive'
        PROVE  Unhindered(d)'
    <2>1. ASSUME NEW p \in Process, AcquireStep(p) \/ ReclaimStep(p) \/ ReleaseStep(p)
          PROVE  Unhindered(d)'
      <3>1. ~raced /\ ~TornLeft /\ d \in alone \cap alive /\ Unhindered(d)
        BY <1>1, <1>2, <2>1, OneMoves DEF LoneGoesOn
      <3>2. d = p
        BY <1>1, <2>1, <3>1, OneMoves DEF Alone
      <3> QED
        BY <1>1, <2>1, <3>1, <3>2, LoneSteps
    <2>2. ASSUME NEW p \in Process, Start(p)
          PROVE  Unhindered(d)'
      <3>1. d = p /\ pc'[p] = "create" /\ attempt'[p] = 1
        BY <1>1, <1>2, <2>2 DEF Start, Goto, IInv, TypeOK
      <3> QED
        BY <3>1 DEF Unhindered, Reclaiming, Claiming, Releasing
    <2>3. ASSUME NEW p \in Process, Die(p)
          PROVE  Unhindered(d)'
      BY <1>1, <1>2, <2>3 DEF Die, LoneGoesOn, Unhindered, files, locals, history
    <2>4. CASE UNCHANGED vars
      BY <1>1, <1>2, <2>4 DEF vars, LoneGoesOn, Unhindered, files, locals, history,
         TornLeft
    <2> QED
      BY <2>1, <2>2, <2>3, <2>4 DEF Next
  <1> QED
    BY <1>1, <1>2 DEF LoneInv, LoneGoesOn

\* A start that nobody contends gets the lease, unless a dead process left an owner
\* file half written: the first attempt reclaims the lease of a dead owner, the
\* second gets it, and no cleanup refuses.
THEOREM LoneStartTheorem == Spec => []LoneStartSucceeds
  <1>1. Init => LoneInv
    <2>1. Init => IInv
      BY InitIInv
    <2> QED
      BY <2>1 DEF Init, LoneInv, Alone, LoneGoesOn
  <1>2. LoneInv /\ [Next]_vars => LoneInv'
    BY LoneNext
  <1>3. LoneInv => LoneStartSucceeds
    BY DEF LoneInv, IInv, TypeOK, LoneGoesOn, TornLeft, Unhindered,
       LoneStartSucceeds, At
  <1> QED
    BY <1>1, <1>2, <1>3, PTL DEF Spec

============================================================================
