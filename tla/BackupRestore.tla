---------------------------- MODULE BackupRestore ----------------------------
(***************************************************************************)
(* Restoring a backup over the live storage of a profile, opening the      *)
(* application and quarantining its storage: BackupRestoreService and      *)
(* ApplicationPersistence.  Whoever works has the profile lease            *)
(* (ProfileLease).  An action is one file-system call; each may fail, the  *)
(* process may die between any two, and the power may be lost: what was    *)
(* not synchronized by then is on the disk or is not.                      *)
(*                                                                         *)
(* A storage root is a directory and everything in it; it is renamed as a  *)
(* whole.  The root that process p makes, by a restore or for a new        *)
(* profile, is called p; First is the one there is at the beginning.  The  *)
(* operation id of a restore is its root.  The files of a staged root are  *)
(* synchronized one by one while it is staged (copyVerifiedPrivateFile,    *)
(* syncDirectoryTree), so its contents are taken to be durable.            *)
(***************************************************************************)
EXTENDS Naturals

CONSTANTS
  Process,     \* the application starts and recovery calls
  None, First,
  MaxFailures  \* bound on file-system calls that fail

ASSUME RestoreAssumption ==
  /\ None \notin Process /\ First \notin Process /\ First # None
  /\ MaxFailures \in Nat

VARIABLES
  owner, dead,  \* the profile lease
  dir,          \* the roots in the profile directory, by name
  dirDisk,      \* the directories a loss of power may leave
  fresh,        \* the root of a new profile, until its name is synchronized
  body,         \* the contents of each root
  marker,       \* the roots that hold a restore intent
  markerDisk,   \* and, for each root, whether it may after a loss of power
  replaces,     \* the intent's previousStorageDirectory is not null
  pc,           \* where the owner of the lease is
  op,           \* the restore it works on
  failures,
  told,         \* the last outcome a restore reported, while it stands
  served,       \* (history) the roots the application worked on
  lost,         \* (history) of these, those a loss of power took while fresh
  spoiled       \* (history) recovery evidence was destroyed or left behind

lease == <<owner, dead>>
contents == <<body, marker, markerDisk, replaces>>
history == <<told, served, lost, spoiled>>
vars == <<lease, dir, dirDisk, fresh, contents, pc, op, failures, history>>

Lease == INSTANCE ProfileLease

Root == Process \cup {First}

Directory ==
  [live : Root \cup {None}, staging : SUBSET Process,
   previous : [Process -> Root \cup {None}], quarantined : SUBSET Root]

\* whole: as the backup; used: the application wrote to it; hurt: whole until
\* its removal began.
Bodies == {"none", "part", "whole", "used", "hurt"}

Labels ==
  {"idle", "begin", "serving", "over", "stage", "intent", "syncStaging",
   "syncParent", "verify", "activate", "aside", "syncAside", "swap",
   "syncSwap", "check", "clear", "syncClear", "rollback", "syncBack", "remove", "removing",
   "syncRemoval", "syncQuarantine"}

NothingTold == [kind |-> "nothing", live |-> None]

Init ==
  /\ Lease!Init
  /\ \E root \in {First, None} :
       dir = [live |-> root, staging |-> {},
              previous |-> [p \in Process |-> None], quarantined |-> {}]
  /\ dirDisk = {dir}
  /\ fresh = {}
  /\ body = [r \in Root |-> IF r = dir.live THEN "used" ELSE "none"]
  /\ marker = {}
  /\ markerDisk = [r \in Root |-> {FALSE}]
  /\ replaces = [p \in Process |-> FALSE]
  /\ pc = "idle"
  /\ op = None
  /\ failures = 0
  /\ told = NothingTold
  /\ served = {dir.live} \ {None}
  /\ lost = {}
  /\ spoiled = FALSE

-----------------------------------------------------------------------------
(* The profile directory and its durability.                               *)

\* A change of the directory: durable at the next synchronization.
Change(d) ==
  /\ dir' = d
  /\ dirDisk' = dirDisk \cup {d}
  /\ UNCHANGED fresh

SyncParent ==
  /\ dirDisk' = {dir} /\ fresh' = {}
  /\ UNCHANGED dir

KeepDirectory == UNCHANGED <<dir, dirDisk, fresh>>

\* The roots that have a name.
RootsOf(d) ==
  ({d.live} \cup {d.previous[p] : p \in Process} \cup d.quarantined) \ {None}

\* Whether the intent of r is in m, as the one value there is.
Found(r, m) == IF r \in m THEN {TRUE} ELSE {FALSE}

\* Staging directories are not looked at: a mutant of Located.
Located_LiveOnly == {r \in marker : r = dir.live}

\* locateRestoreIntent: the restores whose intent is found, in the live root or
\* in a staging directory.
Located == {r \in marker : r = dir.live \/ r \in dir.staging}

\* The call that ends with this label fails.
Fails(label) ==
  /\ failures < MaxFailures
  /\ failures' = failures + 1
  /\ pc' = label
  /\ KeepDirectory
  /\ UNCHANGED <<lease, contents, op>>

Report(kind, live) == told' = [kind |-> kind, live |-> live]

-----------------------------------------------------------------------------
(* The lease: taking and releasing it synchronizes the profile directory.  *)

Begin(p) ==
  /\ Lease!Acquire(p)
  /\ SyncParent
  /\ pc' = "begin" /\ op' = None
  /\ UNCHANGED <<contents, failures, history>>

\* A call that is over, or is refused: a blocked start, an intent that names
\* another backup, several intents, an invalid backup.
Leave(p) ==
  /\ pc \in {"begin", "serving", "over"}
  /\ Lease!GiveUp(p)
  /\ SyncParent
  /\ pc' = "idle" /\ op' = None
  /\ UNCHANGED <<contents, failures, history>>

Crash(p) ==
  /\ owner = p
  /\ Lease!Die(p)
  /\ pc' = "idle" /\ op' = None
  /\ KeepDirectory
  /\ UNCHANGED <<contents, failures, history>>

\* Whoever works dies, and the disk has what was synchronized and any of the
\* rest.
PowerLoss ==
  /\ IF owner = None THEN UNCHANGED lease ELSE Lease!Die(owner)
  /\ dir' \in dirDisk
  /\ dirDisk' = {dir'}
  /\ lost' = lost \cup (fresh \ RootsOf(dir'))
  /\ fresh' = {}
  /\ marker' \in {m \in SUBSET Root : \A r \in Root : (r \in m) \in markerDisk[r]}
  /\ markerDisk' = [r \in Root |-> Found(r, marker')]
  /\ body' \in {[r \in Root |-> IF r \in back THEN "whole" ELSE body[r]] :
                  back \in SUBSET {r \in Root : body[r] = "hurt"}}
  /\ pc' = "idle" /\ op' = None
  /\ UNCHANGED <<replaces, failures, told, served, spoiled>>

-----------------------------------------------------------------------------
(* ApplicationPersistence.open.                                            *)

\* assertNoInterruptedRestore.
MayOpen ==
  /\ Located = {}
  /\ dir.live = None =>
       dir.staging = {} /\ \A q \in Process : dir.previous[q] = None

\* A root whose intent was removed, but may be there after a loss of power.
Lingering == \E r \in Root \ marker : TRUE \in markerDisk[r]

Serve ==
  /\ pc = "begin" /\ MayOpen /\ dir.live # None
  /\ pc' = "serving"
  /\ body' = [body EXCEPT ![dir.live] = "used"]
  /\ served' = served \cup {dir.live}
  /\ spoiled' = (spoiled \/ Lingering)
  /\ KeepDirectory
  /\ UNCHANGED <<lease, marker, markerDisk, replaces, op, failures, told, lost>>

\* A new profile.  Nothing synchronizes the profile directory after storage is
\* made in it, until the lease is released.
ServeNew ==
  /\ pc = "begin" /\ MayOpen /\ dir.live = None
  /\ body[owner] = "none"
  /\ pc' = "serving"
  /\ dir' = [dir EXCEPT !.live = owner]
  /\ dirDisk' = dirDisk \cup {dir'}
  /\ fresh' = {owner}
  /\ body' = [body EXCEPT ![owner] = "used"]
  /\ served' = served \cup {owner}
  /\ told' = NothingTold
  /\ UNCHANGED <<lease, marker, markerDisk, replaces, op, failures, lost, spoiled>>

\* quarantineLiveStorage.
Quarantine ==
  /\ pc = "begin" /\ Located = {} /\ dir.live # None
  /\ Change([dir EXCEPT !.live = None, !.quarantined = @ \cup {dir.live}])
  /\ pc' = "syncQuarantine"
  /\ told' = NothingTold
  /\ UNCHANGED <<lease, contents, op, failures, served, lost, spoiled>>

SyncQuarantine ==
  /\ pc = "syncQuarantine"
  /\ \/ /\ SyncParent
        /\ pc' = "over"
        /\ UNCHANGED <<lease, contents, op, failures>>
     \/ Fails("over")
  /\ UNCHANGED history

-----------------------------------------------------------------------------
(* restoreBackup: a new restore, up to its durable intent.                 *)

NewRestore ==
  /\ pc = "begin" /\ Located = {}
  /\ body[owner] = "none"
  /\ op' = owner
  /\ Change([dir EXCEPT !.staging = @ \cup {owner}])
  /\ body' = [body EXCEPT ![owner] = "part"]
  /\ pc' = "stage"
  /\ spoiled' = (spoiled \/ Lingering)
  /\ UNCHANGED <<lease, marker, markerDisk, replaces, failures, told, served, lost>>

\* The intent names the live root and not whether there is one: a mutant of
\* Stage.
Stage_NamesLive ==
  /\ pc = "stage"
  /\ body' = [body EXCEPT ![op] = "whole"]
  /\ replaces' = [replaces EXCEPT ![op] = dir.live]
  /\ pc' = "intent"
  /\ KeepDirectory
  /\ UNCHANGED <<lease, marker, markerDisk, op, failures, history>>

Stage ==
  /\ pc = "stage"
  /\ \/ /\ body' = [body EXCEPT ![op] = "whole"]
        /\ replaces' = [replaces EXCEPT ![op] = dir.live # None]
        /\ pc' = "intent"
        /\ KeepDirectory
        /\ UNCHANGED <<lease, marker, markerDisk, op, failures>>
     \/ Fails("remove")
  /\ UNCHANGED history

\* writePrivateFileAtomically: the rename, which is durable ...
WriteIntent ==
  /\ pc = "intent"
  /\ \/ /\ marker' = marker \cup {op}
        /\ markerDisk' = [markerDisk EXCEPT ![op] = BOOLEAN]
        /\ pc' = "syncStaging"
        /\ KeepDirectory
        /\ UNCHANGED <<lease, body, replaces, op, failures>>
     \/ Fails("remove")
  /\ UNCHANGED history

\* ... when the staging directory is synchronized.
SyncStaging ==
  /\ pc = "syncStaging"
  /\ \/ /\ markerDisk' = [markerDisk EXCEPT ![op] = {TRUE}]
        /\ pc' = "syncParent"
        /\ KeepDirectory
        /\ UNCHANGED <<lease, body, marker, replaces, op, failures>>
     \/ Fails("remove")
  /\ UNCHANGED history

SyncBefore ==
  /\ pc = "syncParent"
  /\ \/ /\ SyncParent
        /\ pc' = "activate"
        /\ UNCHANGED <<lease, contents, op, failures>>
     \/ Fails("remove")
  /\ UNCHANGED history

-----------------------------------------------------------------------------
(* completeRestore, of a new restore or of an interrupted one.             *)

Resume ==
  /\ pc = "begin"
  /\ \E r \in Root : Located = {r} /\ op' = r
  /\ pc' = "verify"
  /\ KeepDirectory
  /\ UNCHANGED <<lease, contents, failures, history>>

\* The prepared root is not verified again: a mutant of VerifyPrepared.
VerifyPrepared_Skipped ==
  /\ pc = "verify"
  /\ pc' = "activate"
  /\ KeepDirectory
  /\ UNCHANGED <<lease, contents, op, failures, history>>

VerifyPrepared ==
  /\ pc = "verify"
  /\ pc' = IF body[op] = "whole" THEN "activate" ELSE "over"
  /\ KeepDirectory
  /\ UNCHANGED <<lease, contents, op, failures, history>>

LiveExists == dir.live # None
PreviousExists == dir.previous[op] # None

\* What there is decides the next step.
Activate ==
  /\ pc = "activate"
  /\ pc' = CASE dir.live = op -> "syncSwap"
             [] dir.live # op /\ ~replaces[op] ->
                  IF LiveExists THEN "rollback" ELSE "swap"
             [] dir.live # op /\ replaces[op] ->
                  IF LiveExists = PreviousExists THEN "rollback"
                  ELSE IF LiveExists THEN "aside" ELSE "swap"
  /\ KeepDirectory
  /\ UNCHANGED <<lease, contents, op, failures, history>>

\* The live root is removed to make place: a mutant of SetAside.
SetAside_Removes ==
  /\ pc = "aside"
  /\ Change([dir EXCEPT !.live = None])
  /\ pc' = "syncAside"
  /\ told' = NothingTold
  /\ UNCHANGED <<lease, contents, op, failures, served, lost, spoiled>>

SetAside ==
  /\ pc = "aside"
  /\ \/ /\ Change([dir EXCEPT !.live = None, !.previous[op] = dir.live])
        /\ pc' = "syncAside"
        /\ told' = NothingTold
        /\ UNCHANGED <<lease, contents, op, failures>>
     \/ Fails("rollback") /\ UNCHANGED told
  /\ UNCHANGED <<served, lost, spoiled>>

SyncAside ==
  /\ pc = "syncAside"
  /\ \/ /\ SyncParent
        /\ pc' = "swap"
        /\ UNCHANGED <<lease, contents, op, failures>>
     \/ Fails("rollback")
  /\ UNCHANGED history

\* The activation is not synchronized: a mutant of Swap.
Swap_NoSync ==
  /\ pc = "swap"
  /\ Change([dir EXCEPT !.staging = @ \ {op}, !.live = op])
  /\ pc' = "check"
  /\ told' = NothingTold
  /\ UNCHANGED <<lease, contents, op, failures, served, lost, spoiled>>

Swap ==
  /\ pc = "swap"
  /\ \/ /\ Change([dir EXCEPT !.staging = @ \ {op}, !.live = op])
        /\ pc' = "syncSwap"
        /\ told' = NothingTold
        /\ UNCHANGED <<lease, contents, op, failures>>
     \/ Fails("rollback") /\ UNCHANGED told
  /\ UNCHANGED <<served, lost, spoiled>>

\* A failure is ambiguous: the root is live.  (rollbackFailedActivation finds
\* that out for itself.)
SyncSwap ==
  /\ pc = "syncSwap"
  /\ \/ /\ SyncParent
        /\ pc' = "check"
        /\ UNCHANGED <<lease, contents, op, failures>>
     \/ Fails("over")
  /\ UNCHANGED history

CheckPrevious ==
  /\ pc = "check"
  /\ pc' = IF replaces[op] /\ ~PreviousExists THEN "over" ELSE "clear"
  /\ KeepDirectory
  /\ UNCHANGED <<lease, contents, op, failures, history>>

\* clearRestoreIntent.
ClearIntent ==
  /\ pc = "clear"
  /\ \/ /\ marker' = marker \ {op}
        /\ markerDisk' = [markerDisk EXCEPT ![op] = BOOLEAN]
        /\ pc' = "syncClear"
        /\ KeepDirectory
        /\ UNCHANGED <<lease, body, replaces, op, failures>>
     \/ Fails("over")
  /\ UNCHANGED history

SyncClear ==
  /\ pc = "syncClear"
  /\ \/ /\ markerDisk' = [markerDisk EXCEPT ![op] = {FALSE}]
        /\ pc' = "over"
        /\ Report("restored", op)
        /\ KeepDirectory
        /\ UNCHANGED <<lease, body, marker, replaces, op, failures>>
     \/ Fails("over") /\ UNCHANGED told
  /\ UNCHANGED <<served, lost, spoiled>>

-----------------------------------------------------------------------------
(* rollbackFailedActivation.                                               *)

\* The live root was set aside, and the staged one did not take its place.
SetAsideOnly ==
  replaces[op] /\ op \in dir.staging /\ ~LiveExists /\ PreviousExists

PutBack ==
  /\ pc = "rollback" /\ SetAsideOnly
  /\ \/ /\ Change([dir EXCEPT !.live = dir.previous[op], !.previous[op] = None])
        /\ pc' = "syncBack"
        /\ UNCHANGED <<lease, contents, op, failures>>
     \/ Fails("over")
  /\ UNCHANGED history

\* Nothing was moved, and the staged root is given up, or it is unclear what
\* happened, and everything is left as it is.
NothingToPutBack ==
  /\ pc = "rollback" /\ ~SetAsideOnly
  /\ pc' = IF replaces[op] /\ op \in dir.staging /\ LiveExists /\ ~PreviousExists
             THEN "remove" ELSE "over"
  /\ KeepDirectory
  /\ UNCHANGED <<lease, contents, op, failures, history>>

SyncBack ==
  /\ pc = "syncBack"
  /\ \/ /\ SyncParent
        /\ pc' = "remove"
        /\ UNCHANGED <<lease, contents, op, failures>>
     \/ Fails("over")
  /\ UNCHANGED history

\* removeGeneratedDirectory removes a directory file by file: the intent is
\* among the first of them or is not.
RemoveSome ==
  /\ pc = "remove"
  /\ \E kept \in SUBSET {op} :
       /\ marker' = marker \ ({op} \ kept)
       /\ markerDisk' = [markerDisk EXCEPT ![op] = @ \cup Found(op, marker')]
  /\ body' = [body EXCEPT ![op] = IF @ = "whole" THEN "hurt" ELSE @]
  /\ spoiled' = (spoiled \/ op \in marker)
  /\ pc' = "removing"
  /\ KeepDirectory
  /\ UNCHANGED <<lease, replaces, op, failures, told, served, lost>>

RemoveRest ==
  /\ pc = "removing"
  /\ \/ /\ Change([dir EXCEPT !.staging = @ \ {op}])
        /\ marker' = marker \ {op}
        /\ pc' = "syncRemoval"
        /\ UNCHANGED <<lease, body, markerDisk, replaces, op, failures>>
     \/ Fails("over")
  /\ UNCHANGED history

\* The failure is reported as what it was: nothing has changed.
SyncRemoval ==
  /\ pc = "syncRemoval"
  /\ \/ /\ SyncParent
        /\ pc' = "over"
        /\ Report("failed", dir.live)
        /\ UNCHANGED <<lease, contents, op, failures>>
     \/ Fails("over") /\ UNCHANGED told
  /\ UNCHANGED <<served, lost, spoiled>>

-----------------------------------------------------------------------------
RestoreStep ==
  \/ NewRestore \/ Stage \/ WriteIntent \/ SyncStaging \/ SyncBefore
  \/ Resume \/ VerifyPrepared
  \/ Activate \/ SetAside \/ SyncAside \/ Swap \/ SyncSwap \/ CheckPrevious
  \/ ClearIntent \/ SyncClear
  \/ PutBack \/ NothingToPutBack \/ SyncBack \/ RemoveSome \/ RemoveRest \/ SyncRemoval

Next ==
  \/ \E p \in Process : Begin(p) \/ Leave(p) \/ Crash(p)
  \/ PowerLoss
  \/ Serve \/ ServeNew \/ Quarantine \/ SyncQuarantine
  \/ RestoreStep

Spec == Init /\ [][Next]_vars

-----------------------------------------------------------------------------
(* Properties.                                                             *)

TypeOK ==
  /\ owner \in Process \cup {None} /\ dead \subseteq Process
  /\ dir \in Directory /\ dirDisk \subseteq Directory
  /\ body \in [Root -> Bodies]
  /\ marker \subseteq Root
  /\ markerDisk \in [Root -> SUBSET BOOLEAN]
  /\ replaces \in [Process -> BOOLEAN]
  /\ pc \in Labels
  /\ op \in Process \cup {None}
  /\ failures \in 0..MaxFailures
  /\ told \in [kind : {"nothing", "restored", "failed"}, live : Root \cup {None}]
  /\ served \subseteq Root /\ fresh \subseteq Process /\ lost \subseteq Process
  /\ spoiled \in BOOLEAN

\* Every root the application worked on is kept, as the live root, set aside
\* by a restore or in quarantine, whatever failed, died or lost power.  One
\* thing is not kept, and only by a loss of power: the root of a new profile in
\* the session that made it, whose name the code does not synchronize before
\* the lease is released or taken again.  A root that such a loss took is in
\* lost; no failure, death or later loss takes one.
NothingIsLost ==
  /\ served \ lost \subseteq RootsOf(dir)
  /\ \A d \in dirDisk : served \ (lost \cup fresh) \subseteq RootsOf(d)

\* The application opens complete roots only, never a half-restored one.
OpensWholeRoots ==
  [][pc = "begin" /\ pc' = "serving" /\ dir.live # None =>
       body[dir.live] \in {"whole", "used"}]_vars

\* A restore that reported success is the live root and stays it through a loss
\* of power, and its intent does not come back; one that reported a failure
\* left the root there was.
OutcomeIsDurable ==
  /\ told.kind # "nothing" => \A d \in dirDisk : d.live = told.live
  /\ told.kind = "restored" => markerDisk[told.live] = {FALSE}

\* Whatever interrupted a restore, it can be resumed: one intent is found, its
\* root is whole and the names around it say how far the restore came, after a
\* loss of power as well.  The exceptions are spoiled: the intent was found
\* while its root was being removed, or was still on the disk when the root it
\* was removed from came into use again.
CanResume(d, markers) ==
  LET found == {r \in markers : r = d.live \/ r \in d.staging}
      free(r) == d.previous[r] = None
  IN \A r \in found :
       /\ found = {r}
       /\ body[r] = "whole"
       /\ IF d.live = r THEN replaces[r] => ~free(r)
          ELSE IF replaces[r] THEN (d.live = None) = ~free(r)
          ELSE d.live = None

Resumable ==
  ~spoiled =>
    \A d \in dirDisk :
      \A m \in {m \in SUBSET Root : \A r \in Root : (r \in m) \in markerDisk[r]} :
        CanResume(d, m)

===============================================================================
