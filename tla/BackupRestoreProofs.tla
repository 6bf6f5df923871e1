------------------------- MODULE BackupRestoreProofs -------------------------
(***************************************************************************)
(* Proofs about BackupRestore, for any processes and any number of failed  *)
(* calls: no root the application worked on is lost, and only complete     *)
(* roots are opened.  A change of the profile directory keeps the roots    *)
(* that are live, set aside or in quarantine, because of what the restore  *)
(* has found before the change (PlaceIsFree); a root that is staged is     *)
(* none of them, on no disk a loss of power may leave (Apart), and becomes *)
(* one only when it is whole.  The second part proves that the outcome a   *)
(* restore reported is durable and that an interrupted one can be resumed: *)
(* each directory the disk may hold is sound (Sound), and each call of the *)
(* restore finds what the calls before it have made durable (OpInv).       *)
(***************************************************************************)
EXTENDS BackupRestore, TLAPS

-----------------------------------------------------------------------------
(* The inductive invariant.                                                *)

\* The calls of a restore, those at which the staged root is not one of the
\* profile's, those at which it is complete.
Restoring == Labels \ {"idle", "begin", "serving", "over", "syncQuarantine"}
Staged == {"stage", "intent", "syncStaging", "syncParent", "aside", "syncAside",
           "swap", "rollback", "syncBack", "remove", "removing", "syncRemoval"}
Prepared == {"intent", "syncStaging", "syncParent", "activate", "aside",
             "syncAside", "swap"}

\* Who works has the lease, restores carry an intent of their own, the disk
\* has what there is, and a name that was not synchronized is that of the live
\* root in the first session of a profile.
Working ==
  /\ pc # "idle" => owner # None
  /\ pc \in Restoring => op # None
  /\ First \notin marker /\ markerDisk[First] = {FALSE}
  /\ dir \in dirDisk
  /\ pc \in {"begin", "verify", "activate"} => dirDisk = {dir}
  /\ fresh \subseteq {dir.live}
  /\ pc \notin {"serving", "idle"} => fresh = {}

PlaceIsFree ==
  /\ pc = "serving" => dir.live # None
  /\ pc = "aside" => dir.previous[op] = None
  /\ pc \in {"syncAside", "swap"} => dir.live = None

Apart ==
  /\ \A d \in dirDisk : d.staging \cap RootsOf(d) = {}
  /\ pc \in Staged => \A d \in dirDisk : op \notin RootsOf(d)
  /\ pc \in {"verify", "activate"} => op = dir.live \/ op \notin RootsOf(dir)

Complete ==
  /\ \A d \in dirDisk : \A r \in RootsOf(d) : body[r] \in {"whole", "used"}
  /\ pc \in Prepared => body[op] = "whole"

IInv ==
  /\ TypeOK
  /\ Working
  /\ PlaceIsFree
  /\ Apart
  /\ Complete
  /\ NothingIsLost

-----------------------------------------------------------------------------
(* The roots of the profile through each change of its directory.          *)

LEMMA RootsType == \A d \in Directory : RootsOf(d) \subseteq Root
  BY DEF Directory, RootsOf, Root

LEMMA StagingRoots ==
  ASSUME NEW d \in Directory, NEW s \in SUBSET Process
  PROVE  /\ [d EXCEPT !.staging = s] \in Directory
         /\ RootsOf([d EXCEPT !.staging = s]) = RootsOf(d)
         /\ [d EXCEPT !.staging = s].staging = s
         /\ [d EXCEPT !.staging = s].live = d.live
         /\ [d EXCEPT !.staging = s].previous = d.previous
  BY DEF Directory, RootsOf

\* A root takes a place that is empty.
LEMMA LiveRoots ==
  ASSUME NEW d \in Directory, d.live = None, NEW q \in Process
  PROVE  /\ [d EXCEPT !.live = q] \in Directory
         /\ RootsOf([d EXCEPT !.live = q]) = RootsOf(d) \cup {q}
         /\ [d EXCEPT !.live = q].staging = d.staging
         /\ [d EXCEPT !.live = q].live = q
  BY RestoreAssumption DEF Directory, RootsOf, Root

LEMMA SwapRoots ==
  ASSUME NEW d \in Directory, d.live = None, NEW q \in Process
  PROVE  LET e == [d EXCEPT !.staging = @ \ {q}, !.live = q] IN
         /\ e \in Directory
         /\ RootsOf(e) = RootsOf(d) \cup {q}
         /\ e.staging = d.staging \ {q}
         /\ e.live = q
  <1> DEFINE e == [d EXCEPT !.staging = @ \ {q}, !.live = q]
  <1>1. /\ e \in Directory /\ e.staging = d.staging \ {q} /\ e.live = q
        /\ e.quarantined = d.quarantined /\ e.previous = d.previous
    BY DEF Directory, Root
  <1>2. RootsOf(e) = RootsOf(d) \cup {q}
    BY <1>1, RestoreAssumption DEF RootsOf
  <1> QED
    BY <1>1, <1>2

LEMMA AsideRoots ==
  ASSUME NEW d \in Directory, NEW q \in Process, d.previous[q] = None
  PROVE  LET e == [d EXCEPT !.live = None, !.previous[q] = d.live] IN
         /\ e \in Directory
         /\ RootsOf(e) = RootsOf(d)
         /\ e.staging = d.staging
         /\ e.live = None
  <1> DEFINE e == [d EXCEPT !.live = None, !.previous[q] = d.live]
  <1>1. /\ e \in Directory /\ e.staging = d.staging /\ e.live = None
        /\ e.quarantined = d.quarantined
        /\ e.previous = [d.previous EXCEPT ![q] = d.live]
    BY DEF Directory
  <1>2. d.previous \in [Process -> Root \cup {None}]
    BY DEF Directory
  <1> HIDE DEF e
  <1>3. {e.previous[p] : p \in Process} \ {None}
          = ({d.live} \cup {d.previous[p] : p \in Process}) \ {None}
    BY <1>1, <1>2
  <1>4. RootsOf(e) = RootsOf(d)
    BY <1>1, <1>3 DEF RootsOf
  <1> QED
    BY <1>1, <1>4 DEF e

LEMMA BackRoots ==
  ASSUME NEW d \in Directory, NEW q \in Process, d.live = None
  PROVE  LET e == [d EXCEPT !.live = d.previous[q], !.previous[q] = None] IN
         /\ e \in Directory
         /\ RootsOf(e) = RootsOf(d)
         /\ e.staging = d.staging
  <1> DEFINE e == [d EXCEPT !.live = d.previous[q], !.previous[q] = None]
  <1>1. /\ e \in Directory /\ e.staging = d.staging /\ e.live = d.previous[q]
        /\ e.quarantined = d.quarantined
        /\ e.previous = [d.previous EXCEPT ![q] = None]
    BY DEF Directory
  <1>2. d.previous \in [Process -> Root \cup {None}]
    BY DEF Directory
  <1> HIDE DEF e
  <1>3. ({e.live} \cup {e.previous[p] : p \in Process}) \ {None}
          = {d.previous[p] : p \in Process} \ {None}
    BY <1>1, <1>2
  <1>4. RootsOf(e) = RootsOf(d)
    BY <1>1, <1>3 DEF RootsOf
  <1> QED
    BY <1>1, <1>4 DEF e

LEMMA QuarantineRoots ==
  ASSUME NEW d \in Directory, d.live # None
  PROVE  LET e == [d EXCEPT !.live = None, !.quarantined = @ \cup {d.live}] IN
         /\ e \in Directory
         /\ RootsOf(e) = RootsOf(d)
         /\ e.staging = d.staging
  BY DEF Directory, RootsOf, Root

-----------------------------------------------------------------------------
(* The steps.                                                              *)

LEMMA ExceptType ==
  ASSUME NEW S, NEW T, NEW f \in [S -> T], NEW x, NEW v \in T
  PROVE  [f EXCEPT ![x] = v] \in [S -> T]
  OBVIOUS

LEMMA FoundType == \A r, m : Found(r, m) \in SUBSET BOOLEAN
  <1>1. {TRUE} \in SUBSET BOOLEAN /\ {FALSE} \in SUBSET BOOLEAN
    OBVIOUS
  <1> QED
    BY <1>1 DEF Found

\* The steps that change neither the directory nor a root.
LEMMA IntentIInv ==
  ASSUME IInv, WriteIntent \/ SyncStaging \/ Resume \/ VerifyPrepared \/
         Activate \/ CheckPrevious \/ ClearIntent \/ SyncClear \/
         NothingToPutBack
  PROVE  IInv'
  <1> USE RestoreAssumption DEF IInv, TypeOK, Root, Bodies, Labels, Staged, Prepared,
          Restoring, lease, contents, history, KeepDirectory, SyncParent, Change,
          Fails, Report, Located
  <1>1. ASSUME WriteIntent PROVE IInv'
    <2>1. TypeOK'
      BY <1>1 DEF WriteIntent, Working
    <2>2. Working' /\ PlaceIsFree'
      BY <1>1 DEF WriteIntent, Working, PlaceIsFree
    <2>3. Apart'
      BY <1>1 DEF WriteIntent, Working, PlaceIsFree, Apart
    <2>4. Complete'
      BY <1>1 DEF WriteIntent, Working, PlaceIsFree, Apart, Complete
    <2>5. NothingIsLost'
      BY <1>1 DEF WriteIntent, Working, PlaceIsFree, NothingIsLost
    <2> QED
      BY <2>1, <2>2, <2>3, <2>4, <2>5
  <1>2. ASSUME SyncStaging PROVE IInv'
    <2>1. TypeOK'
      <3>1. /\ UNCHANGED <<owner, dead, dir, dirDisk, fresh, body, marker, replaces, op,
                           served, lost, spoiled>>
            /\ pc' \in {"syncParent", "remove"}
            /\ UNCHANGED failures \/ (failures < MaxFailures /\ failures' = failures + 1)
            /\ UNCHANGED told
            /\ \/ markerDisk' = [markerDisk EXCEPT ![op] = {TRUE}]
               \/ UNCHANGED markerDisk
        BY <1>2, Zenon DEF SyncStaging
      <3>2. markerDisk' \in [Root -> SUBSET BOOLEAN]
        <4>1. {TRUE} \in SUBSET BOOLEAN /\ markerDisk \in [Root -> SUBSET BOOLEAN]
          OBVIOUS
        <4> QED
          BY ONLY <3>1, <4>1, ExceptType, Zenon
      <3>3. failures' \in 0..MaxFailures
        <4>1. failures \in 0..MaxFailures
          OBVIOUS
        <4> QED
          BY ONLY <3>1, <4>1, RestoreAssumption DEF RestoreAssumption
      <3>4. told' \in [kind : {"nothing", "restored", "failed"}, live : Root \cup {None}]
        BY <3>1
      <3> QED
        BY <3>1, <3>2, <3>3, <3>4
    <2>2. Working' /\ PlaceIsFree'
      BY <1>2 DEF SyncStaging, Working, PlaceIsFree
    <2>3. Apart'
      <3>1. /\ UNCHANGED <<dir, dirDisk, op>>
            /\ pc = "syncStaging" /\ pc' \in {"syncParent", "remove"}
        BY <1>2 DEF SyncStaging
      <3> QED
        BY <3>1 DEF Apart
    <2>4. Complete'
      BY <1>2 DEF SyncStaging, Working, PlaceIsFree, Apart, Complete
    <2>5. NothingIsLost'
      BY <1>2 DEF SyncStaging, Working, PlaceIsFree, NothingIsLost
    <2> QED
      BY <2>1, <2>2, <2>3, <2>4, <2>5
  <1>3. ASSUME Resume PROVE IInv'
    <2>1. TypeOK'
      BY <1>3 DEF Resume, Working
    <2>2. Working' /\ PlaceIsFree'
      BY <1>3 DEF Resume, Working, PlaceIsFree
    <2>3. Apart'
      BY <1>3 DEF Resume, Working, PlaceIsFree, Apart
    <2>4. Complete'
      BY <1>3 DEF Resume, Working, PlaceIsFree, Apart, Complete
    <2>5. NothingIsLost'
      BY <1>3 DEF Resume, Working, PlaceIsFree, NothingIsLost
    <2> QED
      BY <2>1, <2>2, <2>3, <2>4, <2>5
  <1>4. ASSUME VerifyPrepared PROVE IInv'
    <2>1. TypeOK'
      BY <1>4 DEF VerifyPrepared, Working
    <2>2. Working' /\ PlaceIsFree'
      BY <1>4 DEF VerifyPrepared, Working, PlaceIsFree
    <2>3. Apart'
      BY <1>4 DEF VerifyPrepared, Working, PlaceIsFree, Apart
    <2>4. Complete'
      BY <1>4 DEF VerifyPrepared, Working, PlaceIsFree, Apart, Complete
    <2>5. NothingIsLost'
      BY <1>4 DEF VerifyPrepared, Working, PlaceIsFree, NothingIsLost
    <2> QED
      BY <2>1, <2>2, <2>3, <2>4, <2>5
  <1>5. ASSUME Activate PROVE IInv'
    <2>1. TypeOK'
      BY <1>5 DEF Activate, LiveExists, PreviousExists, Working
    <2>2. Working' /\ PlaceIsFree'
      BY <1>5 DEF Activate, LiveExists, PreviousExists, Working, PlaceIsFree
    <2>3. Apart'
      BY <1>5 DEF Activate, LiveExists, PreviousExists, Working, PlaceIsFree, Apart
    <2>4. Complete'
      BY <1>5 DEF Activate, LiveExists, PreviousExists, Working, PlaceIsFree, Apart,
         Complete
    <2>5. NothingIsLost'
      BY <1>5 DEF Activate, LiveExists, PreviousExists, Working, PlaceIsFree,
         NothingIsLost
    <2> QED
      BY <2>1, <2>2, <2>3, <2>4, <2>5
  <1>6. ASSUME CheckPrevious PROVE IInv'
    <2>1. TypeOK'
      BY <1>6 DEF CheckPrevious, LiveExists, PreviousExists, Working
    <2>2. Working' /\ PlaceIsFree'
      BY <1>6 DEF CheckPrevious, LiveExists, PreviousExists, Working, PlaceIsFree
    <2>3. Apart'
      BY <1>6 DEF CheckPrevious, LiveExists, PreviousExists, Working, PlaceIsFree, Apart
    <2>4. Complete'
      BY <1>6 DEF CheckPrevious, LiveExists, PreviousExists, Working, PlaceIsFree,
         Apart, Complete
    <2>5. NothingIsLost'
      BY <1>6 DEF CheckPrevious, LiveExists, PreviousExists, Working, PlaceIsFree,
         NothingIsLost
    <2> QED
      BY <2>1, <2>2, <2>3, <2>4, <2>5
  <1>7. ASSUME ClearIntent PROVE IInv'
    <2>1. TypeOK'
      BY <1>7 DEF ClearIntent, Working
    <2>2. Working' /\ PlaceIsFree'
      BY <1>7 DEF ClearIntent, Working, PlaceIsFree
    <2>3. Apart'
      BY <1>7 DEF ClearIntent, Working, PlaceIsFree, Apart
    <2>4. Complete'
      BY <1>7 DEF ClearIntent, Working, PlaceIsFree, Apart, Complete
    <2>5. NothingIsLost'
      BY <1>7 DEF ClearIntent, Working, PlaceIsFree, NothingIsLost
    <2> QED
      BY <2>1, <2>2, <2>3, <2>4, <2>5
  <1>8. ASSUME SyncClear PROVE IInv'
    <2>1. TypeOK'
      <3>1. /\ UNCHANGED <<owner, dead, dir, dirDisk, fresh, body, marker, replaces, op,
                           served, lost, spoiled>>
            /\ pc' \in {"over", "over"}
            /\ UNCHANGED failures \/ (failures < MaxFailures /\ failures' = failures + 1)
            /\ told' = [kind |-> "restored", live |-> op] \/ UNCHANGED told
            /\ \/ markerDisk' = [markerDisk EXCEPT ![op] = {FALSE}]
               \/ UNCHANGED markerDisk
        BY <1>8, Zenon DEF SyncClear
      <3>2. markerDisk' \in [Root -> SUBSET BOOLEAN]
        <4>1. {FALSE} \in SUBSET BOOLEAN /\ markerDisk \in [Root -> SUBSET BOOLEAN]
          OBVIOUS
        <4> QED
          BY ONLY <3>1, <4>1, ExceptType, Zenon
      <3>3. failures' \in 0..MaxFailures
        <4>1. failures \in 0..MaxFailures
          OBVIOUS
        <4> QED
          BY ONLY <3>1, <4>1, RestoreAssumption DEF RestoreAssumption
      <3>4. told' \in [kind : {"nothing", "restored", "failed"}, live : Root \cup {None}]
        BY <3>1
      <3> QED
        BY <3>1, <3>2, <3>3, <3>4
    <2>2. Working' /\ PlaceIsFree'
      BY <1>8 DEF SyncClear, Working, PlaceIsFree
    <2>3. Apart'
      BY <1>8 DEF SyncClear, Working, PlaceIsFree, Apart
    <2>4. Complete'
      BY <1>8 DEF SyncClear, Working, PlaceIsFree, Apart, Complete
    <2>5. NothingIsLost'
      BY <1>8 DEF SyncClear, Working, PlaceIsFree, NothingIsLost
    <2> QED
      BY <2>1, <2>2, <2>3, <2>4, <2>5
  <1>9. ASSUME NothingToPutBack PROVE IInv'
    <2>1. TypeOK'
      BY <1>9 DEF NothingToPutBack, SetAsideOnly, LiveExists, PreviousExists, Working
    <2>2. Working' /\ PlaceIsFree'
      BY <1>9 DEF NothingToPutBack, SetAsideOnly, LiveExists, PreviousExists, Working,
         PlaceIsFree
    <2>3. Apart'
      BY <1>9 DEF NothingToPutBack, SetAsideOnly, LiveExists, PreviousExists, Working,
         PlaceIsFree, Apart
    <2>4. Complete'
      BY <1>9 DEF NothingToPutBack, SetAsideOnly, LiveExists, PreviousExists, Working,
         PlaceIsFree, Apart, Complete
    <2>5. NothingIsLost'
      BY <1>9 DEF NothingToPutBack, SetAsideOnly, LiveExists, PreviousExists, Working,
         PlaceIsFree, NothingIsLost
    <2> QED
      BY <2>1, <2>2, <2>3, <2>4, <2>5
  <1> QED
    BY <1>1, <1>2, <1>3, <1>4, <1>5, <1>6, <1>7, <1>8, <1>9

\* The synchronizations.
LEMMA SyncIInv ==
  ASSUME IInv, SyncBefore \/ SyncAside \/ SyncSwap \/ SyncBack \/ SyncRemoval
         \/ SyncQuarantine
  PROVE  IInv'
  <1> USE RestoreAssumption DEF IInv, TypeOK, Root, Bodies, Labels, Staged, Prepared,
          Restoring, lease, contents, history, KeepDirectory, SyncParent, Change,
          Fails, Report, Located
  <1>1. ASSUME SyncBefore PROVE IInv'
    <2>1. TypeOK'
      BY <1>1 DEF SyncBefore, Working
    <2>2. Working' /\ PlaceIsFree'
      BY <1>1 DEF SyncBefore, Working, PlaceIsFree
    <2>3. Apart'
      BY <1>1 DEF SyncBefore, Working, PlaceIsFree, Apart
    <2>4. Complete'
      BY <1>1 DEF SyncBefore, Working, PlaceIsFree, Apart, Complete
    <2>5. NothingIsLost'
      BY <1>1 DEF SyncBefore, Working, PlaceIsFree, NothingIsLost
    <2> QED
      BY <2>1, <2>2, <2>3, <2>4, <2>5
  <1>2. ASSUME SyncAside PROVE IInv'
    <2>1. TypeOK'
      BY <1>2 DEF SyncAside, Working
    <2>2. Working' /\ PlaceIsFree'
      BY <1>2 DEF SyncAside, Working, PlaceIsFree
    <2>3. Apart'
      BY <1>2 DEF SyncAside, Working, PlaceIsFree, Apart
    <2>4. Complete'
      BY <1>2 DEF SyncAside, Working, PlaceIsFree, Apart, Complete
    <2>5. NothingIsLost'
      BY <1>2 DEF SyncAside, Working, PlaceIsFree, NothingIsLost
    <2> QED
      BY <2>1, <2>2, <2>3, <2>4, <2>5
  <1>3. ASSUME SyncSwap PROVE IInv'
    <2>1. TypeOK'
      BY <1>3 DEF SyncSwap, Working
    <2>2. Working' /\ PlaceIsFree'
      BY <1>3 DEF SyncSwap, Working, PlaceIsFree
    <2>3. Apart'
      BY <1>3 DEF SyncSwap, Working, PlaceIsFree, Apart
    <2>4. Complete'
      BY <1>3 DEF SyncSwap, Working, PlaceIsFree, Apart, Complete
    <2>5. NothingIsLost'
      BY <1>3 DEF SyncSwap, Working, PlaceIsFree, NothingIsLost
    <2> QED
      BY <2>1, <2>2, <2>3, <2>4, <2>5
  <1>4. ASSUME SyncBack PROVE IInv'
    <2>1. TypeOK'
      BY <1>4 DEF SyncBack, Working
    <2>2. Working' /\ PlaceIsFree'
      BY <1>4 DEF SyncBack, Working, PlaceIsFree
    <2>3. Apart'
      BY <1>4 DEF SyncBack, Working, PlaceIsFree, Apart
    <2>4. Complete'
      BY <1>4 DEF SyncBack, Working, PlaceIsFree, Apart, Complete
    <2>5. NothingIsLost'
      BY <1>4 DEF SyncBack, Working, PlaceIsFree, NothingIsLost
    <2> QED
      BY <2>1, <2>2, <2>3, <2>4, <2>5
  <1>5. ASSUME SyncRemoval PROVE IInv'
    <2>1. TypeOK'
      <3>1. dir.live \in Root \cup {None}
        BY DEF Directory
      <3> QED
        BY <1>5, <3>1 DEF SyncRemoval, Working
    <2>2. Working' /\ PlaceIsFree'
      BY <1>5 DEF SyncRemoval, Working, PlaceIsFree
    <2>3. Apart'
      BY <1>5 DEF SyncRemoval, Working, PlaceIsFree, Apart
    <2>4. Complete'
      BY <1>5 DEF SyncRemoval, Working, PlaceIsFree, Apart, Complete
    <2>5. NothingIsLost'
      BY <1>5 DEF SyncRemoval, Working, PlaceIsFree, NothingIsLost
    <2> QED
      BY <2>1, <2>2, <2>3, <2>4, <2>5
  <1>6. ASSUME SyncQuarantine PROVE IInv'
    <2>1. TypeOK'
      BY <1>6 DEF SyncQuarantine, Working
    <2>2. Working' /\ PlaceIsFree'
      BY <1>6 DEF SyncQuarantine, Working, PlaceIsFree
    <2>3. Apart'
      BY <1>6 DEF SyncQuarantine, Working, PlaceIsFree, Apart
    <2>4. Complete'
      BY <1>6 DEF SyncQuarantine, Working, PlaceIsFree, Apart, Complete
    <2>5. NothingIsLost'
      BY <1>6 DEF SyncQuarantine, Working, PlaceIsFree, NothingIsLost
    <2> QED
      BY <2>1, <2>2, <2>3, <2>4, <2>5
  <1> QED
    BY <1>1, <1>2, <1>3, <1>4, <1>5, <1>6

\* A call that fails.
LEMMA FailsIInv ==
  ASSUME IInv, NEW label \in {"over", "rollback", "remove"}, Fails(label),
         UNCHANGED history, pc \in Restoring \cup {"syncQuarantine"},
         label # "over" => pc \in Staged
  PROVE  IInv'
  <1> USE RestoreAssumption DEF IInv, TypeOK, Root, Bodies, Labels, Staged, Prepared,
          Restoring, lease, contents, history, Fails, KeepDirectory
  <1>1. TypeOK'
    OBVIOUS
  <1>2. Working' /\ PlaceIsFree'
    BY DEF Working, PlaceIsFree
  <1>3. Apart'
    BY DEF Apart
  <1>4. Complete' /\ NothingIsLost'
    BY DEF Complete, NothingIsLost
  <1> QED
    BY <1>1, <1>2, <1>3, <1>4

\* The steps that move a root.
LEMMA MoveIInv ==
  ASSUME IInv, SetAside \/ Swap \/ PutBack \/ Quarantine \/ RemoveRest
  PROVE  IInv'
  <1> USE RestoreAssumption DEF IInv, TypeOK, Root, Bodies, Labels, Staged, Prepared,
          Restoring, lease, contents, history, KeepDirectory, SyncParent, Change,
          Fails, Report, Located
  <1>1. ASSUME SetAside PROVE IInv'
    <2> DEFINE e == [dir EXCEPT !.live = None, !.previous[op] = dir.live]
    <2>1. /\ op \in Process /\ dir.previous[op] = None /\ pc = "aside"
          /\ body[op] = "whole" /\ \A d \in dirDisk : op \notin RootsOf(d)
      BY <1>1 DEF SetAside, Working, PlaceIsFree, Apart, Complete
    <2>2. e \in Directory /\ RootsOf(e) = RootsOf(dir) /\ e.staging = dir.staging /\ e.live = None
      BY <2>1, AsideRoots
    <2>3. ASSUME /\ Change(e)
                 /\ pc' = "syncAside" /\ told' = NothingTold
                 /\ UNCHANGED <<lease, contents, op, failures, served, lost, spoiled>>
          PROVE  IInv'
      <3> HIDE DEF e
      <3>1. TypeOK'
        BY <2>1, <2>2, <2>3 DEF NothingTold
      <3>2. Working' /\ PlaceIsFree'
        BY <2>1, <2>2, <2>3 DEF Working, PlaceIsFree
      <3>3. Apart'
        BY <2>1, <2>2, <2>3 DEF Working, Apart
      <3>4. Complete'
        BY <2>1, <2>2, <2>3, RootsType DEF Working, Apart, Complete
      <3>5. NothingIsLost'
        BY <2>1, <2>2, <2>3 DEF Working, NothingIsLost
      <3> QED
        BY <3>1, <3>2, <3>3, <3>4, <3>5
    <2>4. ASSUME Fails("rollback"), UNCHANGED history PROVE IInv'
      BY <1>1, <2>4, FailsIInv DEF SetAside
    <2> QED
      BY <1>1, <2>3, <2>4 DEF SetAside
  <1>2. ASSUME Swap PROVE IInv'
    <2> DEFINE e == [dir EXCEPT !.staging = @ \ {op}, !.live = op]
    <2>1. /\ op \in Process /\ dir.live = None /\ pc = "swap"
          /\ body[op] = "whole" /\ \A d \in dirDisk : op \notin RootsOf(d)
      BY <1>2 DEF Swap, Working, PlaceIsFree, Apart, Complete
    <2>2. e \in Directory /\ RootsOf(e) = RootsOf(dir) \cup {op}
          /\ e.staging = dir.staging \ {op} /\ e.live = op
      <3>1. dir \in Directory
        OBVIOUS
      <3>2. e.staging = dir.staging \ {op} /\ e.live = op
        BY DEF Directory
      <3>3. e \in Directory /\ RootsOf(e) = RootsOf(dir) \cup {op}
        BY ONLY <2>1, <3>1, SwapRoots, Zenon
      <3> QED
        BY <3>2, <3>3
    <2>3. ASSUME /\ Change(e)
                 /\ pc' = "syncSwap" /\ told' = NothingTold
                 /\ UNCHANGED <<lease, contents, op, failures, served, lost, spoiled>>
          PROVE  IInv'
      <3> HIDE DEF e
      <3>1. TypeOK'
        BY <2>1, <2>2, <2>3 DEF NothingTold
      <3>2. Working' /\ PlaceIsFree'
        BY <2>1, <2>2, <2>3 DEF Working, PlaceIsFree
      <3>3. Apart'
        BY <2>1, <2>2, <2>3 DEF Working, Apart
      <3>4. Complete'
        BY <2>1, <2>2, <2>3, RootsType DEF Working, Apart, Complete
      <3>5. NothingIsLost'
        BY <2>1, <2>2, <2>3 DEF Working, NothingIsLost
      <3> QED
        BY <3>1, <3>2, <3>3, <3>4, <3>5
    <2>4. ASSUME Fails("rollback"), UNCHANGED history PROVE IInv'
      BY <1>2, <2>4, FailsIInv DEF Swap
    <2> QED
      BY <1>2, <2>3, <2>4 DEF Swap
  <1>3. ASSUME PutBack PROVE IInv'
    <2> DEFINE e == [dir EXCEPT !.live = dir.previous[op], !.previous[op] = None]
    <2>1. /\ op \in Process /\ dir.live = None /\ pc = "rollback"
          /\ \A d \in dirDisk : op \notin RootsOf(d)
      BY <1>3 DEF PutBack, SetAsideOnly, LiveExists, Working, PlaceIsFree, Apart,
         Complete
    <2>2. e \in Directory /\ RootsOf(e) = RootsOf(dir) /\ e.staging = dir.staging
      BY <2>1, BackRoots
    <2>3. ASSUME /\ Change(e)
                 /\ pc' = "syncBack"
                 /\ UNCHANGED <<lease, contents, op, failures, history>>
          PROVE  IInv'
      <3> HIDE DEF e
      <3>1. TypeOK'
        BY <2>1, <2>2, <2>3 DEF NothingTold
      <3>2. Working' /\ PlaceIsFree'
        BY <2>1, <2>2, <2>3 DEF Working, PlaceIsFree
      <3>3. Apart'
        BY <2>1, <2>2, <2>3 DEF Working, Apart
      <3>4. Complete'
        BY <2>1, <2>2, <2>3, RootsType DEF Working, Apart, Complete
      <3>5. NothingIsLost'
        BY <2>1, <2>2, <2>3 DEF Working, NothingIsLost
      <3> QED
        BY <3>1, <3>2, <3>3, <3>4, <3>5
    <2>4. ASSUME Fails("over"), UNCHANGED history PROVE IInv'
      BY <1>3, <2>4, FailsIInv DEF PutBack
    <2> QED
      BY <1>3, <2>3, <2>4 DEF PutBack
  <1>4. ASSUME Quarantine PROVE IInv'
    <2> DEFINE e == [dir EXCEPT !.live = None, !.quarantined = @ \cup {dir.live}]
    <2>1. /\ dir.live # None /\ pc = "begin" /\ dirDisk = {dir}
      BY <1>4 DEF Quarantine, Working, PlaceIsFree, Apart, Complete
    <2>2. e \in Directory /\ RootsOf(e) = RootsOf(dir) /\ e.staging = dir.staging
      BY <2>1, QuarantineRoots
    <2>3. ASSUME /\ Change(e)
                 /\ pc' = "syncQuarantine" /\ told' = NothingTold
                 /\ UNCHANGED <<lease, contents, op, failures, served, lost, spoiled>>
          PROVE  IInv'
      <3> HIDE DEF e
      <3>1. TypeOK'
        BY <2>1, <2>2, <2>3 DEF NothingTold
      <3>2. Working' /\ PlaceIsFree'
        BY <2>1, <2>2, <2>3 DEF Working, PlaceIsFree
      <3>3. Apart'
        BY <2>1, <2>2, <2>3 DEF Working, Apart
      <3>4. Complete'
        BY <2>1, <2>2, <2>3, RootsType DEF Working, Apart, Complete
      <3>5. NothingIsLost'
        BY <2>1, <2>2, <2>3 DEF Working, NothingIsLost
      <3> QED
        BY <3>1, <3>2, <3>3, <3>4, <3>5
    <2> QED
      BY <1>4, <2>3 DEF Quarantine
  <1>5. ASSUME RemoveRest PROVE IInv'
    <2> DEFINE e == [dir EXCEPT !.staging = @ \ {op}]
    <2>1. /\ op \in Process /\ pc = "removing" /\ dir.staging \ {op} \in SUBSET Process
          /\ \A d \in dirDisk : op \notin RootsOf(d)
      BY <1>5 DEF RemoveRest, Directory, Working, PlaceIsFree, Apart, Complete
    <2>2. e \in Directory /\ RootsOf(e) = RootsOf(dir) /\ e.staging = dir.staging \ {op}
          /\ e.live = dir.live /\ e.previous = dir.previous
      BY <2>1, StagingRoots
    <2>3. ASSUME /\ Change(e)
                 /\ marker' = marker \ {op} /\ pc' = "syncRemoval"
                 /\ UNCHANGED <<lease, body, markerDisk, replaces, op, failures, history>>
          PROVE  IInv'
      <3> HIDE DEF e
      <3>1. TypeOK'
        BY <2>1, <2>2, <2>3 DEF NothingTold
      <3>2. Working' /\ PlaceIsFree'
        BY <2>1, <2>2, <2>3 DEF Working, PlaceIsFree
      <3>3. Apart'
        BY <2>1, <2>2, <2>3 DEF Working, Apart
      <3>4. Complete'
        BY <2>1, <2>2, <2>3, RootsType DEF Working, Apart, Complete
      <3>5. NothingIsLost'
        BY <2>1, <2>2, <2>3 DEF Working, NothingIsLost
      <3> QED
        BY <3>1, <3>2, <3>3, <3>4, <3>5
    <2>4. ASSUME Fails("over"), UNCHANGED history PROVE IInv'
      BY <1>5, <2>4, FailsIInv DEF RemoveRest
    <2> QED
      BY <1>5, <2>3, <2>4 DEF RemoveRest
  <1> QED
    BY <1>1, <1>2, <1>3, <1>4, <1>5

\* The steps that make a root.
LEMMA NewIInv ==
  ASSUME IInv, NewRestore \/ ServeNew
  PROVE  IInv'
  <1> USE RestoreAssumption DEF IInv, TypeOK, Root, Bodies, Labels, Staged, Prepared,
          Restoring, lease, contents, history, KeepDirectory, SyncParent, Change,
          Fails, Report, Located
  <1>1. ASSUME NewRestore PROVE IInv'
    <2> DEFINE e == [dir EXCEPT !.staging = @ \cup {owner}]
    <2>1. /\ owner \in Process /\ pc = "begin" /\ dirDisk = {dir}
          /\ dir.staging \cup {owner} \in SUBSET Process /\ owner \notin RootsOf(dir)
      BY <1>1 DEF NewRestore, Directory, Working, PlaceIsFree, Apart, Complete
    <2>2. e \in Directory /\ RootsOf(e) = RootsOf(dir) /\ e.staging = dir.staging \cup {owner}
          /\ e.live = dir.live /\ e.previous = dir.previous
      BY <2>1, StagingRoots
    <2>3. ASSUME /\ Change(e)
                 /\ op' = owner /\ pc' = "stage" /\ body' = [body EXCEPT ![owner] = "part"]
                 /\ spoiled' = (spoiled \/ Lingering)
                 /\ UNCHANGED <<lease, marker, markerDisk, replaces, failures, told, served, lost>>
          PROVE  IInv'
      <3> HIDE DEF e
      <3>1. TypeOK'
        BY <2>1, <2>2, <2>3 DEF NothingTold
      <3>2. Working' /\ PlaceIsFree'
        BY <2>1, <2>2, <2>3 DEF Working, PlaceIsFree
      <3>3. Apart'
        BY <2>1, <2>2, <2>3 DEF Working, Apart
      <3>4. Complete'
        BY <2>1, <2>2, <2>3, RootsType DEF Working, Apart, Complete
      <3>5. NothingIsLost'
        BY <2>1, <2>2, <2>3 DEF Working, NothingIsLost
      <3> QED
        BY <3>1, <3>2, <3>3, <3>4, <3>5
    <2> QED
      BY <1>1, <2>3 DEF NewRestore
  <1>2. ASSUME ServeNew PROVE IInv'
    <2> DEFINE e == [dir EXCEPT !.live = owner]
    <2>1. /\ owner \in Process /\ pc = "begin" /\ dirDisk = {dir}
          /\ dir.live = None /\ dir.staging = {}
      BY <1>2 DEF ServeNew, MayOpen, Working, PlaceIsFree, Apart, Complete
    <2>2. e \in Directory /\ RootsOf(e) = RootsOf(dir) \cup {owner} /\ e.staging = dir.staging
          /\ e.live = owner
      BY <2>1, LiveRoots
    <2>3. ASSUME /\ dir' = e /\ dirDisk' = dirDisk \cup {e} /\ fresh' = {owner}
                 /\ pc' = "serving" /\ body' = [body EXCEPT ![owner] = "used"]
                 /\ served' = served \cup {owner} /\ told' = NothingTold
                 /\ UNCHANGED <<lease, marker, markerDisk, replaces, op, failures, lost, spoiled>>
          PROVE  IInv'
      <3> HIDE DEF e
      <3>1. TypeOK'
        BY <2>1, <2>2, <2>3 DEF NothingTold
      <3>2. Working' /\ PlaceIsFree'
        BY <2>1, <2>2, <2>3 DEF Working, PlaceIsFree
      <3>3. Apart'
        BY <2>1, <2>2, <2>3 DEF Working, Apart
      <3>4. Complete'
        BY <2>1, <2>2, <2>3, RootsType DEF Working, Apart, Complete
      <3>5. NothingIsLost'
        BY <2>1, <2>2, <2>3 DEF Working, NothingIsLost
      <3> QED
        BY <3>1, <3>2, <3>3, <3>4, <3>5
    <2> QED
      BY <1>2, <2>3 DEF ServeNew
  <1> QED
    BY <1>1, <1>2

\* The steps that change a root in its place.
LEMMA RootIInv ==
  ASSUME IInv, Stage \/ RemoveSome \/ Serve
  PROVE  IInv'
  <1> USE RestoreAssumption DEF IInv, TypeOK, Root, Bodies, Labels, Staged, Prepared,
          Restoring, lease, contents, history, KeepDirectory, SyncParent, Change,
          Fails, Report, Located
  <1>1. ASSUME Stage PROVE IInv'
    <2>1. TypeOK'
      <3>1. ASSUME Fails("remove"), UNCHANGED history PROVE TypeOK'
        BY <1>1, <3>1
      <3>2. ASSUME body' = [body EXCEPT ![op] = "whole"],
                   replaces' = [replaces EXCEPT ![op] = dir.live # None],
                   pc' = "intent", KeepDirectory,
                   UNCHANGED <<lease, marker, markerDisk, op, failures, history>>
            PROVE  TypeOK'
        <4>1. body' \in [Root -> Bodies]
          BY <3>2
        <4>2. replaces' \in [Process -> BOOLEAN]
          <5>1. (dir.live # None) \in BOOLEAN /\ replaces \in [Process -> BOOLEAN]
            OBVIOUS
          <5> QED
            BY ONLY <3>2, <5>1, ExceptType, Zenon
        <4>3. /\ UNCHANGED <<owner, dead, dir, dirDisk, fresh, marker, markerDisk, op, failures,
                             told, served, lost, spoiled>>
              /\ pc' \in Labels
          BY <3>2
        <4> QED
          BY <4>1, <4>2, <4>3
      <3> QED
        BY <1>1, <3>1, <3>2 DEF Stage
    <2>2. Working' /\ PlaceIsFree'
      BY <1>1 DEF Stage, Working, PlaceIsFree
    <2>3. Apart'
      BY <1>1 DEF Stage, Working, PlaceIsFree, Apart
    <2>4. Complete'
      <3>1. pc = "stage" /\ op \in Process /\ \A d \in dirDisk : op \notin RootsOf(d)
        BY <1>1 DEF Stage, Working, Apart
      <3>2. ASSUME Fails("remove"), UNCHANGED history PROVE Complete'
        BY <3>1, <3>2 DEF Complete
      <3>3. ASSUME body' = [body EXCEPT ![op] = "whole"], UNCHANGED <<dirDisk, op>>
            PROVE  Complete'
        BY <3>1, <3>3, RootsType DEF Complete
      <3> QED
        BY <1>1, <3>2, <3>3 DEF Stage
    <2>5. NothingIsLost'
      BY <1>1 DEF Stage, Working, PlaceIsFree, NothingIsLost
    <2> QED
      BY <2>1, <2>2, <2>3, <2>4, <2>5
  <1>2. ASSUME RemoveSome PROVE IInv'
    <2>1. TypeOK'
      <3>1. body' \in [Root -> Bodies] /\ marker' \subseteq Root
        BY <1>2 DEF RemoveSome
      <3>2. markerDisk' \in [Root -> SUBSET BOOLEAN]
        <4>1. markerDisk' = [markerDisk EXCEPT ![op] = markerDisk[op] \cup Found(op, marker')]
          BY <1>2 DEF RemoveSome
        <4>2. op \in Root /\ markerDisk[op] \cup Found(op, marker') \in SUBSET BOOLEAN
          BY <1>2, FoundType DEF RemoveSome, Working
        <4> QED
          BY <4>1, <4>2
      <3>3. /\ UNCHANGED <<owner, dead, dir, dirDisk, fresh, replaces, op, failures, told,
                           served, lost>>
            /\ pc' \in Labels /\ spoiled' \in BOOLEAN
        <4>1. pc' = "removing" /\ spoiled' = (spoiled \/ op \in marker)
          BY <1>2 DEF RemoveSome
        <4> QED
          BY <1>2, <4>1 DEF RemoveSome
      <3> QED
        BY <3>1, <3>2, <3>3
    <2>2. Working' /\ PlaceIsFree'
      <3>1. /\ UNCHANGED <<owner, dir, dirDisk, fresh, op>> /\ op \in Process
            /\ pc = "remove" /\ pc' = "removing" /\ marker' \subseteq marker
        BY <1>2 DEF RemoveSome, Working
      <3>2. markerDisk'[First] = markerDisk[First]
        BY <1>2, <3>1 DEF RemoveSome
      <3> QED
        BY <3>1, <3>2 DEF Working, PlaceIsFree
    <2>3. Apart'
      BY <1>2 DEF RemoveSome, Found, Working, PlaceIsFree, Apart
    <2>4. Complete'
      BY <1>2 DEF RemoveSome, Found, Working, PlaceIsFree, Apart, Complete
    <2>5. NothingIsLost'
      BY <1>2 DEF RemoveSome, Found, Working, PlaceIsFree, NothingIsLost
    <2> QED
      BY <2>1, <2>2, <2>3, <2>4, <2>5
  <1>3. ASSUME Serve PROVE IInv'
    <2>1. TypeOK'
      <3>1. dir.live \in Root
        BY <1>3 DEF Serve, Directory
      <3>2. body' \in [Root -> Bodies] /\ served' \subseteq Root
        BY <1>3, <3>1 DEF Serve
      <3>3. /\ UNCHANGED <<owner, dead, dir, dirDisk, fresh, marker, markerDisk, replaces, op,
                           failures, told, lost>>
            /\ pc' \in Labels /\ spoiled' \in BOOLEAN
        BY <1>3 DEF Serve
      <3> QED
        BY <3>2, <3>3
    <2>2. Working' /\ PlaceIsFree'
      BY <1>3 DEF Serve, MayOpen, RootsOf, Working, PlaceIsFree
    <2>3. Apart'
      BY <1>3 DEF Serve, MayOpen, RootsOf, Working, PlaceIsFree, Apart
    <2>4. Complete'
      BY <1>3 DEF Serve, MayOpen, RootsOf, Working, PlaceIsFree, Apart, Complete
    <2>5. NothingIsLost'
      BY <1>3 DEF Serve, MayOpen, RootsOf, Working, PlaceIsFree, NothingIsLost
    <2> QED
      BY <2>1, <2>2, <2>3, <2>4, <2>5
  <1> QED
    BY <1>1, <1>2, <1>3

\* Taking and giving up the lease, and the end of its owner.
LEMMA LeaseIInv ==
  ASSUME IInv, NEW p \in Process, Begin(p) \/ Leave(p) \/ Crash(p)
  PROVE  IInv'
  <1> USE RestoreAssumption DEF IInv, TypeOK, Root, Bodies, Labels, Staged, Prepared,
          Restoring, lease, contents, history, KeepDirectory, SyncParent, Change,
          Fails, Report, Located
  <1>1. ASSUME Begin(p) PROVE IInv'
    <2>1. TypeOK'
      BY <1>1 DEF Begin, Lease!Acquire, Working
    <2>2. Working' /\ PlaceIsFree'
      BY <1>1 DEF Begin, Lease!Acquire, Working, PlaceIsFree
    <2>3. Apart'
      BY <1>1 DEF Begin, Lease!Acquire, Working, PlaceIsFree, Apart
    <2>4. Complete'
      BY <1>1 DEF Begin, Lease!Acquire, Working, PlaceIsFree, Apart, Complete
    <2>5. NothingIsLost'
      BY <1>1 DEF Begin, Lease!Acquire, Working, PlaceIsFree, NothingIsLost
    <2> QED
      BY <2>1, <2>2, <2>3, <2>4, <2>5
  <1>2. ASSUME Leave(p) PROVE IInv'
    <2>1. TypeOK'
      <3>1. dir.live # None => dir.live \in Root
        BY DEF Directory
      <3> QED
        BY <1>2, <3>1 DEF Leave, Lease!GiveUp, Working, PlaceIsFree
    <2>2. Working' /\ PlaceIsFree'
      BY <1>2 DEF Leave, Lease!GiveUp, RootsOf, Working, PlaceIsFree
    <2>3. Apart'
      BY <1>2 DEF Leave, Lease!GiveUp, RootsOf, Working, PlaceIsFree, Apart
    <2>4. Complete'
      BY <1>2 DEF Leave, Lease!GiveUp, RootsOf, Working, PlaceIsFree, Apart, Complete
    <2>5. NothingIsLost'
      BY <1>2 DEF Leave, Lease!GiveUp, RootsOf, Working, PlaceIsFree, NothingIsLost
    <2> QED
      BY <2>1, <2>2, <2>3, <2>4, <2>5
  <1>3. ASSUME Crash(p) PROVE IInv'
    <2>1. TypeOK'
      BY <1>3 DEF Crash, Lease!Die, Working
    <2>2. Working' /\ PlaceIsFree'
      BY <1>3 DEF Crash, Lease!Die, Working, PlaceIsFree
    <2>3. Apart'
      BY <1>3 DEF Crash, Lease!Die, Working, PlaceIsFree, Apart
    <2>4. Complete'
      BY <1>3 DEF Crash, Lease!Die, Working, PlaceIsFree, Apart, Complete
    <2>5. NothingIsLost'
      BY <1>3 DEF Crash, Lease!Die, Working, PlaceIsFree, NothingIsLost
    <2> QED
      BY <2>1, <2>2, <2>3, <2>4, <2>5
  <1> QED
    BY <1>1, <1>2, <1>3

\* A loss of power: what there is was on the disk before.
LEMMA PowerIInv ==
  ASSUME IInv, PowerLoss
  PROVE  IInv'
  <1> USE RestoreAssumption DEF IInv, TypeOK, Root, Bodies, Labels, Staged, Prepared,
          Restoring, lease, contents, history, KeepDirectory, SyncParent, Change,
          Fails, Report, Located
  <1>1. ASSUME PowerLoss PROVE IInv'
    <2>1. TypeOK'
      <3>1. marker' \subseteq Root /\ markerDisk' \in [Root -> SUBSET BOOLEAN]
        BY <1>1, FoundType DEF PowerLoss
      <3>2. body' \in [Root -> Bodies]
        BY <1>1 DEF PowerLoss
      <3>3. owner' \in Process \cup {None} /\ dead' \subseteq Process
        BY <1>1 DEF PowerLoss, Lease!Die
      <3>4. /\ UNCHANGED <<replaces, failures, told, served, spoiled>>
            /\ fresh' = {} /\ lost' \subseteq Process
            /\ dir' \in Directory /\ dirDisk' \subseteq Directory
            /\ pc' \in Labels /\ op' \in Process \cup {None}
        BY <1>1 DEF PowerLoss
      <3> QED
        BY <3>1, <3>2, <3>3, <3>4
    <2>2. Working' /\ PlaceIsFree'
      <3>1. First \notin marker' /\ markerDisk'[First] = {FALSE}
        <4>1. (First \in marker') \in markerDisk[First]
          BY <1>1 DEF PowerLoss
        <4>2. markerDisk[First] = {FALSE}
          BY DEF Working
        <4>3. First \notin marker'
          BY ONLY <4>1, <4>2, Zenon
        <4> QED
          BY <1>1, <4>3 DEF PowerLoss, Found
      <3>2. pc' = "idle" /\ dirDisk' = {dir'} /\ fresh' = {}
        BY <1>1 DEF PowerLoss
      <3> QED
        BY <3>1, <3>2 DEF Working, PlaceIsFree
    <2>3. Apart'
      BY <1>1 DEF PowerLoss, Lease!Die, Working, PlaceIsFree, Apart
    <2>4. Complete'
      <3>1. dir' \in dirDisk /\ dirDisk' = {dir'} /\ pc' = "idle"
        BY <1>1 DEF PowerLoss
      <3>2. PICK back \in SUBSET {r \in Root : body[r] = "hurt"} :
              body' = [r \in Root |-> IF r \in back THEN "whole" ELSE body[r]]
        BY <1>1 DEF PowerLoss
      <3>3. \A r \in RootsOf(dir') : body[r] \in {"whole", "used"} /\ r \in Root
        BY <3>1, RootsType DEF Complete
      <3>4. \A r \in RootsOf(dir') : body'[r] \in {"whole", "used"}
        BY <3>2, <3>3
      <3> QED
        BY <3>1, <3>4 DEF Complete
    <2>5. NothingIsLost'
      BY <1>1 DEF PowerLoss, Lease!Die, Working, PlaceIsFree, NothingIsLost
    <2> QED
      BY <2>1, <2>2, <2>3, <2>4, <2>5
  <1> QED
    BY <1>1

-----------------------------------------------------------------------------
(* The theorems.                                                           *)

LEMMA InitIInv == Init => IInv
  <1> SUFFICES ASSUME Init PROVE IInv
    OBVIOUS
  <1> USE RestoreAssumption DEF Init, Root
  <1>1. PICK root \in {First, None} :
          dir = [live |-> root, staging |-> {},
                 previous |-> [p \in Process |-> None], quarantined |-> {}]
    OBVIOUS
  <1>2. dir \in Directory /\ RootsOf(dir) = {dir.live} \ {None}
    <2>1. [p \in Process |-> None] \in [Process -> Root \cup {None}]
      OBVIOUS
    <2> QED
      BY <1>1, <2>1 DEF Directory, RootsOf
  <1>3. dir.live \in {First, None} /\ dir.staging = {}
    BY <1>1
  <1>4. TypeOK
    <2>1. markerDisk \in [Root -> SUBSET BOOLEAN]
      <3>1. {FALSE} \in SUBSET BOOLEAN
        OBVIOUS
      <3> QED
        BY <3>1, Zenon
    <2>2. owner \in Process \cup {None} /\ dead \subseteq Process
      BY DEF Lease!Init
    <2>3. body \in [Root -> Bodies]
      BY DEF Bodies
    <2>4. replaces \in [Process -> BOOLEAN]
      OBVIOUS
    <2>5. failures \in 0..MaxFailures
      OBVIOUS
    <2>6. told \in [kind : {"nothing", "restored", "failed"}, live : Root \cup {None}]
      BY DEF NothingTold
    <2>7. pc \in Labels
      BY DEF Labels
    <2>8. served \subseteq Root /\ fresh \subseteq Process /\ lost \subseteq Process
      BY <1>3
    <2> QED
      BY <1>2, <2>1, <2>2, <2>3, <2>4, <2>5, <2>6, <2>7, <2>8 DEF TypeOK
  <1>5. Working /\ PlaceIsFree
    <2>1. markerDisk[First] = {FALSE}
      BY Zenon
    <2> QED
      BY <2>1 DEF Working, PlaceIsFree, Restoring, Labels
  <1>6. Apart /\ Complete /\ NothingIsLost
    BY <1>2, <1>3 DEF Apart, Complete, NothingIsLost, Staged, Prepared
  <1> QED
    BY <1>4, <1>5, <1>6 DEF IInv

LEMMA NextIInv == IInv /\ [Next]_vars => IInv'
  <1> SUFFICES ASSUME IInv, [Next]_vars PROVE IInv'
    OBVIOUS
  <1>1. ASSUME RestoreStep PROVE IInv'
    BY <1>1, IntentIInv, SyncIInv, MoveIInv, NewIInv, RootIInv DEF RestoreStep
  <1>2. ASSUME Serve \/ ServeNew \/ Quarantine \/ SyncQuarantine PROVE IInv'
    BY <1>2, SyncIInv, MoveIInv, NewIInv, RootIInv
  <1>3. ASSUME NEW p \in Process, Begin(p) \/ Leave(p) \/ Crash(p) PROVE IInv'
    BY <1>3, LeaseIInv
  <1>4. ASSUME PowerLoss PROVE IInv'
    BY <1>4, PowerIInv
  <1>5. ASSUME UNCHANGED vars PROVE IInv'
    <2>1. UNCHANGED <<owner, dead, dir, dirDisk, fresh, body, marker, markerDisk, replaces, pc,
                      op, failures, told, served, lost, spoiled>>
      BY <1>5 DEF vars, lease, contents, history
    <2>2. TypeOK'
      BY <2>1 DEF IInv, TypeOK
    <2>3. Working' /\ PlaceIsFree'
      BY <2>1 DEF IInv, Working, PlaceIsFree
    <2>4. Apart' /\ Complete' /\ NothingIsLost'
      BY <2>1 DEF IInv, Apart, Complete, NothingIsLost
    <2> QED
      BY <2>2, <2>3, <2>4 DEF IInv
  <1> QED
    BY <1>1, <1>2, <1>3, <1>4, <1>5 DEF Next

LEMMA Invariance == Spec => []IInv
  BY InitIInv, NextIInv, PTL DEF Spec

\* Every variable keeps its type, in every interleaving of starts, restores,
\* quarantines, failed calls, crashes and losses of power.
THEOREM TypeCorrect == Spec => []TypeOK
  <1>1. IInv => TypeOK
    BY DEF IInv
  <1> QED
    BY <1>1, Invariance, PTL

\* No root the application worked on is ever lost, on no disk that a loss of
\* power may leave: completeRestore and rollbackFailedActivation rename it, and
\* remove staged roots only.
THEOREM NothingIsLostTheorem == Spec => []NothingIsLost
  <1>1. IInv => NothingIsLost
    BY DEF IInv
  <1> QED
    BY <1>1, Invariance, PTL

\* ApplicationPersistence.open serves complete roots only: what is under the
\* live name was verified before it was moved there.
THEOREM OpensWholeRootsTheorem == Spec => OpensWholeRoots
  <1>1. ASSUME IInv
        PROVE  pc = "begin" /\ pc' = "serving" /\ dir.live # None =>
                 body[dir.live] \in {"whole", "used"}
    <2>1. dir \in dirDisk /\ dir \in Directory
      BY <1>1 DEF IInv, Working, TypeOK
    <2>2. dir.live # None => dir.live \in RootsOf(dir)
      BY <2>1 DEF RootsOf, Directory
    <2> QED
      BY <1>1, <2>1, <2>2 DEF IInv, Complete
  <1> QED
    BY <1>1, Invariance, PTL DEF Spec, OpensWholeRoots

-----------------------------------------------------------------------------
(* What a restore reports, and whether an interrupted one can be resumed:  *)
(* the invariant.                                                          *)

\* The intent of r is on the disk, or may be after a loss of power.
MayBeFound(r) == TRUE \in markerDisk[r]

Within(d) == {r \in {d.live} \cup d.staging : r # None}

\* How far the restore of the intent found in r came.
Fits(d, r) ==
  /\ body[r] = "whole"
  /\ d.live = r => (replaces[r] => d.previous[r] # None)
  /\ d.live # r /\ replaces[r] => (d.live = None <=> d.previous[r] # None)
  /\ d.live # r /\ ~replaces[r] => d.live = None

\* No two intents may be found, and none comes back with the root that was set
\* aside.
IntentsFit(d) ==
  /\ \A r \in d.staging : MayBeFound(r) => r \in marker
  /\ \A r \in Within(d) : MayBeFound(r) =>
       /\ Fits(d, r)
       /\ \A s \in Within(d) : MayBeFound(s) => s = r
       /\ d.previous[r] # None => ~MayBeFound(d.previous[r])

\* A directory the disk may hold: while a live root that was set aside may have
\* to be put back, no outcome stands.
Sound(d) ==
  /\ \A p \in Process : body[p] = "none" => d.previous[p] = None
  /\ \A r \in d.staging \ marker : MayBeFound(r) => d.previous[r] = None
  /\ \A r \in d.staging :
       MayBeFound(r) /\ d.live = None /\ d.previous[r] # None => told.kind = "nothing"
  /\ told.kind # "nothing" => d.live = told.live
  /\ ~spoiled => IntentsFit(d)

\* An intent there is may be found; a root not made yet has none.
DiskInv ==
  /\ \A r \in marker : MayBeFound(r)
  /\ \A p \in Process : body[p] = "none" => ~MayBeFound(p)
  /\ told.kind = "restored" => told.live \in Root /\ markerDisk[told.live] = {FALSE}
  /\ \A d \in dirDisk : Sound(d)

\* The calls that work on an intent that was found or made durable, those at
\* which its root is staged, and those at which it is live.
Marked == {"syncStaging", "syncParent", "verify", "activate", "aside", "syncAside",
           "swap", "syncSwap", "check", "clear", "rollback", "syncBack"}
InStaging == Staged \ {"syncRemoval"}
InPlace == {"syncSwap", "check", "clear", "syncClear"}
Preparing == {"stage", "intent", "syncStaging", "syncParent"}

\* Where the root and the intent of the restore are at each call.
OpPlaced ==
  /\ pc \in Marked => op \in marker
  /\ pc \in {"stage", "intent"} => ~MayBeFound(op)
  /\ pc \in InStaging => op \in dir.staging
  /\ pc \in {"verify", "activate"} => op \in Within(dir)
  /\ pc \in InPlace => dir.live = op
  /\ pc = "syncRemoval" => op \notin dir.staging
  /\ pc = "syncClear" => op \notin marker
  /\ pc \in Restoring => dir.staging \cap marker \subseteq {op}

\* What it has made durable, and the names that say how far it came.
OpNamed ==
  /\ pc \in {"aside", "check", "clear", "syncClear"} => dirDisk = {dir}
  /\ pc = "rollback" /\ dir.live # None => dirDisk = {dir}
  /\ pc \in Preparing \cup {"remove", "removing"} =>
       \A d \in dirDisk : d.previous[op] = None
  /\ pc \in {"stage", "intent"} => \A d \in dirDisk : d.live = dir.live
  /\ pc = "intent" => (replaces[op] <=> dir.live # None)
  /\ pc = "aside" => dir.live # None /\ replaces[op]
  /\ pc = "syncAside" => dir.previous[op] # None
  /\ pc = "swap" /\ replaces[op] => dir.previous[op] # None
  /\ pc = "syncBack" => dir.previous[op] = None

\* No other intent comes back while one is made, nor its own while it is removed.
OpUnseen ==
  /\ pc \in {"stage", "intent"} => \A d \in dirDisk : \A r \in Within(d) : ~MayBeFound(r)
  /\ pc = "removing" => ~MayBeFound(op)

OpInv == OpPlaced /\ OpNamed /\ (~spoiled => OpUnseen)

OutcomeInv == IInv /\ DiskInv /\ OpInv

-----------------------------------------------------------------------------
\* What is not found elsewhere.
LEMMA RootsHere ==
  ASSUME IInv
  PROVE  /\ dir \in Directory /\ dir \in dirDisk /\ dirDisk \subseteq Directory
         /\ \A d \in dirDisk : /\ d.staging \subseteq Process
                               /\ d.live \in Root \cup {None}
                               /\ d.previous \in [Process -> Root \cup {None}]
                               /\ d.live # None => d.live \notin d.staging
                               /\ None \notin d.staging /\ First \notin d.staging
         /\ ~MayBeFound(First) /\ First \notin marker
         /\ op \in Process \cup {None}
         /\ pc \in Restoring => op \in Process
  <1>1. /\ dir \in Directory /\ dirDisk \subseteq Directory
        /\ op \in Process \cup {None}
    BY DEF IInv, TypeOK
  <1>2. \A d \in dirDisk : /\ d.staging \subseteq Process
                           /\ d.live \in Root \cup {None}
                           /\ d.previous \in [Process -> Root \cup {None}]
    BY <1>1 DEF Directory
  <1>3. \A d \in dirDisk : d.live # None => d.live \notin d.staging
    BY DEF IInv, Apart, RootsOf
  <1> QED
    BY <1>1, <1>2, <1>3, RestoreAssumption DEF IInv, Working, MayBeFound, Restoring

\* A directory of the disk stays sound, one that is added has to be.
LEMMA DiskKept ==
  ASSUME IInv, DiskInv, UNCHANGED <<marker, markerDisk>>,
         told' = told \/ told' = NothingTold, spoiled => spoiled',
         \A p \in Process : body'[p] = "none" => body[p] = "none",
         ~spoiled' => \A r \in Root : MayBeFound(r) =>
                        body'[r] = body[r] /\ replaces'[r] = replaces[r],
         NEW e, dirDisk' \subseteq dirDisk \cup {e}, e \in dirDisk \/ Sound(e)'
  PROVE  DiskInv'
  <1>0. told' = told \/ told'.kind = "nothing"
    BY DEF NothingTold
  <1>1. ASSUME NEW d \in dirDisk PROVE Sound(d)'
    <2>1. Sound(d)
      BY DEF DiskInv
    <2>2. ~spoiled' /\ IntentsFit(d) => IntentsFit(d)'
      <3>1. \A r \in Within(d) : r \in Root
        BY RootsHere DEF Within, Root
      <3>2. Within(d)' = Within(d) /\ \A r : MayBeFound(r)' <=> MayBeFound(r)
        BY DEF Within, MayBeFound
      <3>3. ~spoiled' => \A r \in Within(d) : MayBeFound(r) /\ Fits(d, r) => Fits(d, r)'
        BY <3>1 DEF Fits
      <3> QED
        BY <3>2, <3>3 DEF IntentsFit
    <2> QED
      BY <1>0, <2>1, <2>2 DEF Sound, MayBeFound
  <1>2. \A r : MayBeFound(r)' <=> MayBeFound(r)
    BY DEF MayBeFound
  <1>3. told'.kind = "restored" => told'.live \in Root /\ markerDisk'[told'.live] = {FALSE}
    BY <1>0 DEF DiskInv
  <1>4. \A d \in dirDisk' : Sound(d)'
    BY <1>1
  <1> QED
    BY <1>2, <1>3, <1>4 DEF DiskInv

\* A call that is no part of a restore.
LEMMA OpOver ==
  ASSUME pc' \notin Restoring, pc' \in Labels
  PROVE  OpInv'
  BY DEF OpInv, OpPlaced, OpNamed, OpUnseen, Restoring, Labels, Marked, InStaging,
     Staged, InPlace, Preparing

\* The steps that change neither the directory nor an intent.
LEMMA QuietDisk ==
  ASSUME IInv, DiskInv, UNCHANGED <<dir, contents, told>>, spoiled => spoiled',
         dirDisk' = dirDisk \/ dirDisk' = {dir}
  PROVE  DiskInv'
  <1>1. dirDisk' \subseteq dirDisk \cup {dir} /\ dir \in dirDisk
    BY RootsHere
  <1>2. UNCHANGED <<body, marker, markerDisk, replaces>>
    BY DEF contents
  <1> QED
    BY <1>1, <1>2, DiskKept

LEMMA FailsDisk ==
  ASSUME IInv, DiskInv, NEW label, Fails(label), UNCHANGED history
  PROVE  DiskInv'
  BY QuietDisk DEF Fails, history, KeepDirectory

\* An intent that is there and not found is none of the directory's roots.
LEMMA NoneWithin ==
  ASSUME IInv, Located = {}, ~Lingering
  PROVE  \A r \in Within(dir) : ~MayBeFound(r)
  BY RootsHere DEF Within, Located, Lingering, MayBeFound, Root

LEMMA OpenDisk ==
  ASSUME IInv, DiskInv, Serve \/ ServeNew \/ Quarantine
  PROVE  DiskInv'
  <1> USE RestoreAssumption
  <1>0. dirDisk = {dir} /\ Sound(dir) /\ owner # None
    BY RootsHere DEF Serve, ServeNew, Quarantine, IInv, Working, DiskInv
  <1>1. ASSUME Serve PROVE DiskInv'
    <2>1. /\ UNCHANGED <<dirDisk, marker, markerDisk, replaces, told>> /\ Located = {}
          /\ body' = [body EXCEPT ![dir.live] = "used"]
          /\ spoiled' = (spoiled \/ Lingering) /\ dir.live # None
      BY <1>1 DEF Serve, MayOpen, KeepDirectory
    <2>2. body \in [Root -> Bodies]
      BY DEF IInv, TypeOK
    <2>3. ~spoiled' => ~MayBeFound(dir.live)
      BY <2>1, NoneWithin DEF Within
    <2>4. \A p \in Process : body'[p] = "none" => body[p] = "none"
      BY <2>1, <2>2 DEF Root
    <2>5. ~spoiled' => \A r \in Root : MayBeFound(r) =>
                        body'[r] = body[r] /\ replaces'[r] = replaces[r]
      BY <2>1, <2>2, <2>3
    <2>6. spoiled => spoiled'
      BY <2>1
    <2>7. dirDisk' \subseteq dirDisk \cup {dir} /\ dir \in dirDisk
      BY <2>1, RootsHere
    <2> QED
      BY <2>1, <2>4, <2>5, <2>6, <2>7, DiskKept
  <1>2. ASSUME ServeNew PROVE DiskInv'
    <2>1. PICK e : e = [dir EXCEPT !.live = owner]
      OBVIOUS
    <2>2. /\ UNCHANGED <<marker, markerDisk, replaces, spoiled>> /\ told' = NothingTold
          /\ dirDisk' = dirDisk \cup {e} /\ owner \in Process
          /\ body[owner] = "none" /\ body' = [body EXCEPT ![owner] = "used"]
          /\ dir.live = None /\ dir.staging = {} /\ \A q \in Process : dir.previous[q] = None
      BY <1>0, <1>2, <2>1 DEF ServeNew, MayOpen, Change, IInv, TypeOK
    <2>3. body \in [Root -> Bodies] /\ Process \subseteq Root
      BY DEF IInv, TypeOK, Root
    <2>4. ~MayBeFound(owner)
      BY <2>2 DEF DiskInv
    <2>5. e.live = owner /\ e.staging = {} /\ e.previous = dir.previous
      BY <2>1, <2>2, RootsHere DEF Directory
    <2>6. Sound(e)'
      BY <2>2, <2>4, <2>5 DEF Sound, IntentsFit, Within, MayBeFound, NothingTold
    <2>7. \A p \in Process : body'[p] = "none" => body[p] = "none"
      BY <2>2, <2>3
    <2>8. \A r \in Root : MayBeFound(r) => body'[r] = body[r] /\ replaces'[r] = replaces[r]
      BY <2>2, <2>3, <2>4
    <2>9. dirDisk' \subseteq dirDisk \cup {e}
      BY <2>2
    <2> QED
      BY <2>2, <2>6, <2>7, <2>8, <2>9, DiskKept
  <1>3. ASSUME Quarantine PROVE DiskInv'
    <2>1. PICK e : e = [dir EXCEPT !.live = None, !.quarantined = @ \cup {dir.live}]
      OBVIOUS
    <2>2. /\ UNCHANGED <<body, marker, markerDisk, replaces, spoiled>>
          /\ told' = NothingTold /\ dirDisk' = dirDisk \cup {e} /\ Located = {}
      BY <1>3, <2>1 DEF Quarantine, Change, contents
    <2>3. e.live = None /\ e.staging = dir.staging /\ e.previous = dir.previous
      BY <2>1, RootsHere DEF Directory
    <2>4. Sound(e)'
      <3>1. ~spoiled => \A r \in dir.staging : ~MayBeFound(r)
        BY <1>0, <2>2, RootsHere DEF Sound, IntentsFit, Located, Root
      <3>2. ~spoiled' => IntentsFit(e)'
        BY <2>2, <2>3, <3>1 DEF IntentsFit, Within, MayBeFound
      <3> QED
        BY <1>0, <2>2, <2>3, <3>2 DEF Sound, MayBeFound, NothingTold
    <2>5. dirDisk' \subseteq dirDisk \cup {e}
      BY <2>2
    <2> QED
      BY <2>2, <2>4, <2>5, DiskKept
  <1> QED
    BY <1>1, <1>2, <1>3

LEMMA MakeDisk ==
  ASSUME IInv, DiskInv, OpInv, NewRestore \/ Stage
  PROVE  DiskInv'
  <1> USE RestoreAssumption
  <1>0. body \in [Root -> Bodies] /\ Process \subseteq Root /\ replaces \in [Process -> BOOLEAN]
    BY DEF IInv, TypeOK, Root
  <1>1. ASSUME NewRestore PROVE DiskInv'
    <2>1. PICK e : e = [dir EXCEPT !.staging = @ \cup {owner}]
      OBVIOUS
    <2>2. /\ UNCHANGED <<marker, markerDisk, replaces, told>>
          /\ dirDisk' = dirDisk \cup {e} /\ owner \in Process
          /\ body[owner] = "none" /\ body' = [body EXCEPT ![owner] = "part"]
          /\ spoiled => spoiled'
      BY <1>1, <2>1 DEF NewRestore, Change, IInv, TypeOK, Working
    <2>3. dirDisk = {dir} /\ Sound(dir)
      BY <1>1 DEF NewRestore, IInv, Working, DiskInv
    <2>4. ~MayBeFound(owner) /\ dir.previous[owner] = None
      BY <2>2, <2>3 DEF DiskInv, Sound
    <2>5. e.live = dir.live /\ e.staging = dir.staging \cup {owner} /\ e.previous = dir.previous
      BY <2>1, RootsHere DEF Directory
    <2>6. ~spoiled' => \A r \in Within(e) : ~MayBeFound(r)
      <3>1. ~spoiled' => \A r \in Within(dir) : ~MayBeFound(r)
        BY <1>1, NoneWithin DEF NewRestore
      <3> QED
        BY <2>4, <2>5, <3>1 DEF Within
    <2>7. Sound(e)'
      <3>1. \A r \in e.staging : r \in Within(e)
        BY <2>2, <2>5, RootsHere DEF Within
      <3>2. ~spoiled' => IntentsFit(e)'
        BY <2>2, <2>6, <3>1 DEF IntentsFit, Within, MayBeFound
      <3> QED
        BY <1>0, <2>2, <2>3, <2>4, <2>5, <3>2 DEF Sound, MayBeFound
    <2>8. \A p \in Process : body'[p] = "none" => body[p] = "none"
      BY <1>0, <2>2
    <2>9. \A r \in Root : MayBeFound(r) => body'[r] = body[r] /\ replaces'[r] = replaces[r]
      BY <1>0, <2>2, <2>4
    <2>10. dirDisk' \subseteq dirDisk \cup {e}
      BY <2>2
    <2> QED
      BY <2>2, <2>7, <2>8, <2>9, <2>10, DiskKept
  <1>2. ASSUME Stage PROVE DiskInv'
    <2>1. CASE Fails("remove")
      BY <1>2, <2>1, FailsDisk DEF Stage
    <2>2. CASE ~Fails("remove")
      <3>1. /\ UNCHANGED <<dirDisk, marker, markerDisk, told, spoiled>> /\ pc = "stage"
            /\ body' = [body EXCEPT ![op] = "whole"]
            /\ replaces' = [replaces EXCEPT ![op] = dir.live # None]
        BY <1>2, <2>2 DEF Stage, KeepDirectory, history
      <3>2. ~MayBeFound(op)
        BY <3>1 DEF OpInv, OpPlaced
      <3>3. \A r \in Root : MayBeFound(r) => body'[r] = body[r] /\ replaces'[r] = replaces[r]
        <4> SUFFICES ASSUME NEW r \in Root, MayBeFound(r)
                     PROVE  body'[r] = body[r] /\ replaces'[r] = replaces[r]
          OBVIOUS
        <4>1. r # op /\ r \in Process
          BY <3>2, RootsHere DEF Root
        <4> QED
          BY <1>0, <3>1, <4>1
      <3>4. \A p \in Process : body'[p] = "none" => body[p] = "none"
        BY <1>0, <3>1
      <3>5. dirDisk' \subseteq dirDisk \cup {dir} /\ dir \in dirDisk
        BY <3>1, RootsHere
      <3> QED
        BY <3>1, <3>3, <3>4, <3>5, DiskKept
    <2> QED
      BY <2>1, <2>2
  <1> QED
    BY <1>1, <1>2

\* Nothing more may be found than before, and no directory is new but for a root
\* that is no longer staged.
LEMMA DiskShrinks ==
  ASSUME IInv, DiskInv, replaces' = replaces, spoiled => spoiled',
         \A e \in dirDisk' : \E d \in dirDisk :
           e.live = d.live /\ e.previous = d.previous /\ e.staging \subseteq d.staging,
         \A r \in Root : MayBeFound(r)' => MayBeFound(r),
         \A r \in marker' : MayBeFound(r)',
         \A e \in dirDisk' : \A r \in e.staging \ marker' :
           MayBeFound(r)' => e.previous[r] = None /\ spoiled',
         \A p \in Process : body'[p] = "none" => body[p] = "none",
         ~spoiled' => \A r \in Root : MayBeFound(r)' /\ body[r] = "whole" => body'[r] = "whole",
         \/ told' = told
         \/ \A e \in dirDisk' :
              /\ e.live = told'.live
              /\ e.live = None => \A r \in e.staging : MayBeFound(r)' => e.previous[r] = None,
         told'.kind = "restored" =>
           told'.live \in Root /\ markerDisk'[told'.live] = {FALSE}
  PROVE  DiskInv'
  <1>1. ASSUME NEW e \in dirDisk' PROVE Sound(e)'
    <2>1. PICK d \in dirDisk :
            e.live = d.live /\ e.previous = d.previous /\ e.staging \subseteq d.staging
      OBVIOUS
    <2>0. d.staging \subseteq Root
      BY RootsHere DEF Root
    <2>2. Sound(d)
      BY DEF DiskInv
    <2>3. \A p \in Process : body'[p] = "none" => e.previous[p] = None
      BY <2>1, <2>2 DEF Sound
    <2>4. \A r \in e.staging :
            MayBeFound(r)' /\ e.live = None /\ e.previous[r] # None => told'.kind = "nothing"
      BY <2>0, <2>1, <2>2 DEF Sound
    <2>5. told'.kind # "nothing" => e.live = told'.live
      BY <2>1, <2>2 DEF Sound
    <2>6. ASSUME ~spoiled' PROVE IntentsFit(e)'
      <3>1. IntentsFit(d)
        BY <2>2, <2>6 DEF Sound
      <3>2. \A r \in Within(e) : r \in Within(d) /\ r \in Root
        BY <2>1, RootsHere DEF Within, Root
      <3>3. \A r \in Within(e) : MayBeFound(r)' /\ Fits(d, r) => Fits(e, r)'
        BY <2>1, <2>6, <3>2 DEF Fits
      <3>4. Within(e)' = Within(e)
        BY DEF Within
      <3>5. \A r \in e.staging : MayBeFound(r)' => r \in marker'
        BY <2>6
      <3>6. ASSUME NEW r \in Within(e), MayBeFound(r)'
            PROVE  /\ Fits(e, r)'
                   /\ \A s \in Within(e) : MayBeFound(s)' => s = r
                   /\ e.previous[r] # None => ~MayBeFound(e.previous[r])'
        <4>1. /\ r \in Within(d) /\ MayBeFound(r) /\ Fits(d, r)
              /\ \A s \in Within(d) : MayBeFound(s) => s = r
              /\ d.previous[r] # None => ~MayBeFound(d.previous[r])
          BY <3>1, <3>2, <3>6, <2>0 DEF IntentsFit
        <4>2. e.previous[r] # None => e.previous[r] \in Root
          BY <2>1, <3>2, <4>1, RootsHere DEF Root
        <4> QED
          BY <2>1, <3>2, <3>3, <3>6, <4>1, <4>2
      <3> QED
        BY <3>4, <3>5, <3>6 DEF IntentsFit
    <2> QED
      BY <2>3, <2>4, <2>5, <2>6 DEF Sound
  <1>2. \A p \in Process : body'[p] = "none" => ~MayBeFound(p)'
    BY DEF DiskInv, Root
  <1> QED
    BY <1>1, <1>2 DEF DiskInv

\* One intent may be found, q's.
LEMMA OneFits ==
  ASSUME NEW e, NEW q,
         \A r \in e.staging : MayBeFound(r)' => r \in marker',
         \A r \in Within(e) : MayBeFound(r)' => r = q,
         Fits(e, q)', e.previous[q] # None => ~MayBeFound(e.previous[q])'
  PROVE  IntentsFit(e)'
  <1>1. Within(e)' = Within(e)
    BY DEF Within
  <1> QED
    BY <1>1 DEF IntentsFit

\* writePrivateFileAtomically.
LEMMA WriteIntentDisk ==
  ASSUME IInv, DiskInv, OpInv, WriteIntent
  PROVE  DiskInv'
  <1>1. CASE Fails("remove")
    BY <1>1, FailsDisk DEF WriteIntent
  <1>2. CASE ~Fails("remove")
    <2>0. PICK q : q = op
      OBVIOUS
    <2>1. /\ UNCHANGED <<dirDisk, body, replaces, told, spoiled>> /\ pc = "intent"
          /\ marker' = marker \cup {q} /\ markerDisk' = [markerDisk EXCEPT ![q] = BOOLEAN]
      BY <1>2, <2>0 DEF WriteIntent, KeepDirectory, history
    <2>2. /\ q \in Process /\ q \in Root /\ markerDisk \in [Root -> SUBSET BOOLEAN]
          /\ body[q] = "whole"
      BY <2>0, <2>1, RootsHere DEF IInv, TypeOK, Restoring, Labels, Root, Complete,
         Prepared
    <2>3. MayBeFound(q)' /\ \A r \in Root : r # q => (MayBeFound(r)' <=> MayBeFound(r))
      BY <2>1, <2>2 DEF MayBeFound
    <2>4. \A d \in dirDisk : d.previous[q] = None /\ d.live # q
                             /\ d.live = dir.live /\ (replaces[q] <=> dir.live # None)
      <3>1. \A d \in dirDisk : q \notin RootsOf(d)
        BY <2>0, <2>1 DEF IInv, Apart, Staged
      <3>2. \A d \in dirDisk : d.live # q
        BY <2>2, <3>1, RestoreAssumption DEF RootsOf
      <3> QED
        BY <2>0, <2>1, <3>2 DEF OpInv, OpNamed, Preparing
    <2>5. ASSUME NEW d \in dirDisk PROVE Sound(d)'
      <3>1. Sound(d)
        BY DEF DiskInv
      <3>2. ~spoiled => \A r \in Within(d) : ~MayBeFound(r)
        BY <2>1 DEF OpInv, OpUnseen
      <3>3. ASSUME ~spoiled PROVE IntentsFit(d)'
        <4>1. \A r \in Within(d) : MayBeFound(r)' => r = q
          BY <2>3, <3>2, <3>3, RootsHere DEF Within, Root
        <4>2. Fits(d, q)'
          BY <2>1, <2>2, <2>4 DEF Fits
        <4>3. \A r \in d.staging : r \in Within(d)
          BY RootsHere DEF Within
        <4> QED
          BY <2>1, <2>4, <4>1, <4>2, <4>3, OneFits
      <3>4. \A r \in d.staging \ marker' : MayBeFound(r)' => d.previous[r] = None
        BY <2>1, <2>3, <3>1, RootsHere DEF Sound, Root
      <3>5. \A r \in d.staging :
              MayBeFound(r)' /\ d.live = None /\ d.previous[r] # None => told'.kind = "nothing"
        BY <2>1, <2>3, <2>4, <3>1, RootsHere DEF Sound, Root
      <3> QED
        BY <2>1, <3>1, <3>3, <3>4, <3>5 DEF Sound
    <2>6. told'.kind = "restored" => told'.live \in Root /\ markerDisk'[told'.live] = {FALSE}
      <3>1. told.kind = "restored" => told.live = dir.live
        BY RootsHere DEF DiskInv, Sound
      <3> QED
        BY <2>1, <2>2, <2>4, <3>1, RootsHere DEF DiskInv
    <2>7. \A r \in marker' : MayBeFound(r)'
      BY <2>1, <2>3 DEF DiskInv, IInv, TypeOK
    <2>8. \A p \in Process : body'[p] = "none" => ~MayBeFound(p)'
      BY <2>1, <2>2, <2>3 DEF DiskInv, Root
    <2> QED
      BY <2>1, <2>5, <2>6, <2>7, <2>8 DEF DiskInv
  <1> QED
    BY <1>1, <1>2

\* The steps of the activation that move a root.
LEMMA MoveDisk ==
  ASSUME IInv, DiskInv, OpInv, SetAside \/ Swap \/ PutBack
  PROVE  DiskInv'
  <1> USE RestoreAssumption
  <1>q. PICK q : q = op
    OBVIOUS
  <1>0. /\ q \in Process /\ q \in Root /\ q # None /\ q \in marker /\ MayBeFound(q)
        /\ q \in dir.staging /\ Sound(dir) /\ pc \in {"aside", "swap", "rollback"}
    <2>1. pc \in {"aside", "swap", "rollback"}
      BY DEF SetAside, Swap, PutBack
    <2> QED
      BY <1>q, <2>1, RootsHere DEF Restoring, Labels, Root, OpInv, OpPlaced, Marked,
         InStaging,
         Staged, DiskInv
  <1>1. CASE \E label : Fails(label) /\ UNCHANGED told
    BY <1>1, QuietDisk DEF SetAside, Swap, PutBack, Fails, history,
       KeepDirectory
  <1>2. ASSUME NEW e, dir' = e, dirDisk' = dirDisk \cup {e},
               UNCHANGED <<body, marker, markerDisk, replaces, spoiled>>,
               told' = told \/ told' = NothingTold, Sound(e)'
        PROVE  DiskInv'
    BY <1>2, DiskKept
  <1>3. ASSUME SetAside, ~(Fails("rollback") /\ UNCHANGED told) PROVE DiskInv'
    <2>1. PICK e : e = [dir EXCEPT !.live = None, !.previous[q] = dir.live]
      OBVIOUS
    <2>2. /\ dir' = e /\ dirDisk' = dirDisk \cup {e}
          /\ UNCHANGED <<body, marker, markerDisk, replaces, spoiled>>
          /\ told' = NothingTold /\ dir.live # None /\ replaces[q]
      BY <1>q, <1>3, <2>1 DEF contents, SetAside, Change, OpInv, OpNamed
    <2>3. /\ e.live = None /\ e.staging = dir.staging
          /\ e.previous = [dir.previous EXCEPT ![q] = dir.live]
      BY <2>1, RootsHere DEF Directory
    <2>4. /\ e.previous[q] = dir.live /\ \A r : r # q => e.previous[r] = dir.previous[r]
      BY <1>0, <2>3, RootsHere
    <2>5. ASSUME ~spoiled PROVE IntentsFit(e)'
      <3>1. q \in Within(dir) /\ dir.live \in Within(dir) /\ dir.live # q
        BY <1>0, <2>2, RootsHere DEF Within
      <3>2. /\ \A s \in Within(dir) : MayBeFound(s) => s = q
            /\ Fits(dir, q)
            /\ \A r \in dir.staging : MayBeFound(r) => r \in marker
        BY <1>0, <2>5, <3>1 DEF Sound, IntentsFit
      <3>3. Fits(e, q)' /\ ~MayBeFound(dir.live)
        BY <1>0, <2>2, <2>3, <2>4, <3>1, <3>2 DEF Fits
      <3>4. \A r \in Within(e) : r \in Within(dir)
        BY <2>3 DEF Within
      <3> QED
        <4>1. \A r : MayBeFound(r)' <=> MayBeFound(r)
          BY <2>2 DEF MayBeFound
        <4> QED
          BY <2>2, <2>3, <2>4, <3>2, <3>3, <3>4, <4>1, OneFits
    <2>6. body[q] # "none"
      BY <1>0 DEF DiskInv
    <2>7. Sound(e)'
      BY <1>0, <2>2, <2>3, <2>4, <2>5, <2>6 DEF Sound, MayBeFound, NothingTold
    <2> QED
      BY <1>2, <2>2, <2>7
  <1>4. ASSUME Swap, ~(Fails("rollback") /\ UNCHANGED told) PROVE DiskInv'
    <2>1. PICK e : e = [dir EXCEPT !.staging = @ \ {q}, !.live = q]
      OBVIOUS
    <2>2. /\ dir' = e /\ dirDisk' = dirDisk \cup {e}
          /\ UNCHANGED <<body, marker, markerDisk, replaces, spoiled>>
          /\ told' = NothingTold /\ dir.live = None
          /\ replaces[q] => dir.previous[q] # None
      BY <1>q, <1>4, <2>1 DEF contents, Swap, Change, OpInv, OpNamed, IInv, PlaceIsFree
    <2>3. e.live = q /\ e.staging = dir.staging \ {q} /\ e.previous = dir.previous
      BY <2>1, RootsHere DEF Directory
    <2>4. ASSUME ~spoiled PROVE IntentsFit(e)'
      <3>1. q \in Within(dir)
        BY <1>0 DEF Within
      <3>2. /\ \A s \in Within(dir) : MayBeFound(s) => s = q
            /\ Fits(dir, q)
            /\ \A r \in dir.staging : MayBeFound(r) => r \in marker
            /\ dir.previous[q] # None => ~MayBeFound(dir.previous[q])
        BY <1>0, <2>4, <3>1 DEF Sound, IntentsFit
      <3>3. Fits(e, q)'
        BY <2>2, <2>3, <3>2 DEF Fits
      <3>4. \A r \in Within(e) : r \in Within(dir)
        BY <2>3, <3>1 DEF Within
      <3> QED
        <4>1. \A r : MayBeFound(r)' <=> MayBeFound(r)
          BY <2>2 DEF MayBeFound
        <4> QED
          BY <2>2, <2>3, <3>2, <3>3, <3>4, <4>1, OneFits
    <2>5. Sound(e)'
      BY <1>0, <2>2, <2>3, <2>4 DEF Sound, MayBeFound, NothingTold
    <2> QED
      BY <1>2, <2>2, <2>5
  <1>5. ASSUME PutBack, ~Fails("over") PROVE DiskInv'
    <2>1. PICK e : e = [dir EXCEPT !.live = dir.previous[q], !.previous[q] = None]
      OBVIOUS
    <2>2. /\ dir' = e /\ dirDisk' = dirDisk \cup {e}
          /\ UNCHANGED <<body, marker, markerDisk, replaces, spoiled, told>>
          /\ replaces[q] /\ dir.live = None /\ dir.previous[q] # None
      BY <1>q, <1>5, <2>1 DEF contents, PutBack, Change, SetAsideOnly, LiveExists,
         PreviousExists, history
    <2>3. /\ e.live = dir.previous[q] /\ e.staging = dir.staging
          /\ e.previous = [dir.previous EXCEPT ![q] = None]
      BY <2>1, RootsHere DEF Directory
    <2>4. e.previous[q] = None /\ \A r : r # q => e.previous[r] = dir.previous[r]
      BY <1>0, <2>3, RootsHere
    <2>5. told.kind = "nothing"
      BY <1>0, <2>2 DEF Sound
    <2>6. ASSUME ~spoiled PROVE IntentsFit(e)'
      <3>1. q \in Within(dir)
        BY <1>0 DEF Within
      <3>2. /\ \A s \in Within(dir) : MayBeFound(s) => s = q
            /\ Fits(dir, q)
            /\ \A r \in dir.staging : MayBeFound(r) => r \in marker
            /\ ~MayBeFound(dir.previous[q])
        BY <1>0, <2>2, <2>6, <3>1 DEF Sound, IntentsFit
      <3>3. Fits(e, q)'
        BY <1>0, <2>2, <2>3, <2>4, <3>2 DEF Fits
      <3>4. \A r \in Within(e) : r \in Within(dir) \/ r = dir.previous[q]
        BY <2>3 DEF Within
      <3> QED
        <4>1. \A r : MayBeFound(r)' <=> MayBeFound(r)
          BY <2>2 DEF MayBeFound
        <4> QED
          BY <2>2, <2>3, <2>4, <3>2, <3>3, <3>4, <4>1, OneFits
    <2>7. \A p \in Process : body'[p] = "none" => e.previous[p] = None
      BY <1>0, <2>2, <2>4 DEF Sound
    <2>8. \A r \in e.staging \ marker' : MayBeFound(r)' => e.previous[r] = None
      <3>1. \A r \in dir.staging \ marker : MayBeFound(r) => dir.previous[r] = None
        BY <1>0 DEF Sound
      <3>2. \A r : MayBeFound(r)' <=> MayBeFound(r)
        BY <2>2 DEF MayBeFound
      <3> QED
        BY <2>2, <2>3, <2>4, <3>1, <3>2
    <2>9. Sound(e)'
      BY <2>2, <2>3, <2>5, <2>6, <2>7, <2>8 DEF Sound
    <2> QED
      BY <1>2, <2>2, <2>9
  <1> QED
    BY <1>1, <1>3, <1>4, <1>5 DEF PutBack, history

\* What the outcome that stands says of a root that is staged.
LEMMA StagedIsNoOutcome ==
  ASSUME IInv, DiskInv, pc \in Staged
  PROVE  told.kind # "nothing" => told.live # op
  <1>1. told.kind # "nothing" => told.live = dir.live
    BY RootsHere DEF DiskInv, Sound
  <1>2. op \notin RootsOf(dir) /\ op \in Process
    BY RootsHere DEF IInv, Apart, Staged, Restoring, Labels
  <1> QED
    BY <1>1, <1>2, RestoreAssumption DEF RootsOf

\* An intent that may be found in a staged root is known, but of the one that is
\* removed.
LEMMA StagedKnown ==
  ASSUME DiskInv, NEW d \in dirDisk, NEW r \in d.staging, r \notin marker, MayBeFound(r)
  PROVE  d.previous[r] = None /\ spoiled
  <1>1. Sound(d)
    BY DEF DiskInv
  <1> QED
    BY <1>1 DEF Sound, IntentsFit

\* The steps that make an intent or its end durable.
LEMMA IntentDisk ==
  ASSUME IInv, DiskInv, OpInv, SyncStaging \/ ClearIntent \/ SyncClear
  PROVE  DiskInv'
  <1>1. CASE \E label : Fails(label) /\ UNCHANGED history
    BY <1>1, FailsDisk
  <1>2. CASE ~\E label : Fails(label) /\ UNCHANGED history
    <2>q. PICK q : q = op
      OBVIOUS
    <2>1. /\ UNCHANGED <<dirDisk, body, replaces, spoiled>>
          /\ pc \in {"syncStaging", "clear", "syncClear"}
          /\ pc = "syncStaging" => /\ marker' = marker /\ told' = told
                                   /\ markerDisk' = [markerDisk EXCEPT ![q] = {TRUE}]
          /\ pc = "clear" => /\ marker' = marker \ {q} /\ told' = told
                             /\ markerDisk' = [markerDisk EXCEPT ![q] = BOOLEAN]
          /\ pc = "syncClear" => /\ marker' = marker
                                 /\ told' = [kind |-> "restored", live |-> q]
                                 /\ markerDisk' = [markerDisk EXCEPT ![q] = {FALSE}]
      BY <1>2, <2>q DEF SyncStaging, ClearIntent, SyncClear, KeepDirectory, Report,
         history
    <2>2. /\ q \in Process /\ q \in Root /\ markerDisk \in [Root -> SUBSET BOOLEAN]
          /\ marker \subseteq Root
      BY <2>q, <2>1, RootsHere DEF IInv, TypeOK, Restoring, Labels, Root
    <2>3. /\ pc \in {"syncStaging", "clear"} => MayBeFound(q)
          /\ pc = "syncClear" => q \notin marker
      BY <2>q, <2>1 DEF OpInv, OpPlaced, Marked, DiskInv
    <2>4. pc \in {"clear", "syncClear"} =>
            dirDisk = {dir} /\ dir.live = q /\ q # None /\ q \notin dir.staging
      BY <2>q, <2>1, <2>2, RootsHere, RestoreAssumption DEF OpInv, OpPlaced, OpNamed,
         InPlace
    <2>5. \A r \in Root : /\ r # q => markerDisk'[r] = markerDisk[r]
                          /\ MayBeFound(r)' => MayBeFound(r)
      BY <2>1, <2>2, <2>3 DEF MayBeFound
    <2>6. \A r \in marker' : MayBeFound(r)'
      <3>1. ASSUME NEW r \in marker', r # q PROVE MayBeFound(r)'
        <4>1. r \in marker /\ r \in Root
          BY <2>1, <2>2, <3>1
        <4> QED
          BY <2>5, <3>1, <4>1 DEF MayBeFound, DiskInv
      <3>2. pc = "syncStaging" => markerDisk'[q] = {TRUE}
        BY <2>1, <2>2
      <3>3. pc # "syncStaging" => q \notin marker'
        BY <2>1, <2>3
      <3> QED
        BY <3>1, <3>2, <3>3 DEF MayBeFound
    <2>7. \A e \in dirDisk' : \A r \in e.staging \ marker' :
            MayBeFound(r)' => e.previous[r] = None /\ spoiled'
      <3>1. SUFFICES ASSUME NEW e \in dirDisk, NEW r \in e.staging, r \notin marker', MayBeFound(r)'
                     PROVE  e.previous[r] = None /\ spoiled'
        BY <2>1
      <3>2. r \in Root /\ MayBeFound(r)
        BY <2>5, <3>1, RootsHere DEF Root
      <3>3. r \notin marker
        BY <2>1, <2>4, <3>1
      <3> QED
        BY <2>1, <3>2, <3>3, StagedKnown
    <2>8. told'.kind = "restored" => told'.live \in Root /\ markerDisk'[told'.live] = {FALSE}
      <3>1. CASE pc = "syncClear"
        <4>1. markerDisk' = [markerDisk EXCEPT ![q] = {FALSE}]
          BY <2>1, <3>1
        <4>2. told' = [kind |-> "restored", live |-> q]
          BY <2>1, <3>1
        <4> QED
          BY <2>2, <4>1, <4>2
      <3>2. CASE pc # "syncClear"
        <4>1. told.kind = "restored" => told.live # q
          BY <2>3, <2>1, <3>2 DEF DiskInv, MayBeFound
        <4> QED
          BY <2>1, <2>5, <3>2, <4>1 DEF DiskInv
      <3> QED
        BY <3>1, <3>2
    <2>9. \/ told' = told
          \/ \A e \in dirDisk' :
               /\ e.live = told'.live
               /\ e.live = None => \A r \in e.staging : MayBeFound(r)' => e.previous[r] = None
      <3>1. CASE pc = "syncClear"
        <4>1. told' = [kind |-> "restored", live |-> q]
          BY <2>1, <3>1
        <4> QED
          BY <2>1, <2>4, <3>1, <4>1
      <3>2. CASE pc # "syncClear"
        BY <2>1, <3>2
      <3> QED
        BY <3>1, <3>2
    <2>10. \A e \in dirDisk' : \E d \in dirDisk :
             e.live = d.live /\ e.previous = d.previous /\ e.staging \subseteq d.staging
      BY <2>1
    <2> QED
      BY <2>1, <2>5, <2>6, <2>7, <2>8, <2>9, <2>10, DiskShrinks
  <1> QED
    BY <1>1, <1>2

\* removeGeneratedDirectory, begun.
LEMMA RemoveSomeDisk ==
  ASSUME IInv, DiskInv, OpInv, RemoveSome
  PROVE  DiskInv'
  <1>q. PICK q : q = op
    OBVIOUS
  <1>1. PICK kept \in SUBSET {q} :
          /\ marker' = marker \ ({q} \ kept)
          /\ markerDisk' = [markerDisk EXCEPT ![q] = @ \cup Found(q, marker')]
    BY <1>q DEF RemoveSome
  <1>2. /\ pc = "remove" /\ UNCHANGED <<dirDisk, replaces, told>>
        /\ body' = [body EXCEPT ![q] = IF @ = "whole" THEN "hurt" ELSE @]
        /\ spoiled' = (spoiled \/ q \in marker)
    BY <1>q DEF RemoveSome, KeepDirectory
  <1>3. /\ q \in Process /\ q \in Root /\ markerDisk \in [Root -> SUBSET BOOLEAN]
        /\ body \in [Root -> Bodies] /\ marker \subseteq Root
    BY <1>q, <1>2, RootsHere DEF IInv, TypeOK, Restoring, Labels, Root
  <1>4. q \in dir.staging /\ \A d \in dirDisk : d.previous[q] = None
    BY <1>q, <1>2 DEF OpInv, OpPlaced, OpNamed, InStaging, Staged
  <1>5. \A r \in marker : MayBeFound(r)
    BY DEF DiskInv
  <1>6. \A r \in Root : /\ r # q => markerDisk'[r] = markerDisk[r]
                        /\ MayBeFound(r)' => MayBeFound(r)
    <2>1. \A r \in Root : r # q => markerDisk'[r] = markerDisk[r]
      BY <1>1, <1>3
    <2>2. MayBeFound(q)' => MayBeFound(q)
      <3>1. markerDisk'[q] = markerDisk[q] \cup Found(q, marker')
        BY <1>1, <1>3
      <3> QED
        BY <1>1, <1>5, <3>1 DEF MayBeFound, Found
    <2> QED
      BY <2>1, <2>2 DEF MayBeFound
  <1>7. \A r \in marker' : MayBeFound(r)'
    <2>1. \A r \in marker' : r \in marker
      BY <1>1
    <2>2. markerDisk[q] \subseteq markerDisk'[q]
      BY <1>1, <1>3
    <2> QED
      BY <1>3, <1>5, <1>6, <2>1, <2>2 DEF MayBeFound
  <1>8. \A e \in dirDisk' : \A r \in e.staging \ marker' :
          MayBeFound(r)' => e.previous[r] = None /\ spoiled'
    <2>1. SUFFICES ASSUME NEW e \in dirDisk, NEW r \in e.staging, r \notin marker', MayBeFound(r)'
                   PROVE  e.previous[r] = None /\ spoiled'
      BY <1>2
    <2>2. r \in Root /\ MayBeFound(r)
      BY <1>6, <2>1, RootsHere DEF Root
    <2>3. CASE r \in marker
      BY <1>1, <1>2, <1>4, <2>1, <2>3
    <2>4. CASE r \notin marker
      BY <1>2, <2>2, <2>4, StagedKnown
    <2> QED
      BY <2>3, <2>4
  <1>9. \A p \in Process : body'[p] = "none" => body[p] = "none"
    BY <1>2, <1>3 DEF Root
  <1>10. ~spoiled' => \A r \in Root : MayBeFound(r)' /\ body[r] = "whole" => body'[r] = "whole"
    <2>1. ~spoiled' => ~MayBeFound(q)
      BY <1>2, <1>4, StagedKnown, RootsHere
    <2> QED
      BY <1>2, <1>3, <1>6, <2>1
  <1>11. told'.kind = "restored" => told'.live \in Root /\ markerDisk'[told'.live] = {FALSE}
    BY <1>q, <1>2, <1>6, StagedIsNoOutcome DEF DiskInv, Staged
  <1>12. \A e \in dirDisk' : \E d \in dirDisk :
           e.live = d.live /\ e.previous = d.previous /\ e.staging \subseteq d.staging
    BY <1>2
  <1> QED
    BY <1>2, <1>6, <1>7, <1>8, <1>9, <1>10, <1>11, <1>12, DiskShrinks

\* The rest of it, and the report of the failure.
LEMMA RemoveRestDisk ==
  ASSUME IInv, DiskInv, OpInv, RemoveRest
  PROVE  DiskInv'
  <1>1. CASE Fails("over")
    BY <1>1, FailsDisk DEF RemoveRest
  <1>2. CASE ~Fails("over")
    <2>q. PICK q : q = op
      OBVIOUS
    <2>0. PICK e : e = [dir EXCEPT !.staging = @ \ {q}]
      OBVIOUS
    <2>1. /\ pc = "removing" /\ UNCHANGED <<body, markerDisk, replaces, told, spoiled>>
          /\ dirDisk' = dirDisk \cup {e} /\ marker' = marker \ {q}
      BY <1>2, <2>q, <2>0 DEF RemoveRest, Change, history
    <2>2. /\ \A d \in dirDisk : d.previous[q] = None
          /\ ~spoiled => ~MayBeFound(q)
      BY <2>q, <2>1 DEF OpInv, OpNamed, OpUnseen
    <2>3. e.live = dir.live /\ e.previous = dir.previous /\ e.staging = dir.staging \ {q}
      BY <2>0, RootsHere DEF Directory
    <2>4. \A r : MayBeFound(r)' <=> MayBeFound(r)
      BY <2>1 DEF MayBeFound
    <2>5. \A f \in dirDisk' : \E d \in dirDisk :
            f.live = d.live /\ f.previous = d.previous /\ f.staging \subseteq d.staging
      BY <2>1, <2>3, RootsHere
    <2>6. \A f \in dirDisk' : \A r \in f.staging \ marker' :
            MayBeFound(r)' => f.previous[r] = None /\ spoiled'
      <3>1. SUFFICES ASSUME NEW f \in dirDisk', NEW r \in f.staging, r \notin marker', MayBeFound(r)
                     PROVE  f.previous[r] = None /\ spoiled'
        BY <2>4
      <3>2. PICK d \in dirDisk : f.previous = d.previous /\ r \in d.staging
        BY <2>5, <3>1
      <3> QED
        BY <2>1, <2>2, <3>1, <3>2, StagedKnown
    <2>7. told'.kind = "restored" => told'.live \in Root /\ markerDisk'[told'.live] = {FALSE}
      BY <2>1 DEF DiskInv
    <2>8. \A r \in marker' : MayBeFound(r)'
      BY <2>1, <2>4 DEF DiskInv
    <2>9. \A p \in Process : body'[p] = "none" => body[p] = "none"
      BY <2>1
    <2>10. ~spoiled' => \A r \in Root : MayBeFound(r)' /\ body[r] = "whole" => body'[r] = "whole"
      BY <2>1
    <2> QED
      BY <2>1, <2>4, <2>5, <2>6, <2>7, <2>8, <2>9, <2>10, DiskShrinks
  <1> QED
    BY <1>1, <1>2

LEMMA SyncRemovalDisk ==
  ASSUME IInv, DiskInv, OpInv, SyncRemoval
  PROVE  DiskInv'
  <1>1. CASE \E label : Fails(label) /\ UNCHANGED history
    BY <1>1, FailsDisk
  <1>2. CASE ~\E label : Fails(label) /\ UNCHANGED history
    <2>1. /\ pc = "syncRemoval" /\ UNCHANGED <<body, marker, markerDisk, replaces, spoiled>>
          /\ dirDisk' = {dir} /\ told' = [kind |-> "failed", live |-> dir.live]
      BY <1>2 DEF SyncRemoval, SyncParent, Report, history, contents
    <2>2. \A r : MayBeFound(r)' <=> MayBeFound(r)
      BY <2>1 DEF MayBeFound
    <2>3. \A r \in dir.staging : r \notin marker
      BY <2>1 DEF OpInv, OpPlaced, Restoring, Labels
    <2>4. \A r \in dir.staging : MayBeFound(r) => dir.previous[r] = None
      BY <2>3, StagedKnown, RootsHere
    <2>5. \A e \in dirDisk' :
            /\ e.live = told'.live
            /\ e.live = None => \A r \in e.staging : MayBeFound(r)' => e.previous[r] = None
      BY <2>1, <2>2, <2>4
    <2>6. \A e \in dirDisk' : \E d \in dirDisk :
            e.live = d.live /\ e.previous = d.previous /\ e.staging \subseteq d.staging
      BY <2>1, RootsHere
    <2>7. \A e \in dirDisk' : \A r \in e.staging \ marker' :
            MayBeFound(r)' => e.previous[r] = None /\ spoiled'
      BY <2>1, <2>2, StagedKnown, RootsHere
    <2>8. \A r \in marker' : MayBeFound(r)'
      BY <2>1, <2>2 DEF DiskInv
    <2>9. told'.kind # "restored"
      BY <2>1
    <2>10. \A r \in Root : MayBeFound(r)' => MayBeFound(r)
      BY <2>2
    <2>11. /\ \A p \in Process : body'[p] = "none" => body[p] = "none"
           /\ \A r \in Root : MayBeFound(r)' /\ body[r] = "whole" => body'[r] = "whole"
      BY <2>1
    <2> QED
      BY <2>1, <2>5, <2>6, <2>7, <2>8, <2>9, <2>10, <2>11, DiskShrinks
  <1> QED
    BY <1>1, <1>2

\* The disk is any of those there may be.
LEMMA PowerDisk ==
  ASSUME IInv, DiskInv, PowerLoss
  PROVE  DiskInv'
  <1>1. /\ dir' \in dirDisk /\ dirDisk' = {dir'} /\ UNCHANGED <<replaces, told, spoiled>>
        /\ marker' \in SUBSET Root /\ \A r \in Root : (r \in marker') \in markerDisk[r]
        /\ markerDisk' = [r \in Root |-> Found(r, marker')]
    BY DEF PowerLoss, history
  <1>2. PICK back \in SUBSET {r \in Root : body[r] = "hurt"} :
          body' = [r \in Root |-> IF r \in back THEN "whole" ELSE body[r]]
    BY DEF PowerLoss
  <1>3. \A r \in Root : MayBeFound(r)' <=> r \in marker'
    BY <1>1 DEF MayBeFound, Found
  <1>4. \A r \in Root : r \in marker' => MayBeFound(r)
    BY <1>1 DEF MayBeFound
  <1>5. told'.kind = "restored" => told'.live \in Root /\ markerDisk'[told'.live] = {FALSE}
    <2>1. told.kind = "restored" => told.live \in Root /\ markerDisk[told.live] = {FALSE}
      BY DEF DiskInv
    <2>2. \A r \in Root : markerDisk[r] = {FALSE} => r \notin marker'
      BY <1>4 DEF MayBeFound
    <2> QED
      BY <1>1, <2>1, <2>2 DEF Found
  <1>6. \A r \in Root : MayBeFound(r)' => MayBeFound(r)
    BY <1>3, <1>4
  <1>7. \A r \in marker' : MayBeFound(r)'
    BY <1>1, <1>3
  <1>8. \A e \in dirDisk' : \A r \in e.staging \ marker' :
          MayBeFound(r)' => e.previous[r] = None /\ spoiled'
    <2>1. \A r \in dir'.staging : r \in Root
      BY <1>1, RootsHere DEF Root
    <2> QED
      BY <1>1, <1>3, <2>1
  <1>9. /\ \A p \in Process : body'[p] = "none" => body[p] = "none"
        /\ \A r \in Root : body[r] = "whole" => body'[r] = "whole"
    BY <1>2 DEF Root
  <1>10. \A e \in dirDisk' : \E d \in dirDisk :
           e.live = d.live /\ e.previous = d.previous /\ e.staging \subseteq d.staging
    BY <1>1
  <1> QED
    BY <1>1, <1>5, <1>6, <1>7, <1>8, <1>9, <1>10, DiskShrinks

\* The calls that move nothing: each leaves what the next one needs.
LEMMA QuietOp ==
  ASSUME IInv, DiskInv, OpInv,
         \/ SyncBefore \/ Resume \/ VerifyPrepared \/ Activate \/ SyncAside
         \/ SyncSwap \/ CheckPrevious \/ NothingToPutBack \/ SyncBack
  PROVE  OpInv'
  <1> USE RootsHere DEF OpInv, OpPlaced, OpNamed, OpUnseen, Marked, InStaging, Staged,
          InPlace, Preparing, Restoring, Labels, KeepDirectory, SyncParent, contents,
          lease, history, Fails, MayBeFound, Within
  <1>1. CASE SyncBefore
    BY <1>1 DEF SyncBefore
  <1>2. CASE Resume
    <2>1. /\ UNCHANGED <<dir, dirDisk, marker, markerDisk, spoiled>> /\ pc' = "verify"
          /\ Located = {op'}
      BY <1>2 DEF Resume
    <2>2. op' \in marker /\ op' \in Within(dir)
      BY <2>1, RestoreAssumption DEF Located, Within, Root, IInv, TypeOK
    <2>3. dir.staging \cap marker \subseteq {op'}
      BY <2>1 DEF Located
    <2> QED
      BY <2>1, <2>2, <2>3
  <1>3. CASE VerifyPrepared
    BY <1>3 DEF VerifyPrepared
  <1>4. CASE Activate
    BY <1>4 DEF Activate, LiveExists, PreviousExists, IInv, Working
  <1>5. CASE SyncAside
    BY <1>5 DEF SyncAside, IInv, PlaceIsFree
  <1>6. CASE SyncSwap
    BY <1>6 DEF SyncSwap
  <1>7. CASE CheckPrevious
    BY <1>7 DEF CheckPrevious
  <1>8. CASE NothingToPutBack
    BY <1>8 DEF NothingToPutBack, SetAsideOnly, LiveExists, PreviousExists
  <1>9. CASE SyncBack
    BY <1>9 DEF SyncBack
  <1> QED
    BY <1>1, <1>2, <1>3, <1>4, <1>5, <1>6, <1>7, <1>8, <1>9

\* The calls that make a staged root and its intent.
LEMMA MakeOp ==
  ASSUME IInv, DiskInv, OpInv, NewRestore \/ Stage \/ WriteIntent \/ SyncStaging
  PROVE  OpInv'
  <1> USE RestoreAssumption DEF OpInv, OpPlaced, OpNamed, OpUnseen, Marked, InStaging,
          Staged, InPlace, Preparing, Restoring, Labels, KeepDirectory, lease, contents,
          history, Fails
  <1>0. /\ marker \subseteq Root /\ Process \subseteq Root /\ body \in [Root -> Bodies]
        /\ replaces \in [Process -> BOOLEAN] /\ markerDisk \in [Root -> SUBSET BOOLEAN]
    BY DEF IInv, TypeOK, Root
  <1>1. ASSUME NewRestore PROVE OpInv'
    <2>1. PICK e : e = [dir EXCEPT !.staging = @ \cup {owner}]
      OBVIOUS
    <2>2. PICK q : q = owner
      OBVIOUS
    <2>3. /\ UNCHANGED <<marker, markerDisk>> /\ pc' = "stage" /\ op' = q
          /\ dir' = e /\ dirDisk' = {dir, e} /\ q \in Process /\ body[q] = "none"
          /\ Located = {} /\ spoiled' = (spoiled \/ Lingering)
      BY <1>1, <2>1, <2>2 DEF NewRestore, Change, IInv, TypeOK, Working
    <2>4. e.live = dir.live /\ e.staging = dir.staging \cup {q} /\ e.previous = dir.previous
      BY <2>1, <2>2, RootsHere DEF Directory
    <2>5. ~MayBeFound(q) /\ dir.previous[q] = None
      BY <2>3, RootsHere DEF DiskInv, Sound
    <2>6. e.staging \cap marker \subseteq {q}
      BY <2>3, <2>4 DEF Located
    <2>7. ~spoiled' => \A r \in Within(dir) : ~MayBeFound(r)
      BY <2>3, NoneWithin
    <2>8. ~spoiled' => \A d \in dirDisk' : \A r \in Within(d) : ~MayBeFound(r)
      BY <2>3, <2>4, <2>5, <2>7 DEF Within
    <2>9. OpPlaced'
      BY <2>3, <2>4, <2>5, <2>6 DEF MayBeFound
    <2>10. OpNamed'
      BY <2>3, <2>4, <2>5
    <2>11. ~spoiled' => OpUnseen'
      BY <2>3, <2>8 DEF MayBeFound, Within
    <2> QED
      BY <2>9, <2>10, <2>11
  <1>2. ASSUME Stage PROVE OpInv'
    <2>1. CASE Fails("remove")
      BY <1>2, <2>1 DEF Stage
    <2>2. CASE ~Fails("remove")
      <3>1. /\ UNCHANGED <<dir, dirDisk, marker, markerDisk, op, spoiled>> /\ pc = "stage"
            /\ pc' = "intent" /\ replaces' = [replaces EXCEPT ![op] = dir.live # None]
        BY <1>2, <2>2 DEF Stage
      <3>2. replaces'[op] <=> dir.live # None
        BY <1>0, <3>1, RootsHere
      <3> QED
        BY <3>1, <3>2 DEF MayBeFound, Within
    <2> QED
      BY <2>1, <2>2
  <1>3. ASSUME WriteIntent PROVE OpInv'
    BY <1>3 DEF WriteIntent
  <1>4. ASSUME SyncStaging PROVE OpInv'
    BY <1>4 DEF SyncStaging
  <1> QED
    BY <1>1, <1>2, <1>3, <1>4

\* The calls that move a root.
LEMMA MoveOp ==
  ASSUME IInv, DiskInv, OpInv, SetAside \/ Swap \/ PutBack
  PROVE  OpInv'
  <1> USE RestoreAssumption DEF OpInv, OpPlaced, OpNamed, OpUnseen, Marked, InStaging,
          Staged, InPlace, Preparing, Restoring, Labels, lease, contents
  <1>0. op \in Process /\ dir.previous \in [Process -> Root \cup {None}]
    BY RootsHere DEF SetAside, Swap, PutBack
  <1>1. ASSUME SetAside PROVE OpInv'
    <2>1. CASE Fails("rollback")
      BY <1>1, <2>1 DEF SetAside, Fails, KeepDirectory
    <2>2. CASE ~Fails("rollback")
      <3>1. PICK e : e = [dir EXCEPT !.live = None, !.previous[op] = dir.live]
        OBVIOUS
      <3>2. /\ UNCHANGED <<marker, markerDisk, replaces, op, spoiled>>
            /\ dir' = e /\ dirDisk' = dirDisk \cup {e} /\ pc = "aside" /\ pc' = "syncAside"
        BY <1>1, <2>2, <3>1 DEF SetAside, Change
      <3>3. e.live = None /\ e.staging = dir.staging /\ e.previous[op] = dir.live
        BY <1>0, <3>1, RootsHere DEF Directory
      <3> QED
        BY <3>2, <3>3
    <2> QED
      BY <2>1, <2>2
  <1>2. ASSUME Swap PROVE OpInv'
    <2>1. CASE Fails("rollback")
      BY <1>2, <2>1 DEF Swap, Fails, KeepDirectory, IInv, PlaceIsFree
    <2>2. CASE ~Fails("rollback")
      <3>1. PICK e : e = [dir EXCEPT !.staging = @ \ {op}, !.live = op]
        OBVIOUS
      <3>2. /\ UNCHANGED <<marker, markerDisk, replaces, op, spoiled>>
            /\ dir' = e /\ dirDisk' = dirDisk \cup {e} /\ pc = "swap" /\ pc' = "syncSwap"
        BY <1>2, <2>2, <3>1 DEF Swap, Change
      <3>3. e.live = op /\ e.staging = dir.staging \ {op}
        BY <1>0, <3>1, RootsHere DEF Directory
      <3> QED
        BY <3>2, <3>3
    <2> QED
      BY <2>1, <2>2
  <1>3. ASSUME PutBack PROVE OpInv'
    <2>1. CASE Fails("over")
      BY <1>3, <2>1 DEF PutBack, Fails
    <2>2. CASE ~Fails("over")
      <3>1. PICK e : e = [dir EXCEPT !.live = dir.previous[op], !.previous[op] = None]
        OBVIOUS
      <3>2. /\ UNCHANGED <<marker, markerDisk, replaces, op, spoiled>>
            /\ dir' = e /\ dirDisk' = dirDisk \cup {e}
            /\ pc = "rollback" /\ pc' = "syncBack" /\ op \in dir.staging
        BY <1>3, <2>2, <3>1 DEF PutBack, Change, SetAsideOnly, history
      <3>3. e.staging = dir.staging /\ e.previous[op] = None
        BY <1>0, <3>1, RootsHere DEF Directory
      <3> QED
        BY <3>2, <3>3
    <2> QED
      BY <2>1, <2>2
  <1> QED
    BY <1>1, <1>2, <1>3

\* The calls that remove an intent or a staged root.
LEMMA RemoveOp ==
  ASSUME IInv, DiskInv, OpInv, ClearIntent \/ RemoveSome \/ RemoveRest
  PROVE  OpInv'
  <1> USE RestoreAssumption DEF OpInv, OpPlaced, OpNamed, OpUnseen, Marked, InStaging,
          Staged, InPlace, Preparing, Restoring, Labels, lease, contents, history,
          KeepDirectory
  <1>1. ASSUME ClearIntent PROVE OpInv'
    BY <1>1 DEF ClearIntent, Fails
  <1>2. ASSUME RemoveSome PROVE OpInv'
    <2>q. PICK q : q = op
      OBVIOUS
    <2>1. /\ UNCHANGED <<dir, dirDisk, op>> /\ pc = "remove" /\ pc' = "removing"
          /\ marker' \subseteq marker
          /\ spoiled' = (spoiled \/ q \in marker)
          /\ markerDisk' = [markerDisk EXCEPT ![q] = @ \cup Found(q, marker')]
      BY <1>2, <2>q DEF RemoveSome
    <2>2. ~spoiled' => ~MayBeFound(q)'
      <3>1. ~spoiled' => ~MayBeFound(q)
        BY <2>q, <2>1, StagedKnown, RootsHere
      <3>2. q \in Root /\ markerDisk \in [Root -> SUBSET BOOLEAN]
        BY <2>q, <2>1, RootsHere DEF IInv, TypeOK, Root
      <3> QED
        BY <2>1, <3>1, <3>2 DEF MayBeFound, Found
    <2> QED
      BY <2>q, <2>1, <2>2 DEF MayBeFound
  <1>3. ASSUME RemoveRest PROVE OpInv'
    <2>1. CASE Fails("over")
      BY <1>3, <2>1, OpOver DEF RemoveRest, Fails
    <2>2. CASE ~Fails("over")
      <3>1. PICK e : e = [dir EXCEPT !.staging = @ \ {op}]
        OBVIOUS
      <3>2. /\ op' = op /\ dir' = e /\ pc = "removing" /\ pc' = "syncRemoval"
            /\ marker' = marker \ {op}
        BY <1>3, <2>2, <3>1 DEF RemoveRest, Change
      <3>3. e.staging = dir.staging \ {op}
        BY <3>1, RootsHere DEF Directory
      <3> QED
        BY <3>2, <3>3
    <2> QED
      BY <2>1, <2>2
  <1> QED
    BY <1>1, <1>2, <1>3

-----------------------------------------------------------------------------
LEMMA InitOutcome == Init => OutcomeInv
  <1> SUFFICES ASSUME Init PROVE OutcomeInv
    OBVIOUS
  <1>1. IInv
    BY InitIInv
  <1>2. /\ pc = "idle" /\ marker = {} /\ told.kind = "nothing" /\ dirDisk = {dir}
        /\ dir.staging = {} /\ dir.previous = [p \in Process |-> None]
        /\ \A r \in Root : markerDisk[r] = {FALSE}
    BY DEF Init, NothingTold
  <1>3. \A r \in Root : ~MayBeFound(r)
    BY <1>2 DEF MayBeFound
  <1>4. \A r \in Within(dir) : r \in Root
    BY <1>1, RootsHere DEF Within, Root
  <1>5. DiskInv
    BY <1>2, <1>3, <1>4 DEF DiskInv, Sound, IntentsFit, Root
  <1>6. OpInv
    BY <1>2 DEF OpInv, OpPlaced, OpNamed, OpUnseen, Marked, InStaging, Staged, InPlace,
       Preparing, Restoring, Labels
  <1> QED
    BY <1>1, <1>5, <1>6 DEF OutcomeInv

LEMMA NextOutcome == OutcomeInv /\ [Next]_vars => OutcomeInv'
  <1> SUFFICES ASSUME OutcomeInv, [Next]_vars PROVE OutcomeInv'
    OBVIOUS
  <1> USE DEF lease, history
  <1>0. IInv /\ DiskInv /\ OpInv /\ IInv'
    BY NextIInv DEF OutcomeInv
  <1>1. pc' \in Labels
    BY <1>0 DEF IInv, TypeOK
  <1>2. ASSUME NEW p \in Process, Begin(p) \/ Leave(p) \/ Crash(p) PROVE DiskInv' /\ OpInv'
    <2>1. pc' \in {"begin", "idle"}
      BY <1>2 DEF Begin, Leave, Crash
    <2>2. /\ UNCHANGED <<dir, contents, told>> /\ spoiled' = spoiled
          /\ dirDisk' = dirDisk \/ dirDisk' = {dir}
      BY <1>2 DEF Begin, Leave, Crash, SyncParent, KeepDirectory
    <2> QED
      BY <1>0, <1>1, <2>1, <2>2, OpOver, QuietDisk DEF Restoring
  <1>3. CASE PowerLoss
    <2>1. pc' = "idle"
      BY <1>3 DEF PowerLoss
    <2> QED
      BY <1>0, <1>1, <1>3, <2>1, OpOver, PowerDisk DEF OutcomeInv, Restoring
  <1>4. CASE Serve \/ ServeNew \/ Quarantine
    <2>1. pc' \in {"serving", "syncQuarantine"}
      BY <1>4 DEF Serve, ServeNew, Quarantine
    <2> QED
      BY <1>0, <1>1, <1>4, <2>1, OpOver, OpenDisk DEF OutcomeInv, Restoring
  <1>5. CASE SyncQuarantine
    <2>1. pc' = "over"
      BY <1>5 DEF SyncQuarantine, Fails
    <2>2. /\ UNCHANGED <<dir, contents, told>> /\ spoiled' = spoiled
          /\ dirDisk' = dirDisk \/ dirDisk' = {dir}
      BY <1>5 DEF SyncQuarantine, SyncParent, Fails, KeepDirectory
    <2> QED
      BY <1>0, <1>1, <2>1, <2>2, OpOver, QuietDisk DEF OutcomeInv, Restoring
  <1>6. CASE RestoreStep
    <2>1. CASE SyncBefore \/ Resume \/ VerifyPrepared \/ Activate \/ SyncAside
               \/ SyncSwap \/ CheckPrevious \/ NothingToPutBack \/ SyncBack
      <3>1. /\ UNCHANGED <<dir, contents, told>> /\ spoiled' = spoiled
            /\ dirDisk' = dirDisk \/ dirDisk' = {dir}
        BY <2>1 DEF SyncBefore, Resume, VerifyPrepared, Activate, SyncAside, SyncSwap,
           CheckPrevious, NothingToPutBack, SyncBack, SyncParent, KeepDirectory, Fails
      <3> QED
        BY <1>0, <2>1, <3>1, QuietDisk, QuietOp DEF OutcomeInv
    <2>2. CASE NewRestore \/ Stage \/ WriteIntent \/ SyncStaging
      BY <1>0, <2>2, MakeDisk, WriteIntentDisk, IntentDisk, MakeOp DEF OutcomeInv
    <2>3. CASE SetAside \/ Swap \/ PutBack
      BY <1>0, <2>3, MoveDisk, MoveOp DEF OutcomeInv
    <2>4. CASE ClearIntent \/ RemoveSome \/ RemoveRest
      BY <1>0, <2>4, IntentDisk, RemoveSomeDisk, RemoveRestDisk, RemoveOp DEF OutcomeInv
    <2>5. CASE SyncClear \/ SyncRemoval
      <3>1. pc' = "over"
        BY <2>5 DEF SyncClear, SyncRemoval, Fails
      <3> QED
        BY <1>0, <1>1, <2>5, <3>1, IntentDisk, SyncRemovalDisk, OpOver
           DEF OutcomeInv, Restoring
    <2> QED
      BY <1>6, <2>1, <2>2, <2>3, <2>4, <2>5 DEF RestoreStep
  <1>7. CASE UNCHANGED vars
    <2>1. DiskInv'
      BY <1>0, <1>7, QuietDisk DEF vars
    <2>2. OpInv'
      <3>1. UNCHANGED <<pc, op, dir, dirDisk, marker, markerDisk, replaces, spoiled>>
        BY <1>7 DEF vars, contents
      <3>2. OpPlaced'
        BY <1>0, <3>1 DEF OpInv, OpPlaced, MayBeFound, Within
      <3>4. OpNamed'
        BY <1>0, <3>1 DEF OpInv, OpNamed
      <3>3. ~spoiled' => OpUnseen'
        BY <1>0, <3>1 DEF OpInv, OpUnseen, MayBeFound, Within
      <3> QED
        BY <3>2, <3>3, <3>4 DEF OpInv
    <2> QED
      BY <1>0, <2>1, <2>2 DEF OutcomeInv
  <1> QED
    BY <1>0, <1>2, <1>3, <1>4, <1>5, <1>6, <1>7 DEF Next, OutcomeInv

LEMMA OutcomeInvariance == Spec => []OutcomeInv
  BY InitOutcome, NextOutcome, PTL DEF Spec

\* A restore that reported success is the live root on every disk a loss of power
\* may leave, and its intent on none; one that reported a failure left the root
\* there was.
THEOREM OutcomeTheorem == Spec => []OutcomeIsDurable
  <1>1. OutcomeInv => OutcomeIsDurable
    BY DEF OutcomeInv, DiskInv, Sound, OutcomeIsDurable
  <1> QED
    BY <1>1, OutcomeInvariance, PTL

\* On every disk a loss of power may leave, one intent is found at most, and what
\* there is says how far its restore came, unless the evidence was spoiled.
THEOREM ResumableTheorem == Spec => []Resumable
  <1>1. OutcomeInv => Resumable
    <2>1. SUFFICES ASSUME OutcomeInv, ~spoiled, NEW d \in dirDisk, NEW m \in SUBSET Root,
                          \A r \in Root : (r \in m) \in markerDisk[r]
                   PROVE  CanResume(d, m)
      BY DEF Resumable
    <2> DEFINE found == {r \in m : r = d.live \/ r \in d.staging}
    <2>2. IntentsFit(d)
      BY <2>1 DEF OutcomeInv, DiskInv, Sound
    <2>3. \A r \in found : r \in Within(d) /\ MayBeFound(r)
      BY <2>1, RestoreAssumption DEF Within, MayBeFound, Root
    <2>4. ASSUME NEW r \in found
          PROVE  found = {r} /\ Fits(d, r)
      BY <2>2, <2>3 DEF IntentsFit
    <2>5. ASSUME NEW r \in found
          PROVE  /\ body[r] = "whole"
                 /\ IF d.live = r THEN replaces[r] => d.previous[r] # None
                    ELSE IF replaces[r] THEN (d.live = None) = (d.previous[r] # None)
                    ELSE d.live = None
      BY <2>4 DEF Fits
    <2> QED
      BY <2>4, <2>5 DEF CanResume
  <1> QED
    BY <1>1, OutcomeInvariance, PTL

============================================================================
