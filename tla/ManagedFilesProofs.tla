------------------------- MODULE ManagedFilesProofs --------------------------
(***************************************************************************)
(* The files of an artifact for every number of calls, revisions, crashes  *)
(* and faults: type correctness, that the committed record names a file    *)
(* that holds its bytes, that whoever chose a revision finds it, and that  *)
(* no file is left behind without a crash or a failure.                    *)
(***************************************************************************)
EXTENDS ManagedFiles, FiniteSetTheorems, TLAPS

------------------------------------------------------------------------------
\* The inductive invariant

Making(c) ==
  pc[c] \in {"publishing", "writing", "undoing", "checking", "discarding"}

\* What a call has in hand at the step it is at.
Placed(c) ==
  /\ Making(c) \/ pc[c] \in {"reading", "looking up"} => base[c] # None
  /\ Making(c) \/ (pc[c] \in {"reading", "looking up"} /\ Kind[c] # "read")
       => base[c].rev < MaxRevision
  /\ pc[c] \in {"looking up", "publishing", "writing"} =>
       Kind[c] \in {"append", "update"}
  /\ pc[c] = "reading" => Kind[c] \in {"append", "read"}

WellPlaced == \A c \in Calls : Placed(c)

Holds(c) == pc[c] \in {"snapshot", "copying"}

\* One backup at a time, and the barrier is up exactly while it holds it.
OneBarrier ==
  /\ \A c \in Calls : pc[c] = "barrier" \/ Holds(c) => Kind[c] = "backup"
  /\ \A c, d \in Calls :
       Kind[c] = "backup" /\ Kind[d] = "backup" /\ Active(c) /\ Active(d) => c = d
  /\ barriers = IF \E c \in Calls : Holds(c) THEN 1 ELSE 0

\* Keys that are owed or being deleted, and the records calls began with, are
\* behind the committed record.
Behind ==
  Exists(row) =>
    /\ \A k \in gc : k < row.rev
    /\ \A c \in Calls : \A k \in todo[c] : k < row.rev
    /\ \A c \in Calls : Exists(base[c]) => base[c].rev <= row.rev

\* A transaction that can still succeed finds its file in place, and what is
\* cleaned up is behind the committed record.
CleanupIsLate ==
  \A c \in Calls :
    /\ pc[c] = "writing" /\ Current(c) => disk[Target(c)] = Bytes(c)
    /\ pc[c] # "undoing"
    /\ pc[c] = "checking" /\ Exists(row) => base[c].rev < row.rev
    /\ pc[c] = "discarding" /\ Exists(row) => Target(c) < row.rev

\* A call is past its first look at the receipts.
Looked(c) ==
  Kind[c] # "read" /\ pc[c] \in {"reading", "publishing", "writing"}

\* An operation that got its receipt after a call of it looked took the record
\* from that call.
DoneIsPast == \A c \in Calls : Looked(c) /\ Known(c) => ~Current(c)

FilesInv ==
  /\ TypeOK /\ WellPlaced /\ OneBarrier /\ Behind /\ DoneIsPast
  /\ ~writeFailed => CleanupIsLate
  /\ RowHasFile

------------------------------------------------------------------------------
\* Operators

\* A revision made from one that is not the last is within the bound.
LEMMA NewRevision ==
  ASSUME FilesAssumption, TypeOK, NEW c \in Calls,
         base[c] # None, base[c].rev < MaxRevision
  PROVE  Target(c) \in Revision /\ Bytes(c) \in Content
<1> DEFINE texts == {Text[d] : d \in Calls}
<1>1. base[c] \in [rev : Revision, content : Seq(texts)]
  BY DEF TypeOK, Record, Content
<1>2. Text[c] \in texts
  OBVIOUS
<1> HIDE DEF texts
<1>3. Append(base[c].content, Text[c]) \in Seq(texts) /\ <<Text[c]>> \in Seq(texts)
  BY <1>1, <1>2
<1>4. Content = Seq(texts)
  BY DEF Content, texts
<1> QED
  BY <1>1, <1>3, <1>4 DEF Target, Bytes, Revision, FilesAssumption

AllSteps == FileSteps \cup DbSteps \cup Ended \cup {"idle", "copying"}

\* What a call asks for when it looked at the receipts.
LEMMA RequestType ==
  ASSUME FilesAssumption, TypeOK, NEW c \in Calls, base[c] # None
  PROVE  RequestOf(c) \in Request
<1>1. base[c].rev \in Revision /\ Kind[c] \in Kinds /\ MaxRevision \in Nat
  BY DEF TypeOK, Record, FilesAssumption
<1>2. base[c].rev \in 0 .. MaxRevision /\ 0 \in 0 .. MaxRevision
  BY <1>1 DEF Revision
<1> QED
  BY <1>1, <1>2 DEF RequestOf, Request

\* A call that moves on keeps the queues and the call's own state well typed.
LEMMA MovesKeepType ==
  ASSUME TypeOK, NEW c \in Calls,
         pc[c] \in FileSteps => fileQueue # <<>>,
         pc[c] \in DbSteps => dbQueue # <<>>,
         NEW step \in AllSteps, NEW record \in Record \cup {None},
         GoesWith(c, step, record)
  PROVE  /\ pc' \in [Calls -> AllSteps] /\ base' \in [Calls -> Record \cup {None}]
         /\ fileQueue' \in Seq(Calls) /\ dbQueue' \in Seq(Calls)
<1>1. pc' \in [Calls -> AllSteps] /\ base' \in [Calls -> Record \cup {None}]
  BY DEF GoesWith, TypeOK, AllSteps
<1>2. ASSUME NEW queue \in Seq(Calls), NEW steps, pc[c] \in steps => queue # <<>>
      PROVE  Moved(queue, steps, c, step) \in Seq(Calls)
  BY <1>2 DEF Moved
<1>3. fileQueue' \in Seq(Calls) /\ dbQueue' \in Seq(Calls)
  BY <1>2 DEF GoesWith, TypeOK
<1> QED
  BY <1>1, <1>3

------------------------------------------------------------------------------
\* Type correctness

\* Every action of a call takes it from the step it is at to one that follows.
LEMMA StepMoves ==
  ASSUME TypeOK, NEW c \in Calls, Step(c)
  PROVE  \E from \in AllSteps, step \in AllSteps, record \in Record \cup {None} :
           Turn(c, from) /\ GoesWith(c, step, record)
<1>1. ASSUME NEW step, GoesTo(c, step)
      PROVE  \E record \in Record \cup {None} : GoesWith(c, step, record)
  BY <1>1 DEF GoesTo, TypeOK
<1> SUFFICES \E from \in AllSteps, step \in AllSteps :
               /\ Turn(c, from)
               /\ GoesTo(c, step) \/ GoesWith(c, step, row)
  BY <1>1 DEF TypeOK
<1> USE DEF AllSteps, FileSteps, DbSteps, Ended
<1>2. CASE FileTurn(c)
  <2>1. CASE Read(c)
    BY <2>1 DEF Read
  <2>2. CASE Publish(c)
    BY <2>2 DEF Publish
  <2>3. CASE PublishFails(c)
    BY <2>3 DEF PublishFails
  <2>4. CASE Undo(c)
    BY <2>4 DEF Undo
  <2>5. CASE Discard(c)
    BY <2>5 DEF Discard
  <2>6. CASE CleanupFails(c)
    BY <2>6 DEF CleanupFails
  <2>7. CASE Sweep(c)
    BY <2>7 DEF Sweep, AfterSweep
  <2>8. CASE SweepFails(c)
    BY <2>8 DEF SweepFails
  <2>9. CASE BeginBarrier(c)
    BY <2>9 DEF BeginBarrier
  <2> QED
    BY <1>2, <2>1, <2>2, <2>3, <2>4, <2>5, <2>6, <2>7, <2>8, <2>9 DEF FileTurn
<1>3. CASE DbTurn(c)
  <2>1. CASE LookUp(c)
    BY <2>1 DEF LookUp
  <2>2. CASE Write(c)
    BY <2>2 DEF Write
  <2>3. CASE WriteFails(c)
    BY <2>3 DEF WriteFails
  <2>4. CASE Check(c)
    BY <2>4 DEF Check
  <2>5. CASE Purge(c)
    BY <2>5 DEF Purge
  <2>6. CASE Collect(c)
    BY <2>6 DEF Collect
  <2>7. CASE Note(c)
    BY <2>7 DEF Note, AfterSweep
  <2>8. CASE Clear(c)
    BY <2>8 DEF Clear
  <2>9. CASE Snapshot(c)
    BY <2>9 DEF Snapshot
  <2> QED
    BY <1>3, <2>1, <2>2, <2>3, <2>4, <2>5, <2>6, <2>7, <2>8, <2>9 DEF DbTurn
<1>4. CASE Copy(c)
  <2>1. Turn(c, "copying")
    BY <1>4 DEF Copy, MayCopy, Turn
  <2> QED
    BY <1>4, <2>1 DEF Copy
<1>5. CASE BackupFails(c)
  <2>1. Turn(c, "snapshot") \/ Turn(c, "copying")
    BY <1>5 DEF BackupFails, MayCopy, Turn
  <2> QED
    BY <1>5, <2>1 DEF BackupFails
<1> QED
  BY <1>2, <1>3, <1>4, <1>5 DEF Step

\* A step of a call keeps the state well typed.
LEMMA StepKeepsType ==
  ASSUME FilesAssumption, TypeOK, WellPlaced, OneBarrier, NEW c \in Calls, Step(c)
  PROVE  TypeOK'
<1> DEFINE Rest ==
      /\ disk \in [Revision -> Content \cup {None}] /\ row \in Record \cup {None}
      /\ gc \in SUBSET Revision /\ receipts \in SUBSET Request
      /\ barriers \in Nat /\ phase \in {"starting", "up", "refused"}
      /\ todo \in [Calls -> SUBSET Revision] /\ swept \in [Calls -> SUBSET Revision]
      /\ crashes \in 0 .. MaxCrashes /\ faults \in 0 .. MaxFaults
      /\ writeFailed \in BOOLEAN
<1>1. Rest
  BY DEF TypeOK
<1>2. PICK from \in AllSteps, step \in AllSteps, record \in Record \cup {None} :
        Turn(c, from) /\ GoesWith(c, step, record)
  BY StepMoves
<1>3. /\ pc' \in [Calls -> AllSteps] /\ base' \in [Calls -> Record \cup {None}]
      /\ fileQueue' \in Seq(Calls) /\ dbQueue' \in Seq(Calls)
  BY <1>2, MovesKeepType DEF Turn
<1>4. pc[c] \in {"publishing", "writing", "undoing", "checking", "discarding"}
        => Target(c) \in Revision /\ Bytes(c) \in Content
  BY NewRevision DEF WellPlaced, Placed, Making
<1>5. /\ Exists(base[c]) => base[c].rev \in Revision
      /\ pc[c] = "writing" => RequestOf(c) \in Request
  BY RequestType DEF Exists, TypeOK, Record, WellPlaced, Placed, Making
<1>6. Holds(c) => barriers = 1
  BY DEF OneBarrier
<1>7. ASSUME FileTurn(c) PROVE Rest'
  <2>1. CASE Read(c)
    BY <2>1, <1>1 DEF Read, NoFault, Fault, durable, troubles, sweeps
  <2>2. CASE Publish(c)
    BY <2>2, <1>1, <1>4 DEF Publish, Turn, NoFault, Fault, durable, troubles, sweeps
  <2>3. CASE PublishFails(c)
    BY <2>3, <1>1, <1>4, FilesAssumption DEF PublishFails, Turn, NoFault, Fault,
       durable, troubles, sweeps
  <2>4. CASE Undo(c)
    BY <2>4, <1>1, <1>4 DEF Undo, Deleted, Turn, NoFault, Fault, durable, troubles,
       sweeps
  <2>5. CASE Discard(c)
    BY <2>5, <1>1, <1>4 DEF Discard, Deleted, Turn, NoFault, Fault, durable, troubles,
       sweeps
  <2>6. CASE CleanupFails(c)
    BY <2>6, <1>1, FilesAssumption DEF CleanupFails, NoFault, Fault, durable,
       troubles, sweeps
  <2>7. CASE Sweep(c)
    BY <2>7, <1>1 DEF Sweep, Deleted, NoFault, Fault, durable, troubles, sweeps
  <2>8. CASE SweepFails(c)
    BY <2>8, <1>1, FilesAssumption DEF SweepFails, NoFault, Fault, durable, troubles,
       sweeps
  <2>9. CASE BeginBarrier(c)
    BY <2>9, <1>1 DEF BeginBarrier, NoFault, Fault, durable, troubles, sweeps
  <2> QED
    BY <1>7, <2>1, <2>2, <2>3, <2>4, <2>5, <2>6, <2>7, <2>8, <2>9 DEF FileTurn
<1>8. ASSUME DbTurn(c) PROVE Rest'
  <2>1. CASE LookUp(c)
    BY <2>1, <1>1 DEF LookUp, NoFault, Fault, durable, troubles, sweeps
  <2>2. CASE Write(c)
    BY <2>2, <1>1, <1>4, <1>5 DEF Write, Current, Exists, Record, Turn, NoFault,
       Fault, durable, troubles, sweeps
  <2>3. CASE WriteFails(c)
    BY <2>3, <1>1, FilesAssumption DEF WriteFails, NoFault, Fault, durable, troubles,
       sweeps
  <2>4. CASE Check(c)
    BY <2>4, <1>1 DEF Check, NoFault, Fault, durable, troubles, sweeps
  <2>5. CASE Purge(c)
    BY <2>5, <1>1 DEF Purge, Exists, Record, NoFault, Fault, durable, troubles, sweeps
  <2>6. CASE Collect(c)
    BY <2>6, <1>1 DEF Collect, NoFault, Fault, durable, troubles, sweeps
  <2>7. CASE Note(c)
    BY <2>7, <1>1 DEF Note, NoFault, Fault, durable, troubles, sweeps
  <2>8. CASE Clear(c)
    BY <2>8, <1>1 DEF Clear, NoFault, Fault, durable, troubles, sweeps
  <2>9. CASE Snapshot(c)
    BY <2>9, <1>1 DEF Snapshot, NoFault, Fault, durable, troubles, sweeps
  <2> QED
    BY <1>8, <2>1, <2>2, <2>3, <2>4, <2>5, <2>6, <2>7, <2>8, <2>9 DEF DbTurn
<1>9. ASSUME Copy(c) PROVE Rest'
  BY <1>9, <1>1, <1>6 DEF Copy, Released, MayCopy, Holds, NoFault, Fault, durable,
     troubles, sweeps
<1>10. ASSUME BackupFails(c) PROVE Rest'
  BY <1>10, <1>1, <1>6, FilesAssumption DEF BackupFails, Released, MayCopy, Holds,
     Turn, NoFault, Fault, durable, troubles, sweeps
<1>11. Rest'
  BY <1>7, <1>8, <1>9, <1>10 DEF Step
<1> QED
  BY <1>3, <1>11 DEF TypeOK, AllSteps

\* The first queue a call waits in.
LEMMA FirstStepOfKind ==
  ASSUME FilesAssumption, NEW c \in Calls
  PROVE  \/ FirstStep(c) = "looking up" /\ Kind[c] \in {"append", "update"}
         \/ FirstStep(c) = "reading" /\ Kind[c] = "read"
         \/ FirstStep(c) = "purging" /\ Kind[c] = "purge"
         \/ FirstStep(c) = "barrier" /\ Kind[c] = "backup"
<1>1. Kind[c] \in Kinds
  BY DEF FilesAssumption
<1>2. CASE Kind[c] = "append"
  BY <1>2 DEF FirstStep
<1>3. CASE Kind[c] = "update"
  BY <1>3 DEF FirstStep
<1>4. CASE Kind[c] = "read"
  BY <1>4 DEF FirstStep
<1>5. CASE Kind[c] = "purge"
  BY <1>5 DEF FirstStep
<1>6. CASE Kind[c] = "backup"
  BY <1>6 DEF FirstStep
<1> QED
  BY <1>1, <1>2, <1>3, <1>4, <1>5, <1>6 DEF Kinds

\* Only the call that steps is somewhere else.
LEMMA OthersStay ==
  ASSUME FilesAssumption, TypeOK, NEW c \in Calls, Step(c) \/ Begin(c),
         NEW d \in Calls, d # c
  PROVE  pc'[d] = pc[d] /\ base'[d] = base[d]
<1>1. \E step \in AllSteps, record \in Record \cup {None} : GoesWith(c, step, record)
  <2>1. CASE Step(c)
    BY <2>1, StepMoves
  <2>2. CASE Begin(c)
    BY <2>2, FirstStepOfKind DEF Begin, AllSteps, FileSteps, DbSteps, TypeOK
  <2> QED
    BY <2>1, <2>2
<1> QED
  BY <1>1 DEF GoesWith, TypeOK

\* So does a call that begins.
LEMMA BeginKeepsType ==
  ASSUME FilesAssumption, TypeOK, NEW c \in Calls, Begin(c)
  PROVE  TypeOK'
<1>1. GoesWith(c, FirstStep(c), row) /\ pc[c] = "idle"
  BY DEF Begin
<1>2. FirstStep(c) \in AllSteps /\ row \in Record \cup {None}
  BY FirstStepOfKind DEF AllSteps, FileSteps, DbSteps, TypeOK
<1>3. pc[c] \notin FileSteps /\ pc[c] \notin DbSteps
  BY <1>1 DEF FileSteps, DbSteps
<1>4. /\ pc' \in [Calls -> AllSteps] /\ base' \in [Calls -> Record \cup {None}]
      /\ fileQueue' \in Seq(Calls) /\ dbQueue' \in Seq(Calls)
  BY <1>1, <1>2, <1>3, MovesKeepType
<1> QED
  BY <1>4 DEF Begin, TypeOK, AllSteps, NoFault, durable, troubles, sweeps

\* So does a crash.
LEMMA CrashKeepsType ==
  ASSUME FilesAssumption, TypeOK, Crash
  PROVE  TypeOK'
<1>1. \A c \in Calls : pc'[c] \in {pc[c], "over"} /\ base'[c] \in {base[c], None}
  BY DEF Crash
<1>2. pc' \in [Calls -> AllSteps] /\ base' \in [Calls -> Record \cup {None}]
  BY <1>1 DEF Crash, TypeOK, AllSteps, Ended
<1>3. todo' \in [Calls -> SUBSET Revision] /\ swept' \in [Calls -> SUBSET Revision]
  BY DEF Crash
<1> QED
  BY <1>2, <1>3, FilesAssumption DEF Crash, TypeOK, AllSteps, durable

\* So does a start, which counts the deletions that fail.
LEMMA StartKeepsType ==
  ASSUME FilesAssumption, TypeOK, Start
  PROVE  TypeOK'
<1>1. disk' \in [Revision -> Content \cup {None}] /\ gc' \in SUBSET Revision
  BY DEF Start, TypeOK
<1>2. faults' \in 0 .. MaxFaults
  <2>1. CASE faults' = faults
    BY <2>1 DEF TypeOK
  <2>2. ASSUME NEW kept \in SUBSET gc, faults + Cardinality(kept) <= MaxFaults,
               faults' = faults + Cardinality(kept)
        PROVE  faults' \in 0 .. MaxFaults
    <3>1. IsFiniteSet(Revision)
      BY FS_Interval DEF Revision, FilesAssumption
    <3>2. Cardinality(kept) \in Nat
      BY <3>1, FS_Subset, FS_CardinalityType DEF TypeOK
    <3> QED
      BY <2>2, <3>2 DEF TypeOK, FilesAssumption
  <2> QED
    BY <2>1, <2>2 DEF Start
<1> QED
  BY <1>1, <1>2 DEF Start, TypeOK, sweeps

------------------------------------------------------------------------------
\* Where calls are, and the barrier

\* A call has at each step what it needs there.
LEMMA StepKeepsPlaces ==
  ASSUME FilesAssumption, TypeOK, WellPlaced, NEW c \in Calls, Step(c) \/ Begin(c)
  PROVE  WellPlaced'
<1>1. \A d \in Calls : d # c => Placed(d)'
  BY OthersStay DEF WellPlaced, Placed, Making
<1> SUFFICES Placed(c)'
  BY <1>1 DEF WellPlaced
<1>2. c \in DOMAIN pc /\ c \in DOMAIN base
  BY DEF TypeOK
<1>3. Placed(c)
  BY DEF WellPlaced
<1>5. CASE Begin(c)
  <2>1. pc'[c] = FirstStep(c) /\ base'[c] = row
    BY <1>5, <1>2 DEF Begin, GoesWith
  <2> QED
    BY <1>5, <2>1, FirstStepOfKind DEF Begin, Placed, Making, Exists
<1>6. CASE FileTurn(c)
  <2>1. CASE Read(c)
    BY <2>1, <1>2, <1>3 DEF Read, Turn, Placed, Making, GoesTo, GoesWith
  <2>2. CASE Publish(c)
    BY <2>2, <1>2, <1>3 DEF Publish, Turn, Placed, Making, GoesTo, GoesWith
  <2>3. CASE PublishFails(c)
    BY <2>3, <1>2, <1>3 DEF PublishFails, Turn, Placed, Making, GoesTo, GoesWith
  <2>4. CASE Undo(c)
    BY <2>4, <1>2, <1>3 DEF Undo, Turn, Placed, Making, GoesTo, GoesWith
  <2>5. CASE Discard(c)
    BY <2>5, <1>2, <1>3 DEF Discard, Turn, Placed, Making, GoesTo, GoesWith
  <2>6. CASE CleanupFails(c)
    BY <2>6, <1>2, <1>3 DEF CleanupFails, Turn, Placed, Making, GoesTo, GoesWith
  <2>7. CASE Sweep(c)
    BY <2>7, <1>2, <1>3 DEF Sweep, Turn, Placed, Making, GoesTo, GoesWith, AfterSweep
  <2>8. CASE SweepFails(c)
    BY <2>8, <1>2, <1>3 DEF SweepFails, Turn, Placed, Making, GoesTo, GoesWith
  <2>9. CASE BeginBarrier(c)
    BY <2>9, <1>2, <1>3 DEF BeginBarrier, Turn, Placed, Making, GoesTo, GoesWith
  <2> QED
    BY <1>6, <2>1, <2>2, <2>3, <2>4, <2>5, <2>6, <2>7, <2>8, <2>9 DEF FileTurn
<1>7. CASE DbTurn(c)
  <2>1. CASE LookUp(c)
    BY <2>1, <1>2, <1>3 DEF LookUp, Turn, Placed, Making, GoesTo, GoesWith
  <2>2. CASE Write(c)
    BY <2>2, <1>2, <1>3 DEF Write, Turn, Placed, Making, GoesTo, GoesWith
  <2>3. CASE WriteFails(c)
    BY <2>3, <1>2, <1>3 DEF WriteFails, Turn, Placed, Making, GoesTo, GoesWith
  <2>4. CASE Check(c)
    BY <2>4, <1>2, <1>3 DEF Check, Turn, Placed, Making, GoesTo, GoesWith
  <2>5. CASE Purge(c)
    BY <2>5, <1>2, <1>3 DEF Purge, Turn, Placed, Making, GoesTo, GoesWith
  <2>6. CASE Collect(c)
    BY <2>6, <1>2, <1>3 DEF Collect, Turn, Placed, Making, GoesTo, GoesWith
  <2>7. CASE Note(c)
    BY <2>7, <1>2, <1>3 DEF Note, Turn, Placed, Making, GoesTo, GoesWith, AfterSweep
  <2>8. CASE Clear(c)
    BY <2>8, <1>2, <1>3 DEF Clear, Turn, Placed, Making, GoesTo, GoesWith
  <2>9. CASE Snapshot(c)
    BY <2>9, <1>2, <1>3 DEF Snapshot, Turn, Placed, Making, GoesTo, GoesWith
  <2> QED
    BY <1>7, <2>1, <2>2, <2>3, <2>4, <2>5, <2>6, <2>7, <2>8, <2>9 DEF DbTurn
<1>8. CASE Copy(c) \/ BackupFails(c)
  BY <1>8, <1>2 DEF Copy, BackupFails, Placed, Making, GoesTo, GoesWith
<1> QED
  BY <1>5, <1>6, <1>7, <1>8 DEF Step

\* What a step does to the barrier: it is raised with the call that takes it,
\* and lowered with the one that ends.
LEMMA BarrierMoves ==
  ASSUME FilesAssumption, TypeOK, OneBarrier, NEW c \in Calls, Step(c) \/ Begin(c)
  PROVE  /\ Active(c)' => Active(c) \/ Begin(c)
         /\ pc'[c] = "barrier" \/ Holds(c)' => Kind[c] = "backup"
         /\ ~Holds(c) /\ ~Holds(c)' => barriers' = barriers
         /\ ~Holds(c) /\ Holds(c)' => barriers' = barriers + 1
         /\ Holds(c) /\ Holds(c)' => barriers' = barriers
         /\ Holds(c) /\ ~Holds(c)' => barriers' = barriers - 1
<1>1. c \in DOMAIN pc
  BY DEF TypeOK
<1>2. pc[c] = "barrier" \/ Holds(c) => Kind[c] = "backup"
  BY DEF OneBarrier
<1> USE DEF Holds, Active, Ended
<1>3. CASE Begin(c)
  <2>1. pc[c] = "idle" /\ pc'[c] = FirstStep(c) /\ barriers' = barriers
    BY <1>3, <1>1 DEF Begin, GoesWith
  <2> QED
    BY <1>3, <2>1, FirstStepOfKind
<1>4. CASE FileTurn(c)
  <2>1. CASE Read(c)
    BY <2>1, <1>1, <1>2 DEF Read, Turn, GoesTo, GoesWith
  <2>2. CASE Publish(c)
    BY <2>2, <1>1, <1>2 DEF Publish, Turn, GoesTo, GoesWith
  <2>3. CASE PublishFails(c)
    BY <2>3, <1>1, <1>2 DEF PublishFails, Turn, GoesTo, GoesWith
  <2>4. CASE Undo(c)
    BY <2>4, <1>1, <1>2 DEF Undo, Turn, GoesTo, GoesWith
  <2>5. CASE Discard(c)
    BY <2>5, <1>1, <1>2 DEF Discard, Turn, GoesTo, GoesWith
  <2>6. CASE CleanupFails(c)
    BY <2>6, <1>1, <1>2 DEF CleanupFails, Turn, GoesTo, GoesWith
  <2>7. CASE Sweep(c)
    BY <2>7, <1>1, <1>2 DEF Sweep, Turn, GoesTo, GoesWith, AfterSweep
  <2>8. CASE SweepFails(c)
    BY <2>8, <1>1, <1>2 DEF SweepFails, Turn, GoesTo, GoesWith
  <2>9. CASE BeginBarrier(c)
    BY <2>9, <1>1, <1>2 DEF BeginBarrier, Turn, GoesTo, GoesWith
  <2> QED
    BY <1>4, <2>1, <2>2, <2>3, <2>4, <2>5, <2>6, <2>7, <2>8, <2>9 DEF FileTurn
<1>5. CASE DbTurn(c)
  <2>1. CASE LookUp(c)
    BY <2>1, <1>1, <1>2 DEF LookUp, Turn, GoesTo, GoesWith
  <2>2. CASE Write(c)
    BY <2>2, <1>1, <1>2 DEF Write, Turn, GoesTo, GoesWith
  <2>3. CASE WriteFails(c)
    BY <2>3, <1>1, <1>2 DEF WriteFails, Turn, GoesTo, GoesWith
  <2>4. CASE Check(c)
    BY <2>4, <1>1, <1>2 DEF Check, Turn, GoesTo, GoesWith
  <2>5. CASE Purge(c)
    BY <2>5, <1>1, <1>2 DEF Purge, Turn, GoesTo, GoesWith
  <2>6. CASE Collect(c)
    BY <2>6, <1>1, <1>2 DEF Collect, Turn, GoesTo, GoesWith
  <2>7. CASE Note(c)
    BY <2>7, <1>1, <1>2 DEF Note, Turn, GoesTo, GoesWith, AfterSweep
  <2>8. CASE Clear(c)
    BY <2>8, <1>1, <1>2 DEF Clear, Turn, GoesTo, GoesWith
  <2>9. CASE Snapshot(c)
    BY <2>9, <1>1, <1>2 DEF Snapshot, Turn, GoesTo, GoesWith
  <2> QED
    BY <1>5, <2>1, <2>2, <2>3, <2>4, <2>5, <2>6, <2>7, <2>8, <2>9 DEF DbTurn
<1>6. CASE Copy(c) \/ BackupFails(c)
  BY <1>6, <1>1 DEF Copy, BackupFails, MayCopy, Released, Turn, GoesTo, GoesWith
<1> QED
  BY <1>3, <1>4, <1>5, <1>6 DEF Step

\* There is one backup, and the barrier is its own.
LEMMA StepKeepsOneBarrier ==
  ASSUME FilesAssumption, TypeOK, OneBarrier, NEW c \in Calls, Step(c) \/ Begin(c)
  PROVE  OneBarrier'
<1>1. ASSUME NEW d \in Calls, d # c
      PROVE  pc'[d] = pc[d] /\ (Holds(d)' <=> Holds(d)) /\ (Active(d)' <=> Active(d))
  BY <1>1, OthersStay DEF Holds, Active
<1>2. \A d \in Calls : pc'[d] = "barrier" \/ Holds(d)' => Kind[d] = "backup"
  BY <1>1, BarrierMoves DEF OneBarrier
<1>3. ASSUME NEW d \in Calls, NEW e \in Calls, Kind[d] = "backup", Kind[e] = "backup",
             Active(d)', Active(e)'
      PROVE  d = e
  <2>1. CASE Begin(c)
    <3>1. Kind[c] = "backup" => \A b \in Calls : Kind[b] = "backup" => ~Active(b)
      BY <2>1 DEF Begin
    <3> QED
      BY <3>1, <1>1, <1>3 DEF OneBarrier
  <2>2. CASE ~Begin(c)
    <3>1. Active(c)' => Active(c)
      BY <2>2, BarrierMoves
    <3> QED
      BY <3>1, <1>1, <1>3 DEF OneBarrier
  <2> QED
    BY <2>1, <2>2
<1>4. barriers' = IF \E d \in Calls : Holds(d)' THEN 1 ELSE 0
  <2>1. \A d, e \in Calls : Holds(d) /\ Holds(e) => d = e
    BY DEF OneBarrier, Holds, Active, Ended
  <2>2. \A d, e \in Calls : Holds(d)' /\ Holds(e)' => d = e
    <3>1. \A d \in Calls : Holds(d)' => Active(d)'
      BY DEF Holds, Active, Ended
    <3> QED
      BY <3>1, <1>2, <1>3
  <2>3. CASE Holds(c)
    BY <2>3, <2>1, <2>2, <1>1, BarrierMoves DEF OneBarrier
  <2>4. CASE ~Holds(c)
    BY <2>4, <2>1, <2>2, <1>1, BarrierMoves DEF OneBarrier
  <2> QED
    BY <2>3, <2>4
<1> QED
  BY <1>2, <1>3, <1>4 DEF OneBarrier

\* A crash takes every call from its place and drops the barrier; a start and a
\* stutter leave them alone.
LEMMA RestKeepsPlaces ==
  ASSUME TypeOK, WellPlaced, OneBarrier, Crash \/ Start \/ UNCHANGED vars
  PROVE  WellPlaced' /\ OneBarrier'
<1>1. CASE Crash
  <2>1. ASSUME NEW c \in Calls
        PROVE  ~Active(c)' /\ pc'[c] \in Ended \cup {"idle"}
    BY <1>1, <2>1 DEF Crash, Active, Ended
  <2>2. WellPlaced'
    BY <2>1 DEF WellPlaced, Placed, Making, Ended
  <2> QED
    BY <1>1, <2>1, <2>2 DEF OneBarrier, Holds, Ended, Crash
<1>2. CASE Start \/ UNCHANGED vars
  <2>1. pc' = pc /\ base' = base /\ barriers' = barriers
    BY <1>2 DEF Start, vars
  <2> QED
    BY <2>1 DEF WellPlaced, Placed, Making, OneBarrier, Holds, Active
<1> QED
  BY <1>1, <1>2

------------------------------------------------------------------------------
\* Everything owed is behind the committed record

\* While the record stays, what is owed may only shrink, and what calls have in hand
\* may only come from what is owed and from the record.
LEMMA StillBehind ==
  ASSUME TypeOK, Behind, row' = row, gc' \subseteq gc,
         \A d \in Calls : todo'[d] \subseteq todo[d] \cup gc,
         \A d \in Calls : base'[d] \in {base[d], None, row}
  PROVE  Behind'
<1>1. Exists(row) => row.rev \in Nat
  BY DEF Exists, TypeOK, Record, Revision
<1> QED
  BY <1>1 DEF Behind, Exists

\* The record changes only by the transaction of a revision, which finds it as
\* the call did, and by a purge.
LEMMA RowMoves ==
  ASSUME FilesAssumption, TypeOK, WellPlaced, NEW c \in Calls, Step(c) \/ Begin(c)
  PROVE  \/ row' = row /\ gc' \subseteq gc
         \/ row' = None
         \/ /\ pc[c] = "writing" /\ pc'[c] = "collecting" /\ Current(c)
            /\ row' = [rev |-> Target(c), content |-> Bytes(c)]
            /\ gc' = gc \cup {base[c].rev}
            /\ disk' = disk /\ todo' = todo /\ base' = base /\ UNCHANGED writeFailed
<1>1. c \in DOMAIN pc /\ base = [base EXCEPT ![c] = base[c]]
  BY DEF TypeOK
<1> USE DEF durable
<1>2. CASE Begin(c)
  BY <1>2 DEF Begin
<1>3. CASE FileTurn(c)
  BY <1>3 DEF FileTurn, Read, Publish, PublishFails, Undo, Discard, CleanupFails,
     Sweep, SweepFails, BeginBarrier
<1>4. CASE Write(c)
  BY <1>4, <1>1 DEF Write, Turn, GoesTo, GoesWith, NoFault, troubles, sweeps
<1>5. CASE DbTurn(c) /\ ~Write(c)
  BY <1>5 DEF DbTurn, LookUp, WriteFails, Check, Purge, Collect, Note, Clear, Snapshot
<1>6. CASE Copy(c) \/ BackupFails(c)
  BY <1>6 DEF Copy, BackupFails
<1> QED
  BY <1>2, <1>3, <1>4, <1>5, <1>6 DEF Step

\* What calls begin with and collect comes from the committed state.
LEMMA HandsMove ==
  ASSUME FilesAssumption, TypeOK, NEW c \in Calls, Step(c) \/ Begin(c), NEW d \in Calls
  PROVE  /\ todo'[d] \subseteq todo[d] \cup gc
         /\ base'[d] \in {base[d], None, row}
<1>1. base'[d] \in {base[d], None, row}
  <2>1. CASE d # c
    BY <2>1, OthersStay
  <2>2. c \in DOMAIN base
    BY DEF TypeOK
  <2>3. CASE d = c
    BY <2>2, <2>3 DEF Begin, Step, FileTurn, DbTurn, GoesTo, GoesWith, Copy,
       BackupFails,
       Read, Publish, PublishFails, Undo, Discard, CleanupFails, Sweep, SweepFails, BeginBarrier,
       LookUp, Write, WriteFails, Check, Purge, Collect, Note, Clear, Snapshot
  <2> QED
    BY <2>1, <2>3
<1>2. todo'[d] \subseteq todo[d] \cup gc
  <2>1. c \in DOMAIN todo /\ d \in DOMAIN todo
    BY DEF TypeOK
  <2>2. CASE Sweep(c) \/ SweepFails(c)
    <3>1. PICK key : todo' = [todo EXCEPT ![c] = todo[c] \ {key}]
      BY <2>2 DEF Sweep, SweepFails
    <3>2. todo'[d] = IF d = c THEN todo[c] \ {key} ELSE todo[d]
      BY <2>1, <3>1
    <3> QED
      BY <3>2
  <2>3. CASE Collect(c)
    BY <2>1, <2>3 DEF Collect
  <2>4. CASE Begin(c) \/ (Step(c) /\ ~Sweep(c) /\ ~SweepFails(c) /\ ~Collect(c))
    BY <2>4 DEF Begin, Step, FileTurn, DbTurn, Copy, BackupFails, sweeps,
       Read, Publish, PublishFails, Undo, Discard, CleanupFails, BeginBarrier,
       LookUp, Write, WriteFails, Check, Purge, Note, Clear, Snapshot
  <2> QED
    BY <2>2, <2>3, <2>4
<1> QED
  BY <1>1, <1>2

\* A new revision leaves everything owed behind it, its predecessor included.
LEMMA StepKeepsBehind ==
  ASSUME FilesAssumption, TypeOK, WellPlaced, Behind,
         NEW c \in Calls, Step(c) \/ Begin(c)
  PROVE  Behind'
<1>1. CASE row' = row /\ gc' \subseteq gc
  BY <1>1, HandsMove, StillBehind
<1>2. CASE row' = None
  BY <1>2 DEF Behind, Exists
<1>3. CASE /\ pc[c] = "writing" /\ Current(c)
           /\ row' = [rev |-> Target(c), content |-> Bytes(c)]
           /\ gc' = gc \cup {base[c].rev}
           /\ todo' = todo /\ base' = base
  <2>1. Exists(row) /\ base[c].rev = row.rev /\ row.rev \in Nat
    BY <1>3 DEF Current, Exists, TypeOK, Record, Revision
  <2>2. row'.rev = row.rev + 1
    BY <1>3, <2>1 DEF Target
  <2>3. /\ gc \subseteq Nat
        /\ \A d \in Calls : todo[d] \subseteq Nat
        /\ \A d \in Calls : Exists(base[d]) => base[d].rev \in Nat
    BY DEF TypeOK, Revision, Record, Exists
  <2> QED
    BY <1>3, <2>1, <2>2, <2>3 DEF Behind
<1> QED
  BY <1>1, <1>2, <1>3, RowMoves

\* Nothing new is owed by a crash or a start.
LEMMA RestKeepsBehind ==
  ASSUME TypeOK, Behind, Crash \/ Start \/ UNCHANGED vars
  PROVE  Behind'
<1>1. row' = row /\ gc' \subseteq gc
  BY DEF Crash, Start, vars, durable
<1>2. \A d \in Calls : todo'[d] \subseteq todo[d] \cup gc
  BY DEF Crash, Start, vars, sweeps
<1>3. \A d \in Calls : base'[d] \in {base[d], None, row}
  BY DEF Crash, Start, vars
<1> QED
  BY <1>1, <1>2, <1>3, StillBehind

\* Receipts come from the transaction of a revision, and go with a purge.
LEMMA ReceiptsMove ==
  ASSUME FilesAssumption, TypeOK, NEW c \in Calls, Step(c) \/ Begin(c)
  PROVE  \/ receipts' = receipts
         \/ receipts' = {} /\ Purge(c)
         \/ /\ Write(c) /\ pc[c] = "writing" /\ ~Known(c) /\ Current(c)
            /\ receipts' = receipts \cup {RequestOf(c)}
            /\ row' = [rev |-> Target(c), content |-> Bytes(c)]
<1> USE DEF durable
<1>1. CASE Begin(c)
  BY <1>1 DEF Begin
<1>2. CASE FileTurn(c)
  BY <1>2 DEF FileTurn, Read, Publish, PublishFails, Undo, Discard, CleanupFails,
     Sweep, SweepFails, BeginBarrier
<1>3. CASE Write(c)
  BY <1>3 DEF Write, Turn
<1>4. CASE Purge(c)
  BY <1>4 DEF Purge
<1>5. CASE DbTurn(c) /\ ~Write(c) /\ ~Purge(c)
  BY <1>5 DEF DbTurn, LookUp, WriteFails, Check, Collect, Note, Clear, Snapshot
<1>6. CASE Copy(c) \/ BackupFails(c)
  BY <1>6 DEF Copy, BackupFails
<1> QED
  BY <1>1, <1>2, <1>3, <1>4, <1>5, <1>6 DEF Step

\* A call looks at the receipts before it prepares a revision.
LEMMA LookedBefore ==
  ASSUME FilesAssumption, TypeOK, WellPlaced, NEW c \in Calls, Step(c) \/ Begin(c),
         Looked(c)'
  PROVE  base'[c] = base[c] /\ (Looked(c) \/ (LookUp(c) /\ ~Known(c)))
<1>1. c \in DOMAIN pc /\ c \in DOMAIN base
  BY DEF TypeOK
<1>2. CASE Begin(c)
  <2>1. pc'[c] = FirstStep(c)
    BY <1>1, <1>2 DEF Begin, GoesWith
  <2> QED
    BY <1>2, <2>1, FirstStepOfKind DEF Looked
<1>3. CASE LookUp(c)
  BY <1>1, <1>3 DEF LookUp, GoesTo, GoesWith, Looked
<1>4. CASE Read(c) \/ Publish(c)
  BY <1>1, <1>4 DEF Read, Publish, Turn, GoesTo, GoesWith, Looked
<1>5. CASE Step(c) /\ ~LookUp(c) /\ ~Read(c) /\ ~Publish(c)
  <2>1. pc'[c] \notin {"reading", "publishing", "writing"}
    BY <1>1, <1>5 DEF Step, FileTurn, DbTurn, GoesTo, GoesWith, AfterSweep,
       Copy, BackupFails, PublishFails, Undo, Discard, CleanupFails, Sweep, SweepFails,
       BeginBarrier, Write, WriteFails, Check, Purge, Collect, Note, Clear, Snapshot
  <2> QED
    BY <2>1 DEF Looked
<1> QED
  BY <1>2, <1>3, <1>4, <1>5 DEF Step

\* A call that is overtaken by its own operation is overtaken by its revision.
LEMMA StepKeepsPast ==
  ASSUME FilesAssumption, TypeOK, WellPlaced, Behind, DoneIsPast,
         NEW c \in Calls, Step(c) \/ Begin(c)
  PROVE  DoneIsPast'
<1> SUFFICES ASSUME NEW d \in Calls, Looked(d)', Known(d)'
             PROVE  ~Current(d)'
  BY DEF DoneIsPast
<1>1. /\ base'[d] = base[d]
      /\ Looked(d) \/ ~Known(d)
      /\ pc[d] \in {"looking up", "reading", "publishing", "writing"}
  <2>1. CASE d = c
    BY <2>1, LookedBefore DEF Looked, LookUp, Turn
  <2>2. CASE d # c
    BY <2>2, OthersStay DEF Looked
  <2> QED
    BY <2>1, <2>2
<1>2. base[d] \in Record /\ Exists(base[d]) /\ base[d].rev \in Nat
  <2>1. base[d] # None
    BY <1>1 DEF WellPlaced, Placed, Making
  <2> QED
    BY <2>1 DEF TypeOK, Exists, Record, Revision
<1>3. Exists(row) => row.rev \in Nat /\ base[d].rev <= row.rev
  BY <1>2 DEF Behind, TypeOK, Exists, Record, Revision
<1>4. CASE row' = None
  BY <1>4 DEF Current, Exists
<1>5. CASE row' # None /\ row' # row
  <2>1. Exists(row) /\ row'.rev = row.rev + 1
    BY <1>5, RowMoves DEF Current, Target
  <2>2. row'.rev # base[d].rev
    BY <1>2, <1>3, <2>1
  <2> QED
    BY <1>1, <2>2 DEF Current
<1>6. CASE row' # None /\ row' = row
  <2>1. receipts' = receipts
    <3>1. CASE Purge(c)
      BY <1>6, <3>1 DEF Purge
    <3>2. ASSUME Current(c), row' = [rev |-> Target(c), content |-> Bytes(c)]
          PROVE  FALSE
      <4>1. Exists(row) /\ row'.rev = row.rev + 1
        BY <3>2 DEF Current, Target
      <4>2. row.rev \in Nat
        BY <4>1, <1>3
      <4> QED
        BY <1>6, <4>1, <4>2
    <3> QED
      BY <3>1, <3>2, ReceiptsMove
  <2> QED
    BY <1>1, <1>6, <2>1 DEF DoneIsPast, Known, Current, Exists
<1> QED
  BY <1>4, <1>5, <1>6

\* After a crash no call is under way.
LEMMA RestKeepsPast ==
  ASSUME DoneIsPast, Crash \/ Start \/ UNCHANGED vars
  PROVE  DoneIsPast'
<1>1. CASE Crash
  <2>1. \A c \in Calls : ~Looked(c)'
    BY <1>1 DEF Crash, Looked, Active, Ended
  <2> QED
    BY <2>1 DEF DoneIsPast
<1>2. CASE Start \/ UNCHANGED vars
  BY <1>2 DEF Start, vars, durable, DoneIsPast, Looked, Known, Current, Exists
<1> QED
  BY <1>1, <1>2

------------------------------------------------------------------------------
\* The file of the committed record

\* No file of the committed revision or a later one is deleted or altered.
LEMMA CurrentFilesStay ==
  ASSUME FilesAssumption, FilesInv, ~writeFailed, Exists(row),
         NEW c \in Calls, Step(c) \/ Begin(c),
         NEW key \in Revision, row.rev <= key, disk[key] # None
  PROVE  disk'[key] = disk[key]
<1>1. row.rev \in Nat /\ key \in Nat
  BY DEF FilesInv, TypeOK, Exists, Record, Revision
<1>2. CASE disk' = disk
  BY <1>2
<1>3. CASE Publish(c) \/ PublishFails(c)
  BY <1>3 DEF Publish, PublishFails, FilesInv, TypeOK
<1>4. CASE Undo(c)
  BY <1>4 DEF Undo, Turn, FilesInv, CleanupIsLate
<1>5. CASE Discard(c)
  <2>1. Target(c) < row.rev
    BY <1>5 DEF Discard, Turn, FilesInv, CleanupIsLate
  <2>2. base[c] # None /\ base[c].rev < MaxRevision
    BY <1>5 DEF Discard, Turn, FilesInv, WellPlaced, Placed, Making
  <2>3. Target(c) \in Nat
    BY <2>2, NewRevision DEF FilesInv, Revision
  <2>4. key # Target(c)
    BY <1>1, <2>1, <2>3
  <2> QED
    BY <1>5, <2>4 DEF Discard, Deleted, FilesInv, TypeOK
<1>6. CASE Sweep(c)
  <2>1. PICK swept_key \in todo[c] : disk' = Deleted(swept_key)
    BY <1>6 DEF Sweep
  <2>2. swept_key \in Nat /\ swept_key < row.rev
    BY <2>1 DEF FilesInv, TypeOK, Revision, Behind
  <2> QED
    BY <1>1, <2>1, <2>2 DEF Deleted, FilesInv, TypeOK
<1> QED
  BY <1>2, <1>3, <1>4, <1>5, <1>6 DEF Begin, Step, FileTurn, DbTurn, Copy, BackupFails,
     durable, Read, CleanupFails, SweepFails, BeginBarrier,
     LookUp, Write, WriteFails, Check, Purge, Collect, Note, Clear, Snapshot

\* A transaction that failed stays failed.
LEMMA FailureStays ==
  ASSUME NEW c \in Calls, Step(c) \/ Begin(c), ~writeFailed'
  PROVE  ~writeFailed
BY DEF Begin, Step, FileTurn, DbTurn, Copy, BackupFails, NoFault, Fault, troubles,
   Read, Publish, PublishFails, Undo, Discard, CleanupFails, Sweep, SweepFails, BeginBarrier,
   LookUp, Write, WriteFails, Check, Purge, Collect, Note, Clear, Snapshot

\* The file of the record stays, and a new record has its file.
LEMMA StepKeepsRowFile ==
  ASSUME FilesAssumption, FilesInv, NEW c \in Calls, Step(c) \/ Begin(c)
  PROVE  RowHasFile'
<1> SUFFICES ASSUME Exists(row)', ~writeFailed'
             PROVE  disk'[row'.rev] = row'.content
  BY DEF RowHasFile
<1>1. ~writeFailed
  BY FailureStays
<1>2. CASE row' = row
  <2>1. /\ Exists(row) /\ row.rev \in Revision /\ row.content \in Content
        /\ row.rev <= row.rev
    BY <1>2 DEF Exists, FilesInv, TypeOK, Record, Revision
  <2>2. disk[row.rev] = row.content
    BY <1>1, <2>1 DEF FilesInv, RowHasFile
  <2> QED
    BY <1>1, <1>2, <2>1, <2>2, CurrentFilesStay DEF FilesAssumption
<1>3. CASE /\ pc[c] = "writing" /\ Current(c)
           /\ row' = [rev |-> Target(c), content |-> Bytes(c)] /\ disk' = disk
  BY <1>1, <1>3 DEF FilesInv, CleanupIsLate
<1> QED
  BY <1>2, <1>3, RowMoves DEF FilesInv, Exists

\* A revision that was refused is behind the record by then, and so is what is
\* cleaned up after it; a transaction that can succeed keeps its file.
LEMMA StepKeepsCleanupLate ==
  ASSUME FilesAssumption, FilesInv, NEW c \in Calls, Step(c) \/ Begin(c), ~writeFailed'
  PROVE  CleanupIsLate'
<1> DEFINE Late(d) ==
      /\ pc[d] = "writing" /\ Current(d) => disk[Target(d)] = Bytes(d)
      /\ pc[d] # "undoing"
      /\ pc[d] = "checking" /\ Exists(row) => base[d].rev < row.rev
      /\ pc[d] = "discarding" /\ Exists(row) => Target(d) < row.rev
<1>1. ~writeFailed
  BY FailureStays
<1>2. \A d \in Calls : Late(d)
  BY <1>1 DEF FilesInv, CleanupIsLate
<1>3. \A d \in Calls : Making(d) =>
        /\ base[d].rev \in Nat /\ Exists(base[d])
        /\ Target(d) = base[d].rev + 1 /\ Target(d) \in Revision
        /\ Bytes(d) \in Content
  <2>1. ASSUME NEW d \in Calls, Making(d)
        PROVE  base[d] # None /\ base[d].rev < MaxRevision /\ base[d].rev \in Nat
    <3>1. base[d] # None /\ base[d].rev < MaxRevision
      BY <2>1 DEF FilesInv, WellPlaced, Placed
    <3>2. base[d] \in Record \cup {None}
      BY DEF FilesInv, TypeOK
    <3> QED
      BY <3>1, <3>2 DEF Record, Revision
  <2> QED
    BY <2>1, NewRevision DEF FilesInv, Exists, Target
<1>4. Exists(row) => row.rev \in Nat
  BY DEF FilesInv, TypeOK, Exists, Record, Revision
<1>5. \A d \in Calls : Exists(row) /\ Exists(base[d]) => base[d].rev <= row.rev
  BY DEF FilesInv, Behind
<1>6. \/ row' = row \/ row' = None
      \/ /\ Exists(row) /\ row'.rev = row.rev + 1 /\ row' # None
         /\ pc'[c] = "collecting"
  <2>1. Current(c) => Exists(row) /\ row.rev = base[c].rev
    BY DEF Current
  <2> QED
    BY <2>1, RowMoves DEF FilesInv, Target
<1>7. ASSUME NEW d \in Calls, d # c
      PROVE  Late(d)'
  <2>1. pc'[d] = pc[d] /\ base'[d] = base[d]
    BY <1>7, OthersStay DEF FilesInv
  <2>2. ASSUME pc[d] = "writing", Current(d)'
        PROVE  disk'[Target(d)'] = Bytes(d)'
    <3>1. Making(d)
      BY <2>2 DEF Making
    <3>2. Exists(row)' /\ row'.rev = base[d].rev
      BY <2>1, <2>2 DEF Current
    <3>3. row' = row
      BY <1>3, <1>4, <1>5, <1>6, <3>1, <3>2 DEF Exists
    <3>4. Current(d) /\ row.rev < Target(d)
      BY <1>3, <3>1, <3>2, <3>3 DEF Current, Exists
    <3>5. disk[Target(d)] = Bytes(d) /\ disk[Target(d)] # None
      BY <1>2, <1>3, <2>2, <3>1, <3>4 DEF FilesAssumption
    <3>6. disk'[Target(d)] = disk[Target(d)]
      BY <1>1, <1>3, <1>4, <3>1, <3>4, <3>5, CurrentFilesStay DEF Current, Revision
    <3> QED
      BY <2>1, <3>5, <3>6 DEF Target, Bytes
  <2>3. Exists(row)' => Exists(row) /\ row.rev <= row'.rev /\ row'.rev \in Nat
    BY <1>4, <1>6 DEF Exists
  <2>4. Target(d)' = Target(d)
    BY <2>1 DEF Target
  <2> QED
    BY <1>2, <1>3, <1>4, <2>1, <2>2, <2>3, <2>4 DEF Making
<1>8. Late(c)'
  <2>1. c \in DOMAIN pc /\ c \in DOMAIN base
    BY DEF FilesInv, TypeOK
  <2>2. CASE pc'[c] \notin {"writing", "undoing", "checking", "discarding"}
    BY <2>2
  <2>3. CASE Publish(c) /\ pc'[c] = "writing"
    <3>1. disk' = [disk EXCEPT ![Target(c)] = Bytes(c)] /\ base'[c] = base[c]
      BY <2>1, <2>3 DEF Publish, GoesTo, GoesWith
    <3>2. Target(c) \in DOMAIN disk
      BY <1>3, <2>3 DEF Publish, Turn, Making, FilesInv, TypeOK
    <3>3. Target(c)' = Target(c) /\ Bytes(c)' = Bytes(c)
      BY <3>1 DEF Target, Bytes
    <3> QED
      BY <2>3, <3>1, <3>2, <3>3
  <2>4. CASE Write(c) /\ pc'[c] = "checking"
    <3>1. ~Current(c) /\ row' = row /\ base'[c] = base[c] /\ Making(c)
      BY <2>1, <2>4 DEF FilesInv, DoneIsPast, Looked, WellPlaced, Placed, Write,
         GoesTo, GoesWith, durable, Turn, Making
    <3> QED
      BY <1>3, <1>4, <1>5, <2>4, <3>1 DEF Current, Exists
  <2>5. CASE Check(c)
    <3>1. /\ row' = row /\ base'[c] = base[c] /\ Making(c) /\ pc[c] = "checking"
          /\ pc'[c] = IF Exists(row) /\ row.rev = Target(c) THEN "over" ELSE "discarding"
          \/ pc'[c] = "over"
      BY <2>1, <2>5 DEF Check, GoesTo, GoesWith, durable, Turn, Making
    <3>2. Target(c)' = base'[c].rev + 1
      BY DEF Target
    <3> QED
      BY <1>2, <1>3, <1>4, <3>1, <3>2 DEF Exists
  <2>6. CASE WriteFails(c) \/ Undo(c) \/ CleanupFails(c)
    BY <1>2, <2>1, <2>6, ~writeFailed' DEF WriteFails, Undo, CleanupFails, Turn,
       GoesTo, GoesWith
  <2>7. CASE Begin(c)
    BY <2>1, <2>7, FirstStepOfKind DEF Begin, GoesWith
  <2>8. CASE Step(c) /\ ~Publish(c) /\ ~Write(c) /\ ~Check(c) /\ ~WriteFails(c)
             /\ ~Undo(c) /\ ~CleanupFails(c)
    <3>1. pc'[c] \notin {"writing", "undoing", "checking", "discarding"}
      BY <2>1, <2>8 DEF Step, FileTurn, DbTurn, GoesTo, GoesWith, AfterSweep,
         Copy, BackupFails, Read, PublishFails, Discard, Sweep, SweepFails, BeginBarrier,
         LookUp, Purge, Collect, Note, Clear, Snapshot
    <3> QED
      BY <3>1
  <2>9. Publish(c) => pc'[c] \in {"writing", "over"}
    BY <2>1 DEF Publish, GoesTo, GoesWith
  <2>10. Write(c) => pc'[c] \in {"checking", "collecting"}
    BY <2>1 DEF Write, GoesTo, GoesWith
  <2> QED
    BY <2>2, <2>3, <2>4, <2>5, <2>6, <2>7, <2>8, <2>9, <2>10
<1> QED
  BY <1>7, <1>8 DEF CleanupIsLate

\* A crash leaves no transaction, and a start collects only what is behind.
LEMMA RestKeepsFiles ==
  ASSUME FilesAssumption, FilesInv, Crash \/ Start \/ UNCHANGED vars
  PROVE  RowHasFile' /\ (~writeFailed' => CleanupIsLate')
<1>1. row' = row /\ writeFailed' = writeFailed
  BY DEF Crash, Start, vars, durable, troubles
<1>2. CASE Crash
  <2>1. disk' = disk
    BY <1>2 DEF Crash, durable
  <2>2. \A d \in Calls : pc'[d] \notin {"writing", "undoing", "checking", "discarding"}
    BY <1>2 DEF Crash, Active, Ended
  <2> QED
    BY <1>1, <2>1, <2>2 DEF FilesInv, RowHasFile, Exists, CleanupIsLate
<1>3. CASE UNCHANGED vars
  BY <1>3 DEF vars, durable, troubles, FilesInv, RowHasFile, Exists, CleanupIsLate,
     Current, Target, Bytes
<1>4. CASE Start
  <2>1. pc' = pc /\ base' = base
    BY <1>4 DEF Start
  <2>2. CASE disk' = disk
    BY <1>1, <2>1, <2>2 DEF FilesInv, RowHasFile, Exists, CleanupIsLate, Current,
       Target, Bytes
  <2>3. ASSUME NEW kept \in SUBSET gc,
               disk' = [r \in Revision |-> IF r \in gc \ kept THEN None ELSE disk[r]]
        PROVE  RowHasFile' /\ (~writeFailed' => CleanupIsLate')
    <3>1. ASSUME Exists(row), NEW key \in Revision, row.rev <= key
          PROVE  disk'[key] = disk[key]
      <4>1. row.rev \in Nat /\ key \in Nat
        BY <3>1 DEF FilesInv, TypeOK, Exists, Record, Revision
      <4>2. key \notin gc
        BY <3>1, <4>1 DEF FilesInv, Behind, TypeOK, Revision
      <4> QED
        BY <2>3, <4>2
    <3>2. RowHasFile'
      <4>1. Exists(row) => row.rev \in Revision /\ row.rev <= row.rev
        BY DEF FilesInv, TypeOK, Exists, Record, Revision
      <4> QED
        BY <1>1, <3>1, <4>1 DEF FilesInv, RowHasFile, Exists
    <3>3. ASSUME NEW d \in Calls, pc[d] = "writing", Current(d)
          PROVE  disk'[Target(d)] = disk[Target(d)]
      <4>1. base[d] # None /\ base[d].rev < MaxRevision
        BY <3>3 DEF FilesInv, WellPlaced, Placed, Making
      <4>2. Target(d) \in Revision /\ Exists(row)
            /\ row.rev = base[d].rev /\ row.rev \in Nat
        BY <3>3, <4>1, NewRevision DEF FilesInv, TypeOK, Current, Exists, Record,
           Revision
      <4>3. row.rev <= Target(d)
        BY <4>2 DEF Target
      <4> QED
        BY <3>1, <4>2, <4>3
    <3> QED
      BY <1>1, <2>1, <3>2, <3>3 DEF FilesInv, CleanupIsLate, Exists, Current, Target,
         Bytes
  <2> QED
    BY <1>4, <2>2, <2>3 DEF Start
<1> QED
  BY <1>2, <1>3, <1>4

------------------------------------------------------------------------------
\* Theorems

\* The invariant holds at first.
LEMMA FilesInit ==
  ASSUME FilesAssumption, Init
  PROVE  FilesInv
<1>0. PICK issued \in SUBSET Calls : InitWith(issued)
  BY DEF Init
<1> USE <1>0
<1>1. TypeOK
  <2>1. 1 \in Revision /\ <<>> \in Content
    BY DEF FilesAssumption, Revision, Content
  <2>2. row \in Record \cup {None} /\ disk \in [Revision -> Content \cup {None}]
    BY <2>1 DEF InitWith, Record
  <2>3. fileQueue \in Seq(Calls) /\ dbQueue \in Seq(Calls)
    BY DEF InitWith
  <2>4. 0 \in 0 .. MaxCrashes /\ 0 \in 0 .. MaxFaults
    BY DEF FilesAssumption
  <2>5. /\ pc \in [Calls -> {"idle", "over"}] /\ base \in [Calls -> {None}]
        /\ todo \in [Calls -> SUBSET Revision] /\ swept \in [Calls -> SUBSET Revision]
    BY DEF InitWith
  <2> QED
    BY <2>2, <2>3, <2>4, <2>5 DEF InitWith, TypeOK, Ended
<1>2. \A c \in Calls : pc[c] \in {"idle", "over"}
  BY DEF InitWith
<1>3. WellPlaced /\ OneBarrier
  BY <1>2 DEF WellPlaced, Placed, Making, OneBarrier, Holds, Active, Ended, InitWith
<1>4. Behind /\ CleanupIsLate /\ DoneIsPast
  BY <1>2 DEF DoneIsPast, Looked, Behind, CleanupIsLate, InitWith, Exists
<1>5. RowHasFile
  BY DEF RowHasFile, InitWith, Revision, FilesAssumption
<1> QED
  BY <1>1, <1>3, <1>4, <1>5 DEF FilesInv

\* Every step of the composition preserves the invariant.
LEMMA FilesNext ==
  ASSUME FilesAssumption, FilesInv, [Next]_vars
  PROVE  FilesInv'
<1>1. ASSUME NEW c \in Calls, Step(c) \/ Begin(c)
      PROVE  FilesInv'
  <2>1. TypeOK'
    BY <1>1, StepKeepsType, BeginKeepsType DEF FilesInv
  <2>2. WellPlaced' /\ OneBarrier'
    BY <1>1, StepKeepsPlaces, StepKeepsOneBarrier DEF FilesInv
  <2>3. Behind' /\ DoneIsPast'
    BY <1>1, StepKeepsBehind, StepKeepsPast DEF FilesInv
  <2>4. ~writeFailed' => CleanupIsLate'
    BY <1>1, StepKeepsCleanupLate
  <2>5. RowHasFile'
    BY <1>1, StepKeepsRowFile
  <2> QED
    BY <2>1, <2>2, <2>3, <2>4, <2>5 DEF FilesInv
<1>2. ASSUME Crash \/ Start \/ UNCHANGED vars
      PROVE  FilesInv'
  <2>1. TypeOK'
    <3>1. CASE UNCHANGED vars
      BY <3>1 DEF vars, durable, sweeps, troubles, FilesInv, TypeOK
    <3> QED
      BY <1>2, <3>1, CrashKeepsType, StartKeepsType DEF FilesInv
  <2>2. WellPlaced' /\ OneBarrier'
    BY <1>2, RestKeepsPlaces DEF FilesInv
  <2>3. Behind' /\ DoneIsPast'
    BY <1>2, RestKeepsBehind, RestKeepsPast DEF FilesInv
  <2>4. RowHasFile' /\ (~writeFailed' => CleanupIsLate')
    BY <1>2, RestKeepsFiles
  <2> QED
    BY <2>1, <2>2, <2>3, <2>4 DEF FilesInv
<1> QED
  BY <1>1, <1>2 DEF Next

\* The invariant of the proof, for every set of calls and every bound.
THEOREM FilesInductive == Spec => []FilesInv
<1>1. Init => FilesInv
  BY FilesInit, FilesAssumption
<1>2. FilesInv /\ [Next]_vars => FilesInv'
  BY FilesNext, FilesAssumption
<1> QED
  BY <1>1, <1>2, PTL DEF Spec

\* Type correctness of the artifact's store, its file store and its backups.
THEOREM FilesTypeCorrect == Spec => []TypeOK
<1>1. FilesInv => TypeOK
  BY DEF FilesInv
<1> QED
  BY <1>1, FilesInductive, PTL

\* While no transaction of a revision failed, the committed record names a file
\* that is there and holds its bytes, whatever is published, refused, cleaned up,
\* collected, purged, copied or interrupted.
THEOREM CommittedFileIsThere == Spec => []RowHasFile
<1>1. FilesInv => RowHasFile
  BY DEF FilesInv
<1> QED
  BY <1>1, FilesInductive, PTL

------------------------------------------------------------------------------
\* Whoever chose a revision finds it

\* c is going to delete, or may, the file with that key.
Deletes(c, key) ==
  \/ pc[c] = "sweeping" /\ key \in todo[c]
  \/ pc[c] = "discarding" /\ Target(c) = key

Awaits(c, key) == pc[c] = "reading" /\ Kind[c] = "read" /\ base[c].rev = key

Waits(c, queue) == \E i \in DOMAIN queue : queue[i] = c

\* A call has one place in a queue, and only while it waits for it.
OneEach(queue, steps, at) ==
  /\ \A c \in Calls : at[c] \in steps <=> \E i \in DOMAIN queue : queue[i] = c
  /\ \A i, j \in DOMAIN queue : queue[i] = queue[j] => i = j

Queued == OneEach(fileQueue, FileSteps, pc) /\ OneEach(dbQueue, DbSteps, pc)

\* What deletes the file of a read stands behind it in the queue.
ReadersFirst ==
  \A i, j \in DOMAIN fileQueue : \A key \in Revision :
    i < j /\ Awaits(fileQueue[j], key) => ~Deletes(fileQueue[i], key)

\* The file of a read, and of a backup that copies, is there; an append that
\* came too late was made from a record that is not the committed one any more.
Found(c) ==
  /\ pc[c] = "reading" => Kind[c] \in {"append", "read"}
  /\ pc[c] = "reading" /\ Kind[c] = "read" =>
       disk[base[c].rev] = base[c].content
  /\ pc[c] = "copying" /\ Exists(base[c]) => disk[base[c].rev] = base[c].content
  /\ pc[c] = "missing" =>
       Kind[c] = "append" /\ Exists(base[c]) /\ row # base[c]

\* No call is under way unless the application is up.
OnlyWhenUp == phase # "up" => \A c \in Calls : ~Active(c)

FoundInv ==
  /\ FilesInv /\ Queued /\ OnlyWhenUp
  /\ ~writeFailed => ReadersFirst /\ \A c \in Calls : Found(c)

\* Where the entries of a queue come from when a call moves on.
LEMMA QueueMoves ==
  ASSUME NEW q \in Seq(Calls), NEW c \in Calls, NEW steps, NEW step,
         pc[c] \in steps => q # <<>> /\ Head(q) = c,
         NEW i \in DOMAIN Moved(q, steps, c, step)
  PROVE  LET moved == Moved(q, steps, c, step)
             shift == IF pc[c] \in steps THEN 1 ELSE 0
         IN  /\ moved \in Seq(Calls)
             /\ \/ i = Len(moved) /\ step \in steps /\ moved[i] = c
                \/ i + shift \in DOMAIN q /\ moved[i] = q[i + shift]
<1> DEFINE rest == IF pc[c] \in steps THEN Tail(q) ELSE q
           shift == IF pc[c] \in steps THEN 1 ELSE 0
<1>1. rest \in Seq(Calls)
  OBVIOUS
<1>2. \A k \in DOMAIN rest : k + shift \in DOMAIN q /\ rest[k] = q[k + shift]
  OBVIOUS
<1>3. CASE step \notin steps
  BY <1>1, <1>2, <1>3 DEF Moved
<1>4. CASE step \in steps
  <2>1. Moved(q, steps, c, step) = Append(rest, c)
    BY <1>4 DEF Moved
  <2>2. Append(rest, c) \in Seq(Calls) /\ Len(Append(rest, c)) = Len(rest) + 1
    BY <1>1
  <2>3. CASE i = Len(rest) + 1
    BY <1>1, <1>4, <2>1, <2>2, <2>3
  <2>4. CASE i \in DOMAIN rest
    BY <1>1, <1>2, <2>1, <2>2, <2>4
  <2>5. i \in DOMAIN rest \/ i = Len(rest) + 1
    BY <1>1, <2>1, <2>2
  <2> QED
    BY <2>3, <2>4, <2>5
<1> QED
  BY <1>3, <1>4

\* The converse: who is not served stays in the queue.
LEMMA QueueStays ==
  ASSUME NEW q \in Seq(Calls), NEW c \in Calls, NEW steps, NEW step,
         pc[c] \in steps => q # <<>> /\ Head(q) = c
  PROVE  \A x \in Calls :
           (x # c /\ Waits(x, q)) \/ (x = c /\ step \in steps)
             => Waits(x, Moved(q, steps, c, step))
<1> DEFINE rest == IF pc[c] \in steps THEN Tail(q) ELSE q
           moved == Moved(q, steps, c, step)
<1>1. rest \in Seq(Calls)
  OBVIOUS
<1>2. /\ moved \in Seq(Calls) /\ DOMAIN rest \subseteq DOMAIN moved
      /\ \A k \in DOMAIN rest : moved[k] = rest[k]
  BY <1>1 DEF Moved
<1>3. ASSUME NEW k \in DOMAIN q, q[k] # c
      PROVE  \E i \in DOMAIN moved : moved[i] = q[k]
  <2>1. CASE pc[c] \notin steps
    BY <1>2, <1>3, <2>1
  <2>2. CASE pc[c] \in steps
    <3>1. k # 1 /\ k \in 1 .. Len(q)
      BY <1>3, <2>2
    <3>2. k - 1 \in DOMAIN rest /\ rest[k - 1] = q[k]
      BY <2>2, <3>1
    <3> QED
      BY <1>2, <3>2
  <2> QED
    BY <2>1, <2>2
<1>4. ASSUME step \in steps
      PROVE  \E i \in DOMAIN moved : moved[i] = c
  <2>1. moved = Append(rest, c) /\ Len(rest) + 1 \in DOMAIN Append(rest, c)
        /\ Append(rest, c)[Len(rest) + 1] = c
    BY <1>1, <1>4 DEF Moved
  <2> QED
    BY <2>1
<1> QED
  BY <1>3, <1>4 DEF Waits

\* Every step is a move to a next step of the same call, which was served.
LEMMA MoveOf ==
  ASSUME FilesAssumption, TypeOK, NEW c \in Calls, Step(c) \/ Begin(c)
  PROVE  \E step \in AllSteps, record \in Record \cup {None} :
           /\ GoesWith(c, step, record)
           /\ pc[c] \in FileSteps => fileQueue # <<>> /\ Head(fileQueue) = c
           /\ pc[c] \in DbSteps => dbQueue # <<>> /\ Head(dbQueue) = c
<1>1. CASE Step(c)
  <2>1. PICK from \in AllSteps, step \in AllSteps, record \in Record \cup {None} :
          Turn(c, from) /\ GoesWith(c, step, record)
    BY <1>1, StepMoves
  <2> QED
    BY <2>1 DEF Turn
<1>2. CASE Begin(c)
  BY <1>2, FirstStepOfKind DEF Begin, AllSteps, FileSteps, DbSteps, TypeOK
<1> QED
  BY <1>1, <1>2

\* A queue in which every call has its place keeps that when a call moves on.
LEMMA QueueKeeps ==
  ASSUME TypeOK, NEW q \in Seq(Calls), NEW steps, OneEach(q, steps, pc),
         NEW c \in Calls, NEW step, pc' = [pc EXCEPT ![c] = step],
         pc[c] \in steps => q # <<>> /\ Head(q) = c
  PROVE  OneEach(Moved(q, steps, c, step), steps, pc')
<1> DEFINE moved == Moved(q, steps, c, step)
           shift == IF pc[c] \in steps THEN 1 ELSE 0
<1>2. pc'[c] = step /\ \A d \in Calls : d # c => pc'[d] = pc[d]
  BY DEF TypeOK
<1>3. \A i \in DOMAIN moved :
        /\ moved \in Seq(Calls)
        /\ \/ i = Len(moved) /\ step \in steps /\ moved[i] = c
           \/ i + shift \in DOMAIN q /\ moved[i] = q[i + shift]
  BY QueueMoves
<1>4. \A x \in Calls :
        (x # c /\ Waits(x, q)) \/ (x = c /\ step \in steps) => Waits(x, moved)
  BY QueueStays
<1> HIDE DEF moved
\* The entry of c is the head, which the move takes away.
<1>5. \A i \in DOMAIN moved :
        i + shift \in DOMAIN q /\ moved[i] = q[i + shift] => moved[i] # c
  <2> SUFFICES ASSUME NEW i \in DOMAIN moved, i + shift \in DOMAIN q, q[i + shift] = c
               PROVE  FALSE
    OBVIOUS
  <2>1. pc[c] \in steps
    BY DEF OneEach
  <2>2. 1 \in DOMAIN q /\ q[1] = c /\ i \in Nat \ {0}
    BY <1>3, <2>1
  <2>3. i + shift = 1
    BY <2>2 DEF OneEach
  <2> QED
    BY <2>1, <2>2, <2>3
<1>6. ASSUME NEW d \in Calls
      PROVE  pc'[d] \in steps <=> \E i \in DOMAIN moved : moved[i] = d
  <2>1. CASE d = c
    BY <1>2, <1>3, <1>4, <1>5, <2>1 DEF Waits
  <2>2. CASE d # c
    BY <1>2, <1>3, <1>4, <2>2 DEF OneEach, Waits
  <2> QED
    BY <2>1, <2>2
<1>7. ASSUME NEW i \in DOMAIN moved, NEW j \in DOMAIN moved, moved[i] = moved[j]
      PROVE  i = j
  <2>1. CASE moved[i] = c
    BY <1>3, <1>5, <1>7, <2>1
  <2>2. CASE moved[i] # c
    <3>1. i + shift = j + shift
      BY <1>3, <1>7, <2>2 DEF OneEach
    <3>2. i \in Nat /\ j \in Nat
      BY <1>3
    <3> QED
      BY <3>1, <3>2
  <2> QED
    BY <2>1, <2>2
<1>8. OneEach(moved, steps, pc')
  BY <1>6, <1>7 DEF OneEach
<1> QED
  BY <1>8 DEF moved

LEMMA StepKeepsQueued ==
  ASSUME FilesAssumption, TypeOK, Queued, NEW c \in Calls, Step(c) \/ Begin(c)
  PROVE  Queued'
<1>1. PICK step \in AllSteps, record \in Record \cup {None} :
        /\ GoesWith(c, step, record)
        /\ pc[c] \in FileSteps => fileQueue # <<>> /\ Head(fileQueue) = c
        /\ pc[c] \in DbSteps => dbQueue # <<>> /\ Head(dbQueue) = c
  BY MoveOf
<1>2. fileQueue \in Seq(Calls) /\ dbQueue \in Seq(Calls)
  BY DEF TypeOK
<1>3. OneEach(fileQueue', FileSteps, pc')
  BY <1>1, <1>2, QueueKeeps DEF Queued, GoesWith
<1>4. OneEach(dbQueue', DbSteps, pc')
  BY <1>1, <1>2, QueueKeeps DEF Queued, GoesWith
<1> QED
  BY <1>3, <1>4 DEF Queued, OneEach

\* Only the application that is up serves calls, and a step leaves it so.
LEMMA StepKeepsUp ==
  ASSUME OnlyWhenUp, NEW c \in Calls, Step(c) \/ Begin(c)
  PROVE  OnlyWhenUp'
<1> USE DEF Active, Ended
<1>1. Step(c) => Active(c)
  BY DEF Step, FileTurn, DbTurn, Turn, Copy, BackupFails, MayCopy,
     Read, Publish, PublishFails, Undo, Discard, CleanupFails, Sweep, SweepFails, BeginBarrier,
     LookUp, Write, WriteFails, Check, Purge, Collect, Note, Clear, Snapshot
<1>2. phase = "up"
  BY <1>1 DEF OnlyWhenUp, Begin
<1>3. phase' = phase
  BY DEF Begin, Step, FileTurn, DbTurn, Copy, BackupFails,
     Read, Publish, PublishFails, Undo, Discard, CleanupFails, Sweep, SweepFails, BeginBarrier,
     LookUp, Write, WriteFails, Check, Purge, Collect, Note, Clear, Snapshot
<1> QED
  BY <1>2, <1>3 DEF OnlyWhenUp

\* What a call begins with, and how it comes to read, to copy or to fail.
LEMMA ChoosingMoves ==
  ASSUME FilesAssumption, TypeOK, WellPlaced, NEW c \in Calls, Step(c) \/ Begin(c)
  PROVE  /\ pc'[c] = "reading" =>
              \/ Begin(c) /\ Kind[c] = "read" /\ base'[c] = row /\ Exists(row)
              \/ LookUp(c) /\ Kind[c] = "append"
         /\ pc'[c] = "copying" => Snapshot(c) /\ base'[c] = row
         /\ pc'[c] = "missing" => (Read(c) \/ Copy(c)) /\ base'[c] = base[c]
<1>1. c \in DOMAIN pc /\ c \in DOMAIN base
  BY DEF TypeOK
<1>2. CASE Begin(c)
  <2>1. pc'[c] = FirstStep(c) /\ base'[c] = row
    BY <1>1, <1>2 DEF Begin, GoesWith
  <2> QED
    BY <1>2, <2>1, FirstStepOfKind DEF Begin
<1>3. CASE LookUp(c)
  <2>1. Kind[c] \in {"append", "update"} /\ (pc'[c] = "reading" => Kind[c] = "append")
    BY <1>1, <1>3 DEF LookUp, Turn, WellPlaced, Placed, GoesTo, GoesWith
  <2>2. pc'[c] \in {"over", "reading", "publishing"}
    BY <1>1, <1>3 DEF LookUp, GoesTo, GoesWith
  <2> QED
    BY <1>3, <2>1, <2>2
<1>4. CASE Snapshot(c)
  BY <1>1, <1>4 DEF Snapshot, GoesWith
<1>5. CASE Read(c) \/ Copy(c)
  BY <1>1, <1>5 DEF Read, Copy, GoesTo, GoesWith
<1>6. CASE Step(c) /\ ~LookUp(c) /\ ~Snapshot(c) /\ ~Read(c) /\ ~Copy(c)
  <2>1. pc'[c] \notin {"reading", "copying", "missing"}
    BY <1>1, <1>6 DEF Step, FileTurn, DbTurn, BackupFails, GoesTo, GoesWith, AfterSweep,
       Publish, PublishFails, Undo, Discard, CleanupFails, Sweep, SweepFails, BeginBarrier,
       Write, WriteFails, Check, Purge, Collect, Note, Clear
  <2> QED
    BY <2>1
<1> QED
  BY <1>2, <1>3, <1>4, <1>5, <1>6 DEF Step

\* The list of a collection is another only by a step of its own.
LEMMA OthersKeepTodo ==
  ASSUME TypeOK, NEW c \in Calls, Step(c) \/ Begin(c), NEW d \in Calls, d # c
  PROVE  todo'[d] = todo[d]
<1>1. CASE Sweep(c) \/ SweepFails(c)
  <2>1. PICK key : todo' = [todo EXCEPT ![c] = todo[c] \ {key}]
    BY <1>1 DEF Sweep, SweepFails
  <2> QED
    BY <2>1 DEF TypeOK
<1>2. CASE Collect(c)
  BY <1>2 DEF Collect, TypeOK
<1>3. CASE Begin(c) \/ (Step(c) /\ ~Sweep(c) /\ ~SweepFails(c) /\ ~Collect(c))
  BY <1>3 DEF Begin, Step, FileTurn, DbTurn, Copy, BackupFails, sweeps,
     Read, Publish, PublishFails, Undo, Discard, CleanupFails, BeginBarrier,
     LookUp, Write, WriteFails, Check, Purge, Note, Clear, Snapshot
<1> QED
  BY <1>1, <1>2, <1>3

\* A read begins behind all that is deleted, and nothing is put before it.
LEMMA StepKeepsReadersFirst ==
  ASSUME FilesAssumption, FoundInv, ~writeFailed, NEW c \in Calls, Step(c) \/ Begin(c)
  PROVE  ReadersFirst'
<1>0. FilesInv /\ TypeOK /\ Queued /\ ReadersFirst /\ WellPlaced /\ Behind /\ CleanupIsLate
  BY DEF FoundInv, FilesInv
<1>1. PICK step \in AllSteps, record \in Record \cup {None} :
        /\ GoesWith(c, step, record)
        /\ pc[c] \in FileSteps => fileQueue # <<>> /\ Head(fileQueue) = c
  BY <1>0, MoveOf
<1> DEFINE moved == Moved(fileQueue, FileSteps, c, step)
           shift == IF pc[c] \in FileSteps THEN 1 ELSE 0
<1>2. fileQueue' = moved /\ fileQueue \in Seq(Calls) /\ shift \in Nat
  BY <1>0, <1>1 DEF GoesWith, TypeOK
<1>3. \A i \in DOMAIN moved :
        /\ moved \in Seq(Calls)
        /\ \/ i = Len(moved) /\ step \in FileSteps /\ moved[i] = c
           \/ i + shift \in DOMAIN fileQueue /\ moved[i] = fileQueue[i + shift]
  BY <1>1, <1>2, QueueMoves
<1>4. Queued'
  BY <1>0, StepKeepsQueued
<1> HIDE DEF moved, shift
<1>5. ASSUME NEW d \in Calls, d # c, NEW key \in Revision
      PROVE  /\ Deletes(d, key)' <=> Deletes(d, key)
             /\ Awaits(d, key)' <=> Awaits(d, key)
  BY <1>0, <1>5, OthersStay, OthersKeepTodo DEF Deletes, Awaits, Target
<1>10. \A k \in DOMAIN moved : moved[k] \in Calls
  BY <1>3
<1> SUFFICES ASSUME NEW i \in DOMAIN moved, NEW j \in DOMAIN moved, NEW key \in Revision,
                    NEW x \in Calls, NEW y \in Calls, x = moved[i], y = moved[j],
                    i < j, Awaits(y, key)'
             PROVE  ~Deletes(x, key)'
  BY <1>2, <1>10 DEF ReadersFirst
<1>6. i \in Nat /\ j \in Nat /\ i < Len(moved)
  BY <1>3
<1>7. i + shift \in DOMAIN fileQueue /\ x = fileQueue[i + shift]
  BY <1>3, <1>6
<1>8. CASE y = c
  <2>1. pc'[c] = "reading" /\ Kind[c] = "read" /\ base'[c].rev = key
    BY <1>8 DEF Awaits
  <2>2. Begin(c) /\ Exists(row) /\ row.rev = key
    BY <1>0, <2>1, ChoosingMoves
  <2>3. x # c
    <3>1. SUFFICES ASSUME x = c PROVE FALSE
      OBVIOUS
    <3>2. i \in DOMAIN fileQueue' /\ j \in DOMAIN fileQueue'
          /\ fileQueue'[i] = fileQueue'[j]
      BY <1>2, <1>8, <3>1
    <3>3. i = j
      BY <1>4, <3>2 DEF Queued, OneEach
    <3> QED
      BY <1>6, <3>3
  <2>4. key \in Nat
    BY DEF Revision
  <2>5. ~(pc[x] = "sweeping" /\ key \in todo[x])
    BY <1>0, <1>6, <2>2, <2>4 DEF Behind
  <2>6. pc[x] = "discarding" => Target(x) # key
    <3>1. ASSUME NEW d \in Calls, pc[d] = "discarding" PROVE Target(d) \in Nat
      <4>1. base[d] # None /\ base[d].rev < MaxRevision
        BY <1>0, <3>1 DEF WellPlaced, Placed, Making
      <4> QED
        BY <1>0, <4>1, NewRevision DEF Revision
    <3>2. pc[x] = "discarding" => Target(x) < key
      BY <1>0, <1>6, <2>2 DEF CleanupIsLate
    <3> QED
      BY <1>6, <2>4, <3>1, <3>2
  <2> QED
    BY <1>5, <1>6, <2>3, <2>5, <2>6 DEF Deletes
<1>9. CASE y # c
  <2>1. j + shift \in DOMAIN fileQueue /\ y = fileQueue[j + shift]
    BY <1>3, <1>9
  <2>2. i + shift < j + shift
    BY <1>2, <1>6
  <2>3. ~Deletes(x, key)
    BY <1>0, <1>5, <1>6, <1>7, <1>9, <2>1, <2>2 DEF ReadersFirst
  <2>4. x # c
    <3>1. SUFFICES ASSUME x = c PROVE FALSE
      OBVIOUS
    <3>2. pc[c] \in FileSteps
      BY <1>0, <1>7, <3>1 DEF Queued, OneEach
    <3>3. fileQueue[1] = c /\ 1 \in DOMAIN fileQueue /\ shift = 1
      BY <1>1, <1>2, <3>2 DEF shift
    <3>4. i + shift = 1
      <4>1. OneEach(fileQueue, FileSteps, pc)
        BY <1>0 DEF Queued
      <4> QED
        BY <1>7, <3>1, <3>3, <4>1 DEF OneEach
    <3>5. i # 0
      BY <1>3
    <3> QED
      BY <1>6, <3>3, <3>4, <3>5
  <2> QED
    BY <1>5, <1>6, <2>3, <2>4
<1> QED
  BY <1>8, <1>9

\* The file that a read or a backup has chosen is neither deleted nor altered.
LEMMA ChosenFilesStay ==
  ASSUME FilesAssumption, FoundInv, ~writeFailed, NEW c \in Calls, Step(c) \/ Begin(c),
         NEW d \in Calls, Exists(base[d]), disk[base[d].rev] = base[d].content,
         pc[d] = "copying" \/ (pc[d] = "reading" /\ Kind[d] = "read")
  PROVE  disk'[base[d].rev] = disk[base[d].rev]
<1>0. /\ FilesInv /\ TypeOK /\ Queued /\ ReadersFirst /\ OneBarrier /\ CleanupIsLate
      /\ base[d] \in Record
  BY DEF FoundInv, FilesInv, TypeOK, Exists
<1> DEFINE key == base[d].rev
<1>1. key \in Revision /\ disk[key] # None
  BY <1>0 DEF Record, FilesAssumption
<1>2. CASE disk' = disk
  BY <1>2
<1>3. CASE Publish(c) \/ PublishFails(c)
  BY <1>0, <1>1, <1>3 DEF Publish, PublishFails, TypeOK
<1>4. CASE Undo(c)
  BY <1>0, <1>4 DEF Undo, Turn, CleanupIsLate
<1>5. ASSUME Sweep(c) \/ Discard(c)
      PROVE  pc[d] = "reading" /\ Kind[d] = "read" /\ ~Deletes(c, key)
  <2>1. barriers = 0 /\ c = Head(fileQueue) /\ fileQueue # <<>>
        /\ pc[c] \in {"sweeping", "discarding"}
    BY <1>5 DEF Sweep, Discard, MayDelete, Turn, FileSteps
  <2>2. ~Holds(d)
    BY <1>0, <2>1 DEF OneBarrier
  <2>3. pc[d] = "reading" /\ Kind[d] = "read"
    BY <2>2 DEF Holds
  <2>4. PICK j \in DOMAIN fileQueue : fileQueue[j] = d
    BY <1>0, <2>3 DEF Queued, OneEach, FileSteps
  <2>5. fileQueue \in Seq(Calls)
    BY <1>0 DEF TypeOK
  <2>6. 1 \in DOMAIN fileQueue /\ fileQueue[1] = c /\ 1 < j
    BY <2>1, <2>3, <2>4, <2>5
  <2> QED
    BY <1>0, <1>1, <2>3, <2>4, <2>6 DEF ReadersFirst, Awaits
<1>6. CASE Sweep(c)
  <2>1. PICK gone \in todo[c] : disk' = Deleted(gone)
    BY <1>6 DEF Sweep
  <2>2. gone # key
    BY <1>5, <1>6, <2>1 DEF Deletes, Sweep, Turn
  <2> QED
    BY <1>0, <1>1, <2>1, <2>2 DEF Deleted, TypeOK
<1>7. CASE Discard(c)
  <2>1. Target(c) # key
    BY <1>5, <1>7 DEF Deletes, Discard, Turn
  <2> QED
    BY <1>0, <1>1, <1>7, <2>1 DEF Discard, Deleted, TypeOK
<1> QED
  BY <1>2, <1>3, <1>4, <1>6, <1>7 DEF Begin, Step, FileTurn, DbTurn, Copy, BackupFails,
     durable, Read, CleanupFails, SweepFails, BeginBarrier,
     LookUp, Write, WriteFails, Check, Purge, Collect, Note, Clear, Snapshot

\* A record that was replaced or purged is not the committed one again.
LEMMA RowLeaves ==
  ASSUME FilesAssumption, FilesInv, NEW c \in Calls, Step(c) \/ Begin(c),
         NEW record \in Record, row # record, Exists(row) => record.rev <= row.rev
  PROVE  row' # record
<1>1. record.rev \in Nat /\ record # None
  BY DEF Record, Revision, FilesAssumption
<1>2. Exists(row) => row.rev \in Nat
  BY DEF FilesInv, TypeOK, Exists, Record, Revision
<1>3. CASE /\ pc[c] = "writing" /\ Current(c)
           /\ row' = [rev |-> Target(c), content |-> Bytes(c)]
  BY <1>1, <1>2, <1>3 DEF Current, Target
<1> QED
  BY <1>1, <1>3, RowMoves DEF FilesInv

\* Every call finds what it chose, or is an append that came too late.
LEMMA StepKeepsFound ==
  ASSUME FilesAssumption, FoundInv, ~writeFailed, NEW c \in Calls, Step(c) \/ Begin(c)
  PROVE  \A d \in Calls : Found(d)'
<1>0. /\ FilesInv /\ TypeOK /\ WellPlaced /\ Behind /\ RowHasFile
      /\ \A d \in Calls : Found(d)
  BY DEF FoundInv, FilesInv
<1>1. \A d \in Calls : Exists(base[d]) => base[d] \in Record
  BY <1>0 DEF TypeOK, Exists
<1>2. ASSUME NEW d \in Calls, d # c
      PROVE  Found(d)'
  <2>1. pc'[d] = pc[d] /\ base'[d] = base[d]
    BY <1>0, <1>2, OthersStay
  <2>2. pc[d] = "reading" => Exists(base[d])
    BY <1>0 DEF WellPlaced, Placed, Exists
  <2>3. CASE pc[d] = "missing"
    <3>1. Exists(base[d]) /\ row # base[d] /\ Kind[d] = "append"
      BY <1>0, <2>3 DEF Found
    <3>2. row' # base[d]
      BY <1>0, <1>1, <3>1, RowLeaves DEF Behind
    <3> QED
      BY <2>1, <2>3, <3>1, <3>2 DEF Found, Exists
  <2>4. CASE pc[d] # "missing"
    BY <1>0, <2>1, <2>2, <2>4, ChosenFilesStay DEF Found, Exists
  <2> QED
    BY <2>3, <2>4
<1>3. Found(c)'
  <2>1. CASE pc'[c] = "reading"
    <3>1. Kind[c] = "append" \/ (Begin(c) /\ Kind[c] = "read" /\ base'[c] = row /\ Exists(row))
      BY <1>0, <2>1, ChoosingMoves
    <3>2. Begin(c) => disk' = disk
      BY DEF Begin, durable
    <3> QED
      BY <1>0, <2>1, <3>1, <3>2 DEF Found, RowHasFile
  <2>2. CASE pc'[c] = "copying"
    <3>1. Snapshot(c) /\ base'[c] = row
      BY <1>0, <2>2, ChoosingMoves
    <3>2. disk' = disk
      BY <3>1 DEF Snapshot, durable
    <3> QED
      BY <1>0, <2>2, <3>1, <3>2 DEF Found, RowHasFile, Exists
  <2>3. CASE pc'[c] = "missing"
    <3>1. (Read(c) \/ Copy(c)) /\ base'[c] = base[c]
      BY <1>0, <2>3, ChoosingMoves
    <3>2. c \in DOMAIN pc
      BY <1>0 DEF TypeOK
    <3>3. CASE Copy(c)
      BY <1>0, <2>3, <3>2, <3>3 DEF Copy, MayCopy, Found, GoesTo, GoesWith
    <3>4. CASE Read(c)
      <4>1. pc[c] = "reading" /\ disk[base[c].rev] # base[c].content /\ row' = row
        BY <2>3, <3>2, <3>4 DEF Read, Turn, GoesTo, GoesWith, durable
      <4>2. Kind[c] = "append" /\ Exists(base[c])
        BY <1>0, <4>1 DEF Found, WellPlaced, Placed, Exists
      <4>3. row # base[c]
        BY <1>0, <4>1, <4>2 DEF RowHasFile
      <4> QED
        BY <2>3, <3>1, <4>1, <4>2, <4>3 DEF Found, Exists
    <3> QED
      BY <3>1, <3>3, <3>4
  <2> QED
    BY <2>1, <2>2, <2>3 DEF Found
<1> QED
  BY <1>2, <1>3

\* Nobody waits in empty queues.
LEMMA EmptyQueues ==
  ASSUME fileQueue' = <<>>, dbQueue' = <<>>,
         \A c \in Calls : pc'[c] \in {"over", "missing", "idle"}
  PROVE  Queued'
<1>1. OneEach(fileQueue', FileSteps, pc')
  BY DEF OneEach, FileSteps
<1>2. OneEach(dbQueue', DbSteps, pc')
  <2>1. \A c \in Calls : pc'[c] \notin DbSteps
    BY DEF DbSteps
  <2> QED
    BY <2>1 DEF OneEach
<1> QED
  BY <1>1, <1>2 DEF Queued, OneEach

\* A crash takes the queue and its calls; a start deletes while there are none.
LEMMA RestKeepsFound ==
  ASSUME FilesAssumption, FoundInv, Crash \/ Start \/ UNCHANGED vars
  PROVE  /\ Queued' /\ OnlyWhenUp'
         /\ ~writeFailed' => ReadersFirst' /\ \A c \in Calls : Found(c)'
<1> USE DEF Active, Ended
<1>1. row' = row /\ writeFailed' = writeFailed
  BY DEF Crash, Start, vars, durable, troubles
<1>2. CASE Crash
  <2>1. /\ fileQueue' = <<>> /\ dbQueue' = <<>> /\ disk' = disk
        /\ \A c \in Calls : /\ pc'[c] \in {"over", "missing", "idle"}
                            /\ pc'[c] = "missing" => pc[c] = "missing" /\ base'[c] = base[c]
    BY <1>2 DEF Crash, durable
  <2>2. Queued'
    BY <2>1, EmptyQueues
  <2> QED
    BY <1>1, <2>1, <2>2 DEF FoundInv, OnlyWhenUp, ReadersFirst, Found, Exists
<1>3. CASE Start
  <2>1. /\ fileQueue' = fileQueue /\ dbQueue' = dbQueue
        /\ pc' = pc /\ base' = base /\ todo' = todo
    BY <1>3 DEF Start, sweeps
  <2>2. \A c \in Calls : ~Active(c)
    BY <1>3 DEF Start, FoundInv, OnlyWhenUp
  <2>3. Queued' /\ OnlyWhenUp'
    BY <2>1, <2>2 DEF FoundInv, Queued, OneEach, OnlyWhenUp
  <2>4. ReadersFirst'
    <3>1. SUFFICES ASSUME NEW i \in DOMAIN fileQueue, NEW j \in DOMAIN fileQueue
                   PROVE  pc[fileQueue[j]] # "reading"
      BY <2>1 DEF ReadersFirst, Awaits
    <3>2. fileQueue[j] \in Calls
      BY DEF FoundInv, FilesInv, TypeOK
    <3> QED
      BY <2>2, <3>2
  <2>5. ASSUME ~writeFailed', NEW c \in Calls
        PROVE  Found(c)'
    <3>1. pc'[c] \notin {"reading", "copying"}
      BY <2>1, <2>2
    <3>2. Found(c)
      BY <1>1, <2>5 DEF FoundInv
    <3> QED
      BY <1>1, <2>1, <3>1, <3>2 DEF Found, Exists
  <2> QED
    BY <2>3, <2>4, <2>5
<1>4. CASE UNCHANGED vars
  BY <1>1, <1>4 DEF vars, durable, sweeps, FoundInv, Queued, OneEach, OnlyWhenUp,
     ReadersFirst, Found,
     Awaits, Deletes, Target, Exists
<1> QED
  BY <1>2, <1>3, <1>4

LEMMA FoundInit ==
  ASSUME FilesAssumption, Init
  PROVE  FoundInv
<1>1. /\ fileQueue = <<>> /\ dbQueue = <<>> /\ phase = "up"
      /\ \A c \in Calls : pc[c] \in {"idle", "over"}
  BY DEF Init, InitWith
<1>2. Queued
  <2>1. \A c \in Calls : pc[c] \notin FileSteps /\ pc[c] \notin DbSteps
    BY <1>1 DEF FileSteps, DbSteps
  <2> QED
    BY <1>1, <2>1 DEF Queued, OneEach
<1> QED
  BY <1>1, <1>2, FilesInit DEF FoundInv, OnlyWhenUp, ReadersFirst, Found

LEMMA FoundNext ==
  ASSUME FilesAssumption, FoundInv, [Next]_vars
  PROVE  FoundInv'
<1>1. FilesInv' /\ FilesInv
  BY FilesNext DEF FoundInv
<1>2. ASSUME NEW c \in Calls, Step(c) \/ Begin(c)
      PROVE  FoundInv'
  <2>1. Queued' /\ OnlyWhenUp'
    BY <1>1, <1>2, StepKeepsQueued, StepKeepsUp DEF FoundInv, FilesInv
  <2>2. ~writeFailed' => ReadersFirst' /\ \A d \in Calls : Found(d)'
    BY <1>2, FailureStays, StepKeepsReadersFirst, StepKeepsFound
  <2> QED
    BY <1>1, <2>1, <2>2 DEF FoundInv
<1>3. CASE Crash \/ Start \/ UNCHANGED vars
  BY <1>1, <1>3, RestKeepsFound DEF FoundInv
<1> QED
  BY <1>2, <1>3 DEF Next

\* The invariant that also says who finds its file, for every set of calls.
THEOREM FoundInductive == Spec => []FoundInv
<1>1. Init => FoundInv
  BY FoundInit, FilesAssumption
<1>2. FoundInv /\ [Next]_vars => FoundInv'
  BY FoundNext, FilesAssumption
<1> QED
  BY <1>1, <1>2, PTL DEF Spec

\* Whoever chose a revision finds it, though it may have been replaced or purged
\* since; only an append can come too late.
THEOREM ChosenTheorem == Spec => []ChosenIsFound
<1>1. FoundInv => ChosenIsFound
  BY DEF FoundInv, Found, ChosenIsFound
<1> QED
  BY <1>1, FoundInductive, PTL

------------------------------------------------------------------------------
\* Bytes that no record names are owed, or in the hands of a call

Ahead(x, y, queue) ==
  \E i, j \in DOMAIN queue : i < j /\ queue[i] = x /\ queue[j] = y

\* c is making a revision, and no transaction has decided about it.
Writes(c) ==
  /\ Kind[c] \in {"append", "update"}
  /\ pc[c] \in {"looking up", "reading", "publishing", "writing"}

\* c began with a revision that d found replaced.
Earlier(c, d) == Writes(c) /\ Writes(d) /\ base[c].rev < base[d].rev

\* Nobody overtakes a call that began before it, except where an update, which
\* reads no file, overtakes an append.
InTurnOf(c, d) ==
  /\ pc[c] = "looking up" => pc[d] = "looking up" /\ ~Ahead(d, c, dbQueue)
  /\ pc[c] = "reading" =>
       /\ pc[d] # "writing"
       /\ pc[d] = "publishing" => Kind[d] = "update"
       /\ ~Ahead(d, c, fileQueue)
  /\ pc[c] = "publishing" /\ Kind[c] = Kind[d] =>
       /\ pc[d] # "writing"
       /\ pc[d] = "publishing" => ~Ahead(d, c, fileQueue)
  /\ pc[c] = "writing" /\ Kind[c] = Kind[d] /\ pc[d] = "writing" =>
       ~Ahead(d, c, dbQueue)

InTurn == \A c, d \in Calls : Earlier(c, d) => InTurnOf(c, d)

\* What a collection has deleted, and not struck off yet, is behind the record.
SweptBehind == Exists(row) => \A c \in Calls : \A key \in swept[c] : key < row.rev

\* The key is to be collected, and by nobody who is served before c.
Owed(key, c) ==
  /\ key \in gc
  /\ \A d \in Calls :
       /\ key \notin swept[d]
       /\ pc[d] = "sweeping" /\ key \in todo[d] => ~Ahead(d, c, fileQueue)

\* A call whose operation was done meanwhile would have made the same revision:
\* the committed one, or one that is still to be collected.
Covered(c) ==
  /\ pc[c] = "reading" /\ Kind[c] = "append" /\ Replayed(c) =>
       Exists(row) /\ row.rev = Target(c)
  /\ pc[c] = "publishing" /\ Replayed(c) =>
       Exists(row) /\ (row.rev = Target(c) \/ Owed(Target(c), c))

ReplaysCovered == \A c \in Calls : Covered(c)

\* c is going to commit the file or to delete it.
Minds(c, key) == WorksOn(c, key) /\ ~(pc[c] = "writing" /\ Replayed(c))

Kept(key) ==
  \/ Exists(row) /\ row.rev = key
  \/ key \in gc /\ \A d \in Calls : key \notin swept[d]
  \/ \E c \in Calls : Minds(c, key)

AllKept == crashes + faults = 0 => \A r \in Revision : disk[r] # None => Kept(r)

NoFaultOf(c) ==
  ~(PublishFails(c) \/ CleanupFails(c) \/ SweepFails(c) \/ BackupFails(c))

StartsAfterCrash == phase = "up" \/ crashes > 0

OrphansInv ==
  /\ FoundInv /\ StartsAfterCrash
  /\ InTurn /\ SweptBehind /\ ReplaysCovered /\ AllKept

\* Nobody gets ahead of a call that stays where it is.
LEMMA OrderKeeps ==
  ASSUME NEW q \in Seq(Calls), NEW c \in Calls, NEW steps, NEW step,
         OneEach(q, steps, pc), pc[c] \in steps => q # <<>> /\ Head(q) = c,
         NEW x, NEW y, Ahead(x, y, Moved(q, steps, c, step))
  PROVE  x # c /\ (y # c => Ahead(x, y, q))
<1> DEFINE moved == Moved(q, steps, c, step)
           shift == IF pc[c] \in steps THEN 1 ELSE 0
<1>1. PICK i \in DOMAIN moved, j \in DOMAIN moved : i < j /\ moved[i] = x /\ moved[j] = y
  BY DEF Ahead
<1>2. \A k \in DOMAIN moved :
        /\ moved \in Seq(Calls)
        /\ \/ k = Len(moved) /\ step \in steps /\ moved[k] = c
           \/ k + shift \in DOMAIN q /\ moved[k] = q[k + shift]
  BY QueueMoves
<1> HIDE DEF moved
<1>3. i \in Nat /\ j \in Nat /\ i # 0 /\ i < Len(moved) /\ shift \in Nat
  BY <1>1, <1>2
<1>4. i + shift \in DOMAIN q /\ x = q[i + shift]
  BY <1>1, <1>2, <1>3
<1>5. x # c
  <2> SUFFICES ASSUME x = c PROVE FALSE
    OBVIOUS
  <2>1. pc[c] \in steps
    BY <1>4 DEF OneEach
  <2>2. 1 \in DOMAIN q /\ q[1] = c
    BY <2>1
  <2>3. i + shift = 1
    BY <1>4, <2>2 DEF OneEach
  <2> QED
    BY <1>3, <2>1, <2>3
<1>6. ASSUME y # c PROVE Ahead(x, y, q)
  <2>1. j + shift \in DOMAIN q /\ y = q[j + shift]
    BY <1>1, <1>2, <1>6
  <2>2. i + shift < j + shift
    BY <1>1, <1>3
  <2> QED
    BY <1>4, <2>1, <2>2 DEF Ahead
<1> QED
  BY <1>5, <1>6

\* Who is served stands ahead of all the others.
LEMMA ServedIsAhead ==
  ASSUME NEW q \in Seq(Calls), NEW c \in Calls, NEW d \in Calls, c # d, NEW steps,
         OneEach(q, steps, pc), pc[d] \in steps, q # <<>>, Head(q) = c
  PROVE  Ahead(c, d, q)
<1>1. PICK j \in DOMAIN q : q[j] = d
  BY DEF OneEach
<1>2. 1 \in DOMAIN q /\ q[1] = c /\ 1 < j
  BY <1>1
<1> QED
  BY <1>1, <1>2 DEF Ahead

\* The same of the two queues.
LEMMA QueuesKeepOrder ==
  ASSUME FilesAssumption, TypeOK, Queued, NEW c \in Calls, Step(c) \/ Begin(c),
         NEW x, NEW y
  PROVE  /\ Ahead(x, y, fileQueue') => x # c /\ (y # c => Ahead(x, y, fileQueue))
         /\ Ahead(x, y, dbQueue') => x # c /\ (y # c => Ahead(x, y, dbQueue))
<1>1. PICK step \in AllSteps, record \in Record \cup {None} :
        /\ GoesWith(c, step, record)
        /\ pc[c] \in FileSteps => fileQueue # <<>> /\ Head(fileQueue) = c
        /\ pc[c] \in DbSteps => dbQueue # <<>> /\ Head(dbQueue) = c
  BY MoveOf
<1>2. /\ fileQueue \in Seq(Calls) /\ dbQueue \in Seq(Calls)
      /\ OneEach(fileQueue, FileSteps, pc) /\ OneEach(dbQueue, DbSteps, pc)
  BY DEF TypeOK, Queued
<1>3. /\ fileQueue' = Moved(fileQueue, FileSteps, c, step)
      /\ dbQueue' = Moved(dbQueue, DbSteps, c, step)
  BY <1>1 DEF GoesWith
<1>4. ASSUME Ahead(x, y, fileQueue')
      PROVE  x # c /\ (y # c => Ahead(x, y, fileQueue))
  BY <1>1, <1>2, <1>3, <1>4, OrderKeeps
<1>5. ASSUME Ahead(x, y, dbQueue')
      PROVE  x # c /\ (y # c => Ahead(x, y, dbQueue))
  BY <1>1, <1>2, <1>3, <1>5, OrderKeeps
<1> QED
  BY <1>4, <1>5

\* The same of the two queues.
LEMMA ServedFirst ==
  ASSUME FilesAssumption, TypeOK, Queued, NEW c \in Calls, Step(c) \/ Begin(c),
         NEW d \in Calls, c # d
  PROVE  /\ pc[c] \in FileSteps /\ pc[d] \in FileSteps => Ahead(c, d, fileQueue)
         /\ pc[c] \in DbSteps /\ pc[d] \in DbSteps => Ahead(c, d, dbQueue)
<1>1. /\ pc[c] \in FileSteps => fileQueue # <<>> /\ Head(fileQueue) = c
      /\ pc[c] \in DbSteps => dbQueue # <<>> /\ Head(dbQueue) = c
  BY MoveOf
<1>2. /\ fileQueue \in Seq(Calls) /\ dbQueue \in Seq(Calls)
      /\ OneEach(fileQueue, FileSteps, pc) /\ OneEach(dbQueue, DbSteps, pc)
  BY DEF TypeOK, Queued
<1> QED
  BY <1>1, <1>2, ServedIsAhead

\* How a call comes to make a revision and to its transaction.
LEMMA WriterMoves ==
  ASSUME FilesAssumption, TypeOK, WellPlaced, NEW c \in Calls, Step(c) \/ Begin(c),
         Writes(c)'
  PROVE  \/ Begin(c) /\ pc'[c] = "looking up" /\ base'[c] = row /\ Exists(row)
         \/ /\ Writes(c) /\ base'[c] = base[c]
            /\ \/ /\ LookUp(c) /\ pc[c] = "looking up" /\ ~Known(c)
                  /\ pc'[c] = IF Kind[c] = "append" THEN "reading" ELSE "publishing"
               \/ /\ Read(c) /\ pc[c] = "reading" /\ pc'[c] = "publishing"
                  /\ Kind[c] = "append"
               \/ Publish(c) /\ pc[c] = "publishing" /\ pc'[c] = "writing"
<1>1. c \in DOMAIN pc /\ c \in DOMAIN base
  BY DEF TypeOK
<1>2. CASE Begin(c)
  <2>1. pc'[c] = FirstStep(c) /\ base'[c] = row
    BY <1>1, <1>2 DEF Begin, GoesWith
  <2> QED
    BY <1>2, <2>1, FirstStepOfKind DEF Begin, Writes
<1>3. CASE LookUp(c)
  BY <1>1, <1>3 DEF LookUp, Turn, GoesTo, GoesWith, Writes
<1>4. CASE Read(c)
  BY <1>1, <1>4 DEF Read, Turn, GoesTo, GoesWith, Writes
<1>5. CASE Publish(c)
  BY <1>1, <1>5 DEF Publish, Turn, GoesTo, GoesWith, Writes
<1>6. CASE Step(c) /\ ~LookUp(c) /\ ~Read(c) /\ ~Publish(c)
  <2>1. pc'[c] \notin {"looking up", "reading", "publishing", "writing"}
    BY <1>1, <1>6 DEF Step, FileTurn, DbTurn, GoesTo, GoesWith, AfterSweep,
       Copy, BackupFails, PublishFails, Undo, Discard, CleanupFails, Sweep, SweepFails,
       BeginBarrier, Write, WriteFails, Check, Purge, Collect, Note, Clear, Snapshot
  <2> QED
    BY <2>1 DEF Writes
<1> QED
  BY <1>2, <1>3, <1>4, <1>5, <1>6

\* The queues serve in order, so no call overtakes one that began with less.
LEMMA StepKeepsInTurn ==
  ASSUME FilesAssumption, TypeOK, WellPlaced, Behind, Queued, InTurn,
         NEW m \in Calls, Step(m) \/ Begin(m)
  PROVE  InTurn'
<1> SUFFICES ASSUME NEW c \in Calls, NEW d \in Calls, Earlier(c, d)'
             PROVE  InTurnOf(c, d)'
  BY DEF InTurn
<1>1. /\ Writes(c)' /\ Writes(d)' /\ base'[c].rev < base'[d].rev
  BY DEF Earlier
<1>2. c # d
  <2> SUFFICES ASSUME c = d PROVE FALSE
    OBVIOUS
  <2>1. base'[c].rev \in Nat
    <3>1. base'[c] # None
      <4>1. Placed(c)'
        BY StepKeepsPlaces DEF WellPlaced
      <4> QED
        BY <1>1, <4>1 DEF Placed, Making, Writes
    <3>2. base'[c] \in {base[c], None, row}
      BY HandsMove
    <3> QED
      BY <3>1, <3>2 DEF TypeOK, Record, Revision
  <2> QED
    BY <1>1, <2>1
<1>3. /\ ~Ahead(m, c, fileQueue') /\ ~Ahead(m, c, dbQueue')
      /\ c # m /\ Ahead(d, c, fileQueue') => Ahead(d, c, fileQueue)
      /\ c # m /\ Ahead(d, c, dbQueue') => Ahead(d, c, dbQueue)
  BY QueuesKeepOrder
<1>4. \A e \in Calls : e # m =>
        pc'[e] = pc[e] /\ base'[e] = base[e] /\ (Writes(e)' <=> Writes(e))
  BY OthersStay DEF Writes
<1>5. CASE m # c /\ m # d
  <2>1. InTurnOf(c, d)
    BY <1>1, <1>4, <1>5 DEF InTurn, Earlier
  <2> QED
    BY <1>3, <1>4, <1>5, <2>1 DEF InTurnOf
<1>6. CASE m = c
  <2>1. pc'[d] = pc[d] /\ base'[d] = base[d] /\ Writes(d)
    BY <1>1, <1>2, <1>4, <1>6
  <2>2. CASE Begin(c) /\ base'[c] = row /\ Exists(row)
    <3>1. base[d] # None
      BY <2>1 DEF WellPlaced, Placed, Making, Writes
    <3>2. base[d].rev <= row.rev /\ base[d].rev \in Nat /\ row.rev \in Nat
      BY <2>2, <3>1 DEF Behind, TypeOK, Exists, Record, Revision
    <3> QED
      BY <1>1, <2>1, <2>2, <3>2
  <2>3. CASE Writes(c) /\ base'[c] = base[c]
    <3>1. InTurnOf(c, d)
      BY <1>1, <2>1, <2>3 DEF InTurn, Earlier
    <3>2. CASE pc[c] = "looking up" /\ pc'[c] \in {"reading", "publishing"}
      <4>1. pc'[d] = "looking up"
        BY <2>1, <3>1, <3>2 DEF InTurnOf
      <4>2. ~Ahead(d, c, fileQueue')
        <5>1. Queued'
          BY StepKeepsQueued
        <5>2. \A i \in DOMAIN fileQueue' : fileQueue'[i] # d
          BY <4>1, <5>1 DEF Queued, OneEach, FileSteps
        <5> QED
          BY <5>2 DEF Ahead
      <4> QED
        BY <3>2, <4>1, <4>2 DEF InTurnOf
    <3>3. CASE pc[c] = "reading" /\ pc'[c] = "publishing" /\ Kind[c] = "append"
      BY <2>1, <3>1, <3>3 DEF InTurnOf
    <3>4. CASE pc[c] = "publishing" /\ pc'[c] = "writing"
      BY <2>1, <3>1, <3>4 DEF InTurnOf
    <3> QED
      BY <1>1, <1>6, <2>3, <3>2, <3>3, <3>4, WriterMoves DEF Begin, Writes
  <2> QED
    BY <1>1, <1>6, <2>2, <2>3, WriterMoves
<1>7. CASE m = d
  <2>1. pc'[c] = pc[c] /\ base'[c] = base[c] /\ Writes(c)
    BY <1>1, <1>2, <1>4, <1>7
  <2>2. ~Ahead(d, c, fileQueue') /\ ~Ahead(d, c, dbQueue')
    BY <1>3, <1>7
  <2>3. CASE Begin(d) /\ pc'[d] = "looking up"
    BY <2>1, <2>2, <2>3 DEF InTurnOf
  <2>4. CASE Writes(d) /\ base'[d] = base[d]
    <3>1. InTurnOf(c, d)
      BY <1>1, <2>1, <2>4 DEF InTurn, Earlier
    <3>2. /\ pc[d] \in FileSteps /\ pc[c] \in FileSteps => Ahead(d, c, fileQueue)
          /\ pc[d] \in DbSteps /\ pc[c] \in DbSteps => Ahead(d, c, dbQueue)
      BY <1>2, <1>7, ServedFirst
    <3>3. CASE /\ pc[d] = "looking up"
               /\ pc'[d] = IF Kind[d] = "append" THEN "reading" ELSE "publishing"
      <4>1. pc[c] # "looking up"
        BY <3>1, <3>2, <3>3 DEF InTurnOf, DbSteps
      <4> QED
        BY <1>1, <2>1, <2>2, <3>3, <4>1 DEF InTurnOf, Writes
    <3>4. CASE pc[d] = "reading" /\ pc'[d] = "publishing"
      <4>1. pc[c] \notin {"looking up", "reading"}
        BY <3>1, <3>2, <3>4 DEF InTurnOf, FileSteps
      <4> QED
        BY <2>1, <2>2, <3>4, <4>1 DEF InTurnOf
    <3>5. CASE pc[d] = "publishing" /\ pc'[d] = "writing"
      <4>1. pc[c] \notin {"looking up", "reading"}
        BY <3>1, <3>2, <3>5 DEF InTurnOf, FileSteps
      <4>2. pc[c] = "publishing" => Kind[c] # Kind[d]
        BY <3>1, <3>2, <3>5 DEF InTurnOf, FileSteps
      <4> QED
        BY <2>1, <2>2, <3>5, <4>1, <4>2 DEF InTurnOf
    <3> QED
      BY <1>1, <1>7, <2>4, <3>3, <3>4, <3>5, WriterMoves DEF Begin, Writes
  <2> QED
    BY <1>1, <1>7, <2>3, <2>4, WriterMoves
<1> QED
  BY <1>5, <1>6, <1>7

\* What is deleted but not struck off comes from what was owed.
LEMMA SweptMoves ==
  ASSUME FilesAssumption, TypeOK, NEW c \in Calls, Step(c) \/ Begin(c)
  PROVE  \/ swept' = swept
         \/ Clear(c) /\ \A d \in Calls : swept'[d] \subseteq swept[d]
         \/ \E key \in todo[c] :
              /\ Sweep(c) /\ pc[c] = "sweeping"
              /\ disk' = Deleted(key) /\ gc' = gc
              /\ \A d \in Calls : swept'[d] \subseteq swept[d] \cup {key}
              /\ \A d \in Calls : d # c => swept'[d] = swept[d]
<1>1. CASE Sweep(c)
  <2>1. PICK key \in todo[c] :
          disk' = Deleted(key) /\ swept' = [swept EXCEPT ![c] = @ \cup {key}]
    BY <1>1 DEF Sweep
  <2>2. \A d \in Calls : swept'[d] = IF d = c THEN swept[d] \cup {key} ELSE swept[d]
    BY <2>1 DEF TypeOK
  <2>3. gc' = gc /\ pc[c] = "sweeping"
    BY <1>1 DEF Sweep, Turn
  <2> QED
    BY <1>1, <2>1, <2>2, <2>3
<1>2. CASE Clear(c)
  BY <1>2 DEF Clear, TypeOK
<1>3. CASE Begin(c) \/ (Step(c) /\ ~Sweep(c) /\ ~Clear(c))
  BY <1>3 DEF Begin, Step, FileTurn, DbTurn, Copy, BackupFails, sweeps,
     Read, Publish, PublishFails, Undo, Discard, CleanupFails, SweepFails, BeginBarrier,
     LookUp, Write, WriteFails, Check, Purge, Collect, Note, Snapshot
<1> QED
  BY <1>1, <1>2, <1>3

\* What a new revision replaces was not collected before.
LEMMA StepKeepsSwept ==
  ASSUME FilesAssumption, TypeOK, WellPlaced, Behind, SweptBehind,
         NEW c \in Calls, Step(c) \/ Begin(c)
  PROVE  SweptBehind'
<1> SUFFICES ASSUME Exists(row)', NEW d \in Calls, NEW key \in swept'[d]
             PROVE  key < row'.rev
  BY DEF SweptBehind
<1>1. Exists(row) /\ row.rev \in Nat /\ row'.rev >= row.rev
  <2>1. CASE row' = row
    BY <2>1 DEF Exists, TypeOK, Record, Revision
  <2>2. CASE Current(c) /\ row' = [rev |-> Target(c), content |-> Bytes(c)]
    BY <2>2 DEF Current, Target, Exists, TypeOK, Record, Revision
  <2> QED
    BY <2>1, <2>2, RowMoves DEF Exists
<1>2. key < row.rev /\ key \in Nat
  <2>1. \A e \in Calls : \A k \in todo[e] \cup swept[e] : k < row.rev /\ k \in Nat
    BY <1>1 DEF Behind, SweptBehind, TypeOK, Revision
  <2>2. key \in swept[d] \/ key \in todo[c]
    BY SweptMoves
  <2> QED
    BY <2>1, <2>2
<1>3. row'.rev \in Nat
  <2>1. CASE row' = row
    BY <1>1, <2>1
  <2>2. CASE Current(c) /\ row' = [rev |-> Target(c), content |-> Bytes(c)]
    BY <1>1, <2>2 DEF Current, Target
  <2> QED
    BY <2>1, <2>2, RowMoves DEF Exists
<1> QED
  BY <1>1, <1>2, <1>3

\* A call that asks for the same as the one whose transaction commits made the same
\* revision: neither of them was overtaken by the other.
LEMMA SameRequest ==
  ASSUME FilesAssumption, TypeOK, WellPlaced, Behind, Queued, InTurn,
         NEW c \in Calls, Write(c), Current(c),
         NEW d \in Calls, Writes(d), Looked(d), RequestOf(d) = RequestOf(c)
  PROVE  Target(d) = Target(c)
<1>1. pc[c] = "writing" /\ Writes(c) /\ Step(c)
  BY DEF Write, Turn, Step, DbTurn, WellPlaced, Placed, Writes
<1>2. base[c] \in Record /\ base[d] \in Record /\ base[c] # None /\ base[d] # None
  BY <1>1 DEF WellPlaced, Placed, Making, Writes, TypeOK
<1>3. base[c].rev \in Nat /\ base[d].rev \in Nat
  <2>1. \A record \in Record : record.rev \in Nat
    BY DEF Record, Revision
  <2> QED
    BY <1>2, <2>1
<1>4. Kind[d] = Kind[c]
  BY DEF RequestOf
<1>5. base[d].rev <= base[c].rev
  BY <1>2 DEF Behind, Current, Exists
<1>6. ~(base[d].rev < base[c].rev)
  <2> SUFFICES ASSUME base[d].rev < base[c].rev PROVE FALSE
    OBVIOUS
  <2>1. InTurnOf(d, c)
    BY <1>1 DEF InTurn, Earlier
  <2>3. d # c
    BY <1>3
  <2>2. pc[d] = "writing" => Ahead(c, d, dbQueue)
    BY <1>1, <2>3, ServedFirst DEF DbSteps
  <2> QED
    BY <1>1, <1>4, <2>1, <2>2 DEF InTurnOf, Looked
<1>7. base[d].rev = base[c].rev
  BY <1>3, <1>5, <1>6
<1> QED
  BY <1>7 DEF Target

\* What happens to the committed state when a call moves on.
LEMMA StoreMoves ==
  ASSUME FilesAssumption, TypeOK, WellPlaced, NEW c \in Calls, Step(c) \/ Begin(c)
  PROVE  \/ /\ row' = row /\ receipts' = receipts
            /\ gc' = gc \/ (Clear(c) /\ gc' = gc \ swept[c] /\ disk' = disk)
         \/ Purge(c) /\ receipts' = {}
         \/ /\ Write(c) /\ pc[c] = "writing" /\ ~Known(c) /\ Current(c)
            /\ pc'[c] = "collecting"
            /\ row' = [rev |-> Target(c), content |-> Bytes(c)]
            /\ receipts' = receipts \cup {RequestOf(c)}
            /\ gc' = gc \cup {base[c].rev}
            /\ disk' = disk /\ todo' = todo /\ swept' = swept /\ fileQueue' = fileQueue
<1> USE DEF durable
<1>1. CASE Begin(c)
  BY <1>1 DEF Begin
<1>2. CASE FileTurn(c)
  BY <1>2 DEF FileTurn, Read, Publish, PublishFails, Undo, Discard, CleanupFails,
     Sweep, SweepFails, BeginBarrier
<1>3. CASE Write(c)
  <2>1. pc[c] = "writing" /\ c \in DOMAIN pc
    BY <1>3 DEF Write, Turn, TypeOK
  <2>2. CASE ~Replayed(c) /\ ~Known(c) /\ Current(c)
    <3>1. GoesTo(c, "collecting")
      BY <1>3, <2>2 DEF Write
    <3>2. pc'[c] = "collecting" /\ fileQueue' = fileQueue
      BY <2>1, <3>1 DEF GoesTo, GoesWith, Moved, FileSteps
    <3> QED
      BY <1>3, <2>1, <2>2, <3>2 DEF Write, sweeps
  <2>3. CASE Replayed(c) \/ Known(c) \/ ~Current(c)
    BY <1>3, <2>3 DEF Write
  <2> QED
    BY <2>2, <2>3
<1>4. CASE Purge(c)
  BY <1>4 DEF Purge
<1>5. CASE Clear(c)
  BY <1>5 DEF Clear
<1>6. CASE DbTurn(c) /\ ~Write(c) /\ ~Purge(c) /\ ~Clear(c)
  BY <1>6 DEF DbTurn, LookUp, WriteFails, Check, Collect, Note, Snapshot
<1>7. CASE Copy(c) \/ BackupFails(c)
  BY <1>7 DEF Copy, BackupFails
<1> QED
  BY <1>1, <1>2, <1>3, <1>4, <1>5, <1>6, <1>7 DEF Step

\* A call that is overtaken by its own operation finds its revision committed or
\* owed, and what is owed stays so until the call has had its turn.
LEMMA StepKeepsCovered ==
  ASSUME FilesAssumption, TypeOK, WellPlaced, Behind, SweptBehind, Queued, InTurn,
         NEW c \in Calls, Step(c) \/ Begin(c),
         NEW d \in Calls, d # c, Covered(d)
  PROVE  Covered(d)'
<1>1. pc'[d] = pc[d] /\ base'[d] = base[d]
  BY OthersStay
<1> SUFFICES ASSUME Replayed(d)', pc[d] \in {"reading", "publishing"},
                    pc[d] = "reading" => Kind[d] = "append"
             PROVE  Covered(d)'
  BY <1>1 DEF Covered
<1>2. RequestOf(d)' = RequestOf(d) /\ Target(d)' = Target(d)
  BY <1>1 DEF RequestOf, Target
<1>3. Writes(d) /\ Looked(d) /\ base[d] # None
  BY DEF Writes, Looked, WellPlaced, Placed, Making
<1>4. CASE Purge(c) /\ receipts' = {}
  BY <1>4 DEF Replayed
<1>5. CASE /\ Write(c) /\ pc[c] = "writing" /\ Current(c)
           /\ row' = [rev |-> Target(c), content |-> Bytes(c)]
           /\ receipts' = receipts \cup {RequestOf(c)}
           /\ gc' = gc \cup {base[c].rev}
           /\ disk' = disk /\ todo' = todo /\ swept' = swept /\ fileQueue' = fileQueue
           /\ pc'[c] = "collecting"
  <2>0. Exists(row)' /\ row'.rev = Target(c)
    <3>1. base[c] # None /\ base[c].rev < MaxRevision
      BY <1>5 DEF WellPlaced, Placed, Making
    <3>2. Target(c) \in Revision /\ Bytes(c) \in Content
      BY <3>1, NewRevision
    <3>3. row' \in Record
      BY <1>5, <3>2 DEF Record
    <3> QED
      BY <1>5, <3>3 DEF Exists, FilesAssumption
  <2>1. CASE RequestOf(d) = RequestOf(c)
    <3>1. Target(d) = Target(c)
      BY <1>3, <1>5, <2>1, SameRequest
    <3> QED
      BY <1>2, <2>0, <3>1 DEF Covered
  <2>2. CASE Replayed(d)
    <3>1. CASE pc[d] = "reading"
      <4>1. row.rev = Target(d) /\ row.rev = base[c].rev
        BY <1>5, <2>2, <3>1 DEF Covered, Current
      <4>2. base[d] \in Record
        BY <1>3 DEF TypeOK
      <4>3. base[d].rev < base[c].rev
        BY <4>1, <4>2 DEF Target, Record, Revision
      <4>4. Writes(c)
        BY <1>5 DEF WellPlaced, Placed, Writes
      <4>5. InTurnOf(d, c)
        BY <1>3, <4>3, <4>4 DEF InTurn, Earlier
      <4> QED
        BY <1>5, <3>1, <4>5 DEF InTurnOf
    <3>2. CASE pc[d] = "publishing" /\ row.rev = Target(d)
      <4>1. Exists(row) /\ row.rev \in Nat /\ Target(d) = base[c].rev
        BY <1>5, <3>2 DEF Current, TypeOK, Exists, Record, Revision
      <4>2. \A e \in Calls : Target(d) \notin swept[e] /\ Target(d) \notin todo[e]
        BY <3>2, <4>1 DEF SweptBehind, Behind
      <4>3. Owed(Target(d), d)'
        BY <1>2, <1>5, <4>1, <4>2 DEF Owed
      <4> QED
        BY <1>1, <1>2, <2>0, <3>2, <4>3 DEF Covered
    <3>3. CASE pc[d] = "publishing" /\ Owed(Target(d), d)
      <4>1. \A e \in Calls : pc'[e] = "sweeping" => pc[e] = "sweeping"
        BY <1>5, OthersStay
      <4>2. Owed(Target(d), d)'
        BY <1>2, <1>5, <3>3, <4>1 DEF Owed
      <4> QED
        BY <1>1, <1>2, <2>0, <3>3, <4>2 DEF Covered
    <3> QED
      BY <2>2, <3>1, <3>2, <3>3 DEF Covered
  <2> QED
    BY <1>2, <1>5, <2>1, <2>2 DEF Replayed
<1>6. CASE row' = row /\ receipts' = receipts
  <2>1. Covered(d) /\ Replayed(d)
    BY <1>2, <1>6 DEF Replayed
  <2>2. CASE Exists(row) /\ row.rev = Target(d)
    BY <1>1, <1>2, <1>6, <2>2 DEF Covered, Exists
  <2>3. CASE pc[d] = "publishing" /\ Exists(row) /\ Owed(Target(d), d)
    <3> DEFINE key == Target(d)
    <3>1. /\ key \in gc
          /\ \A e \in Calls :
               /\ key \notin swept[e]
               /\ pc[e] = "sweeping" /\ key \in todo[e] => ~Ahead(e, d, fileQueue)
      BY <2>3 DEF Owed
    <3> HIDE DEF key
    <3>2. ~(pc[c] = "sweeping" /\ key \in todo[c])
      BY <2>3, <3>1, ServedFirst DEF FileSteps
    <3>3. \A e \in Calls : key \notin swept'[e]
      BY <3>1, <3>2, SweptMoves
    <3>4. key \in gc'
      <4>1. CASE gc' = gc
        BY <3>1, <4>1
      <4>2. CASE gc' = gc \ swept[c]
        BY <3>1, <4>2
      <4>3. CASE Purge(c)
        BY <1>6, <3>1, <4>3 DEF Purge
      <4>4. CASE gc' = gc \cup {base[c].rev}
        BY <3>1, <4>4
      <4> QED
        BY <4>1, <4>2, <4>3, <4>4, StoreMoves
    <3>5. ASSUME NEW e \in Calls, pc'[e] = "sweeping", key \in todo'[e]
          PROVE  ~Ahead(e, d, fileQueue')
      <4>1. CASE e = c
        BY <4>1, QueuesKeepOrder
      <4>2. CASE e # c
        <5>1. pc[e] = "sweeping" /\ key \in todo[e]
          BY <3>5, <4>2, OthersStay, OthersKeepTodo
        <5> QED
          BY <3>1, <5>1, QueuesKeepOrder
      <4> QED
        BY <4>1, <4>2
    <3>6. Owed(key, d)'
      BY <1>2, <3>3, <3>4, <3>5 DEF Owed, key
    <3> QED
      BY <1>1, <1>2, <1>6, <2>3, <3>6 DEF Covered, key, Exists
  <2> QED
    BY <2>1, <2>2, <2>3 DEF Covered
<1> QED
  BY <1>4, <1>5, <1>6, StoreMoves

\* A call that has just looked is not done, and goes on with what it was promised.
LEMMA OwnStepKeepsCovered ==
  ASSUME FilesAssumption, TypeOK, WellPlaced, NEW c \in Calls, Step(c) \/ Begin(c),
         Covered(c)
  PROVE  Covered(c)'
<1> SUFFICES ASSUME Replayed(c)', pc'[c] \in {"reading", "publishing"},
                    pc'[c] = "reading" => Kind[c] = "append"
             PROVE  Exists(row)' /\ row'.rev = Target(c)'
  BY DEF Covered
<1>1. Writes(c)'
  <2>1. Placed(c)'
    BY StepKeepsPlaces DEF WellPlaced
  <2> QED
    BY <2>1 DEF Placed, Writes
<1>2. CASE LookUp(c) /\ ~Known(c) /\ base'[c] = base[c]
  <2>1. ~Replayed(c)
    BY <1>2 DEF Replayed, Known, RequestOf
  <2> QED
    BY <1>2, <2>1 DEF LookUp, durable, Replayed, RequestOf
<1>3. CASE /\ Read(c) /\ base'[c] = base[c]
           /\ pc[c] = "reading" /\ pc'[c] = "publishing" /\ Kind[c] = "append"
  <2>1. receipts' = receipts /\ row' = row
    BY <1>3 DEF Read, durable
  <2>2. Replayed(c) /\ Target(c)' = Target(c)
    BY <1>3, <2>1 DEF Replayed, RequestOf, Target
  <2> QED
    BY <1>3, <2>1, <2>2 DEF Covered, Exists
<1> QED
  BY <1>1, <1>2, <1>3, WriterMoves

\* What the transaction of c adds.
LEMMA CommittedRecord ==
  ASSUME FilesAssumption, TypeOK, WellPlaced, NEW c \in Calls, pc[c] = "writing",
         row' = [rev |-> Target(c), content |-> Bytes(c)]
  PROVE  Exists(row)' /\ row'.rev = Target(c)
<1>1. base[c] # None /\ base[c].rev < MaxRevision
  BY DEF WellPlaced, Placed, Making
<1>2. Target(c) \in Revision /\ Bytes(c) \in Content
  BY <1>1, NewRevision
<1>3. row' \in Record
  BY <1>2 DEF Record
<1> QED
  BY <1>3 DEF Exists, FilesAssumption

\* Without a fault nothing of what can fail fails but a transaction.
LEMMA NoFaultStep ==
  ASSUME TypeOK, NEW c \in Calls, Step(c) \/ Begin(c), crashes' + faults' = 0
  PROVE  /\ crashes + faults = 0 /\ NoFaultOf(c)
<1>1. crashes \in Nat /\ faults \in Nat
  BY DEF TypeOK
<1>2. ~Fault
  BY <1>1 DEF Fault
<1>3. NoFaultOf(c)
  BY <1>2 DEF NoFaultOf, PublishFails, CleanupFails, SweepFails, BackupFails
<1>4. crashes' = crashes /\ faults' = faults
  BY <1>3 DEF Begin, Step, FileTurn, DbTurn, Copy, NoFault, NoFaultOf, troubles,
     Read, Publish, Undo, Discard, Sweep, BeginBarrier,
     LookUp, Write, WriteFails, Check, Purge, Collect, Note, Clear, Snapshot
<1> QED
  BY <1>3, <1>4

\* A call keeps the file it is going to commit or to delete, unless another
\* attempt of it has committed it.
LEMMA OthersMind ==
  ASSUME FilesAssumption, TypeOK, WellPlaced, Behind, Queued, InTurn,
         NEW c \in Calls, Step(c) \/ Begin(c),
         NEW d \in Calls, d # c, NEW r \in Revision, Minds(d, r)
  PROVE  Minds(d, r)' \/ (Exists(row)' /\ row'.rev = r)
<1>1. pc'[d] = pc[d] /\ base'[d] = base[d]
  BY OthersStay
<1>2. WorksOn(d, r)' /\ Target(d) = r /\ RequestOf(d)' = RequestOf(d)
  BY <1>1 DEF Minds, WorksOn, Target, RequestOf
<1>3. CASE pc[d] = "writing" /\ Replayed(d)'
  <2>1. RequestOf(d) \in receipts' /\ RequestOf(d) \notin receipts
    BY <1>2, <1>3 DEF Minds, Replayed
  <2>2. Writes(d) /\ Looked(d)
    BY <1>3 DEF Writes, Looked, WellPlaced, Placed
  <2>3. /\ Write(c) /\ pc[c] = "writing" /\ Current(c)
        /\ row' = [rev |-> Target(c), content |-> Bytes(c)]
        /\ RequestOf(d) = RequestOf(c)
    BY <2>1, StoreMoves
  <2>4. Target(d) = Target(c)
    BY <2>2, <2>3, SameRequest
  <2> QED
    BY <1>2, <2>3, <2>4, CommittedRecord
<1>4. CASE ~(pc[d] = "writing" /\ Replayed(d)')
  BY <1>1, <1>2, <1>4 DEF Minds
<1> QED
  BY <1>3, <1>4

\* The file of the record and what is owed stay so, or are deleted.
LEMMA NamedStays ==
  ASSUME FilesAssumption, TypeOK, WellPlaced, SweptBehind, NEW c \in Calls,
         Step(c) \/ Begin(c), NEW r \in Revision, disk'[r] # None,
         (Exists(row) /\ row.rev = r) \/ (r \in gc /\ \A d \in Calls : r \notin swept[d])
  PROVE  Kept(r)'
<1>1. \A d \in Calls : r \notin swept[d]
  BY DEF SweptBehind, Revision
<1>2. \A d \in Calls : r \notin swept'[d]
  <2>1. ASSUME NEW key \in todo[c], disk' = Deleted(key)
        PROVE  r # key
    BY <2>1 DEF Deleted, TypeOK
  <2> QED
    BY <1>1, <2>1, SweptMoves
<1>3. CASE r \in gc
  <2>1. r \in gc'
    <3>1. CASE gc' = gc \/ gc' = gc \ swept[c]
      BY <1>1, <1>3, <3>1
    <3>2. CASE Purge(c)
      BY <1>3, <3>2 DEF Purge
    <3>3. CASE gc' = gc \cup {base[c].rev}
      BY <1>3, <3>3
    <3> QED
      BY <3>1, <3>2, <3>3, StoreMoves
  <2> QED
    BY <1>2, <2>1 DEF Kept
<1>4. CASE Exists(row) /\ row.rev = r
  <2>1. CASE row' = row
    BY <1>4, <2>1 DEF Kept, Exists
  <2>2. CASE Purge(c)
    <3>1. r \in gc'
      BY <1>4, <2>2 DEF Purge
    <3> QED
      BY <1>2, <3>1 DEF Kept
  <2>3. CASE Current(c) /\ gc' = gc \cup {base[c].rev}
    <3>1. r \in gc'
      BY <1>4, <2>3 DEF Current
    <3> QED
      BY <1>2, <3>1 DEF Kept
  <2> QED
    BY <2>1, <2>2, <2>3, StoreMoves
<1> QED
  BY <1>3, <1>4

\* A call commits the file it has in hand, or deletes it, or still has it.
LEMMA OwnIsMinded ==
  ASSUME FilesAssumption, TypeOK, WellPlaced, NEW c \in Calls,
         Step(c) \/ Begin(c), NoFaultOf(c),
         NEW r \in Revision, disk'[r] # None, Minds(c, r)
  PROVE  Kept(r)'
<1>0. c \in DOMAIN pc /\ c \in DOMAIN base /\ Target(c) = r
  BY DEF TypeOK, Minds, WorksOn
<1>1. ASSUME NEW step, GoesTo(c, step), step \in {"undoing", "checking", "discarding"}
      PROVE  Kept(r)'
  <2>1. pc'[c] = step /\ base'[c] = base[c]
    BY <1>0, <1>1 DEF GoesTo, GoesWith
  <2>2. Minds(c, r)'
    BY <1>0, <1>1, <2>1 DEF Minds, WorksOn, Target
  <2> QED
    BY <2>2 DEF Kept
<1>2. CASE Write(c)
  <2>1. pc[c] = "writing"
    BY <1>2 DEF Write, Turn
  <2>2. ~Replayed(c)
    BY <2>1 DEF Minds
  <2>3. CASE row' = [rev |-> Target(c), content |-> Bytes(c)]
    BY <1>0, <2>1, <2>3, CommittedRecord DEF Kept
  <2> QED
    BY <1>1, <1>2, <2>2, <2>3 DEF Write
<1>3. CASE WriteFails(c)
  BY <1>1, <1>3 DEF WriteFails
<1>4. CASE Undo(c) \/ Discard(c)
  BY <1>0, <1>4 DEF Undo, Discard, Deleted, TypeOK
<1>5. CASE Check(c)
  <2>1. CASE Exists(row) /\ row.rev = r
    BY <1>5, <2>1 DEF Check, durable, Kept, Exists
  <2>2. CASE ~(Exists(row) /\ row.rev = r)
    BY <1>0, <1>1, <1>5, <2>2 DEF Check
  <2> QED
    BY <2>1, <2>2
<1> QED
  BY <1>2, <1>3, <1>4, <1>5 DEF Minds, WorksOn, NoFaultOf, Step, FileTurn, DbTurn,
     Copy, MayCopy,
     Begin, Turn, Read, Publish, Sweep, BeginBarrier, LookUp, Purge, Collect, Note, Clear, Snapshot

\* Bytes appear only where a call publishes them.
LEMMA BytesAppear ==
  ASSUME FilesAssumption, TypeOK, NEW c \in Calls,
         Step(c) \/ Begin(c), NoFaultOf(c),
         NEW r \in Revision, disk[r] = None, disk'[r] # None
  PROVE  Publish(c) /\ r = Target(c) /\ pc[c] = "publishing" /\ pc'[c] = "writing"
<1>0. c \in DOMAIN pc
  BY DEF TypeOK
<1>1. CASE disk' = disk
  BY <1>1
<1>2. ASSUME NEW key, disk' = Deleted(key)
      PROVE  FALSE
  BY <1>2 DEF Deleted, TypeOK
<1>3. CASE Publish(c)
  <2>1. disk' = [disk EXCEPT ![Target(c)] = Bytes(c)] /\ GoesTo(c, "writing")
    BY <1>3 DEF Publish
  <2>2. r = Target(c)
    BY <2>1 DEF TypeOK
  <2> QED
    BY <1>0, <1>3, <2>1, <2>2 DEF Publish, Turn, GoesTo, GoesWith
<1>4. CASE Undo(c) \/ Discard(c) \/ Sweep(c)
  BY <1>2, <1>4 DEF Undo, Discard, Sweep
<1> QED
  BY <1>1, <1>3, <1>4 DEF NoFaultOf, Begin, Step, FileTurn, DbTurn, Copy, durable,
     Read, BeginBarrier,
     LookUp, Write, WriteFails, Check, Purge, Collect, Note, Clear, Snapshot

\* Whatever there is, somebody names it.
LEMMA StepKeepsKept ==
  ASSUME FilesAssumption, TypeOK, WellPlaced, Behind, Queued, InTurn, SweptBehind,
         ReplaysCovered, AllKept, NEW c \in Calls, Step(c) \/ Begin(c)
  PROVE  AllKept'
<1> SUFFICES ASSUME crashes' + faults' = 0, NEW r \in Revision, disk'[r] # None
             PROVE  Kept(r)'
  BY DEF AllKept
<1>1. crashes + faults = 0 /\ NoFaultOf(c)
  BY NoFaultStep
<1>2. CASE (Exists(row) /\ row.rev = r) \/ (r \in gc /\ \A d \in Calls : r \notin swept[d])
  BY <1>2, NamedStays
<1>3. ASSUME NEW d \in Calls, Minds(d, r)
      PROVE  Kept(r)'
  BY <1>1, <1>3, OwnIsMinded, OthersMind DEF Kept
<1>4. CASE disk[r] = None
  <2>1. Publish(c) /\ r = Target(c) /\ pc[c] = "publishing" /\ pc'[c] = "writing"
    BY <1>1, <1>4, BytesAppear
  <2>2. base'[c] = base[c] /\ receipts' = receipts
    <3>1. c \in DOMAIN base
      BY DEF TypeOK
    <3> QED
      BY <2>1, <3>1, <1>4 DEF Publish, GoesTo, GoesWith
  <2>3. CASE Replayed(c)
    <3>1. Exists(row) /\ (row.rev = Target(c) \/ Owed(Target(c), c))
      BY <2>1, <2>3 DEF ReplaysCovered, Covered
    <3> QED
      BY <2>1, <3>1, NamedStays DEF Owed
  <2>4. CASE ~Replayed(c)
    <3>1. Minds(c, r)'
      BY <2>1, <2>2, <2>4 DEF Minds, WorksOn, Target, Replayed, RequestOf
    <3> QED
      BY <3>1 DEF Kept
  <2> QED
    BY <2>3, <2>4
<1> QED
  BY <1>1, <1>2, <1>3, <1>4 DEF AllKept, Kept

LEMMA StepKeepsStarts ==
  ASSUME TypeOK, StartsAfterCrash, NEW c \in Calls, Step(c) \/ Begin(c)
  PROVE  StartsAfterCrash'
<1>1. phase' = phase /\ crashes' = crashes
  BY DEF Begin, Step, FileTurn, DbTurn, Copy, BackupFails, Fault, NoFault, troubles,
     Read, Publish, PublishFails, Undo, Discard, CleanupFails, Sweep, SweepFails, BeginBarrier,
     LookUp, Write, WriteFails, Check, Purge, Collect, Note, Clear, Snapshot
<1> QED
  BY <1>1 DEF StartsAfterCrash

\* A crash leaves no call, and a start comes after a crash.
LEMMA RestKeepsOrphans ==
  ASSUME FilesAssumption, OrphansInv, Crash \/ Start \/ UNCHANGED vars
  PROVE  StartsAfterCrash' /\ InTurn' /\ SweptBehind' /\ ReplaysCovered' /\ AllKept'
<1>0. TypeOK /\ StartsAfterCrash /\ InTurn /\ SweptBehind /\ ReplaysCovered /\ AllKept
      /\ OnlyWhenUp
  BY DEF OrphansInv, FoundInv, FilesInv
<1>1. crashes \in Nat /\ faults \in Nat
  BY <1>0 DEF TypeOK
<1>2. CASE Crash
  <2>1. crashes' = crashes + 1 /\ faults' = faults /\ row' = row
        /\ \A c \in Calls : swept'[c] = {}
    BY <1>2 DEF Crash, durable
  <2>2. \A c \in Calls : pc'[c] \notin {"looking up", "reading", "publishing", "writing"}
    BY <1>2 DEF Crash, Active, Ended
  <2>3. StartsAfterCrash' /\ AllKept'
    BY <1>1, <2>1 DEF StartsAfterCrash, AllKept
  <2>4. InTurn' /\ ReplaysCovered'
    BY <2>2 DEF InTurn, Earlier, Writes, ReplaysCovered, Covered
  <2> QED
    BY <2>1, <2>3, <2>4 DEF SweptBehind
<1>3. CASE Start
  <2>1. /\ row' = row /\ receipts' = receipts /\ fileQueue' = fileQueue
        /\ dbQueue' = dbQueue /\ pc' = pc /\ base' = base /\ swept' = swept
        /\ crashes' = crashes /\ faults' \in Nat /\ crashes > 0
    <3>1. crashes > 0
      BY <1>0, <1>3 DEF Start, StartsAfterCrash
    <3>2. faults' \in Nat
      BY <1>1, <1>3, StartKeepsType, <1>0 DEF TypeOK
    <3> QED
      BY <1>3, <3>1, <3>2 DEF Start, sweeps
  <2>2. \A c \in Calls : ~Active(c)
    BY <1>0, <1>3 DEF Start, OnlyWhenUp
  <2>3. \A c \in Calls : pc'[c] \notin {"looking up", "reading", "publishing", "writing"}
    BY <2>1, <2>2 DEF Active, Ended
  <2>4. StartsAfterCrash' /\ AllKept'
    BY <1>1, <2>1 DEF StartsAfterCrash, AllKept
  <2>5. InTurn' /\ ReplaysCovered'
    BY <2>3 DEF InTurn, Earlier, Writes, ReplaysCovered, Covered
  <2>6. SweptBehind'
    BY <1>0, <2>1 DEF SweptBehind, Exists
  <2> QED
    BY <2>4, <2>5, <2>6
<1>4. CASE UNCHANGED vars
  <2> USE <1>4 DEF vars, durable, sweeps, troubles
  <2>1. StartsAfterCrash'
    BY <1>0 DEF StartsAfterCrash
  <2>2. InTurn'
    <3>1. \A c, d \in Calls : Earlier(c, d)' <=> Earlier(c, d)
      BY DEF Earlier, Writes
    <3>2. \A c, d \in Calls : /\ Ahead(c, d, fileQueue)' <=> Ahead(c, d, fileQueue)
                              /\ Ahead(c, d, dbQueue)' <=> Ahead(c, d, dbQueue)
      BY DEF Ahead
    <3>3. \A c, d \in Calls : InTurnOf(c, d)' <=> InTurnOf(c, d)
      BY <3>2 DEF InTurnOf
    <3> QED
      BY <1>0, <3>1, <3>3 DEF InTurn
  <2>3. SweptBehind'
    BY <1>0 DEF SweptBehind, Exists
  <2>4. \A c \in Calls : Replayed(c)' <=> Replayed(c)
    BY DEF Replayed, RequestOf
  <2>5. ReplaysCovered'
    BY <1>0, <2>4 DEF ReplaysCovered, Covered, Exists, Owed, Ahead, Target
  <2>6. AllKept'
    BY <1>0, <2>4 DEF AllKept, Kept, Minds, WorksOn, Target, Exists
  <2> QED
    BY <2>1, <2>2, <2>3, <2>5, <2>6
<1> QED
  BY <1>2, <1>3, <1>4

\* The invariant that also says who overtakes whom and to whom every file belongs.
THEOREM OrphansInductive == Spec => []OrphansInv
<1>1. Init => OrphansInv
  <2>1. SUFFICES ASSUME Init PROVE OrphansInv
    OBVIOUS
  <2>2. FoundInv
    BY <2>1, FoundInit, FilesAssumption
  <2>3. /\ phase = "up" /\ \A c \in Calls : pc[c] \in {"idle", "over"} /\ swept[c] = {}
        /\ row = [rev |-> 1, content |-> <<>>]
        /\ disk = [r \in Revision |-> IF r = 1 THEN <<>> ELSE None]
    BY <2>1 DEF Init, InitWith
  <2>4. InTurn /\ ReplaysCovered
    BY <2>3 DEF InTurn, Earlier, Writes, ReplaysCovered, Covered
  <2>5. Exists(row)
    <3>1. row \in Record
      <4>1. <<>> \in Content
        BY DEF Content
      <4> QED
        BY <2>3, <4>1, FilesAssumption DEF Record, Revision, FilesAssumption
    <3> QED
      BY <3>1, FilesAssumption DEF Exists, FilesAssumption
  <2>6. AllKept
    BY <2>3, <2>5 DEF AllKept, Kept
  <2> QED
    BY <2>2, <2>3, <2>4, <2>6 DEF OrphansInv, StartsAfterCrash, SweptBehind
<1>2. OrphansInv /\ [Next]_vars => OrphansInv'
  <2>1. SUFFICES ASSUME OrphansInv, [Next]_vars PROVE OrphansInv'
    OBVIOUS
  <2>2. FoundInv'
    BY <2>1, FoundNext, FilesAssumption DEF OrphansInv
  <2>3. ASSUME NEW c \in Calls, Step(c) \/ Begin(c)
        PROVE  OrphansInv'
    <3>1. /\ TypeOK /\ WellPlaced /\ Behind /\ Queued /\ StartsAfterCrash
          /\ InTurn /\ SweptBehind /\ ReplaysCovered /\ AllKept
      BY <2>1 DEF OrphansInv, FoundInv, FilesInv
    <3>2. StartsAfterCrash' /\ InTurn' /\ SweptBehind' /\ AllKept'
      BY <2>3, <3>1, StepKeepsStarts, StepKeepsInTurn, StepKeepsSwept, StepKeepsKept,
         FilesAssumption
    <3>3. ReplaysCovered'
      BY <2>3, <3>1, StepKeepsCovered, OwnStepKeepsCovered, FilesAssumption
         DEF ReplaysCovered
    <3> QED
      BY <2>2, <3>2, <3>3 DEF OrphansInv
  <2>4. CASE Crash \/ Start \/ UNCHANGED vars
    BY <2>1, <2>2, <2>4, RestKeepsOrphans, FilesAssumption DEF OrphansInv
  <2> QED
    BY <2>1, <2>3, <2>4 DEF Next
<1> QED
  BY <1>1, <1>2, PTL DEF Spec

\* Without a crash or a failure no file is left that no record names, no collection
\* owes and no call is going to commit or to delete.
THEOREM OrphansTheorem == Spec => []OrphansComeFromTrouble
<1>1. OrphansInv => OrphansComeFromTrouble
  BY DEF OrphansInv, AllKept, Kept, Minds, OrphansComeFromTrouble
<1> QED
  BY <1>1, OrphansInductive, PTL

==============================================================================
