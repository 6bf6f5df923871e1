---------------------------- MODULE ManagedFiles -----------------------------
(***************************************************************************)
(* The immutable files of one runtime artifact and the row that names the  *)
(* current one: SqliteAgentRuntimeStore writes a new revision, the         *)
(* ManagedFileStore holds its bytes, the AppDatabase its row, and the      *)
(* BackupRestoreService copies both while they change.                     *)
(*                                                                         *)
(* The file store and the database each run what is put to them one at a   *)
(* time, in order (fileQueue, dbQueue).  A call waits in one queue at a    *)
(* time; pc says in which and for what, so that a queue is a sequence of   *)
(* calls.  Between its turn in one queue and its place in the next nothing *)
(* else happens: the code in between does not yield.                       *)
(*                                                                         *)
(* Artifacts share nothing but the queues and the deletion barrier, so one *)
(* is modelled; the storage key of a file is then its revision.            *)
(***************************************************************************)
EXTENDS Naturals, Sequences, FiniteSets, SequencesExt

CONSTANTS
  Calls,        \* calls of the stores and of the backup service
  Kind, Op, Text, \* of each call: its kind, operation id, and what it writes
  None,
  MaxRevision,  \* bound on the revisions of the artifact
  MaxCrashes, MaxFaults  \* bounds on crashes and on failed I/O

Kinds == {"append", "update", "purge", "read", "backup"}

Revision == 1 .. MaxRevision
Content == Seq({Text[c] : c \in Calls})
Record == [rev : Revision, content : Content]
\* What an operation asks for (requestFingerprint); from is the revision that an
\* update expects, and 0 of an append, which expects none.
Request == [op : {Op[c] : c \in Calls}, kind : Kinds, text : {Text[c] : c \in Calls},
            from : 0 .. MaxRevision]

ASSUME FilesAssumption ==
  /\ Kind \in [Calls -> Kinds]
  /\ DOMAIN Op = Calls /\ DOMAIN Text = Calls
  /\ MaxRevision \in Nat \ {0} /\ MaxCrashes \in Nat /\ MaxFaults \in Nat
  /\ None \notin Content /\ None \notin Record

VARIABLES
  disk,         \* the bytes of each revision, or None
  row,          \* the committed record, or None once it was purged
  gc,           \* managed_file_gc: keys whose deletion is owed
  receipts,     \* requests the database has a receipt of
  fileQueue, dbQueue, \* ManagedFileStore.queue, AppDatabase.queue
  barriers,     \* deletionBarriers
  phase,        \* "starting", "up", or "refused": the start found damage
  pc,
  base,         \* the record a call read when it began, or a backup's snapshot
  todo, swept,  \* what a collection has still to delete, and has deleted
  crashes, faults,
  writeFailed   \* (history) a transaction that had begun a revision failed

durable == <<disk, row, gc, receipts>>
sweeps == <<todo, swept>>
troubles == <<crashes, faults, writeFailed>>
vars == <<durable, fileQueue, dbQueue, barriers, phase, pc, base, sweeps, troubles>>

FileSteps ==
  {"reading", "publishing", "undoing", "discarding", "sweeping", "barrier"}
DbSteps ==
  {"looking up", "writing", "checking", "purging", "collecting", "noting",
   "clearing", "snapshot"}
\* missing: the call failed because a file is not there or not the same.
\* over: it ended in any other way, and nothing is left of it.
Ended == {"over", "missing"}
Active(c) == pc[c] \notin Ended \cup {"idle"}

TypeOK ==
  /\ disk \in [Revision -> Content \cup {None}]
  /\ row \in Record \cup {None}
  /\ gc \in SUBSET Revision
  /\ receipts \in SUBSET Request
  /\ fileQueue \in Seq(Calls) /\ dbQueue \in Seq(Calls)
  /\ barriers \in Nat
  /\ phase \in {"starting", "up", "refused"}
  /\ pc \in [Calls -> FileSteps \cup DbSteps \cup Ended \cup {"idle", "copying"}]
  /\ base \in [Calls -> Record \cup {None}]
  /\ todo \in [Calls -> SUBSET Revision] /\ swept \in [Calls -> SUBSET Revision]
  /\ crashes \in 0 .. MaxCrashes /\ faults \in 0 .. MaxFaults
  /\ writeFailed \in BOOLEAN

\* The calls that are going to be made; the others are over from the start.
InitWith(issued) ==
  /\ disk = [r \in Revision |-> IF r = 1 THEN <<>> ELSE None]
  /\ row = [rev |-> 1, content |-> <<>>]
  /\ gc = {} /\ receipts = {}
  /\ fileQueue = <<>> /\ dbQueue = <<>> /\ barriers = 0
  /\ phase = "up"
  /\ pc = [c \in Calls |-> IF c \in issued THEN "idle" ELSE "over"]
  /\ base = [c \in Calls |-> None]
  /\ todo = [c \in Calls |-> {}] /\ swept = [c \in Calls |-> {}]
  /\ crashes = 0 /\ faults = 0 /\ writeFailed = FALSE

Init == \E issued \in SUBSET Calls : InitWith(issued)

------------------------------------------------------------------------------
\* Turns

\* c is served: it is at the head of the queue it waits in.
Turn(c, step) ==
  /\ pc[c] = step
  /\ step \in FileSteps => fileQueue # <<>> /\ Head(fileQueue) = c
  /\ step \in DbSteps => dbQueue # <<>> /\ Head(dbQueue) = c

\* The promise chain of a queue, when c has had its turn and goes on to step.
Moved(queue, steps, c, step) ==
  LET rest == IF pc[c] \in steps THEN Tail(queue) ELSE queue
  IN  IF step \in steps THEN Append(rest, c) ELSE rest

GoesWith(c, step, record) ==
  /\ base' = [base EXCEPT ![c] = record]
  /\ pc' = [pc EXCEPT ![c] = step]
  /\ fileQueue' = Moved(fileQueue, FileSteps, c, step)
  /\ dbQueue' = Moved(dbQueue, DbSteps, c, step)

GoesTo(c, step) == GoesWith(c, step, IF step = "over" THEN None ELSE base[c])

Fault ==
  /\ faults < MaxFaults
  /\ faults' = faults + 1
  /\ UNCHANGED <<crashes, writeFailed>>

NoFault == UNCHANGED troubles

\* Mutant: a deletion does not wait for the backups under way.
MayDelete_NoBarrier == TRUE

\* waitForDeletionBarriers: a deletion waits at the head of the file queue.
MayDelete == barriers = 0

Deleted(key) == [disk EXCEPT ![key] = None]

------------------------------------------------------------------------------
\* A new revision

Exists(record) == record # None

Target(c) == base[c].rev + 1
Bytes(c) ==
  IF Kind[c] = "append" THEN Append(base[c].content, Text[c]) ELSE <<Text[c]>>

FirstStep(c) ==
  [append |-> "looking up", update |-> "looking up", read |-> "reading",
   purge |-> "purging", backup |-> "barrier"][Kind[c]]

RequestOf(c) ==
  [op |-> Op[c], kind |-> Kind[c], text |-> Text[c],
   from |-> IF Kind[c] = "update" THEN base[c].rev ELSE 0]

\* replayedOperation: the operation is done.  A receipt of the same operation
\* for another request is a conflict, which fails the call.
Replayed(c) == RequestOf(c) \in receipts
Known(c) == \E receipt \in receipts : receipt.op = Op[c]

\* A call reads the record in memory, which is the committed one, and takes its
\* place in the first queue in the same turn.  One without a record is refused
\* at once.  One backup runs at a time (BackupRestoreService.queue).
Begin(c) ==
  /\ phase = "up" /\ pc[c] = "idle"
  /\ Kind[c] # "purge" => Exists(row)
  /\ Kind[c] \in {"append", "update"} => row.rev < MaxRevision
  /\ Kind[c] = "backup" => \A d \in Calls : Kind[d] = "backup" => ~Active(d)
  /\ GoesWith(c, FirstStep(c), row)
  /\ NoFault
  /\ UNCHANGED <<durable, barriers, phase, sweeps>>

\* Before anything is published, a call that is done or in conflict returns.
LookUp(c) ==
  /\ Turn(c, "looking up")
  /\ GoesTo(c, IF Known(c) THEN "over"
               ELSE IF Kind[c] = "append" THEN "reading" ELSE "publishing")
  /\ NoFault
  /\ UNCHANGED <<durable, barriers, phase, sweeps>>

Read(c) ==
  /\ Turn(c, "reading")
  /\ GoesTo(c, IF disk[base[c].rev] # base[c].content THEN "missing"
               ELSE IF Kind[c] = "append" THEN "publishing" ELSE "over")
  /\ NoFault
  /\ UNCHANGED <<durable, barriers, phase, sweeps>>

\* An existing file is accepted if it holds the same bytes; another one is
\* left alone, and the call fails before it has anything to clean up.
Publish(c) ==
  /\ Turn(c, "publishing")
  /\ IF disk[Target(c)] \in {None, Bytes(c)}
     THEN /\ disk' = [disk EXCEPT ![Target(c)] = Bytes(c)]
          /\ GoesTo(c, "writing")
     ELSE GoesTo(c, "over") /\ UNCHANGED disk
  /\ NoFault
  /\ UNCHANGED <<row, gc, receipts, barriers, phase, sweeps>>

\* The write fails; or the file was renamed into its place and the directory
\* could not be synchronized: only the temporary file is removed.
PublishFails(c) ==
  /\ Turn(c, "publishing")
  /\ Fault
  /\ \/ UNCHANGED disk
     \/ disk[Target(c)] = None /\ disk' = [disk EXCEPT ![Target(c)] = Bytes(c)]
  /\ GoesTo(c, "over")
  /\ UNCHANGED <<row, gc, receipts, barriers, phase, sweeps>>

\* existing.recordRevision is still the one the revision was made from.
Current(c) == Exists(row) /\ row.rev = base[c].rev

\* Mutant: the replaced file is not queued for its deletion.
Write_NoCollection(c) ==
  /\ Turn(c, "writing")
  /\ IF Replayed(c)
     THEN GoesTo(c, "collecting") /\ UNCHANGED durable
     ELSE IF ~Known(c) /\ Current(c)
     THEN /\ row' = [rev |-> Target(c), content |-> Bytes(c)]
          /\ receipts' = receipts \cup {RequestOf(c)}
          /\ GoesTo(c, "collecting")
          /\ UNCHANGED <<disk, gc>>
     ELSE GoesTo(c, "checking") /\ UNCHANGED durable
  /\ NoFault
  /\ UNCHANGED <<barriers, phase, sweeps>>

\* The transaction: a replay, the new revision, or a refusal, which is a conflict
\* or a record that has moved on.
Write(c) ==
  /\ Turn(c, "writing")
  /\ IF Replayed(c)
     THEN GoesTo(c, "collecting") /\ UNCHANGED durable
     ELSE IF ~Known(c) /\ Current(c)
     THEN /\ row' = [rev |-> Target(c), content |-> Bytes(c)]
          /\ gc' = gc \cup {base[c].rev}
          /\ receipts' = receipts \cup {RequestOf(c)}
          /\ GoesTo(c, "collecting")
          /\ UNCHANGED disk
     ELSE GoesTo(c, "checking") /\ UNCHANGED durable
  /\ NoFault
  /\ UNCHANGED <<barriers, phase, sweeps>>

\* It fails before the artifact rows are written, or after: then the rollback
\* removes the bytes first (afterRollbackDeferred).
WriteFails(c) ==
  /\ Turn(c, "writing")
  /\ ~Known(c) /\ Current(c)
  /\ ~writeFailed /\ writeFailed' = TRUE
  /\ \/ GoesTo(c, "checking")
     \/ GoesTo(c, "undoing")
  /\ UNCHANGED <<durable, barriers, phase, sweeps, crashes, faults>>

Undo(c) ==
  /\ Turn(c, "undoing") /\ MayDelete
  /\ disk' = Deleted(Target(c))
  /\ GoesTo(c, "checking")
  /\ NoFault
  /\ UNCHANGED <<row, gc, receipts, barriers, phase, sweeps>>

\* Mutant: whatever is prepared is deleted, without a look at who names it.
Check_NoLook(c) ==
  /\ Turn(c, "checking")
  /\ GoesTo(c, "discarding")
  /\ NoFault
  /\ UNCHANGED <<durable, barriers, phase, sweeps>>

\* deletePreparedFilesWithoutReferences: look first, then delete.
Check(c) ==
  /\ Turn(c, "checking")
  /\ GoesTo(c, IF Exists(row) /\ row.rev = Target(c) THEN "over" ELSE "discarding")
  /\ NoFault
  /\ UNCHANGED <<durable, barriers, phase, sweeps>>

Discard(c) ==
  /\ Turn(c, "discarding") /\ MayDelete
  /\ disk' = Deleted(Target(c))
  /\ GoesTo(c, "over")
  /\ NoFault
  /\ UNCHANGED <<row, gc, receipts, barriers, phase, sweeps>>

\* A file that cannot be deleted stays; the failure is not reported.
CleanupFails(c) ==
  /\ MayDelete
  /\ Fault
  /\ \/ Turn(c, "undoing") /\ GoesTo(c, "checking")
     \/ Turn(c, "discarding") /\ GoesTo(c, "over")
  /\ UNCHANGED <<durable, barriers, phase, sweeps>>

------------------------------------------------------------------------------
\* Removal and collection

\* purgeRuntimeOwner forgets the receipts of its owner, too.
Purge(c) ==
  /\ Turn(c, "purging")
  /\ row' = None
  /\ gc' = IF Exists(row) THEN gc \cup {row.rev} ELSE gc
  /\ receipts' = {}
  /\ GoesTo(c, "collecting")
  /\ NoFault
  /\ UNCHANGED <<disk, barriers, phase, sweeps>>

\* retryPendingGarbageCollection reads what is owed, deletes it file by file,
\* and strikes off what it deleted.
Collect(c) ==
  /\ Turn(c, "collecting")
  /\ todo' = [todo EXCEPT ![c] = gc]
  /\ GoesTo(c, IF gc = {} THEN "over" ELSE "sweeping")
  /\ NoFault
  /\ UNCHANGED <<durable, barriers, phase, swept>>

Oldest(key, keys) == key \in keys /\ \A other \in keys : key <= other

AfterSweep(left, done) ==
  IF left # {} THEN "sweeping" ELSE IF done # {} THEN "clearing" ELSE "over"

Sweep(c) ==
  /\ Turn(c, "sweeping") /\ MayDelete
  /\ \E key \in todo[c] :
       /\ Oldest(key, todo[c])
       /\ disk' = Deleted(key)
       /\ todo' = [todo EXCEPT ![c] = @ \ {key}]
       /\ swept' = [swept EXCEPT ![c] = @ \cup {key}]
       /\ GoesTo(c, AfterSweep(todo[c] \ {key}, swept[c] \cup {key}))
  /\ NoFault
  /\ UNCHANGED <<row, gc, receipts, barriers, phase>>

\* The file stays, its entry too, with the attempt noted.
SweepFails(c) ==
  /\ Turn(c, "sweeping") /\ MayDelete
  /\ Fault
  /\ \E key \in todo[c] :
       /\ Oldest(key, todo[c])
       /\ todo' = [todo EXCEPT ![c] = @ \ {key}]
  /\ GoesTo(c, "noting")
  /\ UNCHANGED <<durable, barriers, phase, swept>>

Note(c) ==
  /\ Turn(c, "noting")
  /\ GoesTo(c, AfterSweep(todo[c], swept[c]))
  /\ NoFault
  /\ UNCHANGED <<durable, barriers, phase, sweeps>>

Clear(c) ==
  /\ Turn(c, "clearing")
  /\ gc' = gc \ swept[c]
  /\ swept' = [swept EXCEPT ![c] = {}]
  /\ GoesTo(c, "over")
  /\ NoFault
  /\ UNCHANGED <<disk, row, receipts, barriers, phase, todo>>

------------------------------------------------------------------------------
\* Backup

\* The barrier is taken in the file queue, behind every deletion before it.
BeginBarrier(c) ==
  /\ Turn(c, "barrier")
  /\ barriers' = barriers + 1
  /\ GoesTo(c, "snapshot")
  /\ NoFault
  /\ UNCHANGED <<durable, phase, sweeps>>

Snapshot(c) ==
  /\ Turn(c, "snapshot")
  /\ GoesWith(c, "copying", row)
  /\ NoFault
  /\ UNCHANGED <<durable, barriers, phase, sweeps>>

\* Mutant: the copying waits in the file queue, behind the deletions.
MayCopy_Queued(c) == pc[c] = "copying" /\ fileQueue = <<>>

\* copyVerifiedTo does not wait in the file queue.
MayCopy(c) == pc[c] = "copying"

\* Mutant: the barrier is lowered when it is released, and once more on the way out.
Released_Twice == barriers - 2

\* release
Released == barriers - 1

Copy(c) ==
  /\ MayCopy(c)
  /\ GoesTo(c, IF Exists(base[c]) /\ disk[base[c].rev] # base[c].content
               THEN "missing" ELSE "over")
  /\ barriers' = Released
  /\ NoFault
  /\ UNCHANGED <<durable, phase, sweeps>>

\* The snapshot or the copying fails: the barrier is released all the same.
BackupFails(c) ==
  /\ Turn(c, "snapshot") \/ MayCopy(c)
  /\ Fault
  /\ GoesTo(c, "over")
  /\ barriers' = Released
  /\ UNCHANGED <<durable, phase, sweeps>>

------------------------------------------------------------------------------
\* Crash and start

Crash ==
  /\ phase # "refused"
  /\ crashes < MaxCrashes
  /\ crashes' = crashes + 1
  /\ phase' = "starting"
  /\ fileQueue' = <<>> /\ dbQueue' = <<>> /\ barriers' = 0
  /\ pc' = [c \in Calls |-> IF Active(c) THEN "over" ELSE pc[c]]
  /\ base' = [c \in Calls |-> IF pc'[c] = "over" THEN None ELSE base[c]]
  /\ todo' = [c \in Calls |-> {}] /\ swept' = [c \in Calls |-> {}]
  /\ UNCHANGED <<durable, faults, writeFailed>>

\* initialize: the record's file is verified, and what is owed is collected;
\* a deletion that fails is owed on.
Start ==
  /\ phase = "starting"
  /\ IF Exists(row) /\ disk[row.rev] # row.content
     THEN /\ phase' = "refused"
          /\ UNCHANGED <<disk, gc, faults>>
     ELSE \E kept \in SUBSET gc :
            /\ faults + Cardinality(kept) <= MaxFaults
            /\ faults' = faults + Cardinality(kept)
            /\ disk' = [r \in Revision |-> IF r \in gc \ kept THEN None ELSE disk[r]]
            /\ gc' = kept
            /\ phase' = "up"
  /\ UNCHANGED <<row, receipts, fileQueue, dbQueue, barriers, pc, base, sweeps,
                 crashes, writeFailed>>

FileTurn(c) ==
  \/ Read(c) \/ Publish(c) \/ PublishFails(c) \/ Undo(c) \/ Discard(c)
  \/ CleanupFails(c) \/ Sweep(c) \/ SweepFails(c) \/ BeginBarrier(c)

DbTurn(c) ==
  \/ LookUp(c) \/ Write(c) \/ WriteFails(c) \/ Check(c)
  \/ Purge(c) \/ Collect(c) \/ Note(c) \/ Clear(c) \/ Snapshot(c)

Step(c) == FileTurn(c) \/ DbTurn(c) \/ Copy(c) \/ BackupFails(c)

Next ==
  \/ \E c \in Calls : Begin(c) \/ Step(c)
  \/ Crash \/ Start

Spec == Init /\ [][Next]_vars

\* Both queues go on by themselves, the copying of a backup too, and an
\* application that is starting starts.
Fairness ==
  /\ WF_vars(\E c \in Calls : FileTurn(c)) /\ WF_vars(\E c \in Calls : DbTurn(c))
  /\ WF_vars(\E c \in Calls : Copy(c)) /\ WF_vars(Start)

------------------------------------------------------------------------------
\* Properties

\* While no transaction of a revision failed, the committed record names a file
\* that is there and holds its bytes: whatever is published, refused, cleaned
\* up, collected, purged or interrupted.  A start that finds it otherwise
\* refuses to open.
RowHasFile == Exists(row) /\ ~writeFailed => disk[row.rev] = row.content

\* Whoever chose a revision finds it, though it may have been replaced or purged
\* since: a read, which chose it before it waited for the file queue, and a
\* backup, whose snapshot the barrier keeps.  Only an append, which waits for the
\* database before it reads, can come too late, and then its operation is done
\* or its revision was replaced.
ChosenIsFound ==
  ~writeFailed => \A c \in Calls :
    pc[c] = "missing" => Kind[c] = "append" /\ row # base[c]

WorksOn(c, key) ==
  /\ pc[c] \in {"writing", "undoing", "checking", "discarding"}
  /\ Target(c) = key

\* Bytes that no record names are owed to the collection or in the hands of a
\* call: only a crash or a failure leaves any.  (What is left then is not
\* collected by a later start, and stands in the way of the next revision.)
OrphansComeFromTrouble ==
  crashes + faults = 0 =>
    \A r \in Revision : disk[r] # None =>
      \/ Exists(row) /\ row.rev = r
      \/ r \in gc
      \/ \E c \in Calls : WorksOn(c, r)

\* Every call that begins comes to an end (each begins once), with a backup
\* under way too: a deletion that waits for the barrier stops the file queue, and
\* the backup does without it.
CallsSettle == []<>(\A c \in Calls : ~Active(c))
==============================================================================
