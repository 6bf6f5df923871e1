---------------------------- MODULE DiscourseWave ----------------------------
(***************************************************************************)
(* The life of one CHAT response wave of a Discourse conversation: one or  *)
(* two jobs, the runtime turn and the queue entry of each, the message a   *)
(* job publishes, and what keeps these records of two stores together      *)
(* although no transaction spans them.  DiscourseRuntimeCoordinator is the *)
(* saga; DiscourseRuntimeHost drives it from a scheduler pump and from the *)
(* runtime's turn events, DiscourseService from the user's requests and    *)
(* from recovery.  An action is one transaction of a store, or one read    *)
(* and the branch taken on it; the pump, the event chain and the requests  *)
(* interleave between actions, and the application dies between them.      *)
(*                                                                         *)
(* With two agents the first job is the peer's; the author's job follows a *)
(* peer answer that asks for it (phase 2).  The variables are those of the *)
(* job of the current phase.                                               *)
(***************************************************************************)
EXTENDS Naturals, Sequences

CONSTANTS
  Agents,      \* the assignments of the wave
  MaxCrashes,  \* bound: the times the application dies
  MaxFaults,   \* bound: the failures before a start request is written
  MaxStops     \* bound: the stop requests, of the user or of the deadline

ASSUME WaveAssumption ==
  /\ Agents \in {1, 2}
  /\ MaxCrashes \in Nat /\ MaxFaults \in Nat /\ MaxStops \in Nat

VARIABLES
  wave, phase, job, message,  \* SqliteDiscourseStore
  run, entry, released,       \* SqliteAgentRuntimeStore
  provider,                   \* the turn as the provider runs it
  inbox, wake, lock, up,      \* the application
  crashes, faults, stops,
  pc, handling, seen, stale, after, back  \* the processes in it

Procs == {"user", "boot", "pump", "events"}

discourse == <<wave, phase, job, message>>
runtime == <<run, entry, released>>
app == <<inbox, wake, up, crashes, faults, stops>>
control == <<pc, lock, handling>>
locals == <<seen, stale, after, back>>
vars == <<discourse, runtime, provider, app, control, locals>>

-----------------------------------------------------------------------------
(* The records and the changes the stores accept.                          *)

JobEnded == {"COMPLETED", "FAILED", "CANCELED", "CONTEXT_STALE"}
RunEnded == {"COMPLETED", "FAILED", "INTERRUPTED"}
Unsubmitted == {"PLANNED", "SNAPSHOTTING", "QUEUED"}
Stopping == {"STOP_REQUESTED", "STOPPING"}

WaveStatus == {"none", "RUNNING", "RECOVERY_REQUIRED", "SETTLED"}
                \cup Unsubmitted \cup Stopping
JobStatus == {"QUEUED", "RESOLVING_CONTEXT", "STARTING", "RUNNING",
              "CANCEL_REQUESTED", "RECOVERY_REQUIRED"} \cup JobEnded
Delivery == {"NOT_SENT", "SENDING", "ACKNOWLEDGED", "NOT_DELIVERED",
             "AMBIGUOUS", "TERMINAL"}

WaveTransitions ==
  [s \in WaveStatus |->
     CASE s = "none" -> {"PLANNED"}
       [] s = "PLANNED" -> {"SNAPSHOTTING", "STOP_REQUESTED", "SETTLED"}
       [] s = "SNAPSHOTTING" ->
            {"QUEUED", "STOP_REQUESTED", "RECOVERY_REQUIRED", "SETTLED"}
       [] s = "QUEUED" ->
            {"RUNNING", "STOP_REQUESTED", "RECOVERY_REQUIRED", "SETTLED"}
       [] s = "RUNNING" -> {"STOP_REQUESTED", "RECOVERY_REQUIRED", "SETTLED"}
       [] s = "STOP_REQUESTED" -> {"STOPPING", "RECOVERY_REQUIRED", "SETTLED"}
       [] s = "STOPPING" -> {"RECOVERY_REQUIRED", "SETTLED"}
       [] s = "RECOVERY_REQUIRED" -> {"RUNNING", "STOPPING", "SETTLED"}
       [] s = "SETTLED" -> {}]

JobTransitions ==
  [s \in JobStatus |->
     CASE s = "QUEUED" -> {"RESOLVING_CONTEXT", "RECOVERY_REQUIRED", "CANCELED"}
       [] s = "RESOLVING_CONTEXT" ->
            {"STARTING", "CANCEL_REQUESTED", "RECOVERY_REQUIRED", "FAILED",
             "CONTEXT_STALE"}
       [] s = "STARTING" ->
            {"RUNNING", "CANCEL_REQUESTED", "RECOVERY_REQUIRED", "FAILED",
             "CONTEXT_STALE"}
       [] s = "RUNNING" ->
            {"CANCEL_REQUESTED", "RECOVERY_REQUIRED", "COMPLETED", "FAILED",
             "CONTEXT_STALE"}
       [] s = "CANCEL_REQUESTED" -> {"RECOVERY_REQUIRED", "COMPLETED", "CANCELED"}
       [] s = "RECOVERY_REQUIRED" ->
            {"CANCEL_REQUESTED", "COMPLETED", "FAILED", "CANCELED"}
       [] s \in JobEnded -> {}]

\* The deliveries of a job; an ambiguous one is reconciled.
JobDeliveries ==
  [d \in Delivery |->
     CASE d = "NOT_SENT" -> {"SENDING"}
       [] d = "SENDING" -> {"ACKNOWLEDGED", "NOT_DELIVERED", "AMBIGUOUS"}
       [] d = "ACKNOWLEDGED" -> {"TERMINAL"}
       [] d = "AMBIGUOUS" -> {"ACKNOWLEDGED", "NOT_DELIVERED", "TERMINAL"}
       [] d \in {"NOT_DELIVERED", "TERMINAL"} -> {}]

NewJob == [status |-> "QUEUED", delivery |-> "NOT_SENT"]

\* The run of the job.  interrupt: interruptDelivery; turn: it has a provider
\* turn id; intact: repositoryIntegrity; dated: it has a context freshness.
NoRun == [status |-> "none", delivery |-> "NOT_SENT", interrupt |-> "none",
          turn |-> FALSE, intact |-> "none", dated |-> FALSE]
NewRun == [NoRun EXCEPT !.status = "QUEUED"]

RunRecord ==
  [status : {"none", "QUEUED", "STARTING", "RUNNING", "INTERRUPTING",
             "RECOVERY_REQUIRED"} \cup RunEnded,
   delivery : Delivery,
   interrupt : {"none", "SENDING", "ACKNOWLEDGED", "NOT_DELIVERED",
                "AMBIGUOUS", "TERMINAL"},
   turn : BOOLEAN, intact : {"none", "PENDING", "UNCHANGED", "CHANGED"},
   dated : BOOLEAN]

Ended(r) == r.status \in RunEnded
Unsent(r) == r.status = "QUEUED" /\ r.delivery = "NOT_SENT"
NeverSent(r) ==
  Unsent(r) \/ (r.status = "INTERRUPTED" /\ r.delivery = "NOT_DELIVERED")
Acknowledged(r) == r.status = "RUNNING" /\ r.delivery = "ACKNOWLEDGED"
Owned(r) == r.status \in {"STARTING", "RUNNING", "INTERRUPTING",
                          "RECOVERY_REQUIRED"}

\* An interrupt is over when its turn is.
Closed(r) == IF r.interrupt = "none" THEN "none" ELSE "TERMINAL"

\* Mutant: the run gets the word of its queue entry.
Withdrawn_AsEntry(r) ==
  [r EXCEPT !.status = "CANCELED", !.delivery = "NOT_DELIVERED",
            !.intact = "UNCHANGED"]

Withdrawn(r) ==
  [r EXCEPT !.status = "INTERRUPTED", !.delivery = "NOT_DELIVERED",
            !.intact = "UNCHANGED"]

\* Mutant: a lost turn counts as one that was not delivered.
Lost_NotDelivered(r) ==
  [r EXCEPT !.status = "RECOVERY_REQUIRED", !.delivery = "NOT_DELIVERED"]

Lost(r) ==
  [r EXCEPT !.status = "RECOVERY_REQUIRED", !.delivery = "AMBIGUOUS"]
Fenced(r) ==
  [r EXCEPT !.status = "RECOVERY_REQUIRED",
            !.delivery = CASE @ = "NOT_SENT" -> "NOT_DELIVERED"
                           [] @ = "SENDING" -> "AMBIGUOUS"
                           [] OTHER -> @]

\* What the agent writes: an answer, one that asks the author to respond, one
\* that is over a limit or unreadable, nothing.
Answers == {"answer", "asks", "invalid", "blank"}
NoTurn == [state |-> "idle", sent |-> FALSE, owed |-> FALSE, answer |-> "blank"]

Event(kind) == [kind |-> kind, phase |-> phase]

-----------------------------------------------------------------------------
(* Processes.  seen[p] is the run p read; stale[p] names the other records *)
(* that changed since p read them, so that an update of p, which carries   *)
(* the revision it read, is refused.  after[p] and back[p] are where p     *)
(* goes on after a reconciliation and after a shared procedure.            *)

\* Where a process holds nothing it has read.
Blind == {"idle", "retry", "failed", "lease", "check", "lockRecover",
          "lockAdvance", "finish", "settling"}
Labels == Blind \cup
  {"ending", "activate", "prepare", "prepareRun", "link", "queueWave", "notify",
   "dispatch", "dispatchWave", "dispatchJob", "start",
   "calling", "settleRefused", "started", "ack", "startRecovery", "startFailed",
   "rejectJob",
   "cancelCheck", "cancelIntent", "cancelJob", "cancelRun", "cancelEntry",
   "cancelDone", "stopCheck", "stopIntent", "requestCancel", "stopRun",
   "interrupt", "interrupting", "interruptedJob", "stopRecovered",
   "stopRecovery", "interruptedRecovered", "recoveredPending",
   "recoveredDone", "stopWave",
   "markRun", "markEntry", "markJob", "markWave",
   "ingest", "project", "failResult", "append", "complete", "fail",
   "failCanceled", "failFailed", "settle", "settleOnly",
   "recover", "relink", "release", "requeue",
   "decide", "rCancelRun", "rCancelEntry", "rCancelJob", "rInterrupted",
   "rInterruptedJob", "rRequired", "rRunning", "rRunningJob", "rStarting",
   "rStartingJob", "rStartingWave",
   "reconcile", "advance", "handoff", "raise"}

\* Where the run as it was read is used.
UsesRun == {"startRecovery", "relink", "release", "requeue"}

Rest(p) ==
  /\ seen' = [seen EXCEPT ![p] = NoRun]
  /\ stale' = [stale EXCEPT ![p] = {}]
  /\ after' = [after EXCEPT ![p] = "idle"]
  /\ back' = [back EXCEPT ![p] = "idle"]

Goto(p, label) ==
  /\ pc' = [pc EXCEPT ![p] = label]
  /\ UNCHANGED <<lock, handling>>

Move(p, label) == Goto(p, label) /\ UNCHANGED locals

\* An exception: the request fails, the start fails, the pump and the event
\* chain recover the conversation once; the pump then waits to retry.
Throw(p) ==
  /\ pc' = [pc EXCEPT ![p] =
              CASE p = "user" -> "idle"
                [] p = "boot" -> "failed"
                [] p \in {"pump", "events"} /\ ~handling[p] -> "lockRecover"
                [] p = "pump" /\ handling[p] -> "retry"
                [] p = "events" /\ handling[p] -> "finish"]
  /\ lock' = IF lock = p THEN "free" ELSE lock
  /\ handling' = [handling EXCEPT ![p] = p \in {"pump", "events"} /\ ~@]
  /\ Rest(p)

\* p writes the records in kinds.
Touch(p, kinds) ==
  stale' = [q \in Procs |-> IF q = p \/ pc[q] \in Blind THEN stale[q]
                                                         ELSE stale[q] \cup kinds]

\* p reads the records and goes on at label, at a once the wave is
\* reconciled, at b once a shared procedure returns.
Look(p, label, a, b) ==
  IF label = "raise" THEN Throw(p)
  ELSE /\ Goto(p, label)
       /\ seen' = [seen EXCEPT ![p] = IF label \in UsesRun THEN run ELSE NoRun]
       /\ stale' = [stale EXCEPT ![p] = {}]
       /\ after' = [after EXCEPT ![p] = a]
       /\ back' = [back EXCEPT ![p] = b]

JobAccepted(new) ==
  /\ new.status \in {job.status} \cup JobTransitions[job.status]
  /\ new.delivery \in {job.delivery} \cup JobDeliveries[job.delivery]

\* updateJob by p, of the job it read.
TryJob(p, status, delivery, next) ==
  LET new == [status |-> status, delivery |-> delivery] IN
  /\ IF "job" \notin stale[p] /\ JobAccepted(new)
     THEN /\ job' = new
          /\ Touch(p, {"job"})
          /\ Goto(p, next)
          /\ UNCHANGED <<seen, after, back>>
     ELSE Throw(p) /\ UNCHANGED job
  /\ UNCHANGED <<wave, phase, message, runtime, provider, app>>

\* updateWave by p, of the wave it read.
TryWave(p, status, next) ==
  /\ IF "wave" \notin stale[p] /\ status \in WaveTransitions[wave]
     THEN /\ wave' = status
          /\ Touch(p, {"wave"})
          /\ Goto(p, next)
          /\ UNCHANGED <<seen, after, back>>
     ELSE Throw(p) /\ UNCHANGED wave
  /\ UNCHANGED <<phase, job, message, runtime, provider, app>>

\* updateRun by p, of the run it read.
TryRun(p, new, next) ==
  /\ IF run = seen[p]
     THEN /\ run' = new
          /\ seen' = [seen EXCEPT ![p] = new]
          /\ Goto(p, next)
          /\ UNCHANGED <<stale, after, back>>
     ELSE Throw(p) /\ UNCHANGED run
  /\ UNCHANGED <<discourse, entry, released, provider, app>>

\* One read of the queue entry and its update.
SetEntry(p, status, next) ==
  /\ entry' = status
  /\ Touch(p, IF status = entry THEN {} ELSE {"entry"})
  /\ Goto(p, next)
  /\ UNCHANGED <<discourse, run, released, provider, app, seen, after, back>>

\* One read of the wave and its update, if there is one.
SetWave(p, status, next) ==
  /\ IF status \in {wave} \cup WaveTransitions[wave]
     THEN /\ wave' = status
          /\ Touch(p, IF status = wave THEN {} ELSE {"wave"})
          /\ Goto(p, next)
          /\ UNCHANGED <<seen, after, back>>
     ELSE Throw(p) /\ UNCHANGED wave
  /\ UNCHANGED <<phase, job, message, runtime, provider, app>>

At(p, label) == pc[p] = label

\* The author's job was added since p read the peer's, which is over.
Overtaken(p) == "phase" \in stale[p]
Reads == UNCHANGED <<discourse, runtime, provider, app>>

\* A queue entry that must not be leased (again).
Closing(e, ended) ==
  CASE e = "QUEUED" -> "CANCELED"
    [] e = "LEASED" /\ ended -> "SETTLED"
    [] OTHER -> e

EntryStatus == {"none", "QUEUED", "LEASED", "CANCELED", "SETTLED"}

TypeOK ==
  /\ wave \in WaveStatus
  /\ phase \in 1..Agents
  /\ job \in [status : JobStatus, delivery : Delivery]
  /\ message \in {"none", "live", "recovery"}
  /\ run \in RunRecord
  /\ entry \in EntryStatus
  /\ released \in BOOLEAN
  /\ provider \in [state : {"idle", "working", "done", "lost"}, sent : BOOLEAN,
                   owed : BOOLEAN, answer : Answers]
  /\ inbox \in Seq([kind : {"completed", "ended", "recovery"},
                    phase : 1..Agents])
  /\ wake \in BOOLEAN
  /\ lock \in Procs \cup {"free"}
  /\ up \in {"down", "starting", "up"}
  /\ crashes \in 0..MaxCrashes /\ faults \in 0..MaxFaults
  /\ stops \in 0..MaxStops
  /\ pc \in [Procs -> Labels] /\ handling \in [Procs -> BOOLEAN]
  /\ seen \in [Procs -> RunRecord]
  /\ stale \in [Procs -> SUBSET {"job", "wave", "entry", "phase"}]
  /\ after \in [Procs -> Labels] /\ back \in [Procs -> Labels]

Init ==
  /\ wave = "none" /\ phase = 1 /\ job = NewJob /\ message = "none"
  /\ run = NoRun /\ entry = "none" /\ released = FALSE
  /\ provider = NoTurn
  /\ inbox = <<>> /\ wake = FALSE /\ lock = "free" /\ up = "up"
  /\ crashes = 0 /\ faults = 0 /\ stops = 0
  /\ pc = [p \in Procs |-> "idle"]
  /\ handling = [p \in Procs |-> FALSE]
  /\ seen = [p \in Procs |-> NoRun]
  /\ stale = [p \in Procs |-> {}]
  /\ after = [p \in Procs |-> "idle"]
  /\ back = [p \in Procs |-> "idle"]

-----------------------------------------------------------------------------
(* The user: DiscourseService.sendMessage and stopWave, under the lock of  *)
(* the conversation (withConversationMutation).                            *)

Requests == up = "up" /\ pc["user"] = "idle" /\ lock = "free"

\* Under the lock of the conversation p goes to label.
Enter(p, label, a, b) ==
  /\ pc' = [pc EXCEPT ![p] = label]
  /\ lock' = p
  /\ seen' = [seen EXCEPT ![p] = NoRun]
  /\ stale' = [stale EXCEPT ![p] = {}]
  /\ after' = [after EXCEPT ![p] = a]
  /\ back' = [back EXCEPT ![p] = b]
  /\ UNCHANGED handling

Send ==
  /\ Requests /\ wave = "none"
  /\ wave' = "PLANNED" /\ job' = NewJob
  /\ Enter("user", "activate", "finish", "finish")
  /\ UNCHANGED <<phase, message, runtime, provider, app>>

StopWave ==
  /\ Requests /\ wave \notin {"none", "SETTLED"}
  /\ stops < MaxStops
  /\ stops' = stops + 1
  /\ IF wave \in Unsubmitted
     THEN Enter("user", "cancelCheck", "finish", "reconcile")
     ELSE Enter("user", "stopCheck", "finish", "stopWave")
  /\ UNCHANGED <<discourse, runtime, provider, inbox, wake, up, crashes, faults>>

\* Mutant: the pump waits for a store between its last look and its end.
Notified_Meanwhile == wake' = (wake \/ pc["pump"] = "idle")

\* A notification is dropped while schedulerWork is set: the pump will look
\* again, or it has looked last and ends.  From its last look to its end are
\* four continuations of promises and no store; from the commit that queues a
\* turn to the notification of it are more.  So what is dropped in between
\* never tells of a turn that was queued after the look.
Notified ==
  /\ ~(pc["pump"] = "ending" /\ entry = "QUEUED" /\ "entry" \in stale["pump"])
  /\ wake' = (wake \/ pc["pump"] = "idle")

Finish(p) ==
  /\ At(p, "finish")
  /\ pc' = [pc EXCEPT ![p] = IF p # "pump" THEN "idle"
                             ELSE IF handling[p] THEN "retry" ELSE "lease"]
  /\ lock' = IF lock = p THEN "free" ELSE lock
  /\ handling' = [handling EXCEPT ![p] = FALSE]
  /\ IF p = "pump" THEN UNCHANGED wake ELSE Notified
  /\ up' = IF p = "boot" THEN "up" ELSE up
  /\ Rest(p)
  /\ UNCHANGED <<discourse, runtime, provider, inbox, crashes, faults, stops>>

-----------------------------------------------------------------------------
(* Preparing a turn: activateNextWave and prepareJobUnlocked.              *)

ActivateNextWave(p) ==
  /\ At(p, "activate")
  /\ Look(p, IF wave \notin Unsubmitted THEN "finish"
             ELSE IF job.status = "QUEUED" THEN "prepare" ELSE "reconcile",
          "finish", "finish")
  /\ Reads

PrepareJob(p) ==
  /\ At(p, "prepare")
  /\ IF job.status \notin {"QUEUED", "RESOLVING_CONTEXT"}
     THEN Throw(p) /\ UNCHANGED wave
     ELSE /\ wave' = IF wave = "PLANNED" THEN "SNAPSHOTTING" ELSE wave
          /\ Look(p, "prepareRun", after[p], back[p])
  /\ UNCHANGED <<phase, job, message, runtime, provider, app>>

\* prepareRuntimeTurn: session, run and queue entry in one transaction, found
\* again if the operation was done before.
PrepareRun(p) ==
  /\ At(p, "prepareRun")
  /\ IF run = NoRun
     THEN run' = NewRun /\ entry' = "QUEUED" /\ Touch(p, {"entry"})
     ELSE UNCHANGED <<run, entry, stale>>
  /\ Goto(p, "link")
  /\ UNCHANGED <<discourse, released, provider, app, seen, after, back>>

LinkJob(p) ==
  /\ At(p, "link")
  /\ IF job.status = "QUEUED"
     THEN TryJob(p, "RESOLVING_CONTEXT", "NOT_SENT", "queueWave")
     ELSE Move(p, "queueWave") /\ Reads

QueueWave(p) ==
  /\ At(p, "queueWave")
  /\ IF wave = "SNAPSHOTTING" THEN TryWave(p, "QUEUED", "notify")
                              ELSE Move(p, "notify") /\ Reads

Notify(p) ==
  /\ At(p, "notify")
  /\ Notified
  /\ Move(p, back[p])
  /\ UNCHANGED <<discourse, runtime, provider, inbox, up, crashes, faults, stops>>

-----------------------------------------------------------------------------
(* The pump: DiscourseRuntimeHost.pumpScheduler.                           *)

Pump(label) == up # "down" /\ At("pump", label)

Wake ==
  /\ Pump("idle") /\ wake
  /\ wake' = FALSE
  /\ Move("pump", "lease")
  /\ UNCHANGED <<discourse, runtime, provider, inbox, up, crashes, faults, stops>>

RetryTimer == Pump("retry") /\ Move("pump", "lease") /\ Reads

\* AgentTurnScheduler.leaseAvailable, of a queue with this entry at most.  When
\* it finds nothing this was the last look, and the pump is about to end.
LeaseAvailable ==
  /\ Pump("lease")
  /\ IF entry = "QUEUED" /\ Unsent(run)
     THEN SetEntry("pump", "LEASED", "check")
     ELSE Look("pump", "ending", "idle", "idle") /\ Reads

\* pumpScheduler has returned, and finally clears schedulerWork.
PumpEnds ==
  /\ Pump("ending")
  /\ Goto("pump", "idle") /\ Rest("pump")
  /\ Reads

\* The conversation cannot be read, or the context is fresh, or it is not.
CheckContext ==
  /\ Pump("check")
  /\ \/ Move("pump", "dispatch") /\ UNCHANGED faults
     \/ /\ faults < MaxFaults
        /\ faults' = faults + 1
        /\ \/ Throw("pump")
           \/ Look("pump",
                   IF entry = "LEASED" /\ Unsent(run)
                        /\ job.status = "RESOLVING_CONTEXT"
                   THEN "cancelRun" ELSE "raise", "lockAdvance", "rejectJob")
  /\ UNCHANGED <<discourse, runtime, provider, inbox, wake, up, crashes, stops>>

\* rejectLeasedJobForStaleContext: CancelRun and CancelEntry withdraw the
\* turn, then the job is closed.
RejectJob ==
  /\ Pump("rejectJob")
  /\ TryJob("pump", "CONTEXT_STALE", job.delivery, "reconcile")

\* dispatchLeasedJob.  A wave that was stopped is stopped again, without the
\* lock of the conversation.
DispatchLeasedJob ==
  /\ Pump("dispatch")
  /\ Look("pump",
          IF entry # "LEASED" \/ run.status # "QUEUED"
               \/ job.status # "RESOLVING_CONTEXT"
          THEN "raise"
          ELSE CASE wave \in Stopping \cup {"SETTLED"} -> "stopCheck"
                 [] wave = "QUEUED" -> "dispatchWave"
                 [] OTHER -> "dispatchJob",
          "finish", "stopWave")
  /\ Reads

DispatchWave == Pump("dispatchWave") /\ TryWave("pump", "RUNNING", "dispatchJob")
DispatchJob ==
  Pump("dispatchJob") /\ TryJob("pump", "STARTING", "SENDING", "start")

\* startPreparedTurn up to the request: the turn may have been released or
\* withdrawn, the attachments or the runtime may be missing, the repository
\* unreadable.  after becomes "raise" if the start failed.
StartPreparedTurn ==
  /\ Pump("start")
  /\ \/ /\ entry = "LEASED" /\ Unsent(run)
        /\ run' = [run EXCEPT !.status = "STARTING", !.delivery = "SENDING",
                              !.intact = "PENDING"]
        /\ Look("pump", "calling", "finish", "finish")
        /\ UNCHANGED faults
     \/ /\ entry # "LEASED" \/ ~Unsent(run)
        /\ Look("pump", "started", "raise", "finish")
        /\ UNCHANGED <<run, faults>>
     \/ /\ faults < MaxFaults
        /\ faults' = faults + 1
        /\ \/ /\ Look("pump", "started", "raise", "finish")
              /\ UNCHANGED run
           \/ /\ entry = "LEASED" /\ Unsent(run)
              /\ run' = [run EXCEPT !.status = "FAILED",
                                    !.delivery = "NOT_DELIVERED",
                                    !.intact = "CHANGED"]
              /\ Look("pump", "settleRefused", "raise", "finish")
  /\ UNCHANGED <<discourse, entry, released, provider, inbox, wake, up, crashes,
                 stops>>

\* Mutant: a late answer is taken for the present.
StartReturns_Overwrites ==
  /\ Pump("calling") /\ provider.sent /\ provider.state # "lost"
  /\ run' = [run EXCEPT !.status = "RUNNING", !.delivery = "ACKNOWLEDGED",
                        !.turn = TRUE]
  /\ Look("pump", "started", "finish", "finish")
  /\ UNCHANGED <<discourse, entry, released, provider, app>>

\* The request returned: the turn is acknowledged, unless its end was handled
\* meanwhile; a run that was fenced meanwhile is taken back.
StartReturns ==
  /\ Pump("calling") /\ provider.sent /\ provider.state # "lost"
  /\ \/ /\ run.status \in {"STARTING", "RUNNING", "RECOVERY_REQUIRED"} \cup RunEnded
        /\ run' = IF Ended(run) THEN run
                  ELSE [run EXCEPT !.status = "RUNNING",
                                   !.delivery = "ACKNOWLEDGED", !.turn = TRUE]
        /\ Look("pump", "started", "finish", "finish")
     \/ /\ run.status = "INTERRUPTING"
        /\ run' = Lost(run)
        /\ Look("pump", "started", "raise", "finish")
  /\ UNCHANGED <<discourse, entry, released, provider, app>>

\* The adapter reports that the request was not delivered.
StartRefused ==
  /\ Pump("calling") /\ ~provider.sent
  /\ IF run.status = "STARTING"
     THEN /\ run' = [run EXCEPT !.status = "FAILED",
                                !.delivery = "NOT_DELIVERED",
                                !.intact = "UNCHANGED"]
          /\ Look("pump", "settleRefused", "raise", "finish")
     ELSE /\ Look("pump", "started", "finish", "finish")
          /\ UNCHANGED run
  /\ UNCHANGED <<discourse, entry, released, provider, app>>

\* The adapter cannot tell.
StartUnclear ==
  /\ Pump("calling")
  /\ IF run.status = "STARTING"
     THEN /\ run' = Lost(run)
          /\ Look("pump", "started", "raise", "finish")
     ELSE /\ Look("pump", "started", "finish", "finish")
          /\ UNCHANGED run
  /\ UNCHANGED <<discourse, entry, released, provider, app>>

SettleRefused ==
  Pump("settleRefused") /\ SetEntry("pump", Closing(entry, entry = "LEASED"), "started")

\* What dispatchLeasedJob, reconcileStartedRuntimeTurn and
\* projectRuntimeStartFailure make of the run.
Started ==
  /\ Pump("started")
  /\ Look("pump",
          CASE Acknowledged(run) ->
                 (CASE job.status = "STARTING" -> "ack"
                    [] job.status \in JobEnded \cup {"RUNNING"} -> "finish"
                    [] OTHER -> "raise")
            [] run.status = "RECOVERY_REQUIRED" ->
                 IF job.status \in JobEnded THEN after["pump"]
                                            ELSE "startRecovery"
            [] run.status = "FAILED" /\ run.delivery = "NOT_DELIVERED" ->
                 IF job.status \in JobEnded THEN after["pump"]
                                            ELSE "startFailed"
            [] Ended(run) /\ ~(run.status = "FAILED" /\ run.delivery = "NOT_DELIVERED") ->
                 after["pump"]
            [] OTHER -> "raise",
          after["pump"], after["pump"])
  /\ Reads

Acknowledge == Pump("ack") /\ TryJob("pump", "RUNNING", "ACKNOWLEDGED", "finish")
StartRecovery ==
  /\ Pump("startRecovery")
  /\ TryJob("pump", "RECOVERY_REQUIRED", seen["pump"].delivery, "markWave")
StartFailed ==
  /\ Pump("startFailed")
  /\ TryJob("pump", "FAILED", "NOT_DELIVERED", "reconcile")

\* The failure is thrown on once the job shows it.
Raise == Pump("raise") /\ Throw("pump") /\ Reads

-----------------------------------------------------------------------------
(* Stopping: cancelQueuedWave, stopActiveWave and cancelUnsubmittedJob.    *)

CancelQueuedWave(p) ==
  /\ At(p, "cancelCheck")
  /\ Look(p, IF wave = "SETTLED" THEN "finish"
             ELSE IF \/ job.status \in JobEnded \cup {"QUEUED"}
                     \/ /\ job.status \in {"RESOLVING_CONTEXT", "CANCEL_REQUESTED"}
                        /\ NeverSent(run)
                  THEN "cancelIntent" ELSE "raise",
          after[p], "reconcile")
  /\ Reads

CancelIntent(p) ==
  /\ At(p, "cancelIntent")
  /\ TryWave(p, "STOP_REQUESTED", "cancelJob")

\* Where a canceled job leaves p, and a withdrawn turn.
Canceled(p) == IF back[p] = "cancelJob" THEN "stopWave" ELSE back[p]
Closer(p) == IF back[p] = "rejectJob" THEN "rejectJob" ELSE "cancelDone"

CancelUnsubmittedJob(p) ==
  LET withdraw == IF Unsent(run) THEN "cancelRun" ELSE "cancelDone" IN
  /\ At(p, "cancelJob")
  /\ CASE "job" \in stale[p] -> Throw(p) /\ Reads
       [] "job" \notin stale[p] /\ job.status \in JobEnded ->
            Move(p, Canceled(p)) /\ Reads
       [] "job" \notin stale[p] /\ job.status = "QUEUED" ->
            TryJob(p, "CANCELED", job.delivery, Canceled(p))
       [] "job" \notin stale[p] /\ job.status = "RESOLVING_CONTEXT"
            /\ NeverSent(run) ->
            TryJob(p, "CANCEL_REQUESTED", job.delivery, withdraw)
       [] "job" \notin stale[p] /\ job.status = "CANCEL_REQUESTED"
            /\ NeverSent(run) ->
            Move(p, withdraw) /\ Reads
       [] OTHER -> Throw(p) /\ Reads

\* cancelQueuedTurn: the run, then its queue entry.
CancelRun(p) ==
  /\ At(p, "cancelRun")
  /\ IF Unsent(run)
     THEN run' = Withdrawn(run) /\ Move(p, "cancelEntry")
     ELSE /\ IF Ended(run) /\ run.delivery = "NOT_DELIVERED"
             THEN Move(p, Closer(p)) ELSE Throw(p)
          /\ UNCHANGED run
  /\ UNCHANGED <<discourse, entry, released, provider, app>>

CancelEntry(p) ==
  At(p, "cancelEntry") /\ SetEntry(p, Closing(entry, TRUE), Closer(p))

CancelDone(p) ==
  At(p, "cancelDone") /\ TryJob(p, "CANCELED", job.delivery, Canceled(p))

\* The check of stopActiveWave: each job must be at a point from which it can
\* be stopped.
StopActiveWave(p) ==
  LET lost == /\ job.status \in {"RUNNING", "CANCEL_REQUESTED"}
              /\ run.status = "RECOVERY_REQUIRED"
      next ==
        CASE job.status \in JobEnded -> "stopWave"
          [] job.status = "QUEUED" -> "cancelJob"
          [] job.status = "RESOLVING_CONTEXT" /\ Unsent(run) -> "cancelJob"
          [] job.status = "RECOVERY_REQUIRED"
               /\ (run = NoRun \/ Ended(run) \/ run.status = "RECOVERY_REQUIRED") ->
               "stopRecovered"
          [] job.status = "RUNNING" /\ run.turn /\ Acknowledged(run) -> "requestCancel"
          [] job.status = "CANCEL_REQUESTED" /\ run.turn
               /\ (\/ Acknowledged(run)
                   \/ run.status = "INTERRUPTING"
                        /\ run.interrupt \in {"SENDING", "ACKNOWLEDGED"}) -> "stopRun"
          [] job.status = "RUNNING" /\ run.turn /\ run.status = "INTERRUPTING"
               /\ run.interrupt \in {"SENDING", "ACKNOWLEDGED"} -> "requestCancel"
          [] OTHER -> "raise"
  IN
  /\ At(p, "stopCheck")
  /\ Look(p, IF wave = "SETTLED" THEN "finish"
             ELSE IF wave \in Unsubmitted THEN "raise"
             ELSE IF lost THEN "markRun"
             ELSE IF next = "raise" THEN "raise" ELSE "stopIntent",
          after[p], IF lost THEN "stopCheck" ELSE next)
  /\ Reads

\* Stopping begins; back is where the stop of the job begins.
StopIntent(p) ==
  LET to == IF wave = "RECOVERY_REQUIRED" THEN "STOPPING" ELSE "STOP_REQUESTED"
  IN
  /\ At(p, "stopIntent")
  /\ IF wave \in Stopping
     THEN Move(p, back[p]) /\ Reads
     ELSE TryWave(p, to, back[p])

RequestCancel(p) ==
  /\ At(p, "requestCancel")
  /\ TryJob(p, "CANCEL_REQUESTED", job.delivery, "stopRun")

StopRun(p) ==
  /\ At(p, "stopRun")
  /\ IF run.status = "RECOVERY_REQUIRED"
     THEN Look(p, "markRun", after[p], "stopRecovered")
     ELSE Look(p, "interrupt", after[p], "interruptedJob")
  /\ Reads

\* interruptTurn.  An error that it reports is one its caller finds again in
\* the run.
InterruptTurn(p) ==
  LET reopened == run.status = "RECOVERY_REQUIRED" /\ run.turn
                    /\ run.delivery = "ACKNOWLEDGED"
                    /\ run.interrupt \notin {"SENDING", "AMBIGUOUS"}
  IN
  /\ At(p, "interrupt")
  /\ CASE (Acknowledged(run) /\ run.turn) \/ reopened ->
            /\ run' = [run EXCEPT !.status = "INTERRUPTING",
                                  !.interrupt = "SENDING"]
            /\ Move(p, "interrupting")
       [] run.status = "RECOVERY_REQUIRED" /\ run.delivery = "NOT_DELIVERED" ->
            /\ run' = [run EXCEPT !.status = "INTERRUPTED"]
            /\ Move(p, back[p])
       [] OTHER -> Move(p, back[p]) /\ UNCHANGED run
  /\ UNCHANGED <<discourse, entry, released, provider, app>>

\* The adapter delivered the interrupt, could not, or cannot tell.
InterruptReturns(p) ==
  /\ At(p, "interrupting")
  /\ IF run.status = "INTERRUPTING" /\ run.interrupt = "SENDING"
     THEN run' \in {[run EXCEPT !.interrupt = "ACKNOWLEDGED"],
                    [run EXCEPT !.interrupt = "AMBIGUOUS"],
                    [run EXCEPT !.status = "RECOVERY_REQUIRED",
                                !.interrupt = "NOT_DELIVERED"]}
     ELSE UNCHANGED run
  /\ Move(p, back[p])
  /\ UNCHANGED <<discourse, entry, released, provider, app>>

Settling(r) ==
  \/ Ended(r)
  \/ r.status = "INTERRUPTING" /\ r.interrupt \in {"ACKNOWLEDGED", "AMBIGUOUS"}

InterruptedJob(p) ==
  /\ At(p, "interruptedJob")
  /\ Look(p, CASE run.status = "RECOVERY_REQUIRED" ->
                    IF job.status = "CANCEL_REQUESTED" THEN "stopRecovery"
                                                       ELSE "stopWave"
               [] Settling(run) -> "stopWave"
               [] OTHER -> "raise",
          after[p], "stopWave")
  /\ Reads

StopRecovery(p) ==
  At(p, "stopRecovery") /\ TryJob(p, "RECOVERY_REQUIRED", job.delivery, "stopWave")

\* cancelRecoveredJob.
StopRecovered(p) ==
  /\ At(p, "stopRecovered")
  /\ Look(p, CASE run = NoRun \/ Ended(run) -> "recoveredDone"
               [] run.status = "RECOVERY_REQUIRED" -> "interrupt"
               [] OTHER -> "raise",
          after[p], "interruptedRecovered")
  /\ Reads

\* Mutant: the job of an interrupt that was acknowledged is closed at once.
InterruptedRecovered_ClosesEarly(p) ==
  /\ At(p, "interruptedRecovered")
  /\ Look(p, CASE run.status = "RECOVERY_REQUIRED" -> "stopWave"
               [] Ended(run) \/ run.status = "INTERRUPTING" -> "recoveredDone"
               [] OTHER -> "raise",
          after[p], "stopWave")
  /\ Reads

InterruptedRecovered(p) ==
  /\ At(p, "interruptedRecovered")
  /\ Look(p, CASE run.status = "RECOVERY_REQUIRED" -> "stopWave"
               [] Ended(run) -> "recoveredDone"
               [] run.status = "INTERRUPTING" /\ run.interrupt = "ACKNOWLEDGED" ->
                    IF job.status = "RECOVERY_REQUIRED" THEN "recoveredPending"
                                                        ELSE "recoveredDone"
               [] OTHER -> "raise",
          after[p], "stopWave")
  /\ Reads

RecoveredPending(p) ==
  /\ At(p, "recoveredPending")
  /\ TryJob(p, "CANCEL_REQUESTED", job.delivery, "stopWave")

RecoveredDone(p) ==
  /\ At(p, "recoveredDone")
  /\ IF job.status \in {"CANCELED", "CANCEL_REQUESTED"}
     THEN Move(p, "stopWave") /\ Reads
     ELSE TryJob(p, "CANCELED", job.delivery, "stopWave")

FinishStop(p) ==
  /\ At(p, "stopWave")
  /\ SetWave(p, IF wave = "STOP_REQUESTED" THEN "STOPPING" ELSE wave, "reconcile")

-----------------------------------------------------------------------------
(* markJobRecovery: the run is fenced, its entry closed, and the job and   *)
(* the wave wait for the user.                                             *)

MarkRun(p) ==
  /\ At(p, "markRun")
  /\ IF job.status \in JobEnded
     THEN Move(p, back[p]) /\ UNCHANGED run
     ELSE /\ run' = IF Ended(run) \/ run.status \in {"none", "RECOVERY_REQUIRED"}
                    THEN run ELSE Fenced(run)
          /\ Look(p, "markEntry", after[p], back[p])
  /\ UNCHANGED <<discourse, entry, released, provider, app>>

MarkEntry(p) ==
  At(p, "markEntry") /\ SetEntry(p, Closing(entry, Ended(run)), "markJob")

MarkJob(p) ==
  /\ At(p, "markJob")
  /\ TryJob(p, "RECOVERY_REQUIRED", job.delivery, "markWave")

\* markWaveRecovery.
MarkWave(p) ==
  /\ At(p, "markWave")
  /\ SetWave(p, IF wave \in Stopping \cup {"SETTLED"} THEN wave
                ELSE "RECOVERY_REQUIRED", back[p])


-----------------------------------------------------------------------------
(* A turn that ended: persistSuccessfulTerminal, prepareTerminalProjection *)
(* and what follows of ingestContribution; ingestFailure.  after tells the *)
(* event chain ("lockAdvance") from recovery ("advance").                  *)

\* Mutant: the event of a turn that did not end tells nothing.
TakeEvent_DropsRecovery ==
  LET event == Head(inbox) IN
  /\ up # "down" /\ At("events", "idle") /\ inbox # <<>>
  /\ inbox' = Tail(inbox)
  /\ Look("events",
          CASE event.kind = "recovery" -> "finish"
            [] event.kind # "recovery" /\ event.phase # phase -> "reconcile"
            [] event = Event("completed") /\ provider.answer # "blank" -> "ingest"
            [] OTHER -> "fail",
          "lockAdvance", "idle")
  /\ UNCHANGED <<discourse, runtime, provider, wake, up, crashes, faults, stops>>

\* ingestRuntimeTurnEvent.  An event of the job before this one finds that job
\* over.
TakeEvent ==
  LET event == Head(inbox) IN
  /\ up # "down" /\ At("events", "idle") /\ inbox # <<>>
  /\ inbox' = Tail(inbox)
  /\ Look("events",
          CASE event.kind = "recovery" -> "lockRecover"
            [] event.kind # "recovery" /\ event.phase # phase -> "reconcile"
            [] event = Event("completed") /\ provider.answer # "blank" -> "ingest"
            [] OTHER -> "fail",
          "lockAdvance", "idle")
  /\ UNCHANGED <<discourse, runtime, provider, wake, up, crashes, faults, stops>>

Ingest(p) ==
  /\ At(p, "ingest")
  /\ IF Overtaken(p)
     THEN Move(p, "settle") /\ UNCHANGED run
     ELSE /\ run' = [run EXCEPT !.dated = TRUE]
          /\ Look(p, "project", after[p], back[p])
  /\ UNCHANGED <<discourse, entry, released, provider, app>>

Project(p) ==
  /\ At(p, "project") /\ ~Overtaken(p)
  /\ Look(p, IF run.intact # "UNCHANGED" THEN "markRun"
             ELSE IF job.status \in {"FAILED", "CANCELED", "CONTEXT_STALE"}
             THEN "settleOnly"
             ELSE IF provider.answer = "invalid" THEN "failResult"
             ELSE IF job.status = "COMPLETED" THEN "settle" ELSE "append",
          after[p], "settleOnly")
  /\ Reads

ProjectedPeer(p) ==
  /\ pc[p] \in {"project", "fail"} /\ Overtaken(p)
  /\ Move(p, "settle") /\ Reads

FailResult(p) ==
  At(p, "failResult") /\ TryJob(p, "FAILED", "TERMINAL", "settle")

\* appendAgentMessage: a message is appended once, and an operation id returns
\* what it appended.  The events' id and that of recovery are two ids.
AppendMessage(p) ==
  LET id == IF after[p] = "advance" THEN "recovery" ELSE "live" IN
  /\ At(p, "append")
  /\ IF ~Overtaken(p) /\ message \in {"none", id}
     THEN message' = id /\ Move(p, "complete")
     ELSE Throw(p) /\ UNCHANGED message
  /\ UNCHANGED <<wave, phase, job, runtime, provider, app>>

Complete(p) == At(p, "complete") /\ TryJob(p, "COMPLETED", "TERMINAL", "settle")

IngestFailure(p) ==
  LET canceled == \/ job.status = "CANCEL_REQUESTED"
                  \/ job.status = "RECOVERY_REQUIRED" /\ wave \in Stopping
  IN
  /\ At(p, "fail") /\ ~Overtaken(p)
  /\ run' = [run EXCEPT !.interrupt = Closed(run)]
  /\ Look(p, IF run.status = "COMPLETED" /\ run.intact # "UNCHANGED" THEN "markRun"
             ELSE IF job.status \in JobEnded THEN "settle"
             ELSE IF canceled THEN "failCanceled" ELSE "failFailed",
          after[p], "settleOnly")
  /\ UNCHANGED <<discourse, entry, released, provider, app>>

CloseFailedJob(p) ==
  \/ At(p, "failCanceled") /\ TryJob(p, "CANCELED", "TERMINAL", "settle")
  \/ At(p, "failFailed") /\ TryJob(p, "FAILED", "TERMINAL", "settle")

\* settleRuntimeAfterTerminal, and then the wave or not.
SettleRuntime(p) ==
  /\ pc[p] \in {"settle", "settleOnly"}
  /\ SetEntry(p, IF Overtaken(p) THEN entry ELSE Closing(entry, entry = "LEASED"),
              IF pc[p] = "settle" THEN "reconcile" ELSE after[p])

-----------------------------------------------------------------------------
(* Recovery: DiscourseService.recoverConversation, under the lock of the   *)
(* conversation, and DiscourseRuntimeCoordinator.recoverConversation.      *)

LockRecover(p) ==
  /\ At(p, "lockRecover") /\ lock = "free"
  /\ Enter(p, "recover", "advance", "idle")
  /\ Reads

Recover(p) ==
  LET next == IF Unsent(run) /\ entry = "LEASED" THEN "release" ELSE "requeue" IN
  /\ At(p, "recover")
  /\ Look(p, IF run = NoRun THEN "advance"
             ELSE IF job.status = "QUEUED" THEN "relink" ELSE next,
          "advance", next)
  /\ Reads

Relink(p) ==
  At(p, "relink") /\ TryJob(p, "RESOLVING_CONTEXT", job.delivery, back[p])

\* releaseQueueEntry under an operation id of the run: the second release
\* returns what the first one did.
ReleaseEntry(p) ==
  /\ At(p, "release")
  /\ IF released
     THEN Move(p, "requeue") /\ UNCHANGED <<entry, released>>
     ELSE IF "entry" \notin stale[p] /\ Unsent(run)
     THEN /\ entry' = "QUEUED" /\ released' = TRUE
          /\ Touch(p, {"entry"}) /\ Goto(p, "requeue")
          /\ UNCHANGED <<seen, after, back>>
     ELSE Throw(p) /\ UNCHANGED <<entry, released>>
  /\ UNCHANGED <<discourse, run, provider, app>>

\* ensureWaveQueued.
Requeue(p) ==
  /\ At(p, "requeue")
  /\ SetWave(p, IF seen[p].status = "QUEUED" /\ wave \in {"PLANNED", "SNAPSHOTTING"}
                THEN "QUEUED" ELSE wave, "decide")

\* What is left to do for the job, of the run as it was read; the job is the
\* one that was read, or the update that follows is refused.
Decide(p) ==
  LET r == seen[p]
      jobEnded == job.status \in JobEnded
      next ==
        CASE job.status = "CANCEL_REQUESTED" /\ NeverSent(r) -> "rCancelRun"
          [] job.status = "CANCEL_REQUESTED" /\ r.interrupt # "none"
               /\ r.status \in {"INTERRUPTING", "RECOVERY_REQUIRED"} -> "rInterrupted"
          [] r.status = "RECOVERY_REQUIRED" /\ ~jobEnded
               /\ ~(job.status = "CANCEL_REQUESTED" /\ r.interrupt # "none") ->
               "rRequired"
          [] r.status = "COMPLETED" /\ r.intact # "UNCHANGED" -> "markRun"
          [] r.status = "COMPLETED" /\ r.intact = "UNCHANGED" ->
               (CASE job.status = "COMPLETED" -> "settle"
                  [] job.status # "COMPLETED" /\ ~r.dated -> "markRun"
                  [] OTHER -> IF provider.answer = "blank" THEN "fail" ELSE "ingest")
          [] r.status \in {"FAILED", "INTERRUPTED"}
               /\ ~(job.status = "CANCEL_REQUESTED" /\ NeverSent(r)) ->
               IF jobEnded THEN "settle" ELSE IF r.turn THEN "fail" ELSE "markRun"
          [] Acknowledged(r) -> "rRunning"
          [] r.status = "STARTING" -> "rStarting"
          [] OTHER -> "advance"
  IN
  /\ At(p, "decide")
  /\ pc' = [pc EXCEPT ![p] = next]
  /\ back' = [back EXCEPT ![p] =
                IF r.status = "COMPLETED" /\ r.intact # "UNCHANGED"
                THEN "settleOnly" ELSE "advance"]
  /\ UNCHANGED <<lock, handling, seen, stale, after>>
  /\ Reads

RecoverCancelRun(p) ==
  /\ At(p, "rCancelRun")
  /\ IF Unsent(seen[p])
     THEN TryRun(p, [seen[p] EXCEPT !.status = "INTERRUPTED",
                                    !.delivery = "NOT_DELIVERED"], "rCancelEntry")
     ELSE Move(p, "rCancelEntry") /\ Reads

RecoverCancelEntry(p) ==
  /\ At(p, "rCancelEntry")
  /\ IF entry \in {"QUEUED", "CANCELED"}
     THEN SetEntry(p, "CANCELED", "rCancelJob")
     ELSE Move(p, "advance") /\ Reads

RecoverCancelJob(p) ==
  At(p, "rCancelJob") /\ TryJob(p, "CANCELED", job.delivery, "reconcile")

RecoverInterrupted(p) ==
  LET r == seen[p] IN
  /\ At(p, "rInterrupted")
  /\ IF r.status = "INTERRUPTING"
     THEN TryRun(p, [r EXCEPT !.status = "RECOVERY_REQUIRED",
                              !.interrupt = IF @ = "SENDING" THEN "AMBIGUOUS"
                                                             ELSE @],
                 "rInterruptedJob")
     ELSE Move(p, "rInterruptedJob") /\ Reads

RecoverInterruptedJob(p) ==
  /\ At(p, "rInterruptedJob")
  /\ TryJob(p, "RECOVERY_REQUIRED", job.delivery, "markWave")

RecoverRequired(p) ==
  LET sent == CASE job.delivery = "ACKNOWLEDGED" -> "ACKNOWLEDGED"
                [] job.delivery # "ACKNOWLEDGED" /\ seen[p].delivery = "SENDING" ->
                     "AMBIGUOUS"
                [] OTHER -> seen[p].delivery
  IN
  /\ At(p, "rRequired")
  /\ IF "job" \notin stale[p] /\ job = [status |-> "RECOVERY_REQUIRED", delivery |-> sent]
     THEN Move(p, "markWave") /\ Reads
     ELSE TryJob(p, "RECOVERY_REQUIRED", sent, "markWave")

RunningWave == IF wave \in Unsubmitted THEN "RUNNING" ELSE wave

\* ensureWaveRunning.
RecoverRunning(p) ==
  At(p, "rRunning") /\ LET w == RunningWave IN
    /\ wave' = w
    /\ Touch(p, IF w = wave THEN {} ELSE {"wave"})
    /\ Goto(p, IF job.status = "STARTING" THEN "rRunningJob" ELSE "advance")
    /\ UNCHANGED <<phase, job, message, runtime, provider, app, seen, after, back>>

RecoverRunningJob(p) ==
  At(p, "rRunningJob") /\ TryJob(p, "RUNNING", "ACKNOWLEDGED", "advance")

RecoverStarting(p) ==
  /\ At(p, "rStarting")
  /\ TryRun(p, Lost(seen[p]),
            IF job.status = "STARTING" THEN "rStartingJob" ELSE "rStartingWave")

RecoverStartingJob(p) ==
  /\ At(p, "rStartingJob")
  /\ TryJob(p, "RECOVERY_REQUIRED", "AMBIGUOUS", "rStartingWave")

RecoverStartingWave(p) ==
  /\ At(p, "rStartingWave")
  /\ wave' = IF wave \in Stopping \cup {"SETTLED"} THEN wave ELSE "RECOVERY_REQUIRED"
  /\ Touch(p, IF wave' = wave THEN {} ELSE {"wave"})
  /\ Goto(p, "advance")
  /\ UNCHANGED <<phase, job, message, runtime, provider, app, seen, after, back>>

-----------------------------------------------------------------------------
(* The wave follows its jobs, and the author's job the peer's.             *)

AwaitsAuthor ==
  /\ Agents = 2 /\ phase = 1 /\ wave \notin Stopping
  /\ job.status = "COMPLETED" /\ provider.answer = "asks"

\* reconcileWaveFromChildren and deriveDiscourseWaveAggregate.
Derived ==
  CASE job.status = "RECOVERY_REQUIRED" ->
         IF wave \in Stopping THEN wave ELSE "RECOVERY_REQUIRED"
    [] job.status \in JobEnded /\ ~AwaitsAuthor -> "SETTLED"
    [] OTHER -> wave

Reconcile(p) ==
  /\ At(p, "reconcile")
  /\ SetWave(p, IF wave = "SETTLED" THEN wave ELSE Derived, after[p])

LockAdvance(p) ==
  /\ At(p, "lockAdvance") /\ lock = "free"
  /\ Enter(p, "advance", after[p], "idle")
  /\ Reads

\* advanceWaveUnlocked: the context of the wave is fresh, or it is not.
AdvanceWave(p) ==
  LET on == IF wave = "SETTLED" \/ after[p] = "advance" THEN "activate" ELSE "finish"
  IN
  /\ At(p, "advance")
  /\ IF AwaitsAuthor /\ wave # "SETTLED"
     THEN \/ Move(p, "handoff") /\ UNCHANGED <<wave, faults>>
          \/ /\ faults < MaxFaults
             /\ faults' = faults + 1 /\ wave' = "SETTLED"
             /\ Touch(p, {"wave"}) /\ Goto(p, on)
             /\ UNCHANGED <<seen, after, back>>
     ELSE Move(p, on) /\ UNCHANGED <<wave, faults>>
  /\ UNCHANGED <<phase, job, message, runtime, provider, inbox, wake, up, crashes,
                 stops>>

\* addJobsToWave: from here on the job is the author's.
AddAuthorJob(p) ==
  /\ At(p, "handoff")
  /\ phase' = 2 /\ job' = NewJob /\ message' = "none"
  /\ run' = NoRun /\ entry' = "none" /\ released' = FALSE /\ provider' = NoTurn
  /\ pc' = [pc EXCEPT ![p] = "prepare"]
  /\ seen' = [seen EXCEPT ![p] = NoRun]
  /\ stale' = [q \in Procs |-> IF q = p THEN {}
                               ELSE IF pc[q] \in Blind THEN stale[q]
                               ELSE stale[q] \cup {"job", "entry", "phase"}]
  /\ after' = [after EXCEPT ![p] = "finish"]
  /\ back' = [back EXCEPT ![p] = "reconcile"]
  /\ UNCHANGED <<wave, app, lock, handling>>

-----------------------------------------------------------------------------
(* The adapter, the provider and the boundary check of AgentOrchestrator,  *)
(* and the life of the application.                                        *)

Alive == up # "down"
\* A call of the job before this one has nothing left to send.
Calling == pc["pump"] = "calling" /\ ~Overtaken("pump")
Outside == UNCHANGED <<discourse, entry, released, control, locals>>

\* The start request reaches the provider.
Submit ==
  /\ Alive /\ Calling /\ provider = NoTurn
  /\ provider' = [provider EXCEPT !.state = "working", !.sent = TRUE]
  /\ Outside /\ UNCHANGED <<run, app>>

\* The turn is announced before the request returns.
Accept ==
  /\ Alive /\ Calling /\ provider.state = "working" /\ run.status = "STARTING"
  /\ run' = [run EXCEPT !.status = "RUNNING", !.delivery = "ACKNOWLEDGED",
                        !.turn = TRUE]
  /\ Outside /\ UNCHANGED <<provider, app>>

\* The end of a turn that is not known is not observed.
ProviderEnds ==
  /\ Alive /\ provider.state = "working" /\ run.status # "STARTING"
  /\ \E end \in {"COMPLETED", "FAILED", "INTERRUPTED"}, answer \in Answers :
       LET observed == run.turn /\ ~Ended(run) IN
       /\ end = "INTERRUPTED" => run.interrupt # "none"
       /\ answer = "asks" => Agents = 2 /\ phase = 1
       /\ end # "COMPLETED" => answer = "blank"
       /\ provider' = [state |-> "done", sent |-> TRUE, owed |-> observed,
                       answer |-> answer]
       /\ run' = IF observed
                 THEN [run EXCEPT !.status = end, !.delivery = "TERMINAL",
                                  !.interrupt = Closed(run)]
                 ELSE run
  /\ Outside /\ UNCHANGED app

\* verifyReadOnlyRuntimeBoundary, and the event of the turn's end.
VerifyBoundary ==
  /\ Alive /\ provider.owed
  /\ provider' = [provider EXCEPT !.owed = FALSE]
  /\ \/ run' = [run EXCEPT !.intact = "UNCHANGED"]
     \/ /\ run.intact # "UNCHANGED"
        /\ run' = [run EXCEPT !.intact = "CHANGED", !.status = "FAILED",
                              !.delivery = IF run.turn THEN "TERMINAL"
                                                       ELSE "NOT_DELIVERED"]
  /\ inbox' = Append(inbox, Event(CASE run'.status = "COMPLETED" -> "completed"
                                    [] run'.status = "RECOVERY_REQUIRED" -> "recovery"
                                    [] OTHER -> "ended"))
  /\ Outside /\ UNCHANGED <<wake, up, crashes, faults, stops>>

\* The server of the turn is gone; an interrupt it had acknowledged is done.
Abandoned(r) ==
  IF r.turn /\ r.interrupt = "ACKNOWLEDGED"
  THEN [r EXCEPT !.status = "INTERRUPTED", !.delivery = "TERMINAL",
                 !.interrupt = "TERMINAL"]
  ELSE Lost(r)

ServerLost ==
  /\ Alive /\ provider.state = "working"
  /\ provider' = [provider EXCEPT !.state = "lost", !.owed = Owned(run)]
  /\ run' = IF Owned(run) THEN Abandoned(run) ELSE run
  /\ Outside /\ UNCHANGED app

Stopped == [p \in Procs |-> "idle"]
Forget ==
  /\ pc' = Stopped /\ lock' = "free"
  /\ handling' = [p \in Procs |-> FALSE]
  /\ seen' = [p \in Procs |-> NoRun]
  /\ stale' = [p \in Procs |-> {}]
  /\ after' = Stopped /\ back' = Stopped
  /\ inbox' = <<>> /\ wake' = FALSE /\ up' = "down"
  /\ provider' = [provider EXCEPT !.state = IF @ = "working" THEN "lost" ELSE @,
                                  !.owed = FALSE]
  /\ UNCHANGED <<discourse, runtime, faults, stops>>

Crash == Alive /\ crashes < MaxCrashes /\ crashes' = crashes + 1 /\ Forget
BootFails == At("boot", "failed") /\ Forget /\ UNCHANGED crashes

\* The runtime is recovered before Discourse: a turn of a server that is gone
\* is lost; one without a server instance yet is left as it is.
Restart ==
  /\ up = "down"
  /\ up' = "starting"
  /\ run' \in IF Owned(run)
              THEN {Lost(run)} \cup
                   (IF run.status = "STARTING" /\ ~provider.sent THEN {run} ELSE {})
              ELSE {run}
  /\ provider' = [provider EXCEPT
       !.owed = run.intact = "PENDING"
                  /\ (Ended(run') \/ run'.status = "RECOVERY_REQUIRED")]
  /\ Goto("boot", "settling")
  /\ UNCHANGED <<discourse, entry, released, inbox, wake, crashes, faults, stops,
                 locals>>

BootSettles ==
  /\ At("boot", "settling") /\ ~provider.owed
  /\ SetEntry("boot", Closing(entry, Ended(run)), "lockRecover")

-----------------------------------------------------------------------------
Process(p) ==
  \/ Finish(p) \/ ActivateNextWave(p) \/ PrepareJob(p) \/ PrepareRun(p)
  \/ LinkJob(p) \/ QueueWave(p) \/ Notify(p)
  \/ CancelQueuedWave(p) \/ CancelIntent(p) \/ CancelUnsubmittedJob(p)
  \/ CancelRun(p) \/ CancelEntry(p) \/ CancelDone(p)
  \/ StopActiveWave(p) \/ StopIntent(p) \/ RequestCancel(p) \/ StopRun(p)
  \/ InterruptTurn(p) \/ InterruptReturns(p) \/ InterruptedJob(p)
  \/ StopRecovery(p) \/ StopRecovered(p) \/ InterruptedRecovered(p)
  \/ RecoveredPending(p) \/ RecoveredDone(p) \/ FinishStop(p)
  \/ MarkRun(p) \/ MarkEntry(p) \/ MarkJob(p) \/ MarkWave(p)
  \/ Ingest(p) \/ Project(p) \/ ProjectedPeer(p) \/ FailResult(p)
  \/ AppendMessage(p) \/ Complete(p) \/ IngestFailure(p) \/ CloseFailedJob(p)
  \/ SettleRuntime(p)
  \/ LockRecover(p) \/ Recover(p) \/ Relink(p) \/ ReleaseEntry(p) \/ Requeue(p)
  \/ Decide(p) \/ RecoverCancelRun(p) \/ RecoverCancelEntry(p)
  \/ RecoverCancelJob(p) \/ RecoverInterrupted(p) \/ RecoverInterruptedJob(p)
  \/ RecoverRequired(p) \/ RecoverRunning(p) \/ RecoverRunningJob(p)
  \/ RecoverStarting(p) \/ RecoverStartingJob(p) \/ RecoverStartingWave(p)
  \/ Reconcile(p) \/ LockAdvance(p) \/ AdvanceWave(p) \/ AddAuthorJob(p)

StartCall == StartReturns \/ StartRefused \/ StartUnclear

PumpStep ==
  \/ Wake \/ RetryTimer \/ LeaseAvailable \/ PumpEnds \/ CheckContext
  \/ RejectJob
  \/ DispatchLeasedJob \/ DispatchWave \/ DispatchJob \/ StartPreparedTurn
  \/ SettleRefused \/ Started \/ Acknowledge \/ StartRecovery
  \/ StartFailed \/ Raise

Environment ==
  \/ Submit \/ Accept \/ ProviderEnds \/ VerifyBoundary \/ ServerLost
  \/ Crash \/ BootFails \/ Restart \/ BootSettles

Next ==
  \/ Send \/ StopWave \/ TakeEvent \/ StartCall \/ PumpStep \/ Environment
  \/ \E p \in Procs : Process(p)

Spec == Init /\ [][Next]_vars

\* Every process with work goes on, the start call returns, a turn ends and is verified,
\* and the application is started again.
Fairness ==
  /\ \A p \in Procs : WF_vars(pc[p] # "idle" /\ Process(p))
  /\ WF_vars(PumpStep) /\ WF_vars(TakeEvent) /\ WF_vars(StartCall)
  /\ WF_vars(ProviderEnds) /\ WF_vars(VerifyBoundary)
  /\ WF_vars(Restart) /\ WF_vars(BootSettles) /\ WF_vars(BootFails)

FairSpec == Spec /\ Fairness

-----------------------------------------------------------------------------
(* Properties.                                                             *)

\* A settled wave has nothing left that runs: its job and its turn are over and
\* the provider has stopped, whoever settled it: the turn's end, a stop, the
\* recovery at a start or that of a failed dispatch.
SettledIsOver ==
  wave = "SETTLED" =>
    /\ job.status \in JobEnded
    /\ run = NoRun \/ Ended(run)
    /\ provider.state # "working"

\* A job closed as one the provider never got was never sent, whatever crash,
\* stop or recovery closed it, unless the repository changed.
CanceledNeverSent ==
  /\ job.status \in JobEnded /\ job.delivery \in {"NOT_SENT", "NOT_DELIVERED"}
  /\ run.intact # "CHANGED"
  => ~provider.sent

\* A published message is the answer of a completed turn whose repository was
\* found unchanged, and no job counts as completed without its message.
PublishedIsVerified ==
  /\ message # "none" => run.status = "COMPLETED" /\ run.intact = "UNCHANGED"
  /\ job.status = "COMPLETED" => message # "none"

\* An answer was appended, or refused for its length or content, and its job
\* still runs: the recovery of such a job may be refused forever.
Unprojected ==
  /\ job.status \notin JobEnded /\ run.status = "COMPLETED"
  /\ message # "none" \/ provider.answer = "invalid"

\* A job that waits for its turn does not wait for ever: it is closed or handed
\* to the user, however the provider, the pump and the events fall out.
RunningTurnCloses ==
  \/ <>[]Unprojected
  \/ job.status = "RUNNING" /\ Owned(run)
       ~> job.status \in JobEnded \cup {"RECOVERY_REQUIRED"}

\* A queued turn is leased or withdrawn, though the pump drops what it is told
\* while it runs and between its last look and its end.
QueuedIsLeased == entry = "QUEUED" ~> entry # "QUEUED"

\* Every start of the application ends.
EveryStartEnds == []<>(up = "up")
=============================================================================
