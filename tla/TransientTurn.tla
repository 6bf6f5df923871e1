---------------------------- MODULE TransientTurn ----------------------------
(***************************************************************************)
(* One-shot read-only provider turns (prompt refinement), from the call    *)
(* that prepares one to the purge of its records:                          *)
(*   the caller      startTransientReadOnlyRuntimeTurn, TaskManagerService *)
(*   the orchestrator  AgentOrchestrator: prepare, start, interrupt, the   *)
(*                   event queue that verifies the repository, finish      *)
(*   the adapter     CodexAppServerAdapter: the serialized inbound queue,  *)
(*                   the loss sweep, the interruption deadline             *)
(*   the store       SqliteAgentRuntimeStore: run and queue-entry records, *)
(*                   updated by compare-and-swap on their revision         *)
(* and, around them, the App Server process, the repository being read,    *)
(* crashes and restarts of the application.                                *)
(*                                                                         *)
(* An action writes the store at most once, so a crash can fall between    *)
(* any two writes.  A record read before an await and written after it is  *)
(* kept as a snapshot (sweep.snap, verifying.snap): the update is refused  *)
(* when the record is no longer the one that was read.  Where the code     *)
(* reads again after a conflict and decides afresh, read and write are one *)
(* step here.                                                              *)
(***************************************************************************)
EXTENDS Naturals, Sequences

CONSTANTS
  Runs,         \* the prompt refinements, one run and one session each
  MaxServers,   \* bound on App Server generations
  MaxRestarts,  \* bound on crashes and shutdowns of the application
  MaxEdits      \* bound on changes of the repository

ASSUME BoundsAssumption ==
  MaxServers \in Nat /\ MaxRestarts \in Nat /\ MaxEdits \in Nat

VARIABLES
  run,        \* the run record of each turn; status NONE: there is none
  entry,      \* the status of its queue entry
  latched,    \* shutdownLatched: the scheduler admits nothing
  server,     \* serverInstanceId of the newest App Server, 0 for none yet
  process,    \* that process: none in this session of the application, up,
              \* down, or fenced (not known to have exited)
  inbox,      \* inboundQueue: notifications and process events, in order
  sweep,      \* the loss sweep the inbound queue is running
  deadline,   \* the runs whose interruption deadline is armed
  events,     \* runtimeTurnEventQueue, with the calls that await its tail
  verifying,  \* the event whose repository boundary is being verified
  pc,         \* where the caller of each turn is
  outcome,    \* what the caller was told
  turn,       \* what really became of the turn at the provider
  repo,       \* the state of the repository, as a fingerprint
  phase,      \* the application: ready, down, or on the way to either
  todo,       \* the runs startup still has to reconcile
  restarts

store == <<run, entry, latched>>
codex == <<server, process, inbox, sweep, deadline>>
queue == <<events, verifying>>
caller == <<pc, outcome>>
app == <<phase, todo, restarts>>
vars == <<store, codex, queue, caller, turn, repo, app>>

-----------------------------------------------------------------------------
(* Records and their legal changes.                                        *)

TerminalStatus == {"COMPLETED", "FAILED", "INTERRUPTED"}

Status ==
  {"NONE", "QUEUED", "STARTING", "RUNNING", "INTERRUPTING", "RECOVERY_REQUIRED"}
    \cup TerminalStatus

Delivery ==
  {"NOT_SENT", "SENDING", "ACKNOWLEDGED", "AMBIGUOUS", "NOT_DELIVERED",
   "TERMINAL"}

\* Generations of the App Server; 0 stands for none.
Servers == 0..MaxServers
Fingerprint == 0..MaxEdits

\* turnId: a providerTurnId is known.  source: providerTerminalSource, where
\* CONFIRMED_STOP stands for the two sources of a stop that was confirmed.
RunRecord ==
  [status : Status, delivery : Delivery,
   interrupt : {"NONE"} \cup (Delivery \ {"NOT_SENT"}),
   turnId : BOOLEAN, server : Servers,
   recovery : {"NONE", "REQUIRES_USER_ACTION", "RECONCILING"},
   source : {"NONE", "PROVIDER_PROCESS_LOSS", "CONFIRMED_STOP",
             "TURN_COMPLETED_NOTIFICATION", "REPOSITORY_INTEGRITY"},
   integrity : {"NONE", "PENDING", "UNCHANGED", "CHANGED", "UNVERIFIABLE"},
   before : Fingerprint]

NoRun ==
  [status |-> "NONE", delivery |-> "NOT_SENT", interrupt |-> "NONE",
   turnId |-> FALSE, server |-> 0, recovery |-> "NONE", source |-> "NONE",
   integrity |-> "NONE", before |-> 0]

Terminal(rec) == rec.status \in TerminalStatus
Recovering(rec) == rec.status = "RECOVERY_REQUIRED"

\* RUN_STATUS_TRANSITIONS, for the statuses a read-only turn takes.
StatusTransitions ==
  [s \in Status |->
     CASE s = "NONE" -> {"QUEUED"}
       [] s = "QUEUED" ->
            {"STARTING", "INTERRUPTED", "FAILED", "RECOVERY_REQUIRED"}
       [] s = "STARTING" ->
            {"RUNNING", "INTERRUPTING", "RECOVERY_REQUIRED"}
              \cup TerminalStatus
       [] s = "RUNNING" ->
            {"INTERRUPTING", "RECOVERY_REQUIRED"} \cup TerminalStatus
       [] s = "INTERRUPTING" -> {"RECOVERY_REQUIRED"} \cup TerminalStatus
       [] s = "RECOVERY_REQUIRED" -> {"STARTING", "RUNNING"} \cup TerminalStatus
       [] s \in TerminalStatus -> {"RECOVERY_REQUIRED"}]

\* DELIVERY_TRANSITIONS.
DeliveryTransitions ==
  [d \in Delivery |->
     CASE d = "NOT_SENT" -> {"SENDING", "NOT_DELIVERED"}
       [] d = "SENDING" ->
            {"ACKNOWLEDGED", "NOT_DELIVERED", "AMBIGUOUS", "TERMINAL"}
       [] d = "ACKNOWLEDGED" -> {"TERMINAL", "AMBIGUOUS"}
       [] d = "AMBIGUOUS" -> {"ACKNOWLEDGED", "TERMINAL", "NOT_DELIVERED"}
       [] d \in {"NOT_DELIVERED", "TERMINAL"} -> {}]

\* The interrupt part of updateRuntimeRunRecord: it begins with the durable
\* intent to send, and may be cleared.
InterruptAllowed(old, new) ==
  \/ new \in {old, "NONE"}
  \/ old = "NONE" /\ new = "SENDING"
  \/ old # "NONE" /\ (new = "TERMINAL" \/ new \in DeliveryTransitions[old])

\* updateRuntimeRunRecord accepts the change.
Allowed(old, new) ==
  /\ new.status \in {old.status} \cup StatusTransitions[old.status]
  /\ new.delivery \in {old.delivery} \cup DeliveryTransitions[old.delivery]
  /\ InterruptAllowed(old.interrupt, new.interrupt)

\* assertRuntimeRunLifecycle accepts the record.
Consistent(rec) ==
  /\ rec.status = "QUEUED" => rec.delivery = "NOT_SENT"
  /\ rec.status = "STARTING" => rec.delivery = "SENDING"
  /\ rec.status \in {"RUNNING", "INTERRUPTING"} => rec.delivery = "ACKNOWLEDGED"
  /\ rec.status = "COMPLETED" => rec.delivery = "TERMINAL"
  /\ Terminal(rec) => rec.delivery \in {"TERMINAL", "NOT_DELIVERED"}
  /\ rec.delivery = "NOT_DELIVERED" => ~rec.turnId
  /\ Recovering(rec) =>
       /\ rec.recovery # "NONE"
       /\ rec.delivery \notin {"NOT_SENT", "SENDING"}
  /\ rec.status = "INTERRUPTING" => rec.interrupt # "NONE"

Write(r, rec) == run' = [run EXCEPT ![r] = rec]
Goto(r, label) == pc' = [pc EXCEPT ![r] = label]

\* handleCanonicalServerLoss: the runs it takes for lost with server s, and
\* the two updates it makes.
Affected(rec, s, confirmed) ==
  /\ rec.server = s
  /\ rec.status # "NONE" /\ ~Terminal(rec)
  /\ Recovering(rec) /\ rec.source = "PROVIDER_PROCESS_LOSS" =>
       confirmed /\ rec.turnId

Lost(rec) ==
  [rec EXCEPT !.status = "RECOVERY_REQUIRED",
              !.delivery = IF rec.delivery = "NOT_SENT" THEN "NOT_DELIVERED"
                                                        ELSE "AMBIGUOUS",
              !.recovery = "REQUIRES_USER_ACTION",
              !.source = "PROVIDER_PROCESS_LOSS"]

InterruptSettled(rec) == IF rec.interrupt = "NONE" THEN "NONE" ELSE "TERMINAL"

Stopped(rec) ==
  [rec EXCEPT !.status = "INTERRUPTED", !.delivery = "TERMINAL",
              !.interrupt = InterruptSettled(rec), !.recovery = "NONE",
              !.source = "CONFIRMED_STOP"]

-----------------------------------------------------------------------------
(* Queues.                                                                 *)

Notification(kind, r) == [kind |-> kind, run |-> r]
Exit(s, confirmed) == [kind |-> "exit", server |-> s, confirmed |-> confirmed]

\* A server that could not be terminated is taken for stopped: a mutant of Settle.
Settle_AsStopped(r, failed) == [kind |-> "settle", run |-> r, failed |-> FALSE]

Settle(r, failed) == [kind |-> "settle", run |-> r, failed |-> failed]

TurnEnds == {"completed", "failed", "interrupted"}

\* The status is stored as the provider spells it: a mutant of EndStatus.
EndStatus_Verbatim == [end \in TurnEnds |-> end]

EndStatus ==
  [completed |-> "COMPLETED", failed |-> "FAILED", interrupted |-> "INTERRUPTED"]

Message ==
  [kind : TurnEnds \cup {"started", "deadline"}, run : Runs]
    \cup [kind : {"exit"}, server : Servers, confirmed : BOOLEAN]
    \cup [kind : {"settle"}, run : Runs, failed : BOOLEAN]

\* retry: the run whose interruption deadline started the sweep.
NoSweep == [server |-> 0]
SweepRecord ==
  [server : Servers, confirmed : BOOLEAN, runs : SUBSET Runs,
   snap : [Runs -> RunRecord], retry : SUBSET Runs]

Sweeping == sweep # NoSweep

SweepOf(s, confirmed, retry) ==
  LET affected == {r \in Runs : Affected(run[r], s, confirmed)}
  IN  [server |-> s, confirmed |-> confirmed, runs |-> affected,
       snap |-> [r \in Runs |-> IF r \in affected THEN run[r] ELSE NoRun],
       retry |-> retry]

\* An event to process, or the place of a call that awaits the queue.
QueueItem == [kind : {"event", "barrier"}, run : Runs]

Idle == [stage |-> "idle"]
VerifyingNow == verifying # Idle

\* What the provider really did: where the turn was sent, and the repository
\* as it was then and as it was when the turn ended.
NoTurn ==
  [state |-> "none", sent |-> 0, server |-> 0, from |-> 0, to |-> 0,
   asked |-> FALSE]

TurnRecord ==
  [state : {"none", "active", "completed", "failed", "interrupted", "stopped"},
   sent : Nat, server : Servers, from : Fingerprint, to : Fingerprint,
   asked : BOOLEAN]

Labels ==
  {"idle", "prepared", "leased", "inspected", "starting", "sent", "responded",
   "acked", "notDelivered", "ambiguous", "startFailed", "startSettled",
   "waiting", "stopping", "interrupting", "interruptAcked", "confirming",
   "finishing", "draining", "settling", "releasing", "done"}

Phases ==
  {"ready", "closing", "stopping", "settling", "stopped", "down",
   "recovering", "draining", "reconciling"}

TypeOK ==
  /\ run \in [Runs -> RunRecord]
  /\ entry \in [Runs -> {"NONE", "QUEUED", "LEASED", "SETTLED"}]
  /\ latched \in BOOLEAN
  /\ server \in Servers
  /\ process \in {"none", "up", "down", "fenced"}
  /\ inbox \in Seq(Message)
  /\ sweep \in {NoSweep} \cup SweepRecord
  /\ deadline \in SUBSET Runs
  /\ events \in Seq(QueueItem)
  /\ verifying \in {Idle} \cup
       [stage : {"inspect", "fail"}, run : Runs, snap : RunRecord]
  /\ pc \in [Runs -> Labels]
  /\ outcome \in [Runs -> {"none", "output", "error"}]
  /\ turn \in [Runs -> TurnRecord]
  /\ repo \in Fingerprint
  /\ phase \in Phases
  /\ todo \in SUBSET Runs
  /\ restarts \in 0..MaxRestarts

Init ==
  /\ run = [r \in Runs |-> NoRun]
  /\ entry = [r \in Runs |-> "NONE"]
  /\ latched = FALSE
  /\ server = 0
  /\ process = "none"
  /\ inbox = <<>>
  /\ sweep = NoSweep
  /\ deadline = {}
  /\ events = <<>>
  /\ verifying = Idle
  /\ pc = [r \in Runs |-> "idle"]
  /\ outcome = [r \in Runs |-> "none"]
  /\ turn = [r \in Runs |-> NoTurn]
  /\ repo = 0
  /\ phase = "ready"
  /\ todo = {}
  /\ restarts = 0

\* The listeners of the adapter's events are gone once shutdown detached them.
Emit(r) ==
  events' = IF phase \in {"stopping", "settling", "stopped"} THEN events
            ELSE Append(events, [kind |-> "event", run |-> r])

-----------------------------------------------------------------------------
(* The caller: prepare, lease, start.                                      *)

\* prepareTurn: session, run and queue entry in one transaction, which
\* insertQueueEntry refuses while the latch is set.
PrepareTurn(r) ==
  /\ phase = "ready" /\ pc[r] = "idle"
  /\ ~latched
  /\ Write(r, [NoRun EXCEPT !.status = "QUEUED"])
  /\ entry' = [entry EXCEPT ![r] = "QUEUED"]
  /\ Goto(r, "prepared")
  /\ UNCHANGED <<latched, codex, queue, outcome, turn, repo, app>>

\* startPreparedTurnNow: leaseQueueEntry.
LeaseTurn(r) ==
  /\ pc[r] = "prepared"
  /\ entry' = [entry EXCEPT ![r] = "LEASED"]
  /\ Goto(r, "leased")
  /\ UNCHANGED <<run, latched, codex, queue, outcome, turn, repo, app>>

\* startPreparedTurn, the fingerprint of the repository before the turn.
InspectBefore(r) ==
  /\ pc[r] = "leased"
  /\ Write(r, [run[r] EXCEPT !.integrity = "PENDING", !.before = repo])
  /\ Goto(r, "inspected")
  /\ UNCHANGED <<entry, latched, codex, queue, outcome, turn, repo, app>>

InspectBeforeFails(r) ==
  /\ pc[r] = "leased"
  /\ Write(r, [run[r] EXCEPT !.status = "FAILED", !.delivery = "NOT_DELIVERED",
                             !.source = "REPOSITORY_INTEGRITY",
                             !.integrity = "UNVERIFIABLE"])
  /\ Goto(r, "startFailed")
  /\ UNCHANGED <<entry, latched, codex, queue, outcome, turn, repo, app>>

\* The durable intent to send, written before anything is sent.
MarkStarting(r) ==
  /\ pc[r] = "inspected"
  /\ Write(r, [run[r] EXCEPT !.status = "STARTING", !.delivery = "SENDING"])
  /\ Goto(r, "starting")
  /\ UNCHANGED <<entry, latched, codex, queue, outcome, turn, repo, app>>

\* startCodexProviderTurn: turn/start reaches the App Server, which starts
\* the turn and says so.  (The adapter does not count on it: it handles the end
\* of a turn whose start was never reported.)
Submit(r) ==
  /\ pc[r] = "starting"
  /\ process = "up"
  /\ turn' = [turn EXCEPT ![r].state = "active", ![r].sent = @ + 1,
                          ![r].server = server, ![r].from = repo]
  /\ \/ inbox' = Append(inbox, Notification("started", r))
     \/ UNCHANGED inbox
  /\ Goto(r, "sent")
  /\ UNCHANGED <<store, server, process, sweep, deadline, queue, outcome, repo,
                 app>>

\* The request fails before it is written, or in a way that leaves that open.
SubmitFails(r) ==
  /\ pc[r] = "starting"
  /\ \E delivery \in {"notDelivered", "ambiguous"} : Goto(r, delivery)
  /\ UNCHANGED <<store, codex, queue, outcome, turn, repo, app>>

Response(r) ==
  /\ pc[r] = "sent"
  /\ process = "up" /\ turn[r].server = server
  /\ Goto(r, "responded")
  /\ UNCHANGED <<store, codex, queue, outcome, turn, repo, app>>

\* The request timed out or the connection closed: CodexAmbiguousMutationError.
ResponseLost(r) ==
  /\ pc[r] = "sent"
  /\ Goto(r, "ambiguous")
  /\ UNCHANGED <<store, codex, queue, outcome, turn, repo, app>>

\* startRuntimeTurn: drainInbound before the acknowledgement is returned.
DrainInbound(r) ==
  /\ pc[r] = "responded"
  /\ inbox = <<>> /\ ~Sweeping
  /\ Goto(r, "acked")
  /\ UNCHANGED <<store, codex, queue, outcome, turn, repo, app>>

\* startPreparedTurn after the adapter's answer, unless a notification was
\* faster.  The server of the answer is recorded whether it still runs or not.
PersistAck(r) ==
  LET latest == run[r]
      known == Terminal(latest)
        \/ (latest.status = "RUNNING" /\ latest.delivery = "ACKNOWLEDGED")
      acked == [latest EXCEPT !.status = "RUNNING", !.delivery = "ACKNOWLEDGED",
                              !.turnId = TRUE, !.server = turn[r].server]
  IN /\ pc[r] = "acked"
     /\ Goto(r, "waiting")
     /\ IF known THEN UNCHANGED run
        ELSE Allowed(latest, acked) /\ Write(r, acked)
     /\ UNCHANGED <<entry, latched, codex, queue, outcome, turn, repo, app>>

\* The caller is told that the turn could not be ended, and leaves it.
GiveUp(r) == outcome' = [outcome EXCEPT ![r] = "error"] /\ Goto(r, "done")

\* The store refuses that update, or another one came before it, and the turn
\* needs recovery: the caller gives it up.
PersistAckConflict(r) ==
  /\ pc[r] = "acked"
  /\ Recovering(run[r])
  /\ GiveUp(r)
  /\ UNCHANGED <<store, codex, queue, turn, repo, app>>

\* An uncertain start is sent again: a mutant of StartFails.
StartFails_Resends(r) ==
  /\ pc[r] \in {"notDelivered", "ambiguous"}
  /\ run[r].status = "STARTING"
  /\ Goto(r, "starting")
  /\ UNCHANGED <<store, codex, queue, outcome, turn, repo, app>>

Uncertain(rec) ==
  [rec EXCEPT !.status = "RECOVERY_REQUIRED", !.delivery = "AMBIGUOUS",
              !.recovery = "REQUIRES_USER_ACTION"]

\* The catch of startPreparedTurn.  A turn that a notification already moved
\* on is waited for like any other; one that needs recovery is given up.
StartFails(r) ==
  LET latest == run[r]
      failed == [latest EXCEPT !.status = "FAILED", !.delivery = "NOT_DELIVERED"]
  IN /\ pc[r] \in {"notDelivered", "ambiguous"}
     /\ IF latest.status = "RUNNING" \/ Terminal(latest)
        THEN Goto(r, "waiting") /\ UNCHANGED <<run, outcome>>
        ELSE IF Recovering(latest)
        THEN GiveUp(r) /\ UNCHANGED run
        ELSE IF pc[r] = "ambiguous"
        THEN GiveUp(r) /\ Write(r, Uncertain(latest))
        ELSE /\ Goto(r, "startFailed") /\ Write(r, failed)
             /\ UNCHANGED outcome
     /\ UNCHANGED <<entry, latched, codex, queue, turn, repo, app>>

\* A notification moved the turn on between the read and the write of that
\* catch.  The refused update is an error of its own: the caller finishes what
\* has ended, and leaves a turn that runs.
StartFailsConflict(r) ==
  /\ pc[r] = "ambiguous"
  /\ run[r].status # "STARTING"
  /\ outcome' = [outcome EXCEPT ![r] = "error"]
  /\ Goto(r, IF Terminal(run[r]) THEN "finishing" ELSE "done")
  /\ UNCHANGED <<store, codex, queue, turn, repo, app>>

\* A start that provably sent nothing settles its queue entry ...
SettleFailedStart(r) ==
  /\ pc[r] = "startFailed"
  /\ entry' = [entry EXCEPT ![r] = IF @ = "LEASED" THEN "SETTLED" ELSE @]
  /\ outcome' = [outcome EXCEPT ![r] = "error"]
  /\ Goto(r, "startSettled")
  /\ UNCHANGED <<run, latched, codex, queue, turn, repo, app>>

\* verifyReadOnlyRuntimeBoundary finds the repository as it was, changed, or
\* cannot look.
Boundary(rec) ==
  {IF rec.before = repo THEN "UNCHANGED" ELSE "CHANGED", "UNVERIFIABLE"}

\* ... verifies the repository like any other turn, and is finished.  The run
\* is FAILED already, so a violation changes only its source.
VerifyFailedStart(r) ==
  /\ pc[r] = "startSettled"
  /\ Goto(r, "finishing")
  /\ IF run[r].integrity # "PENDING" THEN UNCHANGED run
     ELSE \E found \in Boundary(run[r]) :
            Write(r, [run[r] EXCEPT !.integrity = found,
                        !.source = IF found = "UNCHANGED" THEN @
                                   ELSE "REPOSITORY_INTEGRITY"])
  /\ UNCHANGED <<entry, latched, codex, queue, outcome, turn, repo, app>>

-----------------------------------------------------------------------------
(* The caller: wait, stop, finish.                                         *)

\* Any terminal state is taken for an answer: a mutant of Readable.
Readable_Unverified(rec) == Terminal(rec)

\* readTerminal of waitForRuntimeTurn.
Readable(rec) ==
  /\ Terminal(rec)
  /\ \/ rec.integrity = "UNCHANGED"
     \/ rec.status = "FAILED" /\ rec.integrity \notin {"NONE", "PENDING"}

WaitEnds(r) ==
  /\ pc[r] = "waiting"
  /\ Readable(run[r])
  /\ outcome' = [outcome EXCEPT ![r] =
       IF run[r].status = "COMPLETED" THEN "output" ELSE "error"]
  /\ Goto(r, "finishing")
  /\ UNCHANGED <<store, codex, queue, turn, repo, app>>

\* The wait has no timeout: a mutant of WaitFails.
WaitFails_NoTimeout(r) ==
  /\ pc[r] = "waiting"
  /\ Terminal(run[r]) \/ Recovering(run[r])
  /\ outcome' = [outcome EXCEPT ![r] = "error"]
  /\ Goto(r, IF Terminal(run[r]) THEN "finishing" ELSE "stopping")
  /\ UNCHANGED <<store, codex, queue, turn, repo, app>>

\* A recovery event, the timeout, or a cancellation: what still runs is
\* stopped first.
WaitFails(r) ==
  /\ pc[r] = "waiting"
  /\ outcome' = [outcome EXCEPT ![r] = "error"]
  /\ Goto(r, IF run[r].status = "NONE" \/ Terminal(run[r]) THEN "finishing"
             ELSE "stopping")
  /\ UNCHANGED <<store, codex, queue, turn, repo, app>>

\* interruptTurn begins with a run that needs recovery but was acknowledged:
\* it is active again, to be interrupted.
InterruptReopen(r) ==
  /\ pc[r] = "stopping"
  /\ Recovering(run[r])
  /\ run[r].interrupt \notin {"AMBIGUOUS", "SENDING"}
  /\ run[r].delivery = "ACKNOWLEDGED" /\ run[r].turnId
  /\ Write(r, [run[r] EXCEPT !.status = "RUNNING", !.interrupt = "NONE",
                             !.recovery = "NONE"])
  /\ UNCHANGED <<entry, latched, codex, queue, caller, turn, repo, app>>

\* The durable intent to stop.
InterruptIntent(r) ==
  /\ pc[r] = "stopping"
  /\ run[r].status = "RUNNING" /\ run[r].turnId
  /\ Write(r, [run[r] EXCEPT !.status = "INTERRUPTING",
                             !.interrupt = "SENDING"])
  /\ Goto(r, "interrupting")
  /\ UNCHANGED <<entry, latched, codex, queue, outcome, turn, repo, app>>

\* Every other return or error of interruptTurn: nothing to stop, nothing that
\* can be stopped, or a record that changed before the intent was written.
\* (Its branches for a turn that is still QUEUED or was never delivered are not
\* reached: this caller stops what it has sent.)
InterruptRefused(r) ==
  /\ pc[r] = "stopping"
  /\ ~(run[r].status = "RUNNING" /\ run[r].turnId)
  /\ Goto(r, "finishing")
  /\ UNCHANGED <<store, codex, queue, outcome, turn, repo, app>>

\* The deadline is not armed: a mutant of InterruptDelivered.
InterruptDelivered_NoDeadline(r) ==
  /\ pc[r] = "interrupting"
  /\ process = "up" /\ run[r].server = server
  /\ turn' = [turn EXCEPT ![r].asked = TRUE]
  /\ Goto(r, "interruptAcked")
  /\ UNCHANGED <<store, codex, queue, outcome, repo, app>>

\* turn/interrupt is answered: the deadline for the turn to end is armed.
InterruptDelivered(r) ==
  /\ pc[r] = "interrupting"
  /\ process = "up" /\ run[r].server = server
  /\ turn' = [turn EXCEPT ![r].asked = TRUE]
  /\ deadline' = deadline \cup {r}
  /\ Goto(r, "interruptAcked")
  /\ UNCHANGED <<store, server, process, inbox, sweep, queue, outcome, repo,
                 app>>

\* The catch of interruptTurn; an ambiguous request may have arrived.
InterruptFails(r) ==
  LET latest == run[r]
      uncertain == [latest EXCEPT !.status = "INTERRUPTING",
                                  !.interrupt = "AMBIGUOUS", !.recovery = "NONE"]
      refused == [latest EXCEPT !.status = "RECOVERY_REQUIRED",
                                !.interrupt = "NOT_DELIVERED",
                                !.recovery = "REQUIRES_USER_ACTION"]
  IN /\ pc[r] = "interrupting"
     /\ \/ /\ \E asked \in BOOLEAN :
                turn' = [turn EXCEPT ![r].asked = asked \/ @]
           /\ IF Terminal(latest) \/ Recovering(latest) THEN UNCHANGED run
              ELSE Write(r, uncertain)
        \/ /\ UNCHANGED turn
           /\ IF Terminal(latest) \/ Recovering(latest) THEN UNCHANGED run
              ELSE Write(r, refused)
     /\ Goto(r, "finishing")
     /\ UNCHANGED <<entry, latched, codex, queue, outcome, repo, app>>

\* The stop is recorded as acknowledged unless the run has moved on.
InterruptAcked(r) ==
  /\ pc[r] = "interruptAcked"
  /\ IF run[r].status = "INTERRUPTING" /\ run[r].interrupt = "SENDING"
     THEN Write(r, [run[r] EXCEPT !.interrupt = "ACKNOWLEDGED"])
     ELSE UNCHANGED run
  /\ Goto(r, IF Terminal(run[r]) \/ Recovering(run[r]) THEN "finishing"
             ELSE "confirming")
  /\ UNCHANGED <<entry, latched, codex, queue, outcome, turn, repo, app>>

\* A turn that completed after all is handed out: a mutant of ConfirmEnds.
ConfirmEnds_HandsOut(r) ==
  /\ pc[r] = "confirming"
  /\ outcome' = [outcome EXCEPT ![r] =
       IF run[r].status = "COMPLETED" THEN "output" ELSE @]
  /\ Goto(r, "finishing")
  /\ UNCHANGED <<store, codex, queue, turn, repo, app>>

\* The 15 s wait for the end of the turn: it ended, it needs recovery, or the
\* wait timed out.
ConfirmEnds(r) ==
  /\ pc[r] = "confirming"
  /\ Goto(r, "finishing")
  /\ UNCHANGED <<store, codex, queue, outcome, turn, repo, app>>

\* finishRuntimeTurn waits for the events that are queued when it is called ...
AwaitEvents(r) ==
  /\ pc[r] = "finishing"
  /\ events' = Append(events, [kind |-> "barrier", run |-> r])
  /\ Goto(r, "draining")
  /\ UNCHANGED <<store, codex, verifying, outcome, turn, repo, app>>

\* ... settles the queue entry of a turn that has ended, and no other ...
FinishTurn(r) ==
  /\ pc[r] = "settling"
  /\ IF Terminal(run[r])
     THEN /\ entry' = [entry EXCEPT ![r] = IF @ = "LEASED" THEN "SETTLED" ELSE @]
          /\ Goto(r, "releasing")
     ELSE Goto(r, "done") /\ UNCHANGED entry
  /\ UNCHANGED <<run, latched, codex, queue, outcome, turn, repo, app>>

\* ... and, once the provider session is released, purges the records, unless
\* a run needs settlement again.
Purge(r) ==
  /\ pc[r] = "releasing"
  /\ IF Terminal(run[r]) /\ entry[r] = "SETTLED"
     THEN Write(r, NoRun) /\ entry' = [entry EXCEPT ![r] = "NONE"]
     ELSE UNCHANGED <<run, entry>>
  /\ Goto(r, "done")
  /\ UNCHANGED <<latched, codex, queue, outcome, turn, repo, app>>

ReleaseFails(r) ==
  /\ pc[r] = "releasing"
  /\ Goto(r, "done")
  /\ UNCHANGED <<store, codex, queue, outcome, turn, repo, app>>

-----------------------------------------------------------------------------
(* The provider, the App Server process and the repository.                *)

Active == {r \in Runs : turn[r].state = "active"}

\* What happens to the turns of server s when its process tree is gone.
StopTurnsOf(s) ==
  turn' = [r \in Runs |->
    IF r \in Active /\ turn[r].server = s
    THEN [turn[r] EXCEPT !.state = "stopped", !.to = repo]
    ELSE turn[r]]

Fenced(r) == process # "up" \/ turn[r].server # server

\* The turn ends, and the end is reported if the connection still stands.  The
\* provider calls a turn interrupted only when it was asked to interrupt it.
ProviderEnds(r) ==
  /\ r \in Active
  /\ \E end \in TurnEnds :
       /\ end = "interrupted" => turn[r].asked
       /\ turn' = [turn EXCEPT ![r].state = end, ![r].to = repo]
       /\ inbox' = IF Fenced(r) THEN inbox
                   ELSE Append(inbox, Notification(end, r))
  /\ UNCHANGED <<store, server, process, sweep, deadline, queue, caller, repo,
                 app>>

\* ensureClient: a replacement starts once the exit of the previous process is
\* known and everything it sent has been handled (exitedGenerationDrain).
ServerStarts ==
  /\ phase \in {"ready", "closing"}
  /\ process \in {"none", "down"} /\ server < MaxServers
  /\ ~Sweeping /\ \A i \in DOMAIN inbox : inbox[i].kind # "exit"
  /\ server' = server + 1
  /\ process' = "up"
  /\ UNCHANGED <<store, inbox, sweep, deadline, queue, caller, turn, repo, app>>

\* The process exits by itself; its process tree may outlive it.
ServerExits ==
  /\ phase \in {"ready", "closing", "stopping"} /\ process = "up"
  /\ \E confirmed \in BOOLEAN :
       /\ process' = IF confirmed THEN "down" ELSE "fenced"
       /\ inbox' = Append(inbox, Exit(server, confirmed))
       /\ IF confirmed THEN StopTurnsOf(server) ELSE UNCHANGED turn
  /\ UNCHANGED <<store, server, sweep, deadline, queue, caller, repo, app>>

\* Somebody edits the repository.  No state of it comes back.
Edit ==
  /\ repo < MaxEdits
  /\ repo' = repo + 1
  /\ UNCHANGED <<store, codex, queue, caller, turn, app>>

-----------------------------------------------------------------------------
(* The adapter: one inbound operation at a time.                           *)

\* The queue is held by a sweep until the sweep is over.
Inbound(kinds) ==
  /\ phase \in {"ready", "closing", "stopping", "settling"}
  /\ ~Sweeping /\ inbox # <<>>
  /\ Head(inbox).kind \in kinds

\* handleRuntimeTurnStarted.
HandleStarted ==
  LET r == Head(inbox).run IN
  /\ Inbound({"started"})
  /\ IF run[r].status = "STARTING" /\ run[r].delivery = "SENDING"
     THEN Write(r, [run[r] EXCEPT !.status = "RUNNING",
                      !.delivery = "ACKNOWLEDGED", !.turnId = TRUE,
                      !.server = server])
     ELSE UNCHANGED run
  /\ inbox' = Tail(inbox)
  /\ UNCHANGED <<entry, latched, server, process, sweep, deadline, queue, caller,
                 turn, repo, app>>

\* handleRuntimeTurnCompleted of a run still SENDING records the
\* acknowledgement first, in an update of its own.
HandleCompletedAck ==
  LET r == Head(inbox).run IN
  /\ Inbound(TurnEnds)
  /\ run[r].delivery = "SENDING"
  /\ Write(r, [run[r] EXCEPT !.status = "RUNNING", !.delivery = "ACKNOWLEDGED",
                             !.turnId = TRUE, !.server = server])
  /\ UNCHANGED <<entry, latched, codex, queue, caller, turn, repo, app>>

\* The uncertain start is recorded between the read and the write of that
\* update, which is refused: the notification is dropped.
CompletedConflict ==
  LET r == Head(inbox).run IN
  /\ Inbound(TurnEnds)
  /\ pc[r] = "ambiguous" /\ run[r].delivery = "SENDING"
  /\ Write(r, Uncertain(run[r]))
  /\ GiveUp(r)
  /\ inbox' = Tail(inbox)
  /\ UNCHANGED <<entry, latched, server, process, sweep, deadline, queue, turn,
                 repo, app>>

\* handleRuntimeTurnCompleted: a turn that has ended already, or is purged,
\* ignores the notification.
HandleCompleted ==
  LET r == Head(inbox).run
      end == EndStatus[Head(inbox).kind]
  IN /\ Inbound(TurnEnds)
     /\ run[r].delivery # "SENDING"
     /\ IF run[r].status = "NONE" \/ Terminal(run[r])
        THEN UNCHANGED <<run, events>>
        ELSE /\ Write(r, [run[r] EXCEPT !.status = end, !.delivery = "TERMINAL",
                            !.turnId = TRUE,
                            !.interrupt = InterruptSettled(run[r]),
                            !.recovery = "NONE",
                            !.source = "TURN_COMPLETED_NOTIFICATION"])
             /\ Emit(r)
     /\ inbox' = Tail(inbox)
     /\ UNCHANGED <<entry, latched, server, process, sweep, deadline, verifying,
                    caller, turn, repo, app>>

\* handleCanonicalServerLoss reads every run once, when it begins.
HandleExit ==
  LET m == Head(inbox) IN
  /\ Inbound({"exit"})
  /\ sweep' = SweepOf(m.server, m.confirmed, {})
  /\ inbox' = Tail(inbox)
  /\ UNCHANGED <<store, server, process, deadline, queue, caller, turn, repo, app>>

\* The exit of the process is taken for the end of all it started: a mutant of
\* SweepUpdate.
SweepUpdate_AlwaysConfirmed(rec) ==
  IF rec.turnId THEN Stopped(rec) ELSE Lost(rec)

SweepUpdate(rec) ==
  IF sweep.confirmed /\ rec.turnId THEN Stopped(rec) ELSE Lost(rec)

SweepAccepted(r) ==
  /\ run[r] = sweep.snap[r]
  /\ Allowed(run[r], SweepUpdate(run[r]))

\* The update of one run of the sweep.
SweepRun(r) ==
  /\ Sweeping /\ r \in sweep.runs
  /\ SweepAccepted(r)
  /\ Write(r, SweepUpdate(run[r]))
  /\ sweep' = [sweep EXCEPT !.runs = @ \ {r}]
  /\ Emit(r)
  /\ UNCHANGED <<entry, latched, server, process, inbox, deadline, verifying,
                 caller, turn, repo, app>>

\* An update that the store refuses ends the sweep: the remaining runs keep
\* their state.  Only the settlement of a deadline tries again, when its own
\* run is what changed.
SweepAborts(r) ==
  /\ Sweeping /\ r \in sweep.runs
  /\ ~SweepAccepted(r)
  /\ sweep' = IF \E s \in sweep.retry :
                   run[s].status = "INTERRUPTING" /\ run[s] # sweep.snap[s]
              THEN SweepOf(sweep.server, sweep.confirmed, sweep.retry)
              ELSE NoSweep
  /\ UNCHANGED <<store, server, process, inbox, deadline, queue, caller, turn,
                 repo, app>>

SweepEnds ==
  /\ Sweeping /\ sweep.runs = {}
  /\ sweep' = NoSweep
  /\ UNCHANGED <<store, server, process, inbox, deadline, queue, caller, turn,
                 repo, app>>

\* armRuntimeInterruptDeadline: the timer fires ...
DeadlineFires(r) ==
  /\ r \in deadline
  /\ deadline' = deadline \ {r}
  /\ inbox' = Append(inbox, Notification("deadline", r))
  /\ UNCHANGED <<store, server, process, sweep, queue, caller, turn, repo, app>>

\* ... and finds the run no longer INTERRUPTING ...
HandleDeadlineLate ==
  /\ Inbound({"deadline"})
  /\ run[Head(inbox).run].status # "INTERRUPTING"
  /\ inbox' = Tail(inbox)
  /\ UNCHANGED <<store, server, process, sweep, deadline, queue, caller, turn,
                 repo, app>>

\* ... or terminates the App Server (terminateUnresponsive).  An exit is
\* announced before the settlement is queued behind it.
HandleDeadline ==
  LET r == Head(inbox).run
      Announce(confirmed) ==
        IF process = "up" THEN <<Exit(server, confirmed)>> ELSE <<>>
  IN /\ Inbound({"deadline"})
     /\ run[r].status = "INTERRUPTING"
     /\ \/ /\ process' = IF process = "none" THEN "none" ELSE "down"
           /\ inbox' = Tail(inbox) \o Announce(TRUE) \o <<Settle(r, FALSE)>>
           /\ StopTurnsOf(server)
        \/ /\ process \in {"up", "fenced"}
           /\ process' = "fenced"
           /\ \E announced \in {<<>>, Announce(FALSE)} :
                inbox' = Tail(inbox) \o announced \o <<Settle(r, TRUE)>>
           /\ UNCHANGED turn
     /\ UNCHANGED <<store, server, sweep, deadline, queue, caller, repo, app>>

\* settleRuntimeInterruptDeadline, when the process was terminated: the loss
\* sweep of its server, confirmed.
HandleSettleStopped ==
  LET r == Head(inbox).run IN
  /\ Inbound({"settle"}) /\ ~Head(inbox).failed
  /\ sweep' = IF run[r].status = "INTERRUPTING"
              THEN SweepOf(run[r].server, TRUE, {r}) ELSE NoSweep
  /\ inbox' = Tail(inbox)
  /\ UNCHANGED <<store, server, process, deadline, queue, caller, turn, repo, app>>

\* The same when it could not be: the stop stays uncertain.
HandleSettleUncertain ==
  LET r == Head(inbox).run IN
  /\ Inbound({"settle"}) /\ Head(inbox).failed
  /\ IF run[r].status = "INTERRUPTING"
     THEN /\ Write(r, [run[r] EXCEPT !.status = "RECOVERY_REQUIRED",
                         !.interrupt = "AMBIGUOUS",
                         !.recovery = "REQUIRES_USER_ACTION"])
          /\ Emit(r)
     ELSE UNCHANGED <<run, events>>
  /\ inbox' = Tail(inbox)
  /\ UNCHANGED <<entry, latched, server, process, sweep, deadline, verifying,
                 caller, turn, repo, app>>

-----------------------------------------------------------------------------
(* The event queue: the repository is verified before anyone hears of the  *)
(* end of a turn.                                                          *)

ReachBarrier ==
  /\ ~VerifyingNow /\ events # <<>> /\ Head(events).kind = "barrier"
  /\ events' = Tail(events)
  /\ Goto(Head(events).run, "settling")
  /\ UNCHANGED <<store, codex, verifying, outcome, turn, repo, app>>

\* processRuntimeTurnEvent: only a boundary still PENDING is inspected.
TakeEvent ==
  LET r == Head(events).run IN
  /\ ~VerifyingNow /\ events # <<>> /\ Head(events).kind = "event"
  /\ verifying' = IF run[r].integrity = "PENDING"
                  THEN [stage |-> "inspect", run |-> r, snap |-> run[r]]
                  ELSE Idle
  /\ events' = Tail(events)
  /\ UNCHANGED <<store, codex, caller, turn, repo, app>>

\* recoverRuntimeTurnEventProcessing; the store refuses what would be
\* recovered without a settled delivery.
RecoverProcessing(r) ==
  LET rec == [run[r] EXCEPT !.status = "RECOVERY_REQUIRED",
                            !.recovery = "RECONCILING"]
  IN IF run[r].status \notin {"NONE", "RECOVERY_REQUIRED"}
        /\ Allowed(run[r], rec) /\ Consistent(rec)
     THEN Write(r, rec) ELSE UNCHANGED run

VerifyBoundary ==
  LET r == verifying.run IN
  /\ VerifyingNow /\ verifying.stage = "inspect"
  /\ IF run[r] # verifying.snap
     THEN RecoverProcessing(r) /\ verifying' = Idle
     ELSE \E found \in Boundary(run[r]) :
            /\ Write(r, [run[r] EXCEPT !.integrity = found])
            /\ verifying' = IF found = "UNCHANGED" THEN Idle
                            ELSE [stage |-> "fail", run |-> r, snap |-> NoRun]
  /\ UNCHANGED <<entry, latched, codex, events, caller, turn, repo, app>>

\* failRuntimeRunAfterIntegrityViolation: a turn that ended otherwise is
\* reopened first, because only a run in recovery may fail.
ReopenViolated ==
  LET r == verifying.run IN
  /\ VerifyingNow /\ verifying.stage = "fail"
  /\ Terminal(run[r]) /\ run[r].status # "FAILED"
  /\ Write(r, [run[r] EXCEPT !.status = "RECOVERY_REQUIRED",
                             !.recovery = "REQUIRES_USER_ACTION",
                             !.source = "REPOSITORY_INTEGRITY"])
  /\ UNCHANGED <<entry, latched, codex, queue, caller, turn, repo, app>>

\* A turn that ended otherwise is failed where it stands: a mutant of
\* FailViolated.
FailViolated_NoReopen ==
  LET r == verifying.run IN
  /\ VerifyingNow /\ verifying.stage = "fail"
  /\ run[r].status # "NONE"
  /\ Write(r, [run[r] EXCEPT !.status = "FAILED",
                  !.delivery = IF run[r].turnId THEN "TERMINAL" ELSE "NOT_DELIVERED",
                  !.recovery = "NONE", !.source = "REPOSITORY_INTEGRITY"])
  /\ verifying' = Idle
  /\ UNCHANGED <<entry, latched, codex, events, caller, turn, repo, app>>

FailViolated ==
  LET r == verifying.run
      rec == [run[r] EXCEPT !.status = "FAILED",
                !.delivery = IF run[r].status = "FAILED" THEN @
                             ELSE IF run[r].turnId THEN "TERMINAL"
                             ELSE "NOT_DELIVERED",
                !.recovery = "NONE", !.source = "REPOSITORY_INTEGRITY"]
  IN /\ VerifyingNow /\ verifying.stage = "fail"
     /\ Terminal(run[r]) => run[r].status = "FAILED"
     /\ IF run[r].status = "NONE" THEN UNCHANGED run ELSE Write(r, rec)
     /\ verifying' = Idle
     /\ UNCHANGED <<entry, latched, codex, events, caller, turn, repo, app>>

-----------------------------------------------------------------------------
(* The application: shutdown, crash, restart.                              *)

BeginShutdown ==
  /\ phase = "ready" /\ restarts < MaxRestarts
  /\ phase' = "closing"
  /\ restarts' = restarts + 1
  /\ UNCHANGED <<store, codex, queue, caller, turn, repo, todo>>

\* completeShutdown, when the calls have drained: the scheduler is latched and
\* the listeners of the adapter are detached.
LatchShutdown ==
  /\ phase = "closing"
  /\ \A r \in Runs : pc[r] \in {"idle", "done"}
  /\ latched' = TRUE
  /\ phase' = "stopping"
  /\ UNCHANGED <<run, entry, codex, queue, caller, turn, repo, todo, restarts>>

\* The event queue has drained: the adapter clears its timers and stops the
\* App Server.
StopProvider ==
  /\ phase = "stopping"
  /\ events = <<>> /\ ~VerifyingNow
  /\ deadline' = {}
  /\ phase' = "settling"
  /\ IF process = "none" THEN UNCHANGED <<process, turn>>
     ELSE \/ process' = "down" /\ StopTurnsOf(server)
          \/ process \in {"up", "fenced"} /\ process' = "fenced" /\ UNCHANGED turn
  /\ UNCHANGED <<store, server, inbox, sweep, queue, caller, repo, todo, restarts>>

\* Behind everything the server sent: the loss sweep of the server that was
\* stopped.
SettleShutdown ==
  /\ phase = "settling"
  /\ inbox = <<>> /\ ~Sweeping
  /\ phase' = "stopped"
  /\ \/ process # "none" /\ sweep' = SweepOf(server, process = "down", {})
     \/ process \in {"none", "fenced"} /\ UNCHANGED sweep
  /\ UNCHANGED <<store, server, process, inbox, deadline, queue, caller, turn,
                 repo, todo, restarts>>

\* What only memory held is gone.
Forget ==
  /\ process' = "none" /\ inbox' = <<>> /\ sweep' = NoSweep /\ deadline' = {}
  /\ events' = <<>> /\ verifying' = Idle
  /\ phase' = "down" /\ todo' = {}

CloseStores ==
  /\ phase = "stopped" /\ ~Sweeping
  /\ Forget
  /\ UNCHANGED <<store, server, caller, turn, repo, restarts>>

\* The application dies between two writes.  The App Server may outlive it for
\* a while, with the turns it runs.
Crash ==
  /\ phase # "down" /\ restarts < MaxRestarts
  /\ restarts' = restarts + 1
  /\ Forget
  /\ pc' = [r \in Runs |-> IF pc[r] = "idle" THEN "idle" ELSE "done"]
  /\ StopTurnsOf(server) \/ UNCHANGED turn
  /\ UNCHANGED <<store, server, outcome, repo>>

\* recoverPersistedRuntimeLosses takes every server of an active run for lost.
Orphans == {r \in Runs : run[r].server # 0 /\ Affected(run[r], run[r].server, FALSE)}

Restart ==
  /\ phase = "down"
  /\ phase' = "recovering"
  /\ todo' = Orphans
  /\ UNCHANGED <<store, codex, queue, caller, turn, repo, restarts>>

RecoverLoss(r) ==
  /\ phase = "recovering" /\ r \in todo
  /\ Allowed(run[r], Lost(run[r]))
  /\ Write(r, Lost(run[r]))
  /\ Emit(r)
  /\ todo' = todo \ {r}
  /\ UNCHANGED <<entry, latched, codex, verifying, caller, turn, repo, phase,
                 restarts>>

\* All recovered, or the store refused an update and the adapter fails to
\* initialize.
RecoverEnds ==
  /\ phase = "recovering"
  /\ \/ todo = {}
     \/ \E r \in todo : ~Allowed(run[r], Lost(run[r]))
  /\ phase' = "draining" /\ todo' = {}
  /\ UNCHANGED <<store, codex, queue, caller, turn, repo, restarts>>

\* initialize awaits the event queue, then reads every run.
BeginReconcile ==
  /\ phase = "draining"
  /\ events = <<>> /\ ~VerifyingNow
  /\ phase' = "reconciling" /\ todo' = Runs
  /\ UNCHANGED <<store, codex, queue, caller, turn, repo, restarts>>

\* reconcileSettledReadOnlyTurns, one run after the other: verify what is
\* still PENDING, then finish what had ended.  A run in recovery is not
\* finished, even if its verification fails it.
ReconcileRun(r) ==
  /\ phase = "reconciling" /\ r \in todo
  /\ ~VerifyingNow /\ \A s \in Runs : pc[s] \in {"idle", "done"}
  /\ IF (Terminal(run[r]) \/ Recovering(run[r])) /\ run[r].integrity = "PENDING"
     THEN /\ verifying' = [stage |-> "inspect", run |-> r, snap |-> run[r]]
          /\ todo' = IF Terminal(run[r]) THEN todo ELSE todo \ {r}
          /\ UNCHANGED pc
     ELSE /\ todo' = todo \ {r}
          /\ IF Terminal(run[r]) THEN Goto(r, "finishing") ELSE UNCHANGED pc
          /\ UNCHANGED verifying
  /\ UNCHANGED <<store, codex, events, outcome, turn, repo, phase, restarts>>

\* The service is ready.  DiscourseRuntimeHost lifts the latch of the last
\* shutdown unless a queue entry is still leased.
OpenService ==
  /\ phase = "reconciling" /\ todo = {}
  /\ ~VerifyingNow /\ \A r \in Runs : pc[r] \in {"idle", "done"}
  /\ latched' = (latched /\ \E r \in Runs : entry[r] = "LEASED")
  /\ phase' = "ready"
  /\ UNCHANGED <<run, entry, codex, queue, caller, turn, repo, todo, restarts>>

-----------------------------------------------------------------------------
Start(r) ==
  \/ PrepareTurn(r) \/ LeaseTurn(r) \/ InspectBefore(r) \/ InspectBeforeFails(r)
  \/ MarkStarting(r) \/ Submit(r) \/ SubmitFails(r) \/ Response(r)
  \/ ResponseLost(r) \/ DrainInbound(r) \/ PersistAck(r)
  \/ PersistAckConflict(r) \/ StartFails(r) \/ StartFailsConflict(r)
  \/ SettleFailedStart(r) \/ VerifyFailedStart(r)

Stop(r) ==
  \/ WaitEnds(r) \/ WaitFails(r) \/ InterruptReopen(r) \/ InterruptIntent(r)
  \/ InterruptRefused(r) \/ InterruptDelivered(r) \/ InterruptFails(r)
  \/ InterruptAcked(r) \/ ConfirmEnds(r) \/ AwaitEvents(r) \/ FinishTurn(r)
  \/ Purge(r) \/ ReleaseFails(r)

Adapter ==
  \/ HandleStarted \/ HandleCompletedAck \/ CompletedConflict
  \/ HandleCompleted \/ HandleExit
  \/ HandleDeadlineLate \/ HandleDeadline \/ HandleSettleStopped
  \/ HandleSettleUncertain \/ SweepEnds
  \/ \E r \in Runs : SweepRun(r) \/ SweepAborts(r)

EventQueue ==
  ReachBarrier \/ TakeEvent \/ VerifyBoundary \/ ReopenViolated \/ FailViolated

Recovery ==
  \/ RecoverEnds \/ BeginReconcile \/ OpenService
  \/ \E r \in Runs : RecoverLoss(r) \/ ReconcileRun(r)

Shutdown == LatchShutdown \/ StopProvider \/ SettleShutdown \/ CloseStores

Environment ==
  \/ ServerStarts \/ ServerExits \/ Edit
  \/ BeginShutdown \/ Crash \/ Restart
  \/ \E r \in Runs : ProviderEnds(r) \/ DeadlineFires(r)

Next ==
  \/ \E r \in Runs : Start(r) \/ Stop(r)
  \/ Adapter \/ EventQueue \/ Recovery \/ Shutdown \/ Environment

Spec == Init /\ [][Next]_vars

\* Calls, queues, timers and startup go on by themselves.  Nobody is obliged
\* to begin a refinement, nor the provider to answer.
CallGoesOn(r) == (Start(r) /\ ~PrepareTurn(r)) \/ Stop(r)

FairSpec ==
  /\ Spec
  /\ \A r \in Runs : WF_vars(CallGoesOn(r)) /\ WF_vars(DeadlineFires(r))
  /\ WF_vars(Adapter) /\ WF_vars(EventQueue)
  /\ WF_vars(Recovery) /\ WF_vars(Shutdown)

-----------------------------------------------------------------------------
(* Properties.                                                             *)

\* A prompt reaches the provider at most once, whatever fails and restarts:
\* an uncertain start is left for recovery and never retried.
SentAtMostOnce == \A r \in Runs : turn[r].sent <= 1

\* Its inductive form: nothing was sent for a call that has yet to send.  No
\* step, and no crash, takes a call back to one of these points.
BeforeSend == {"idle", "prepared", "leased", "inspected", "starting"}

SendInv ==
  /\ SentAtMostOnce
  /\ \A r \in Runs : pc[r] \in BeforeSend => turn[r].sent = 0

\* A turn that was recorded as ended, or whose lease was given back, is not
\* running at the provider any more, whatever exits, deadlines and restarts
\* came in between; runs failed for the repository they were to leave alone
\* are the exception the code makes.
EndedMeansStopped ==
  \A r \in Runs :
    /\ Terminal(run[r]) \/ entry[r] = "SETTLED"
    /\ run[r].source # "REPOSITORY_INTEGRITY"
    => turn[r].state # "active"

\* The caller is given the output only of a turn that completed and during
\* which the repository did not change.
OutputIsVerified ==
  \A r \in Runs :
    outcome[r] = "output" =>
      turn[r].state = "completed" /\ turn[r].from = turn[r].to

\* What the caller and the provider see of a turn, and nothing else.  A prompt
\* that was sent twice is none of the abstract states.
PromptOf(t) ==
  CASE t.sent = 0 -> "unsent"
    [] t.sent > 1 -> "duplicated"
    [] t.state = "active" -> "running"
    [] t.state = "completed" /\ t.from = t.to -> "clean"
    [] OTHER -> "spoiled"

Promise == INSTANCE OneShotTurn
  WITH prompt <- [r \in Runs |-> PromptOf(turn[r])], answer <- outcome

\* Through every failure and restart the caller sees a one-shot turn: the
\* steps of caller, orchestrator, adapter, store and provider implement it.
KeepsPromise == Promise!Spec

\* Every update the code writes is one the store accepts, so that no path of
\* the life of a turn ends in a refused write, except where the code handles
\* the refusal.
UpdatesAccepted ==
  [][\A r \in Runs :
       run'[r] # run[r] /\ run'[r] # NoRun =>
         Allowed(run[r], run'[r]) /\ Consistent(run'[r])]_vars

\* Every call ends, and the caller learns it, whatever the provider does.
CallsEnd == \A r \in Runs : pc[r] \notin {"idle", "done"} ~> pc[r] = "done"

\* An acknowledged stop does not stay open: the turn ends, or the deadline
\* settles it, or the application goes down and its next start recovers it.
StopIsSettled ==
  \A r \in Runs :
    (run[r].status = "INTERRUPTING" /\ run[r].interrupt = "ACKNOWLEDGED")
      ~> (run[r].status # "INTERRUPTING" \/ phase = "down")

\* Once the loss of a server is handled nothing is left running on it.
LostServersHaveNoRunningTurn ==
  \A r \in Runs :
    run[r].status = "RUNNING" /\ run[r].server # 0
      /\ (run[r].server # server \/ process # "up")
      /\ phase = "ready" /\ inbox = <<>> /\ ~Sweeping
    => pc[r] \in {"sent", "responded", "acked"}

=============================================================================
