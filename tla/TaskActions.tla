----------------------------- MODULE TaskActions -----------------------------
(***************************************************************************)
(* The two locks every call of the service goes through, and shutdown:     *)
(* the task action lock (taskActionLocks, withTaskAction,                  *)
(* withQueuedTaskAction) and the runtime operation gate, as they are       *)
(* combined by the methods of src/core/app/TaskManagerService.ts.          *)
(*                                                                         *)
(* A call is named by the operation it would run in the gate, so Ops is    *)
(* the set of calls.  Kind[f] says which method f calls:                   *)
(*   "delivery"     task action, no gate          (createDeliveryCommit..) *)
(*   "observation"  task action, no gate          (refreshEvidence)        *)
(*   "message"      task action, then gate        (sendPreviewAgentMessage)*)
(*   "question"     queued task action, then gate (side questions)         *)
(*   "cancel"       gate, then task action        (cancelRun)              *)
(*   "dispatch"     gate, then queued task action (dispatchPreviewAgent-   *)
(*                  Queue)                                                 *)
(* What a call does once it holds what it asked for is a single interval,  *)
(* InBody, that ends at some time.                                         *)
(***************************************************************************)
EXTENDS RuntimeOperationGate

CONSTANTS Tasks, TaskOf, Kind, NoCall

Kinds ==
  {"delivery", "observation", "message", "question", "cancel", "dispatch"}

ASSUME CallsAssumption ==
  /\ TaskOf \in [Ops -> Tasks]
  /\ Kind \in [Ops -> Kinds]
  /\ NoCall \notin Ops

VARIABLES
  lock,     \* taskActionLocks: the call whose work is registered for a task
  pc,       \* where each call is
  seen,     \* the observation a call is waiting for in withTaskAction
  joined,   \* pendingTaskActions of shutdown
  stopped   \* the adapters were shut down and the stores closed

callVars == <<lock, pc, seen, joined, stopped>>
vars == <<gateVars, callVars>>

TypeOK ==
  /\ GateTypeOK
  /\ lock \in [Tasks -> Ops \cup {NoCall}]
  /\ pc \in [Ops -> {"idle", "called", "observing", "locked", "gate",
                     "released", "done"}]
  /\ seen \in [Ops -> Ops \cup {NoCall}]
  /\ joined \in SUBSET Ops
  /\ stopped \in BOOLEAN

Init ==
  /\ GateInit
  /\ lock = [t \in Tasks |-> NoCall]
  /\ pc = [f \in Ops |-> "idle"]
  /\ seen = [f \in Ops |-> NoCall]
  /\ joined = {}
  /\ stopped = FALSE

GateFirst(f) == Kind[f] \in {"cancel", "dispatch"}
LockThenGate(f) == Kind[f] \in {"message", "question"}
Queued(f) == Kind[f] \in {"question", "dispatch"}

Holder(f) == lock[TaskOf[f]]
LockFree(f) == Holder(f) = NoCall

\* Labels whose work other task actions wait for instead of refusing: 'Git
\* observation' and 'Preview agent completion'.
Waitable(f, h) ==
  h # NoCall /\ Kind[h] \in {"observation", "dispatch"} /\ Kind[h] # Kind[f]

\* The call is about to enter withTaskAction or withQueuedTaskAction.
AtLock(f) ==
  IF GateFirst(f) THEN pc[f] = "gate" /\ op[f] = "running" ELSE pc[f] = "called"

InBody(f) ==
  IF LockThenGate(f) THEN pc[f] = "gate" /\ op[f] = "running"
                     ELSE pc[f] = "locked"

Goto(f, label) == pc' = [pc EXCEPT ![f] = label]

\* The call fails here: its promise rejects, and with it its operation.
Fail(f) ==
  IF GateFirst(f)
    THEN Goto(f, "released") /\ UNCHANGED gateVars
    ELSE Goto(f, "done") /\ UNCHANGED gateVars

-----------------------------------------------------------------------------
(* Entering the task action.                                               *)

Invoke(f) ==
  /\ pc[f] = "idle"
  /\ Goto(f, "called")
  /\ UNCHANGED <<gateVars, lock, seen, joined, stopped>>

Acquire(f) ==
  /\ lock' = [lock EXCEPT ![TaskOf[f]] = f]
  /\ Goto(f, "locked")
  /\ UNCHANGED gateVars

\* The map is free: register the work.  withQueuedTaskAction gets here when
\* its loop finds no entry, in the same turn of the event loop.
TakeLock(f) ==
  /\ AtLock(f)
  /\ ~closing
  /\ LockFree(f)
  /\ Acquire(f)
  /\ UNCHANGED <<seen, joined, stopped>>

\* assertAcceptingWork, or "... is already running for this task".
RefuseLock(f) ==
  /\ AtLock(f)
  /\ IF Queued(f)
       THEN LockFree(f) /\ closing
       ELSE closing \/ (~LockFree(f) /\ ~Waitable(f, Holder(f)))
  /\ Fail(f)
  /\ UNCHANGED <<lock, seen, joined, stopped>>

ObserveHolder(f) ==
  /\ AtLock(f)
  /\ ~Queued(f)
  /\ ~closing
  /\ Waitable(f, Holder(f))
  /\ seen' = [seen EXCEPT ![f] = Holder(f)]
  /\ Goto(f, "observing")
  /\ UNCHANGED <<gateVars, lock, joined, stopped>>

\* The map is not read again: a mutant of AfterObservation.
AfterObservation_Stale(f) ==
  /\ pc[f] = "observing"
  /\ Holder(f) # seen[f]
  /\ IF closing THEN Fail(f) /\ UNCHANGED lock ELSE Acquire(f)
  /\ UNCHANGED <<seen, joined, stopped>>

\* Whether work is still accepted is not asked again: a mutant of
\* AfterObservation.
AfterObservation_WhileClosing(f) ==
  /\ pc[f] = "observing"
  /\ Holder(f) # seen[f]
  /\ IF ~LockFree(f) THEN Fail(f) /\ UNCHANGED lock ELSE Acquire(f)
  /\ UNCHANGED <<seen, joined, stopped>>

\* The observed work ended: the call asserts again that work is accepted, and
\* reads the map again, before it registers.
AfterObservation(f) ==
  /\ pc[f] = "observing"
  /\ Holder(f) # seen[f]
  /\ IF closing \/ ~LockFree(f)
       THEN Fail(f) /\ UNCHANGED lock
       ELSE Acquire(f)
  /\ UNCHANGED <<seen, joined, stopped>>

\* cancelRun finds another action registered and its run not sent yet: it
\* interrupts the run without the task action, which it would only be refused.
CancelBeside(f) ==
  /\ Kind[f] = "cancel"
  /\ AtLock(f)
  /\ ~LockFree(f)
  /\ Goto(f, "released")
  /\ UNCHANGED <<gateVars, lock, seen, joined, stopped>>

Release(f, label) ==
  /\ lock' = [lock EXCEPT ![TaskOf[f]] = NoCall]
  /\ Goto(f, label)
  /\ UNCHANGED <<seen, joined, stopped>>

-----------------------------------------------------------------------------
(* Entering the gate.                                                      *)

AtGate(f) ==
  \/ GateFirst(f) /\ pc[f] = "called"
  \/ LockThenGate(f) /\ pc[f] = "locked"

CallGate(f) ==
  /\ AtGate(f)
  /\ RunOperation(f)
  /\ Goto(f, "gate")
  /\ UNCHANGED <<lock, seen, joined, stopped>>

\* The refused call keeps its task action: a mutant of RefuseGate.
RefuseGate_KeepsTaskAction(f) ==
  /\ AtGate(f)
  /\ closing
  /\ Goto(f, "done")
  /\ UNCHANGED <<gateVars, lock, seen, joined, stopped>>

\* runOperation throws: a call that holds the task action lets it go.
RefuseGate(f) ==
  /\ AtGate(f)
  /\ closing
  /\ UNCHANGED gateVars
  /\ IF LockThenGate(f)
       THEN Release(f, "done")
       ELSE Goto(f, "done") /\ UNCHANGED <<lock, seen, joined, stopped>>

-----------------------------------------------------------------------------
(* The work, and leaving.                                                  *)

\* A body that holds the task action ends: delivery, observation, and the
\* inner task action of cancel and dispatch.
EndTaskAction(f) ==
  /\ ~LockThenGate(f)
  /\ pc[f] = "locked"
  /\ Release(f, IF GateFirst(f) THEN "released" ELSE "done")
  /\ UNCHANGED gateVars

\* A body that runs as an operation ends: message and question.
EndOperation(f) ==
  /\ LockThenGate(f)
  /\ pc[f] = "gate"
  /\ SettleOperation(f)
  /\ UNCHANGED callVars

\* The promise withTaskAction awaited has settled; the entry is deleted.
Unlock(f) ==
  /\ LockThenGate(f)
  /\ pc[f] = "gate"
  /\ op[f] = "settled"
  /\ Release(f, "done")
  /\ UNCHANGED gateVars

\* The outer operation of cancel and dispatch settles after its task action,
\* or was refused by the gate's second check.
Return(f) ==
  /\ GateFirst(f)
  /\ \/ pc[f] = "released" /\ SettleOperation(f)
     \/ pc[f] = "gate" /\ op[f] = "settled" /\ UNCHANGED gateVars
  /\ Goto(f, "done")
  /\ UNCHANGED <<lock, seen, joined, stopped>>

-----------------------------------------------------------------------------
(* Shutdown.                                                               *)

\* Only the gate is joined: a mutant of BeginShutdown.
BeginShutdown_IgnoreTaskActions ==
  /\ Close
  /\ joined' = {}
  /\ UNCHANGED <<lock, pc, seen, stopped>>

\* shutdown(): the gate closes and the work to join is read, in one turn.
BeginShutdown ==
  /\ Close
  /\ joined' = {f \in Ops : Holder(f) = f}
  /\ UNCHANGED <<lock, pc, seen, stopped>>

\* completeShutdown(): everything joined has settled, so the owners stop.
CompleteShutdown ==
  /\ Drained
  /\ \A f \in joined : Holder(f) # f
  /\ ~stopped
  /\ stopped' = TRUE
  /\ UNCHANGED <<gateVars, lock, pc, seen, joined>>

-----------------------------------------------------------------------------

CallStep(f) ==
  \/ TakeLock(f)
  \/ RefuseLock(f)
  \/ ObserveHolder(f)
  \/ AfterObservation(f)
  \/ CancelBeside(f)
  \/ CallGate(f)
  \/ RefuseGate(f)
  \/ EndTaskAction(f)
  \/ EndOperation(f)
  \/ Unlock(f)
  \/ Return(f)

GateStep ==
  /\ \/ \E o \in Ops : StartOperation(o) \/ ForgetOperation(o)
     \/ \E c \in Changes : StartChange(c) \/ SettleChange(c)
  /\ UNCHANGED callVars

LifecycleChange == RunLifecycleChange /\ UNCHANGED callVars

Next ==
  \/ \E f \in Ops : Invoke(f) \/ CallStep(f)
  \/ GateStep
  \/ LifecycleChange
  \/ BeginShutdown
  \/ CompleteShutdown

Spec == Init /\ [][Next]_vars

\* Every promise settles: a step of a call, of the gate or of a shutdown that
\* began is taken in the end.  Nothing obliges a person to call anything.
Fairness ==
  /\ \A f \in Ops :
       /\ WF_vars(CallStep(f))
       /\ WF_vars(StartOperation(f) /\ UNCHANGED callVars)
  /\ \A c \in Changes :
       WF_vars((StartChange(c) \/ SettleChange(c)) /\ UNCHANGED callVars)
  /\ WF_vars(CompleteShutdown)

FairSpec == Spec /\ Fairness

-----------------------------------------------------------------------------
(* Properties.                                                             *)

\* A call that does its work holds its task's action, so no two calls work
\* on one task at a time, whoever waited for whom.
OneActionPerTask == \A f \in Ops : InBody(f) => Holder(f) = f

\* From the turn in which shutdown stops admitting work, no task action is
\* registered that it does not join: a call that was admitted before, and waited
\* for a background observation meanwhile, is refused when it goes on.
NothingEscapesShutdown ==
  closing => \A f \in Ops : Holder(f) = f => f \in joined

\* Once shutdown stopped the adapters and closed the stores no call is at
\* work, no lifecycle change runs, and no task action is left registered.
QuietAfterShutdown ==
  stopped =>
    /\ \A f \in Ops : ~InBody(f) /\ op[f] # "running"
    /\ \A c \in Changes : change[c] # "running"
    /\ \A t \in Tasks : lock[t] = NoCall

\* Every call that was made returns, every lifecycle change runs, and a
\* shutdown that began completes.
EverythingEnds ==
  /\ \A f \in Ops : pc[f] = "called" ~> pc[f] = "done"
  /\ \A c \in Changes : change[c] = "queued" ~> change[c] = "settled"
  /\ closing ~> stopped

\* "no message waits behind a finished turn": the dispatch that follows a
\* Preview turn ends, by sending the next message or by holding the queue.
DispatchEnds ==
  \A f \in Ops : Kind[f] = "dispatch" => (pc[f] = "called" ~> pc[f] = "done")

-----------------------------------------------------------------------------
(* The inductive invariant behind the safety properties.                   *)

\* A call holds its own task's lock from registration to release.
HoldersWork ==
  /\ \A t \in Tasks : lock[t] # NoCall => TaskOf[lock[t]] = t
  /\ \A f \in Ops :
       pc[f] = "locked" \/ (LockThenGate(f) /\ pc[f] = "gate") => Holder(f) = f

\* What shutdown waited for has ended when it stops the owners.
StoppedAfterAll == stopped => Drained /\ \A f \in Ops : Holder(f) # f

ActionsInv == HoldersWork /\ NothingEscapesShutdown /\ StoppedAfterAll

=============================================================================
