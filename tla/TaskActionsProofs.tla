-------------------------- MODULE TaskActionsProofs --------------------------
(***************************************************************************)
(* Proofs about TaskActions, for any calls, tasks and lifecycle changes.   *)
(***************************************************************************)
EXTENDS TaskActions, RuntimeOperationGateProofs

-----------------------------------------------------------------------------
(* The calls use the gate as the gate's own specification allows.          *)

LEMMA CallStepIsGateStep ==
  ASSUME NEW f \in Ops, CallStep(f)
  PROVE  [GateNext]_gateVars
  BY DEF CallStep, GateNext, TakeLock, RefuseLock, ObserveHolder,
         AfterObservation, CancelBeside, CallGate, RefuseGate, EndTaskAction,
         EndOperation, Unlock, Return, Acquire, Fail

LEMMA NextIsGateStep == [Next]_vars => [GateNext]_gateVars
<1>1. ASSUME NEW f \in Ops, Invoke(f) PROVE [GateNext]_gateVars
  BY <1>1 DEF Invoke
<1>2. CASE GateStep
  BY <1>2 DEF GateStep, GateNext
<1>3. CASE LifecycleChange
  BY <1>3 DEF LifecycleChange, GateNext
<1>4. CASE BeginShutdown
  BY <1>4 DEF BeginShutdown, GateNext
<1>5. CASE CompleteShutdown
  BY <1>5 DEF CompleteShutdown
<1>6. CASE UNCHANGED vars
  BY <1>6 DEF vars
<1>7. QED
  BY <1>1, <1>2, <1>3, <1>4, <1>5, <1>6, CallStepIsGateStep DEF Next

\* The service implements the gate: whatever the calls do, what the gate's
\* specification promises holds of the service.
THEOREM ImplementsGate == Spec => GateSpec
<1>1. Init => GateInit
  BY DEF Init
<1>2. QED
  BY <1>1, NextIsGateStep, PTL DEF Spec, GateSpec

-----------------------------------------------------------------------------
(* Type correctness.                                                       *)

CallTypeOK ==
  /\ lock \in [Tasks -> Ops \cup {NoCall}]
  /\ pc \in [Ops -> {"idle", "called", "observing", "locked", "gate",
                     "released", "done"}]
  /\ seen \in [Ops -> Ops \cup {NoCall}]
  /\ joined \in SUBSET Ops
  /\ stopped \in BOOLEAN

LEMMA CallStepTypes ==
  ASSUME CallTypeOK, NEW f \in Ops, CallStep(f)
  PROVE  CallTypeOK'
<1> USE CallsAssumption DEF CallTypeOK
<1>1. TaskOf[f] \in Tasks
  OBVIOUS
<1>2. CASE TakeLock(f) \/ AfterObservation(f)
  BY <1>1, <1>2 DEF TakeLock, AfterObservation, Acquire, Fail, Goto
<1>3. CASE RefuseLock(f) \/ ObserveHolder(f) \/ CancelBeside(f)
  BY <1>1, <1>3 DEF RefuseLock, ObserveHolder, CancelBeside, Fail, Goto, Holder
<1>4. CASE CallGate(f) \/ RefuseGate(f)
  BY <1>1, <1>4 DEF CallGate, RefuseGate, Release, Goto
<1>5. CASE EndTaskAction(f) \/ Unlock(f)
  BY <1>1, <1>5 DEF EndTaskAction, Unlock, Release, Goto
<1>6. CASE EndOperation(f) \/ Return(f)
  BY <1>6 DEF EndOperation, Return, Goto, callVars
<1>7. QED
  BY <1>2, <1>3, <1>4, <1>5, <1>6 DEF CallStep

THEOREM ActionTypeCorrect == Spec => []TypeOK
<1>1. Init => CallTypeOK
  BY DEF Init, CallTypeOK
<1>2. CallTypeOK /\ [Next]_vars => CallTypeOK'
  <2> SUFFICES ASSUME CallTypeOK, [Next]_vars PROVE CallTypeOK'
    OBVIOUS
  <2>1. ASSUME NEW f \in Ops, Invoke(f) PROVE CallTypeOK'
    BY <2>1 DEF Invoke, Goto, CallTypeOK
  <2>2. CASE GateStep \/ LifecycleChange
    BY <2>2 DEF GateStep, LifecycleChange, callVars, CallTypeOK
  <2>3. CASE BeginShutdown \/ CompleteShutdown
    BY <2>3 DEF BeginShutdown, CompleteShutdown, CallTypeOK
  <2>4. CASE UNCHANGED vars
    BY <2>4 DEF vars, callVars, CallTypeOK
  <2>5. QED
    BY <2>1, <2>2, <2>3, <2>4, CallStepTypes DEF Next
<1>3. Spec => []CallTypeOK
  BY <1>1, <1>2, PTL DEF Spec
<1>4. CallTypeOK /\ GateTypeOK => TypeOK
  BY DEF CallTypeOK, TypeOK
<1>5. QED
  BY <1>3, <1>4, ImplementsGate, GateTypeCorrect, PTL

-----------------------------------------------------------------------------
(* One action per task, and none after shutdown.                           *)

\* A drained gate stays drained.
LEMMA DrainedStays ==
  ASSUME GateTypeOK, Drained, [GateNext]_gateVars
  PROVE  Drained'
<1> USE DEF Drained, ChangeSettled, GateTypeOK
<1>1. ASSUME NEW o \in Ops, RunOperation(o) \/ StartOperation(o)
                              \/ SettleOperation(o) \/ ForgetOperation(o)
      PROVE  Drained'
  BY <1>1 DEF RunOperation, StartOperation, SettleOperation, ForgetOperation
<1>2. CASE RunLifecycleChange \/ Close
  <2>1. ~closing
    BY <1>2 DEF RunLifecycleChange, Close
  <2>2. QED
    BY <2>1
<1>3. ASSUME NEW c \in Changes, StartChange(c) \/ SettleChange(c)
      PROVE  Drained'
  <2>1. drain.lifecycle # 0 => drain.lifecycle \in Changes \ {c}
    <3>1. change[c] # "settled"
      BY <1>3 DEF StartChange, SettleChange
    <3>2. drain.lifecycle \in 0..MaxChanges
      OBVIOUS
    <3>3. QED
      BY <3>1, <3>2, MaxChangesAssumption DEF Changes
  <2>2. \A d \in Changes \ {c} : change'[d] = change[d]
    BY <1>3 DEF StartChange, SettleChange
  <2>3. UNCHANGED <<closing, drain, op>>
    BY <1>3 DEF StartChange, SettleChange
  <2>4. QED
    BY <2>1, <2>2, <2>3
<1>4. CASE UNCHANGED gateVars
  BY <1>4 DEF gateVars
<1>5. QED
  BY <1>1, <1>2, <1>3, <1>4 DEF GateNext

LEMMA CallStepKeepsInv ==
  ASSUME TypeOK, ActionsInv, NEW f \in Ops, CallStep(f),
         stopped => Drained'
  PROVE  ActionsInv'
<1> USE CallsAssumption
    DEF TypeOK, ActionsInv, HoldersWork, NothingEscapesShutdown, StoppedAfterAll, Holder, Goto
<1>1. TaskOf[f] \in Tasks
  OBVIOUS
<1>0. ASSUME Acquire(f), LockFree(f), ~closing, UNCHANGED <<joined, stopped>>
      PROVE  ActionsInv'
  <2>1. ~closing' /\ ~stopped'
    BY <1>0 DEF Acquire, gateVars, Drained
  <2>2. lock' = [lock EXCEPT ![TaskOf[f]] = f] /\ lock[TaskOf[f]] = NoCall
    BY <1>0 DEF Acquire, LockFree
  <2>3. \A t \in Tasks : lock'[t] # NoCall => TaskOf[lock'[t]] = t
    BY <1>1, <2>2
  <2>4. ASSUME NEW g \in Ops,
               pc'[g] = "locked" \/ (LockThenGate(g) /\ pc'[g] = "gate")
        PROVE  lock'[TaskOf[g]] = g
    <3>1. pc' = [pc EXCEPT ![f] = "locked"]
      BY <1>0 DEF Acquire
    <3>2. CASE g = f
      BY <1>1, <2>2, <3>2
    <3>3. CASE g # f
      <4>1. lock[TaskOf[g]] = g
        BY <2>4, <3>1, <3>3
      <4>2. TaskOf[g] # TaskOf[f]
        BY <2>2, <4>1
      <4>3. QED
        BY <2>2, <4>1, <4>2
    <3>4. QED
      BY <3>2, <3>3
  <2>5. QED
    BY <2>1, <2>3, <2>4 DEF LockThenGate
<1>2. CASE TakeLock(f)
  BY <1>0, <1>2 DEF TakeLock
<1>3. CASE AfterObservation(f)
  <2>1. CASE closing \/ ~LockFree(f)
    BY <1>1, <1>3, <2>1 DEF AfterObservation, Fail, LockThenGate, Drained, gateVars
  <2>2. CASE ~closing /\ LockFree(f)
    BY <1>0, <1>3, <2>2 DEF AfterObservation
  <2>3. QED
    BY <2>1, <2>2
<1>4. CASE RefuseLock(f) \/ ObserveHolder(f) \/ CancelBeside(f)
  BY <1>1, <1>4 DEF RefuseLock, ObserveHolder, CancelBeside, Fail,
                    LockThenGate, Drained, gateVars, AtLock, GateFirst
<1>5. CASE CallGate(f)
  BY <1>5 DEF CallGate, RunOperation, AtGate, LockThenGate, GateFirst
<1>6. CASE RefuseGate(f)
  BY <1>1, <1>6 DEF RefuseGate, Release, AtGate, LockThenGate, GateFirst,
                    gateVars
<1>7. CASE EndTaskAction(f)
  BY <1>1, <1>7 DEF EndTaskAction, Release, LockThenGate, gateVars
<1>8. CASE Unlock(f)
  BY <1>1, <1>8 DEF Unlock, Release, LockThenGate, gateVars
<1>9. CASE EndOperation(f)
  BY <1>9 DEF EndOperation, SettleOperation, callVars
<1>10. CASE Return(f)
  BY <1>10 DEF Return, SettleOperation, gateVars, GateFirst, LockThenGate
<1>11. QED
  BY <1>2, <1>3, <1>4, <1>5, <1>6, <1>7, <1>8, <1>9, <1>10 DEF CallStep

LEMMA ActionsInvStep == TypeOK /\ ActionsInv /\ [Next]_vars => ActionsInv'
<1> SUFFICES ASSUME TypeOK, ActionsInv, [Next]_vars PROVE ActionsInv'
  OBVIOUS
<1>1. stopped => Drained'
  BY DrainedStays, NextIsGateStep
     DEF TypeOK, ActionsInv, NothingEscapesShutdown, StoppedAfterAll
<1> USE DEF TypeOK, ActionsInv, HoldersWork, NothingEscapesShutdown, StoppedAfterAll, Holder
<1>2. ASSUME NEW f \in Ops, Invoke(f) PROVE ActionsInv'
  BY <1>1, <1>2 DEF Invoke, Goto, gateVars
<1>3. CASE GateStep \/ LifecycleChange
  <2>1. closing' = closing
    BY <1>3 DEF GateStep, LifecycleChange, StartOperation, ForgetOperation,
                StartChange, SettleChange, RunLifecycleChange,
                EnqueueLifecycleChange
  <2>2. UNCHANGED callVars
    BY <1>3 DEF GateStep, LifecycleChange
  <2>3. QED
    BY <1>1, <2>1, <2>2 DEF callVars
<1>4. CASE BeginShutdown
  BY <1>1, <1>4 DEF BeginShutdown, Close
<1>5. CASE CompleteShutdown
  <2>1. Drained'
    BY <1>5, DrainedStays, NextIsGateStep DEF CompleteShutdown
  <2>2. QED
    BY <1>5, <2>1 DEF CompleteShutdown, gateVars, Drained
<1>6. CASE UNCHANGED vars
  BY <1>1, <1>6 DEF vars, callVars, gateVars
<1>7. QED
  BY <1>1, <1>2, <1>3, <1>4, <1>5, <1>6, CallStepKeepsInv DEF Next

LEMMA ActionsInvariant == Spec => []ActionsInv
<1>1. Init => ActionsInv
  BY CallsAssumption
     DEF Init, GateInit, ActionsInv, HoldersWork, NothingEscapesShutdown, StoppedAfterAll, Holder
<1>2. QED
  BY <1>1, ActionsInvStep, ActionTypeCorrect, PTL DEF Spec

\* Whoever waited for an observation while the service began to shut down
\* registers nothing: shutdown joins every task action there is.
THEOREM NothingEscapesTheorem == Spec => []NothingEscapesShutdown
<1>1. ActionsInv => NothingEscapesShutdown
  BY DEF ActionsInv
<1>2. QED
  BY <1>1, ActionsInvariant, PTL

\* No two calls work on one task at a time.
THEOREM OneActionTheorem == Spec => []OneActionPerTask
<1>1. ActionsInv => OneActionPerTask
  BY DEF ActionsInv, HoldersWork, OneActionPerTask, InBody
<1>2. QED
  BY <1>1, ActionsInvariant, PTL

\* After shutdown nothing is at work and no task action is registered.
THEOREM QuietTheorem == Spec => []QuietAfterShutdown
<1>1. TypeOK /\ ActionsInv /\ NothingAfterDrain => QuietAfterShutdown
  <2> SUFFICES ASSUME TypeOK, ActionsInv, NothingAfterDrain, stopped
               PROVE  /\ \A f \in Ops : ~InBody(f) /\ op[f] # "running"
                      /\ \A c \in Changes : change[c] # "running"
                      /\ \A t \in Tasks : lock[t] = NoCall
    BY DEF QuietAfterShutdown
  <2>1. Drained /\ \A f \in Ops : Holder(f) # f
    BY DEF ActionsInv, NothingEscapesShutdown, StoppedAfterAll
  <2>2. /\ \A f \in Ops : op[f] # "running"
        /\ \A c \in Changes : change[c] # "running"
    BY <2>1 DEF NothingAfterDrain
  <2>3. \A f \in Ops : ~InBody(f)
    BY <2>1, <2>2 DEF InBody, ActionsInv, HoldersWork
  <2>4. \A t \in Tasks : lock[t] = NoCall
    BY <2>1 DEF TypeOK, ActionsInv, HoldersWork, Holder
  <2>5. QED
    BY <2>2, <2>3, <2>4
<1>2. QED
  BY <1>1, ActionTypeCorrect, ActionsInvariant, ImplementsGate,
     NothingAfterDrainTheorem, PTL

=============================================================================
