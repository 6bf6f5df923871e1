--------------------- MODULE RuntimeOperationGateProofs ---------------------
(***************************************************************************)
(* Proofs about RuntimeOperationGate, for any set of operations and any    *)
(* number of lifecycle changes.                                            *)
(***************************************************************************)
EXTENDS RuntimeOperationGate, TLAPS

THEOREM GateTypeCorrect == GateSpec => []GateTypeOK
<1>1. GateInit => GateTypeOK
  <2>1. 0 \in 0..MaxChanges
    BY MaxChangesAssumption
  <2> SUFFICES ASSUME GateInit PROVE GateTypeOK
    OBVIOUS
  <2>2. admitted \in [Changes -> SUBSET Ops]
    BY DEF GateInit
  <2>3. change \in [Changes -> ChangeState] /\ op \in [Ops -> OpState]
    BY DEF GateInit, ChangeState, OpState
  <2>4. drain \in [lifecycle : 0..MaxChanges, operations : SUBSET Ops]
    BY <2>1 DEF GateInit
  <2>5. after \in [Ops -> 0..MaxChanges] /\ tail \in 0..MaxChanges
    BY <2>1 DEF GateInit
  <2>6. QED
    BY <2>2, <2>3, <2>4, <2>5 DEF GateInit, GateTypeOK
<1>2. GateTypeOK /\ [GateNext]_gateVars => GateTypeOK'
  <2> SUFFICES ASSUME GateTypeOK, [GateNext]_gateVars PROVE GateTypeOK'
    OBVIOUS
  <2> USE MaxChangesAssumption DEF GateTypeOK, OpState, ChangeState
  <2>1. ASSUME NEW o \in Ops, RunOperation(o) PROVE GateTypeOK'
    BY <2>1 DEF RunOperation
  <2>2. ASSUME NEW o \in Ops, StartOperation(o) PROVE GateTypeOK'
    BY <2>2 DEF StartOperation
  <2>3. ASSUME NEW o \in Ops, SettleOperation(o) PROVE GateTypeOK'
    BY <2>3 DEF SettleOperation
  <2>4. ASSUME NEW o \in Ops, ForgetOperation(o) PROVE GateTypeOK'
    BY <2>4 DEF ForgetOperation
  <2>5. CASE RunLifecycleChange
    BY <2>5 DEF RunLifecycleChange, EnqueueLifecycleChange, Changes
  <2>6. ASSUME NEW c \in Changes, StartChange(c) PROVE GateTypeOK'
    BY <2>6 DEF StartChange
  <2>7. ASSUME NEW c \in Changes, SettleChange(c) PROVE GateTypeOK'
    BY <2>7 DEF SettleChange
  <2>8. CASE Close
    BY <2>8 DEF Close
  <2>9. CASE UNCHANGED gateVars
    BY <2>9 DEF gateVars
  <2>10. QED
    BY <2>1, <2>2, <2>3, <2>4, <2>5, <2>6, <2>7, <2>8, <2>9 DEF GateNext
<1>3. QED
  BY <1>1, <1>2, PTL DEF GateSpec

(***************************************************************************)
(* GateInv is inductive.  The heart of it is ChangesJoinOperations: an     *)
(* operation called before change c is in admitted[c] because it was       *)
(* active when c was enqueued, and one called at or after c waits for it.  *)
(***************************************************************************)
LEMMA GateInvInit == GateInit => GateInv
  BY MaxChangesAssumption
     DEF GateInit, GateInv, ChangesInOrder, OperationsTracked,
         ChangesJoinOperations, DrainComplete, Changes, ChangeSettled

LEMMA GateInvStep ==
  GateTypeOK /\ GateInv /\ [GateNext]_gateVars => GateInv'
<1> SUFFICES ASSUME GateTypeOK, GateInv, [GateNext]_gateVars PROVE GateInv'
  OBVIOUS
<1> USE MaxChangesAssumption
    DEF GateTypeOK, GateInv, ChangesInOrder, OperationsTracked,
        ChangesJoinOperations, DrainComplete, ChangeSettled, Changes
<1>1. ASSUME NEW o \in Ops, RunOperation(o) PROVE GateInv'
  BY <1>1 DEF RunOperation
<1>2. ASSUME NEW o \in Ops, StartOperation(o) PROVE GateInv'
  BY <1>2 DEF StartOperation
<1>3. ASSUME NEW o \in Ops, SettleOperation(o) PROVE GateInv'
  BY <1>3 DEF SettleOperation
<1>4. ASSUME NEW o \in Ops, ForgetOperation(o) PROVE GateInv'
  BY <1>4 DEF ForgetOperation
<1>5. CASE RunLifecycleChange
  BY <1>5 DEF RunLifecycleChange, EnqueueLifecycleChange
<1>6. ASSUME NEW c \in Changes, StartChange(c) PROVE GateInv'
  BY <1>6 DEF StartChange
<1>7. ASSUME NEW c \in Changes, SettleChange(c) PROVE GateInv'
  BY <1>7 DEF SettleChange
<1>8. CASE Close
  BY <1>8 DEF Close
<1>9. CASE UNCHANGED gateVars
  BY <1>9 DEF gateVars
<1>10. QED
  BY <1>1, <1>2, <1>3, <1>4, <1>5, <1>6, <1>7, <1>8, <1>9 DEF GateNext

\* GateInv holds in every reachable state of the gate.
THEOREM GateInvariant == GateSpec => []GateInv
<1>1. QED
  BY GateInvInit, GateInvStep, GateTypeCorrect, PTL DEF GateSpec

\* A running lifecycle change has the runtime to itself.
THEOREM ExclusionTheorem == GateSpec => []Exclusion
<1>1. GateTypeOK /\ GateInv => Exclusion
  <2> SUFFICES ASSUME GateTypeOK, GateInv,
                      NEW c \in Changes, change[c] = "running"
               PROVE  /\ \A o \in Ops : op[o] # "running"
                      /\ \A d \in Changes : change[d] = "running" => d = c
    BY DEF Exclusion
  <2> USE MaxChangesAssumption DEF GateTypeOK, Changes
  <2>1. ASSUME NEW o \in Ops, op[o] = "running" PROVE FALSE
    <3>1. CASE after[o] < c
      \* It was active when c was enqueued, so c joined it.
      BY <3>1, <2>1 DEF GateInv, ChangesJoinOperations, ChangesInOrder
    <3>2. CASE after[o] >= c
      \* It follows c or a later change, and that change has settled.
      BY <3>2, <2>1
         DEF GateInv, OperationsTracked, ChangesInOrder, ChangeSettled
    <3>3. QED
      BY <3>1, <3>2
  <2>2. ASSUME NEW d \in Changes, change[d] = "running" PROVE d = c
    BY <2>2 DEF GateInv, ChangesInOrder
  <2>3. QED
    BY <2>1, <2>2
<1>2. QED
  BY <1>1, GateInvariant, GateTypeCorrect, PTL

\* Shutdown's joining of the drain leaves nothing running behind it.
THEOREM NothingAfterDrainTheorem == GateSpec => []NothingAfterDrain
<1>1. GateTypeOK /\ GateInv => NothingAfterDrain
  <2> SUFFICES ASSUME GateTypeOK, GateInv, Drained
               PROVE  /\ \A o \in Ops : op[o] \in {"idle", "settled"}
                      /\ \A c \in Changes : change[c] \in {"none", "settled"}
    BY DEF NothingAfterDrain
  <2> USE MaxChangesAssumption
      DEF GateTypeOK, OpState, ChangeState, Changes, GateInv, DrainComplete, Drained
  <2>1. \A o \in Ops : op[o] \in {"idle", "settled"}
    OBVIOUS
  <2>2. \A c \in Changes : change[c] \in {"none", "settled"}
    BY DEF ChangesInOrder, ChangeSettled
  <2>3. QED
    BY <2>1, <2>2
<1>2. QED
  BY <1>1, GateInvariant, GateTypeCorrect, PTL

\* No operation begins once the gate is closed.
THEOREM NoStartAfterCloseTheorem == GateSpec => NoStartAfterClose
<1>1. GateTypeOK /\ [GateNext]_gateVars =>
        [\A o \in Ops : closing /\ op'[o] = "running" => op[o] = "running"]_gateVars
  <2> SUFFICES ASSUME GateTypeOK, GateNext, NEW o \in Ops,
                      closing, op'[o] = "running"
               PROVE  op[o] = "running"
    OBVIOUS
  <2>1. QED
    BY DEF GateTypeOK, GateNext, RunOperation, StartOperation, SettleOperation,
           ForgetOperation, RunLifecycleChange, StartChange, SettleChange, Close
<1>2. QED
  BY <1>1, GateTypeCorrect, PTL DEF GateSpec, NoStartAfterClose

=============================================================================
