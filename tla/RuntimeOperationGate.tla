------------------------ MODULE RuntimeOperationGate ------------------------
(***************************************************************************)
(* The admission gate between provider operations and runtime lifecycle    *)
(* changes: src/core/app/RuntimeOperationGate.ts.                          *)
(*                                                                         *)
(* A lifecycle change is a promise in a chain, so it is named by its       *)
(* position: change c is the c-th call of enqueueLifecycleChange, its      *)
(* previousLifecycle is change c - 1, and 0 is the promise the gate was    *)
(* created with, settled from the start.  An operation is one call of      *)
(* runOperation.  What the two actions do is not the gate's business: they *)
(* start, and some time later their promise settles, either way.           *)
(***************************************************************************)
EXTENDS Naturals

CONSTANTS
  Ops,         \* the calls of runOperation
  MaxChanges   \* bound on the calls of enqueueLifecycleChange

ASSUME MaxChangesAssumption == MaxChanges \in Nat

VARIABLES
  closing,           \* closing: set by close(), never cleared
  tail,              \* lifecycleTail: the last change enqueued, 0 for none
  change,            \* the state of each change
  admitted,          \* the operations each change joined (admittedOperations)
  op,                \* the state of each operation
  after,             \* the lifecycleTail each operation was chained to
  activeOperations,  \* activeOperations
  drain              \* what close() returned

gateVars ==
  <<closing, tail, change, admitted, op, after, activeOperations, drain>>

Changes == 1..MaxChanges

\* "waiting" is the promise lifecycleTail.then(...) before its callback ran.
OpState == {"idle", "waiting", "running", "settled"}
ChangeState == {"none", "queued", "running", "settled"}

GateTypeOK ==
  /\ closing \in BOOLEAN
  /\ tail \in 0..MaxChanges
  /\ change \in [Changes -> ChangeState]
  /\ admitted \in [Changes -> SUBSET Ops]
  /\ op \in [Ops -> OpState]
  /\ after \in [Ops -> 0..MaxChanges]
  /\ activeOperations \in SUBSET Ops
  /\ drain \in [lifecycle : 0..MaxChanges, operations : SUBSET Ops]

GateInit ==
  /\ closing = FALSE
  /\ tail = 0
  /\ change = [c \in Changes |-> "none"]
  /\ admitted = [c \in Changes |-> {}]
  /\ op = [o \in Ops |-> "idle"]
  /\ after = [o \in Ops |-> 0]
  /\ activeOperations = {}
  /\ drain = [lifecycle |-> 0, operations |-> {}]

ChangeSettled(c) == c # 0 => change[c] = "settled"

-----------------------------------------------------------------------------
(* Operations.                                                             *)

\* runOperation, trackOperation: refused outright when closing (no step);
\* otherwise chained to the lifecycleTail of this moment, and tracked.
RunOperation(o) ==
  /\ ~closing
  /\ op[o] = "idle"
  /\ op' = [op EXCEPT ![o] = "waiting"]
  /\ after' = [after EXCEPT ![o] = tail]
  /\ activeOperations' = activeOperations \cup {o}
  /\ UNCHANGED <<closing, tail, change, admitted, drain>>

\* A parked operation starts whatever happened since: a mutant of
\* StartOperation.
StartOperation_NoSecondCheck(o) ==
  /\ op[o] = "waiting"
  /\ ChangeSettled(after[o])
  /\ op' = [op EXCEPT ![o] = "running"]
  /\ UNCHANGED <<closing, tail, change, admitted, after, activeOperations, drain>>

\* The callback of lifecycleTail.then: the second assertOpen rejects an
\* operation that was still parked when the gate closed.
StartOperation(o) ==
  /\ op[o] = "waiting"
  /\ ChangeSettled(after[o])
  /\ op' = [op EXCEPT ![o] = IF closing THEN "settled" ELSE "running"]
  /\ UNCHANGED <<closing, tail, change, admitted, after, activeOperations, drain>>

\* The promise of the action settles, fulfilled or rejected.
SettleOperation(o) ==
  /\ op[o] = "running"
  /\ op' = [op EXCEPT ![o] = "settled"]
  /\ UNCHANGED <<closing, tail, change, admitted, after, activeOperations, drain>>

\* The delete trackOperation chained to the settled promise.
ForgetOperation(o) ==
  /\ op[o] = "settled"
  /\ o \in activeOperations
  /\ activeOperations' = activeOperations \ {o}
  /\ UNCHANGED <<closing, tail, change, admitted, op, after, drain>>

-----------------------------------------------------------------------------
(* Lifecycle changes.                                                      *)

\* The active operations are not joined: a mutant of EnqueueLifecycleChange.
EnqueueLifecycleChange_OnlyPrevious ==
  LET c == tail + 1 IN
  /\ c \in Changes
  /\ change' = [change EXCEPT ![c] = "queued"]
  /\ tail' = c
  /\ UNCHANGED <<closing, admitted, op, after, activeOperations, drain>>

\* Joins the previous change and every operation active now, and becomes the
\* tail that later operations wait for.
EnqueueLifecycleChange ==
  LET c == tail + 1 IN
  /\ c \in Changes
  /\ change' = [change EXCEPT ![c] = "queued"]
  /\ admitted' = [admitted EXCEPT ![c] = activeOperations]
  /\ tail' = c
  /\ UNCHANGED <<closing, op, after, activeOperations, drain>>

\* runLifecycleChange asserts the gate is open.  The only direct caller of
\* enqueueLifecycleChange, scheduleDeferredCodexRuntimeRestart, tests
\* isClosing itself, so both are this step.
RunLifecycleChange ==
  /\ ~closing
  /\ EnqueueLifecycleChange

StartChange(c) ==
  /\ change[c] = "queued"
  /\ ChangeSettled(c - 1)
  /\ \A o \in admitted[c] : op[o] = "settled"
  /\ change' = [change EXCEPT ![c] = "running"]
  /\ UNCHANGED <<closing, tail, admitted, op, after, activeOperations, drain>>

SettleChange(c) ==
  /\ change[c] = "running"
  /\ change' = [change EXCEPT ![c] = "settled"]
  /\ UNCHANGED <<closing, tail, admitted, op, after, activeOperations, drain>>

-----------------------------------------------------------------------------
(* Closing.                                                                *)

\* The drain forgets the operations: a mutant of Close.
Close_LifecycleOnly ==
  /\ ~closing
  /\ closing' = TRUE
  /\ drain' = [lifecycle |-> tail, operations |-> {}]
  /\ UNCHANGED <<tail, change, admitted, op, after, activeOperations>>

\* close(), which shutdown calls once.
Close ==
  /\ ~closing
  /\ closing' = TRUE
  /\ drain' = [lifecycle |-> tail, operations |-> activeOperations]
  /\ UNCHANGED <<tail, change, admitted, op, after, activeOperations>>

\* Both parts of the drain that shutdown awaits have settled.
Drained ==
  /\ closing
  /\ ChangeSettled(drain.lifecycle)
  /\ \A o \in drain.operations : op[o] = "settled"

-----------------------------------------------------------------------------

GateNext ==
  \/ \E o \in Ops :
       \/ RunOperation(o)
       \/ StartOperation(o)
       \/ SettleOperation(o)
       \/ ForgetOperation(o)
  \/ RunLifecycleChange
  \/ \E c \in Changes : StartChange(c) \/ SettleChange(c)
  \/ Close

GateSpec == GateInit /\ [][GateNext]_gateVars

-----------------------------------------------------------------------------
(* The inductive invariant behind the safety properties.                   *)

\* The changes enqueued are 1..tail, and they run one after the other.
ChangesInOrder ==
  /\ \A c \in Changes : change[c] = "none" <=> tail < c
  /\ \A c, d \in Changes :
       d < c /\ change[c] \in {"running", "settled"} => change[d] = "settled"

\* A live operation is tracked; a running one outlived the change it followed.
OperationsTracked ==
  \A o \in Ops :
    /\ op[o] \in {"waiting", "running"} => o \in activeOperations
    /\ op[o] = "running" => ChangeSettled(after[o])
    /\ after[o] <= tail

\* A change joined every operation that was called before it and is still
\* live, and it did not start before they settled.
ChangesJoinOperations ==
  \A c \in Changes :
    /\ \A o \in Ops :
         /\ c <= tail /\ after[o] < c /\ op[o] \in {"waiting", "running"}
         => o \in admitted[c]
    /\ change[c] \in {"running", "settled"} =>
         \A o \in admitted[c] : op[o] = "settled"

\* Nothing was admitted after the drain was taken.
DrainComplete ==
  closing =>
    /\ drain.lifecycle = tail
    /\ \A o \in Ops :
         op[o] \in {"waiting", "running"} => o \in drain.operations

GateInv ==
  /\ ChangesInOrder
  /\ OperationsTracked
  /\ ChangesJoinOperations
  /\ DrainComplete

-----------------------------------------------------------------------------
(* Properties.                                                             *)

\* While a lifecycle change (a settings change, an adapter restart) runs, no
\* provider operation runs and no other change does: "Serializes runtime
\* lifecycle changes against admitted provider operations".
Exclusion ==
  \A c \in Changes :
    change[c] = "running" =>
      /\ \A o \in Ops : op[o] # "running"
      /\ \A d \in Changes : change[d] = "running" => d = c

\* Once what close() returned has settled, nothing runs and nothing can start
\* any more: shutdown may stop the adapters and close the stores.
NothingAfterDrain ==
  Drained =>
    /\ \A o \in Ops : op[o] \in {"idle", "settled"}
    /\ \A c \in Changes : change[c] \in {"none", "settled"}

\* An operation that close() found parked behind a lifecycle change is refused
\* when its turn comes: after close() no provider work begins.
NoStartAfterClose ==
  [][\A o \in Ops : closing /\ op'[o] = "running" => op[o] = "running"]_gateVars

=============================================================================
