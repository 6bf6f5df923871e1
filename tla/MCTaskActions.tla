---------------------------- MODULE MCTaskActions ----------------------------
(***************************************************************************)
(* Model values for TaskActions.  The calls are named; MCKind and MCTaskOf *)
(* give each its method and task.                                          *)
(***************************************************************************)
EXTENDS TaskActions

CONSTANTS t1, t2, delivery, observation, message, question, cancel, dispatch

MCTasks == {t1, t2}

\* All calls meet on one task.
MCTaskOf == [f \in Ops |-> t1]

MCKind ==
  [f \in Ops |->
     CASE f = delivery -> "delivery"
       [] f = observation -> "observation"
       [] f = message -> "message"
       [] f = question -> "question"
       [] f = cancel -> "cancel"
       [] f = dispatch -> "dispatch"]

=============================================================================
