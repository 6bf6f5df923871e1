------------------------- MODULE TransientTurnProofs -------------------------
(***************************************************************************)
(* Proofs about TransientTurn, for any set of refinements and any bounds.  *)
(***************************************************************************)
EXTENDS TransientTurn, TLAPS

-----------------------------------------------------------------------------
(* Type correctness.                                                       *)

\* The constructors of messages, queue items and records.
LEMMA MessageTypes ==
  /\ \A kind \in TurnEnds \cup {"started", "deadline"}, r \in Runs :
       Notification(kind, r) \in Message
  /\ \A s \in Servers, b \in BOOLEAN : Exit(s, b) \in Message
  /\ \A r \in Runs, b \in BOOLEAN : Settle(r, b) \in Message
  BY DEF Notification, Exit, Settle, Message

LEMMA ConstantRecords ==
  /\ NoRun \in RunRecord
  /\ NoTurn \in TurnRecord
<1>1. NoRun \in RunRecord
  BY BoundsAssumption
     DEF NoRun, RunRecord, Status, Delivery, TerminalStatus, Servers, Fingerprint
<1>2. NoTurn \in TurnRecord
  BY BoundsAssumption DEF NoTurn, TurnRecord, Servers, Fingerprint
<1>3. QED
  BY <1>1, <1>2

\* Facts about the sets of constants, for steps that leave them unexpanded.
LEMMA Literals ==
  /\ TerminalStatus \in SUBSET Status
  /\ {"QUEUED", "STARTING", "RUNNING", "INTERRUPTING", "RECOVERY_REQUIRED",
      "INTERRUPTED", "FAILED"} \in SUBSET Status
  /\ {"NOT_SENT", "SENDING", "ACKNOWLEDGED", "AMBIGUOUS", "NOT_DELIVERED",
      "TERMINAL"} \in SUBSET Delivery
  BY DEF Status, TerminalStatus, Delivery

LEMMA LossTypes ==
  ASSUME NEW rec \in RunRecord
  PROVE  Lost(rec) \in RunRecord /\ Stopped(rec) \in RunRecord
<1>1. Lost(rec) \in RunRecord
  BY Literals DEF Lost, RunRecord
<1>2. InterruptSettled(rec) \in {"NONE"} \cup (Delivery \ {"NOT_SENT"})
  BY Literals DEF InterruptSettled
<1>3. Stopped(rec) \in RunRecord
  BY <1>2, Literals DEF Stopped, RunRecord
<1>4. QED
  BY <1>1, <1>3

LEMMA WriteTypes ==
  ASSUME TypeOK, NEW r \in Runs, NEW rec \in RunRecord, Write(r, rec)
  PROVE  run' \in [Runs -> RunRecord]
  BY DEF TypeOK, Write

LEMMA GotoTypes ==
  ASSUME TypeOK, NEW r \in Runs, NEW label \in Labels, Goto(r, label)
  PROVE  pc' \in [Runs -> Labels]
  BY DEF TypeOK, Goto

LEMMA EmitTypes ==
  ASSUME TypeOK, NEW r \in Runs, Emit(r)
  PROVE  events' \in Seq(QueueItem)
<1>1. [kind |-> "event", run |-> r] \in QueueItem
  BY DEF QueueItem
<1>2. events \in Seq(QueueItem)
  BY DEF TypeOK
<1>3. QED
  BY <1>1, <1>2 DEF Emit

LEMMA SweepTypes ==
  ASSUME TypeOK, NEW s \in Servers, NEW c \in BOOLEAN, NEW retry \in SUBSET Runs
  PROVE  SweepOf(s, c, retry) \in {NoSweep} \cup SweepRecord
<1> DEFINE affected == {r \in Runs : Affected(run[r], s, c)}
<1>1. affected \in SUBSET Runs
  OBVIOUS
<1>2. [r \in Runs |-> IF r \in affected THEN run[r] ELSE NoRun]
        \in [Runs -> RunRecord]
  BY ConstantRecords DEF TypeOK
<1>3. SweepOf(s, c, retry) =
        [server |-> s, confirmed |-> c, runs |-> affected,
         snap |-> [r \in Runs |-> IF r \in affected THEN run[r] ELSE NoRun],
         retry |-> retry]
  BY DEF SweepOf
<1> HIDE DEF affected
<1>4. QED
  BY <1>1, <1>2, <1>3 DEF SweepRecord

LEMMA StopTypes ==
  ASSUME TypeOK, NEW s, StopTurnsOf(s)
  PROVE  turn' \in [Runs -> TurnRecord]
<1> SUFFICES ASSUME NEW r \in Runs
             PROVE  [turn[r] EXCEPT !.state = "stopped", !.to = repo] \in TurnRecord
  BY DEF StopTurnsOf, TypeOK
<1> turn[r] \in TurnRecord /\ repo \in Fingerprint
  BY DEF TypeOK
<1> QED
  BY DEF TurnRecord

THEOREM InitTypes == Init => TypeOK
<1> SUFFICES ASSUME Init PROVE TypeOK
  OBVIOUS
<1>1. run \in [Runs -> RunRecord] /\ turn \in [Runs -> TurnRecord]
  BY ConstantRecords DEF Init
<1>2. entry \in [Runs -> {"NONE", "QUEUED", "LEASED", "SETTLED"}]
  BY DEF Init
<1>3. pc \in [Runs -> Labels] /\ outcome \in [Runs -> {"none", "output", "error"}]
  BY DEF Init, Labels
<1>4. /\ server \in Servers /\ restarts \in 0..MaxRestarts
      /\ repo \in Fingerprint
  BY BoundsAssumption DEF Init, Servers, Fingerprint
<1>5. inbox \in Seq(Message) /\ events \in Seq(QueueItem)
  BY DEF Init
<1>6. QED
  BY <1>1, <1>2, <1>3, <1>4, <1>5 DEF Init, TypeOK, Phases

\* The steps of the caller keep the types.
LEMMA StartTypes ==
  ASSUME TypeOK, NEW r \in Runs, Start(r)
  PROVE  TypeOK'
<1> USE Literals, MessageTypes, ConstantRecords
<1>0. /\ run[r] \in RunRecord /\ turn[r] \in TurnRecord
      /\ run \in [Runs -> RunRecord] /\ repo \in Fingerprint
  BY DEF TypeOK
<1>1. CASE PrepareTurn(r)
  <2>1. [NoRun EXCEPT !.status = "QUEUED"] \in RunRecord
    BY DEF RunRecord
  <2>2. run' \in [Runs -> RunRecord]
    BY <1>1, <2>1, WriteTypes DEF PrepareTurn
  <2>3. QED
    BY <1>1, <2>2
       DEF PrepareTurn, TypeOK, Goto, Labels, codex, queue, app
<1>2. CASE LeaseTurn(r)
  BY <1>2 DEF LeaseTurn, TypeOK, Goto, Labels, codex, queue, app
<1>3. CASE InspectBefore(r)
  <2>1. [run[r] EXCEPT !.integrity = "PENDING", !.before = repo] \in RunRecord
    BY <1>0 DEF RunRecord
  <2>2. run' \in [Runs -> RunRecord]
    BY <1>3, <2>1, WriteTypes DEF InspectBefore
  <2>3. QED
    BY <1>3, <2>2 DEF InspectBefore, TypeOK, Goto, Labels, codex, queue, app
<1>4. CASE InspectBeforeFails(r)
  <2>1. [run[r] EXCEPT !.status = "FAILED", !.delivery = "NOT_DELIVERED",
                       !.source = "REPOSITORY_INTEGRITY",
                       !.integrity = "UNVERIFIABLE"] \in RunRecord
    BY <1>0 DEF RunRecord
  <2>2. run' \in [Runs -> RunRecord]
    BY <1>4, <2>1, WriteTypes DEF InspectBeforeFails
  <2>3. QED
    BY <1>4, <2>2 DEF InspectBeforeFails, TypeOK, Goto, Labels, codex, queue, app
<1>5. CASE MarkStarting(r)
  <2>1. [run[r] EXCEPT !.status = "STARTING", !.delivery = "SENDING"]
          \in RunRecord
    BY <1>0 DEF RunRecord
  <2>2. run' \in [Runs -> RunRecord]
    BY <1>5, <2>1, WriteTypes DEF MarkStarting
  <2>3. QED
    BY <1>5, <2>2 DEF MarkStarting, TypeOK, Goto, Labels, codex, queue, app
<1>6. CASE Submit(r)
  <2>1. server \in Servers /\ turn[r].sent + 1 \in Nat
    BY <1>0 DEF TypeOK, TurnRecord
  <2> DEFINE sent == [turn[r] EXCEPT !.state = "active", !.sent = turn[r].sent + 1,
                                     !.server = server, !.from = repo]
  <2>2. turn' \in [Runs -> TurnRecord]
    <3>1. sent \in TurnRecord
      BY <1>0, <2>1 DEF TurnRecord
    <3>2. turn' = [turn EXCEPT ![r] = sent]
      BY <1>6 DEF Submit
    <3> HIDE DEF sent
    <3>3. QED
      BY <3>1, <3>2 DEF TypeOK
  <2>3. inbox' \in Seq(Message)
    <3>1. Notification("started", r) \in Message
      OBVIOUS
    <3>2. inbox \in Seq(Message)
      BY DEF TypeOK
    <3>3. QED
      BY <1>6, <3>1, <3>2 DEF Submit
  <2>4. QED
    BY <1>6, <2>2, <2>3 DEF Submit, TypeOK, Goto, Labels, store, queue, app
<1>7. CASE \/ SubmitFails(r) \/ Response(r) \/ ResponseLost(r) \/ DrainInbound(r)
  BY <1>7 DEF SubmitFails, Response, ResponseLost, DrainInbound, TypeOK, Goto,
              Labels, store, codex, queue, app
<1>8. CASE PersistAck(r)
  <2>1. [run[r] EXCEPT !.status = "RUNNING", !.delivery = "ACKNOWLEDGED",
                       !.turnId = TRUE, !.server = turn[r].server] \in RunRecord
    BY <1>0 DEF RunRecord, TurnRecord
  <2>2. run' \in [Runs -> RunRecord]
    BY <1>0, <1>8, <2>1, WriteTypes DEF PersistAck
  <2>3. QED
    BY <1>8, <2>2 DEF PersistAck, TypeOK, Goto, Labels, codex, queue, app
<1>9. CASE PersistAckConflict(r) \/ StartFailsConflict(r)
  BY <1>9 DEF PersistAckConflict, StartFailsConflict, GiveUp, TypeOK, Goto, Labels,
              store, codex, queue, app
<1>10. CASE StartFails(r)
  <2>1. /\ [run[r] EXCEPT !.status = "FAILED", !.delivery = "NOT_DELIVERED"]
             \in RunRecord
        /\ Uncertain(run[r]) \in RunRecord
    BY <1>0 DEF RunRecord, Uncertain
  <2>2. run' \in [Runs -> RunRecord]
    BY <1>0, <1>10, <2>1, WriteTypes DEF StartFails
  <2>3. pc' \in [Runs -> Labels]
        /\ outcome' \in [Runs -> {"none", "output", "error"}]
    BY <1>10 DEF StartFails, GiveUp, TypeOK, Goto, Labels
  <2>4. QED
    BY <1>10, <2>2, <2>3 DEF StartFails, TypeOK, codex, queue, app
<1>11. CASE SettleFailedStart(r)
  BY <1>11 DEF SettleFailedStart, TypeOK, Goto, Labels, codex, queue, app
<1>12. CASE VerifyFailedStart(r)
  <2>1. ASSUME NEW found \in Boundary(run[r])
        PROVE  [run[r] EXCEPT !.integrity = found,
                  !.source = IF found = "UNCHANGED" THEN @
                             ELSE "REPOSITORY_INTEGRITY"] \in RunRecord
    BY <1>0 DEF Boundary, RunRecord
  <2>2. run' \in [Runs -> RunRecord]
    BY <1>0, <1>12, <2>1, WriteTypes DEF VerifyFailedStart
  <2>3. QED
    BY <1>12, <2>2 DEF VerifyFailedStart, TypeOK, Goto, Labels, codex, queue, app
<1>13. QED
  BY <1>1, <1>2, <1>3, <1>4, <1>5, <1>6, <1>7, <1>8, <1>9, <1>10, <1>11, <1>12
     DEF Start

LEMMA StopStepTypes ==
  ASSUME TypeOK, NEW r \in Runs, Stop(r)
  PROVE  TypeOK'
<1> USE Literals, ConstantRecords
<1>0. /\ run[r] \in RunRecord /\ turn[r] \in TurnRecord
      /\ run \in [Runs -> RunRecord] /\ turn \in [Runs -> TurnRecord]
  BY DEF TypeOK
<1>1. CASE WaitEnds(r) \/ WaitFails(r)
  BY <1>1 DEF WaitEnds, WaitFails, TypeOK, Goto, Labels, store, codex, queue, app
<1>2. CASE InterruptReopen(r)
  <2>1. [run[r] EXCEPT !.status = "RUNNING", !.interrupt = "NONE",
                       !.recovery = "NONE"] \in RunRecord
    BY <1>0 DEF RunRecord
  <2>2. run' \in [Runs -> RunRecord]
    BY <1>2, <2>1, WriteTypes DEF InterruptReopen
  <2>3. QED
    BY <1>2, <2>2 DEF InterruptReopen, TypeOK, codex, queue, caller, app
<1>3. CASE InterruptIntent(r)
  <2>1. [run[r] EXCEPT !.status = "INTERRUPTING", !.interrupt = "SENDING"]
          \in RunRecord
    BY <1>0 DEF RunRecord
  <2>2. run' \in [Runs -> RunRecord]
    BY <1>3, <2>1, WriteTypes DEF InterruptIntent
  <2>3. QED
    BY <1>3, <2>2 DEF InterruptIntent, TypeOK, Goto, Labels, codex, queue, app
<1>4. CASE InterruptRefused(r) \/ ConfirmEnds(r) \/ ReleaseFails(r)
  BY <1>4 DEF InterruptRefused, ConfirmEnds, ReleaseFails, TypeOK, Goto, Labels,
              store, codex, queue, app
<1>5. CASE InterruptDelivered(r)
  <2>1. turn' \in [Runs -> TurnRecord]
    BY <1>0, <1>5 DEF InterruptDelivered, TurnRecord
  <2>2. QED
    BY <1>5, <2>1 DEF InterruptDelivered, TypeOK, Goto, Labels, store, queue, app
<1>6. CASE InterruptFails(r)
  <2>1. /\ [run[r] EXCEPT !.status = "INTERRUPTING", !.interrupt = "AMBIGUOUS",
                          !.recovery = "NONE"] \in RunRecord
        /\ [run[r] EXCEPT !.status = "RECOVERY_REQUIRED",
                          !.interrupt = "NOT_DELIVERED",
                          !.recovery = "REQUIRES_USER_ACTION"] \in RunRecord
    BY <1>0 DEF RunRecord
  <2>2. run' \in [Runs -> RunRecord]
    BY <1>0, <1>6, <2>1, WriteTypes DEF InterruptFails
  <2>3. turn' \in [Runs -> TurnRecord]
    <3>1. ASSUME NEW asked \in BOOLEAN
          PROVE  [turn EXCEPT ![r].asked = asked \/ @] \in [Runs -> TurnRecord]
      BY <1>0 DEF TurnRecord
    <3>2. QED
      BY <1>0, <1>6, <3>1 DEF InterruptFails
  <2>4. QED
    BY <1>6, <2>2, <2>3
       DEF InterruptFails, TypeOK, Goto, Labels, codex, queue, app
<1>7. CASE InterruptAcked(r)
  <2>1. [run[r] EXCEPT !.interrupt = "ACKNOWLEDGED"] \in RunRecord
    BY <1>0 DEF RunRecord
  <2>2. run' \in [Runs -> RunRecord]
    BY <1>0, <1>7, <2>1, WriteTypes DEF InterruptAcked
  <2>3. QED
    BY <1>7, <2>2 DEF InterruptAcked, TypeOK, Goto, Labels, codex, queue, app
<1>8. CASE AwaitEvents(r)
  <2>1. [kind |-> "barrier", run |-> r] \in QueueItem /\ events \in Seq(QueueItem)
    BY DEF QueueItem, TypeOK
  <2>2. events' \in Seq(QueueItem)
    BY <1>8, <2>1 DEF AwaitEvents
  <2>3. QED
    BY <1>8, <2>2 DEF AwaitEvents, TypeOK, Goto, Labels, store, codex, app
<1>9. CASE FinishTurn(r)
  BY <1>9 DEF FinishTurn, TypeOK, Goto, Labels, codex, queue, app
<1>10. CASE Purge(r)
  <2>1. run' \in [Runs -> RunRecord]
    BY <1>0, <1>10, WriteTypes DEF Purge
  <2>2. QED
    BY <1>10, <2>1 DEF Purge, TypeOK, Goto, Labels, codex, queue, app
<1>11. QED
  BY <1>1, <1>2, <1>3, <1>4, <1>5, <1>6, <1>7, <1>8, <1>9, <1>10 DEF Stop

\* What the head of the inbound queue is, by its kind.
LEMMA HeadTypes ==
  ASSUME TypeOK, inbox # <<>>
  PROVE  /\ Tail(inbox) \in Seq(Message)
         /\ Head(inbox).kind # "exit" => Head(inbox).run \in Runs
         /\ Head(inbox).kind = "exit" =>
              Head(inbox).server \in Servers /\ Head(inbox).confirmed \in BOOLEAN
<1>1. inbox \in Seq(Message)
  BY DEF TypeOK
<1>2. Head(inbox) \in Message /\ Tail(inbox) \in Seq(Message)
  BY <1>1
<1>3. QED
  BY <1>2 DEF Message, TurnEnds

LEMMA AdapterTypes ==
  ASSUME TypeOK, Adapter
  PROVE  TypeOK'
<1> USE Literals, ConstantRecords
<1>0. /\ run \in [Runs -> RunRecord] /\ turn \in [Runs -> TurnRecord]
      /\ server \in Servers
  BY DEF TypeOK
<1>1. CASE HandleStarted
  <2> DEFINE r == Head(inbox).run
  <2>1. r \in Runs /\ Tail(inbox) \in Seq(Message)
    BY <1>1, HeadTypes DEF HandleStarted, Inbound
  <2>2. [run[r] EXCEPT !.status = "RUNNING", !.delivery = "ACKNOWLEDGED",
                       !.turnId = TRUE, !.server = server] \in RunRecord
    BY <1>0, <2>1 DEF RunRecord
  <2>3. run' \in [Runs -> RunRecord]
    BY <1>0, <1>1, <2>1, <2>2, WriteTypes DEF HandleStarted
  <2>4. QED
    BY <1>1, <2>1, <2>3 DEF HandleStarted, TypeOK, queue, caller, app
<1>2. CASE HandleCompletedAck
  <2> DEFINE r == Head(inbox).run
  <2>1. r \in Runs
    BY <1>2, HeadTypes DEF HandleCompletedAck, Inbound, TurnEnds
  <2>2. [run[r] EXCEPT !.status = "RUNNING", !.delivery = "ACKNOWLEDGED",
                       !.turnId = TRUE, !.server = server] \in RunRecord
    BY <1>0, <2>1 DEF RunRecord
  <2>3. run' \in [Runs -> RunRecord]
    BY <1>0, <1>2, <2>1, <2>2, WriteTypes DEF HandleCompletedAck
  <2>4. QED
    BY <1>2, <2>3 DEF HandleCompletedAck, TypeOK, codex, queue, caller, app
<1>3. CASE HandleCompleted
  <2> DEFINE r == Head(inbox).run
             end == EndStatus[Head(inbox).kind]
             rec == [run[r] EXCEPT !.status = end, !.delivery = "TERMINAL",
                       !.turnId = TRUE, !.interrupt = InterruptSettled(run[r]),
                       !.recovery = "NONE",
                       !.source = "TURN_COMPLETED_NOTIFICATION"]
  <2>1. r \in Runs /\ Tail(inbox) \in Seq(Message)
    BY <1>3, HeadTypes DEF HandleCompleted, Inbound, TurnEnds
  <2>2. end \in Status
    BY <1>3 DEF HandleCompleted, Inbound, EndStatus, TurnEnds, Status,
                TerminalStatus
  <2>3. run[r] \in RunRecord
    BY <1>0, <2>1
  <2>4. InterruptSettled(run[r]) \in {"NONE"} \cup (Delivery \ {"NOT_SENT"})
    BY DEF InterruptSettled
  <2>5. rec \in RunRecord
    <3> HIDE DEF r, end
    <3>1. QED
      BY <2>2, <2>3, <2>4 DEF RunRecord
  <2>6. run' \in [Runs -> RunRecord]
    BY <1>0, <1>3, <2>1, <2>5, WriteTypes DEF HandleCompleted
  <2>7. events' \in Seq(QueueItem)
    BY <1>3, <2>1, EmitTypes DEF HandleCompleted, TypeOK
  <2>8. QED
    BY <1>3, <2>1, <2>6, <2>7 DEF HandleCompleted, TypeOK, caller, app
<1>4. CASE HandleExit
  <2>1. /\ Head(inbox).server \in Servers /\ Head(inbox).confirmed \in BOOLEAN
        /\ Tail(inbox) \in Seq(Message)
    BY <1>4, HeadTypes DEF HandleExit, Inbound
  <2>2. sweep' \in {NoSweep} \cup SweepRecord
    BY <1>4, <2>1, SweepTypes DEF HandleExit
  <2>3. QED
    BY <1>4, <2>1, <2>2 DEF HandleExit, TypeOK, store, queue, caller, app
<1>5. CASE HandleDeadlineLate
  BY <1>5, HeadTypes DEF HandleDeadlineLate, Inbound, TypeOK, store, queue,
                         caller, app
<1>6. CASE HandleDeadline
  <2> DEFINE r == Head(inbox).run
  <2>1. r \in Runs /\ Tail(inbox) \in Seq(Message)
    BY <1>6, HeadTypes DEF HandleDeadline, Inbound
  <2>2. /\ <<>> \in Seq(Message)
        /\ \A b \in BOOLEAN : /\ <<Exit(server, b)>> \in Seq(Message)
                             /\ <<Settle(r, b)>> \in Seq(Message)
    BY <1>0, <2>1, MessageTypes
  <2>3. inbox' \in Seq(Message)
    <3>1. \E announced \in {<<>>, <<Exit(server, TRUE)>>, <<Exit(server, FALSE)>>},
             b \in BOOLEAN :
            inbox' = Tail(inbox) \o announced \o <<Settle(r, b)>>
      BY <1>6 DEF HandleDeadline
    <3>2. PICK announced \in Seq(Message), b \in BOOLEAN :
            inbox' = Tail(inbox) \o announced \o <<Settle(r, b)>>
      BY <2>2, <3>1
    <3>3. Tail(inbox) \o announced \in Seq(Message)
      BY <2>1
    <3>4. QED
      BY <2>2, <3>2, <3>3
  <2>4. turn' \in [Runs -> TurnRecord] /\ process' \in {"none", "up", "down", "fenced"}
    BY <1>0, <1>6, StopTypes DEF HandleDeadline
  <2>5. QED
    BY <1>6, <2>3, <2>4 DEF HandleDeadline, TypeOK, store, queue, caller, app
<1>7. CASE HandleSettleStopped
  <2> DEFINE r == Head(inbox).run
  <2>1. r \in Runs /\ Tail(inbox) \in Seq(Message)
    BY <1>7, HeadTypes DEF HandleSettleStopped, Inbound
  <2>2. run[r].server \in Servers
    BY <1>0, <2>1 DEF RunRecord
  <2>3. SweepOf(run[r].server, TRUE, {r}) \in {NoSweep} \cup SweepRecord
    BY <2>1, <2>2, SweepTypes
  <2>4. sweep' \in {NoSweep} \cup SweepRecord
    BY <1>7, <2>3 DEF HandleSettleStopped
  <2>5. QED
    BY <1>7, <2>1, <2>4 DEF HandleSettleStopped, TypeOK, store, queue, caller, app
<1>8. CASE HandleSettleUncertain
  <2> DEFINE r == Head(inbox).run
  <2>1. r \in Runs /\ Tail(inbox) \in Seq(Message)
    BY <1>8, HeadTypes DEF HandleSettleUncertain, Inbound
  <2>2. [run[r] EXCEPT !.status = "RECOVERY_REQUIRED", !.interrupt = "AMBIGUOUS",
                       !.recovery = "REQUIRES_USER_ACTION"] \in RunRecord
    BY <1>0, <2>1 DEF RunRecord
  <2>3. run' \in [Runs -> RunRecord]
    BY <1>0, <1>8, <2>1, <2>2, WriteTypes DEF HandleSettleUncertain
  <2>4. events' \in Seq(QueueItem)
    BY <1>8, <2>1, EmitTypes DEF HandleSettleUncertain, TypeOK
  <2>5. QED
    BY <1>8, <2>1, <2>3, <2>4 DEF HandleSettleUncertain, TypeOK, caller, app
<1>9. CASE SweepEnds
  BY <1>9 DEF SweepEnds, TypeOK, store, queue, caller, app
<1>10. ASSUME NEW r \in Runs, SweepRun(r)
       PROVE  TypeOK'
  <2>1. SweepUpdate(run[r]) \in RunRecord
    BY <1>0, LossTypes DEF SweepUpdate
  <2>2. run' \in [Runs -> RunRecord]
    BY <1>10, <2>1, WriteTypes DEF SweepRun
  <2>3. events' \in Seq(QueueItem)
    BY <1>10, EmitTypes DEF SweepRun
  <2>4. sweep \in SweepRecord
    BY <1>10 DEF SweepRun, Sweeping, TypeOK
  <2>5. sweep' \in SweepRecord
    BY <1>10, <2>4 DEF SweepRun, SweepRecord
  <2>6. QED
    BY <1>10, <2>2, <2>3, <2>5 DEF SweepRun, TypeOK, caller, app
<1>11. ASSUME NEW r \in Runs, SweepAborts(r)
       PROVE  TypeOK'
  <2>1. sweep \in SweepRecord
    BY <1>11 DEF SweepAborts, Sweeping, TypeOK
  <2>2. sweep.server \in Servers /\ sweep.confirmed \in BOOLEAN
        /\ sweep.retry \in SUBSET Runs
    BY <2>1 DEF SweepRecord
  <2>3. SweepOf(sweep.server, sweep.confirmed, sweep.retry)
          \in {NoSweep} \cup SweepRecord
    BY <2>2, SweepTypes
  <2>4. sweep' \in {NoSweep} \cup SweepRecord
    BY <1>11, <2>3 DEF SweepAborts
  <2>5. QED
    BY <1>11, <2>4 DEF SweepAborts, TypeOK, store, queue, caller, app
<1>12. CASE CompletedConflict
  <2> DEFINE r == Head(inbox).run
  <2>1. r \in Runs /\ Tail(inbox) \in Seq(Message)
    BY <1>12, HeadTypes DEF CompletedConflict, Inbound, TurnEnds
  <2>2. Uncertain(run[r]) \in RunRecord
    BY <1>0, <2>1 DEF RunRecord, Uncertain
  <2>3. run' \in [Runs -> RunRecord]
    BY <1>0, <1>12, <2>1, <2>2, WriteTypes DEF CompletedConflict
  <2>4. QED
    BY <1>12, <2>1, <2>3
       DEF CompletedConflict, GiveUp, Goto, Labels, TypeOK, queue, app
<1>13. QED
  BY <1>1, <1>2, <1>3, <1>4, <1>5, <1>6, <1>7, <1>8, <1>9, <1>10, <1>11, <1>12
     DEF Adapter

LEMMA EventTypes ==
  ASSUME TypeOK, EventQueue
  PROVE  TypeOK'
<1> USE Literals, ConstantRecords
<1>0. run \in [Runs -> RunRecord] /\ events \in Seq(QueueItem)
  BY DEF TypeOK
<1>1. events # <<>> => Head(events).run \in Runs /\ Tail(events) \in Seq(QueueItem)
  <2>1. events # <<>> => Head(events) \in QueueItem /\ Tail(events) \in Seq(QueueItem)
    BY <1>0
  <2>2. QED
    BY <2>1 DEF QueueItem
<1>2. VerifyingNow => /\ verifying.run \in Runs
                      /\ run[verifying.run] \in RunRecord
  BY <1>0 DEF VerifyingNow, TypeOK
<1>3. CASE ReachBarrier
  <2>1. Goto(Head(events).run, "settling")
    BY <1>3 DEF ReachBarrier
  <2>2. pc' \in [Runs -> Labels]
    BY <1>1, <1>3, <2>1, GotoTypes DEF ReachBarrier, Labels
  <2>3. QED
    BY <1>1, <1>3, <2>2 DEF ReachBarrier, TypeOK, store, codex, app
<1>4. CASE TakeEvent
  <2> DEFINE r == Head(events).run
  <2>1. r \in Runs /\ Tail(events) \in Seq(QueueItem) /\ run[r] \in RunRecord
    BY <1>0, <1>1, <1>4 DEF TakeEvent
  <2>2. verifying' \in {Idle} \cup
          [stage : {"inspect", "fail"}, run : Runs, snap : RunRecord]
    <3> HIDE DEF r
    <3>1. QED
      BY <1>4, <2>1 DEF TakeEvent, r
  <2>3. QED
    BY <1>4, <2>1, <2>2 DEF TakeEvent, TypeOK, store, codex, caller, app
<1>5. CASE VerifyBoundary
  <2> DEFINE r == verifying.run
             rec == [run[r] EXCEPT !.status = "RECOVERY_REQUIRED",
                                   !.recovery = "RECONCILING"]
  <2>1. r \in Runs /\ run[r] \in RunRecord
    BY <1>2, <1>5 DEF VerifyBoundary
  <2>2. rec \in RunRecord
    BY <2>1 DEF RunRecord
  <2>3. ASSUME NEW found \in Boundary(run[r])
        PROVE  [run[r] EXCEPT !.integrity = found] \in RunRecord
    BY <2>1 DEF Boundary, RunRecord
  <2>4. RecoverProcessing(r) => run' \in [Runs -> RunRecord]
    BY <1>0, <2>1, <2>2, WriteTypes DEF RecoverProcessing
  <2>5. run' \in [Runs -> RunRecord]
    BY <1>5, <2>1, <2>3, <2>4, WriteTypes DEF VerifyBoundary
  <2>6. verifying' \in {Idle} \cup
          [stage : {"inspect", "fail"}, run : Runs, snap : RunRecord]
    <3>1. [stage |-> "fail", run |-> r, snap |-> NoRun]
            \in [stage : {"inspect", "fail"}, run : Runs, snap : RunRecord]
      BY <2>1
    <3>2. verifying' \in {Idle, [stage |-> "fail", run |-> r, snap |-> NoRun]}
      BY <1>5 DEF VerifyBoundary
    <3>3. QED
      BY <3>1, <3>2
  <2>7. QED
    BY <1>5, <2>5, <2>6 DEF VerifyBoundary, TypeOK, codex, caller, app
<1>6. CASE ReopenViolated
  <2> DEFINE r == verifying.run
  <2>1. r \in Runs /\ run[r] \in RunRecord
    BY <1>2, <1>6 DEF ReopenViolated
  <2>2. [run[r] EXCEPT !.status = "RECOVERY_REQUIRED",
                       !.recovery = "REQUIRES_USER_ACTION",
                       !.source = "REPOSITORY_INTEGRITY"] \in RunRecord
    BY <2>1 DEF RunRecord
  <2>3. run' \in [Runs -> RunRecord]
    BY <1>6, <2>1, <2>2, WriteTypes DEF ReopenViolated
  <2>4. QED
    BY <1>6, <2>3 DEF ReopenViolated, TypeOK, codex, queue, caller, app
<1>7. CASE FailViolated
  <2> DEFINE r == verifying.run
             delivery == IF run[r].status = "FAILED" THEN run[r].delivery
                         ELSE IF run[r].turnId THEN "TERMINAL"
                         ELSE "NOT_DELIVERED"
  <2>1. r \in Runs /\ run[r] \in RunRecord
    BY <1>2, <1>7 DEF FailViolated
  <2>2. delivery \in Delivery
    BY <2>1 DEF RunRecord
  <2>3. [run[r] EXCEPT !.status = "FAILED", !.delivery = delivery,
                       !.recovery = "NONE",
                       !.source = "REPOSITORY_INTEGRITY"] \in RunRecord
    <3> HIDE DEF delivery
    <3>1. QED
      BY <2>1, <2>2 DEF RunRecord
  <2>4. run' \in [Runs -> RunRecord]
    BY <1>0, <1>7, <2>1, <2>3, WriteTypes DEF FailViolated
  <2>5. QED
    BY <1>7, <2>4 DEF FailViolated, TypeOK, codex, caller, app
<1>8. QED
  BY <1>3, <1>4, <1>5, <1>6, <1>7 DEF EventQueue

LEMMA RecoveryTypes ==
  ASSUME TypeOK, Recovery
  PROVE  TypeOK'
<1>0. run \in [Runs -> RunRecord]
  BY DEF TypeOK
<1>1. CASE RecoverEnds \/ BeginReconcile \/ OpenService
  BY <1>1 DEF RecoverEnds, BeginReconcile, OpenService, TypeOK, Phases, store,
              codex, queue, caller
<1>2. ASSUME NEW r \in Runs, RecoverLoss(r)
      PROVE  TypeOK'
  <2>1. run' \in [Runs -> RunRecord]
    BY <1>0, <1>2, LossTypes, WriteTypes DEF RecoverLoss
  <2>2. events' \in Seq(QueueItem)
    BY <1>2, EmitTypes DEF RecoverLoss
  <2>3. QED
    BY <1>2, <2>1, <2>2 DEF RecoverLoss, TypeOK, codex, caller
<1>3. ASSUME NEW r \in Runs, ReconcileRun(r)
      PROVE  TypeOK'
  <2>1. pc' \in [Runs -> Labels]
    BY <1>3, GotoTypes DEF ReconcileRun, TypeOK, Labels
  <2>2. verifying' \in {Idle} \cup
          [stage : {"inspect", "fail"}, run : Runs, snap : RunRecord]
    BY <1>0, <1>3 DEF ReconcileRun, TypeOK
  <2>3. QED
    BY <1>3, <2>1, <2>2 DEF ReconcileRun, TypeOK, store, codex
<1>4. QED
  BY <1>1, <1>2, <1>3 DEF Recovery

LEMMA ShutdownTypes ==
  ASSUME TypeOK, Shutdown
  PROVE  TypeOK'
<1>0. server \in Servers
  BY DEF TypeOK
<1>1. CASE LatchShutdown
  BY <1>1 DEF LatchShutdown, TypeOK, Phases, codex, queue, caller
<1>2. CASE StopProvider
  <2>1. turn' \in [Runs -> TurnRecord]
    BY <1>2, StopTypes DEF StopProvider, TypeOK
  <2>2. process' \in {"none", "up", "down", "fenced"}
    BY <1>2 DEF StopProvider, TypeOK
  <2>3. QED
    BY <1>2, <2>1, <2>2 DEF StopProvider, TypeOK, Phases, store, queue, caller
<1>3. CASE SettleShutdown
  <2>1. SweepOf(server, process = "down", {}) \in {NoSweep} \cup SweepRecord
    <3>1. (process = "down") \in BOOLEAN
      OBVIOUS
    <3>2. QED
      BY <1>0, <3>1, SweepTypes
  <2>2. sweep' \in {NoSweep} \cup SweepRecord
    BY <1>3, <2>1 DEF SettleShutdown, TypeOK
  <2>3. QED
    BY <1>3, <2>2 DEF SettleShutdown, TypeOK, Phases, store, queue, caller
<1>4. CASE CloseStores
  BY <1>4 DEF CloseStores, Forget, TypeOK, Phases, store, caller
<1>5. QED
  BY <1>1, <1>2, <1>3, <1>4 DEF Shutdown

LEMMA EnvironmentTypes ==
  ASSUME TypeOK, Environment
  PROVE  TypeOK'
<1> USE BoundsAssumption
<1>0. /\ server \in Servers /\ repo \in Fingerprint
      /\ inbox \in Seq(Message) /\ turn \in [Runs -> TurnRecord]
  BY DEF TypeOK
<1>1. CASE ServerStarts
  BY <1>1 DEF ServerStarts, TypeOK, Servers, store, queue, caller, app
<1>2. CASE ServerExits
  <2>1. turn' \in [Runs -> TurnRecord]
    BY <1>0, <1>2, StopTypes DEF ServerExits
  <2>2. inbox' \in Seq(Message)
    BY <1>0, <1>2, MessageTypes DEF ServerExits
  <2>3. QED
    BY <1>2, <2>1, <2>2 DEF ServerExits, TypeOK, store, queue, caller, app
<1>3. CASE Edit
  BY <1>3 DEF Edit, TypeOK, Fingerprint, store, codex, queue, caller, app
<1>4. CASE BeginShutdown
  BY <1>4 DEF BeginShutdown, TypeOK, Phases, store, codex, queue, caller
<1>5. CASE Crash
  <2>1. turn' \in [Runs -> TurnRecord]
    BY <1>0, <1>5, StopTypes DEF Crash
  <2>2. pc' \in [Runs -> Labels]
    BY <1>5 DEF Crash, Labels
  <2>3. QED
    BY <1>5, <2>1, <2>2 DEF Crash, Forget, TypeOK, Phases, store
<1>6. CASE Restart
  BY <1>6 DEF Restart, Orphans, TypeOK, Phases, store, codex, queue, caller
<1>7. ASSUME NEW r \in Runs, ProviderEnds(r)
      PROVE  TypeOK'
  <2>1. PICK end \in TurnEnds :
          /\ turn' = [turn EXCEPT ![r].state = end, ![r].to = repo]
          /\ inbox' = IF Fenced(r) THEN inbox
                      ELSE Append(inbox, Notification(end, r))
    BY <1>7 DEF ProviderEnds
  <2>2. turn' \in [Runs -> TurnRecord]
    BY <1>0, <2>1 DEF TurnRecord, TurnEnds
  <2>3. inbox' \in Seq(Message)
    <3>1. Notification(end, r) \in Message
      BY MessageTypes
    <3>2. QED
      BY <1>0, <2>1, <3>1
  <2>4. QED
    BY <1>7, <2>2, <2>3 DEF ProviderEnds, TypeOK, store, queue, caller, app
<1>8. ASSUME NEW r \in Runs, DeadlineFires(r)
      PROVE  TypeOK'
  <2>1. inbox' \in Seq(Message)
    <3>1. Notification("deadline", r) \in Message
      BY MessageTypes
    <3>2. QED
      BY <1>0, <1>8, <3>1 DEF DeadlineFires
  <2>2. QED
    BY <1>8, <2>1 DEF DeadlineFires, TypeOK, store, queue, caller, app
<1>9. QED
  BY <1>1, <1>2, <1>3, <1>4, <1>5, <1>6, <1>7, <1>8 DEF Environment

LEMMA NextTypes == TypeOK /\ [Next]_vars => TypeOK'
<1> SUFFICES ASSUME TypeOK, [Next]_vars PROVE TypeOK'
  OBVIOUS
<1>1. CASE UNCHANGED vars
  BY <1>1 DEF vars, store, codex, queue, caller, app, TypeOK
<1>2. CASE Next
  BY <1>2, StartTypes, StopStepTypes, AdapterTypes, EventTypes, RecoveryTypes,
     ShutdownTypes, EnvironmentTypes DEF Next
<1>3. QED
  BY <1>1, <1>2

\* Every record, queue and control point keeps its type.
THEOREM TypeCorrect == Spec => []TypeOK
  BY InitTypes, NextTypes, PTL DEF Spec
-----------------------------------------------------------------------------
(* A prompt is sent at most once.                                          *)

\* Every step but Submit leaves the number of prompts sent as it is, and no
\* step makes a call one that has yet to send.
SendsNothing ==
  \A r \in Runs :
    /\ turn'[r].sent = turn[r].sent
    /\ pc'[r] \in BeforeSend => pc[r] \in BeforeSend

LEMMA StopTurnsSendNothing ==
  ASSUME TypeOK, NEW s, StopTurnsOf(s)
  PROVE  \A r \in Runs : turn'[r].sent = turn[r].sent
<1>1. \A r \in Runs :
        [turn[r] EXCEPT !.state = "stopped", !.to = repo].sent = turn[r].sent
  BY DEF TypeOK, TurnRecord
<1>2. QED
  BY <1>1 DEF StopTurnsOf

LEMMA StartSendsNothing ==
  ASSUME TypeOK, NEW r \in Runs, Start(r), ~Submit(r)
  PROVE  SendsNothing
<1>1. turn' = turn /\ \E label : Goto(r, label)
  <2>1. CASE StartFails(r)
    BY <2>1 DEF StartFails, GiveUp
  <2>2. CASE SubmitFails(r)
    BY <2>2 DEF SubmitFails
  <2>3. CASE ~StartFails(r) /\ ~SubmitFails(r)
    BY <2>3 DEF Start, PrepareTurn, LeaseTurn, InspectBefore, InspectBeforeFails,
                MarkStarting, Response, ResponseLost, DrainInbound, PersistAck,
                PersistAckConflict, StartFailsConflict, GiveUp,
                SettleFailedStart, VerifyFailedStart
  <2>4. QED
    BY <2>1, <2>2, <2>3
<1>2. pc[r] \notin BeforeSend => pc'[r] \notin BeforeSend
  BY DEF Start, BeforeSend, Goto, TypeOK, PrepareTurn, LeaseTurn, InspectBefore,
         InspectBeforeFails, MarkStarting, SubmitFails, Response, ResponseLost,
         DrainInbound, PersistAck, PersistAckConflict, StartFails,
         StartFailsConflict, GiveUp, SettleFailedStart, VerifyFailedStart
<1>3. \A q \in Runs \ {r} : pc'[q] = pc[q]
  BY <1>1 DEF Goto, TypeOK
<1>4. QED
  BY <1>1, <1>2, <1>3 DEF SendsNothing

LEMMA StopSendsNothing ==
  ASSUME TypeOK, NEW r \in Runs, Stop(r)
  PROVE  SendsNothing
<1>1. turn \in [Runs -> TurnRecord] /\ pc \in [Runs -> Labels]
  BY DEF TypeOK
<1>2. ASSUME NEW b \in BOOLEAN, turn' = [turn EXCEPT ![r].asked = b]
      PROVE  \A q \in Runs : turn'[q].sent = turn[q].sent
  BY <1>1, <1>2 DEF TurnRecord
<1>3. CASE InterruptDelivered(r)
  BY <1>1, <1>2, <1>3 DEF InterruptDelivered, SendsNothing, BeforeSend, Goto
<1>4. CASE InterruptFails(r)
  <2>1. \/ \E b \in BOOLEAN : turn' = [turn EXCEPT ![r].asked = b]
        \/ turn' = turn
    BY <1>1, <1>4 DEF InterruptFails, TurnRecord
  <2>2. \A q \in Runs : pc'[q] \in BeforeSend => pc[q] \in BeforeSend
    BY <1>1, <1>4 DEF InterruptFails, Goto, BeforeSend
  <2>3. QED
    BY <1>2, <2>1, <2>2 DEF SendsNothing
<1>5. CASE \/ WaitEnds(r) \/ WaitFails(r) \/ InterruptReopen(r)
           \/ InterruptIntent(r) \/ InterruptRefused(r) \/ InterruptAcked(r)
           \/ ConfirmEnds(r) \/ AwaitEvents(r) \/ FinishTurn(r) \/ Purge(r)
           \/ ReleaseFails(r)
  BY <1>1, <1>5
     DEF SendsNothing, BeforeSend, Goto, WaitEnds, WaitFails, InterruptReopen,
         InterruptIntent, InterruptRefused, InterruptAcked, ConfirmEnds,
         AwaitEvents, FinishTurn, Purge, ReleaseFails, caller
<1>6. QED
  BY <1>3, <1>4, <1>5 DEF Stop

LEMMA AdapterSendsNothing ==
  ASSUME TypeOK, Adapter
  PROVE  SendsNothing
<1>1. CASE HandleDeadline
  BY <1>1, StopTurnsSendNothing DEF HandleDeadline, SendsNothing, caller
<1>2. CASE CompletedConflict
  BY <1>2 DEF CompletedConflict, GiveUp, Goto, SendsNothing, BeforeSend, TypeOK
<1>3. CASE ~HandleDeadline /\ ~CompletedConflict
  BY <1>3 DEF Adapter, SendsNothing, caller, HandleStarted, HandleCompletedAck,
              HandleCompleted, HandleExit, HandleDeadlineLate,
              HandleSettleStopped, HandleSettleUncertain, SweepEnds, SweepRun,
              SweepAborts
<1>4. QED
  BY <1>1, <1>2, <1>3

LEMMA EventsSendNothing ==
  ASSUME TypeOK, EventQueue
  PROVE  SendsNothing
  BY DEF EventQueue, TypeOK, SendsNothing, BeforeSend, Goto, caller,
         ReachBarrier, TakeEvent, VerifyBoundary, ReopenViolated, FailViolated

LEMMA RecoverySendsNothing ==
  ASSUME TypeOK, Recovery
  PROVE  SendsNothing
  BY DEF Recovery, TypeOK, SendsNothing, BeforeSend, Goto, caller, RecoverEnds,
         BeginReconcile, OpenService, RecoverLoss, ReconcileRun

LEMMA ShutdownSendsNothing ==
  ASSUME TypeOK, Shutdown
  PROVE  SendsNothing
<1>1. CASE StopProvider
  BY <1>1, StopTurnsSendNothing DEF StopProvider, SendsNothing, caller
<1>2. CASE LatchShutdown \/ SettleShutdown \/ CloseStores
  BY <1>2 DEF LatchShutdown, SettleShutdown, CloseStores, SendsNothing, caller
<1>3. QED
  BY <1>1, <1>2 DEF Shutdown

LEMMA EnvironmentSendsNothing ==
  ASSUME TypeOK, Environment
  PROVE  SendsNothing
<1>1. CASE ServerExits
  BY <1>1, StopTurnsSendNothing DEF ServerExits, SendsNothing, caller
<1>2. CASE Crash
  BY <1>2, StopTurnsSendNothing DEF Crash, SendsNothing, BeforeSend
<1>3. ASSUME NEW r \in Runs, ProviderEnds(r)
      PROVE  SendsNothing
  BY <1>3 DEF ProviderEnds, SendsNothing, TypeOK, TurnRecord, caller
<1>4. CASE \/ ServerStarts \/ Edit \/ BeginShutdown \/ Restart
           \/ \E r \in Runs : DeadlineFires(r)
  BY <1>4 DEF ServerStarts, Edit, BeginShutdown, Restart, DeadlineFires,
              SendsNothing, caller
<1>5. QED
  BY <1>1, <1>2, <1>3, <1>4 DEF Environment

LEMMA SendInvStep == TypeOK /\ SendInv /\ [Next]_vars => SendInv'
<1> SUFFICES ASSUME TypeOK, SendInv, [Next]_vars PROVE SendInv'
  OBVIOUS
<1>1. ASSUME NEW r \in Runs, Submit(r)
      PROVE  SendInv'
  <2>1. turn[r].sent = 0
    BY <1>1 DEF Submit, SendInv, BeforeSend
  <2>2. turn'[r].sent = 1 /\ \A q \in Runs \ {r} : turn'[q] = turn[q]
    BY <1>1, <2>1 DEF Submit, TypeOK, TurnRecord
  <2>3. pc'[r] = "sent" /\ \A q \in Runs \ {r} : pc'[q] = pc[q]
    BY <1>1 DEF Submit, Goto, TypeOK
  <2>4. QED
    BY <2>2, <2>3 DEF SendInv, SentAtMostOnce, BeforeSend
<1>2. SendsNothing => SendInv'
  BY DEF SendsNothing, SendInv, SentAtMostOnce
<1>3. CASE UNCHANGED vars
  BY <1>3 DEF vars, caller, SendInv, SentAtMostOnce
<1>4. CASE Next
  BY <1>1, <1>2, <1>4, StartSendsNothing, StopSendsNothing, AdapterSendsNothing,
     EventsSendNothing, RecoverySendsNothing, ShutdownSendsNothing,
     EnvironmentSendsNothing DEF Next
<1>5. QED
  BY <1>3, <1>4

\* A prompt reaches the provider at most once, whatever fails and restarts.
THEOREM AtMostOnceTheorem == Spec => []SentAtMostOnce
<1>1. Init => SendInv
  BY DEF Init, NoTurn, SendInv, SentAtMostOnce
<1>2. SendInv => SentAtMostOnce
  BY DEF SendInv
<1>3. QED
  BY <1>1, <1>2, SendInvStep, TypeCorrect, PTL DEF Spec

=============================================================================
