---------------------- MODULE TransientTurnSafetyProofs ----------------------
(***************************************************************************)
(* TransientTurn keeps TurnInv, and what follows: an ended record means    *)
(* that the turn stopped, an answer is verified, the store refuses no      *)
(* update and the module implements OneShotTurn.                           *)
(*                                                                         *)
(* The argument has three layers.  Good says what one step makes of one    *)
(* run; a lemma per action proves it (SameGood .. NextGood).  From there,  *)
(* each part of the invariant that relates runs to servers, messages,      *)
(* deadlines and queues is a lemma on how a step moves that part (Step).   *)
(* TurnInvStep puts them together.                                         *)
(***************************************************************************)
EXTENDS TransientTurnProofs, TransientTurnInvariant, SequenceTheorems

-----------------------------------------------------------------------------
(* One run: each action leaves its record, its call and its turn coherent. *)

\* How any step may move the call, the turn and the record of a run.
Course(r) ==
  /\ pc[r] \notin NotYetSent =>
       pc'[r] \notin NotYetSent /\ turn'[r].server = turn[r].server
  /\ pc[r] \notin Untimed => pc'[r] \notin Untimed
  /\ pc'[r] \in Open => pc[r] \in Open \cup {"starting"}
  /\ turn[r].sent = 1 => turn'[r].sent = 1
  /\ Ended(r) => /\ turn'[r].state = turn[r].state
                 /\ turn'[r].from = turn[r].from /\ turn'[r].to = turn[r].to
  /\ Running(r)' => \/ Running(r)
                    \/ process = "up" /\ turn'[r].server = server
  /\ pc[r] \notin Untimed /\ run[r].status # "STARTING" =>
       run'[r].status # "STARTING" /\ run'[r].server \in {0, run[r].server}

\* The store accepts the update, which leaves a sound record.
Legal(old, new) ==
  /\ Sound(new)
  /\ new \in {old, NoRun} \/ (Allowed(old, new) /\ Consistent(new))

Same(r) ==
  /\ run'[r] = run[r] /\ entry'[r] = entry[r]
  /\ pc'[r] = pc[r] /\ outcome'[r] = outcome[r] /\ turn'[r] = turn[r]

Onward == server' \in {server, server + 1} /\ repo' \in {repo, repo + 1}

Good(r) == Coherent(r)' /\ Course(r) /\ Legal(run[r], run'[r])

\* The numbers of servers and of repository states, wherever they are kept.
LEMMA Numbers ==
  ASSUME TypeOK, NEW r \in Runs
  PROVE  /\ server \in Nat /\ repo \in Nat
         /\ run[r].before \in Nat /\ run[r].server \in Nat
         /\ turn[r].server \in Nat /\ turn[r].from \in Nat /\ turn[r].to \in Nat
<1>1. run[r] \in RunRecord /\ turn[r] \in TurnRecord
  BY DEF TypeOK
<1>2. Servers \subseteq Nat /\ Fingerprint \subseteq Nat
  BY BoundsAssumption DEF Servers, Fingerprint
<1>3. server \in Servers /\ repo \in Fingerprint
  BY DEF TypeOK
<1>4. QED
  BY <1>1, <1>2, <1>3 DEF RunRecord, TurnRecord

\* The record of a run that is not there.
LEMMA NoRunSound == Sound(NoRun)
  BY DEF Sound, Consistent, NoRun, Terminal, TerminalStatus, Recovering

\* A step that leaves a run alone, whatever happens to the servers and to the
\* repository.
LEMMA SameGood ==
  ASSUME TypeOK, NEW r \in Runs, Coherent(r), Same(r), Onward
  PROVE  Good(r)
<1>1. StatusAt(r)' /\ FieldsAt(r)' /\ TellsTrue(r)' /\ Sound(run[r])'
  BY DEF Same, Coherent, StatusAt, FieldsAt, TellsTrue, Running, Sound
<1>2. History(r)' /\ SentTo(r)'
  BY Numbers DEF Same, Onward, Coherent, History, SentTo, Ended, Running
<1>3. Course(r) /\ Legal(run[r], run'[r])
  BY <1>1 DEF Same, Course, Running, Ended, Legal
<1>4. QED
  BY <1>1, <1>2, <1>3 DEF Coherent, Good

\* Every step by which a caller starts its own turn.
LEMMA StartGood ==
  ASSUME TypeOK, TurnInv, NEW r \in Runs, Start(r)
  PROVE  Good(r)
<1>0. Coherent(r) /\ run[r] \in RunRecord /\ turn[r] \in TurnRecord
      /\ run \in [Runs -> RunRecord] /\ turn \in [Runs -> TurnRecord]
      /\ pc \in [Runs -> Labels]
      /\ entry \in [Runs -> {"NONE", "QUEUED", "LEASED", "SETTLED"}]
      /\ outcome \in [Runs -> {"none", "output", "error"}]
  BY DEF TurnInv, RunsCoherent, TypeOK
<1> USE DEF NotYetSent, Untimed, BeforeSend, Open, Over, TerminalStatus,
            Terminal, Recovering, Running, Ended
<1>1. CASE InspectBefore(r)
  <2>1. /\ run'[r] = [run[r] EXCEPT !.integrity = "PENDING", !.before = repo]
        /\ pc'[r] = "inspected" /\ entry'[r] = entry[r]
        /\ outcome'[r] = outcome[r] /\ turn'[r] = turn[r]
        /\ repo' = repo /\ server' = server /\ pc[r] = "leased"
    BY <1>0, <1>1 DEF InspectBefore, Write, Goto, app, codex
  <2>2. Legal(run[r], run'[r])
    BY <1>0, <2>1
       DEF Coherent, Legal, Sound, Consistent, StatusAt, RunRecord, Allowed,
           InterruptAllowed
  <2>3. StatusAt(r)' /\ FieldsAt(r)' /\ Course(r)
    BY <1>0, <2>1 DEF Coherent, StatusAt, FieldsAt, Course, RunRecord
  <2>4. History(r)' /\ TellsTrue(r)' /\ SentTo(r)'
    BY <1>0, <2>1, Numbers
       DEF Coherent, StatusAt, FieldsAt, History, TellsTrue, SentTo, RunRecord
  <2>5. QED
    BY <2>2, <2>3, <2>4 DEF Good, Coherent, Legal
<1>2. CASE Submit(r)
  <2>1. /\ run'[r] = run[r]
        /\ pc'[r] = "sent" /\ entry'[r] = entry[r] /\ outcome'[r] = outcome[r]
        /\ turn'[r] = [turn[r] EXCEPT !.state = "active", !.sent = @ + 1,
                                      !.server = server, !.from = repo]
        /\ repo' = repo /\ server' = server /\ process = "up"
        /\ pc[r] = "starting"
    BY <1>0, <1>2 DEF Submit, Goto, app, codex, store
  <2>2. Legal(run[r], run'[r])
    BY <1>0, <2>1 DEF Coherent, Legal
  <2>3. StatusAt(r)' /\ FieldsAt(r)' /\ Course(r)
    BY <1>0, <2>1
       DEF Coherent, StatusAt, FieldsAt, Course, RunRecord, TurnRecord, History
  <2>4. History(r)' /\ TellsTrue(r)' /\ SentTo(r)'
    BY <1>0, <2>1, Numbers
       DEF TurnInv, ServersOrdered, Coherent, StatusAt, FieldsAt, History,
           TellsTrue, SentTo, RunRecord, TurnRecord
  <2>5. QED
    BY <2>2, <2>3, <2>4 DEF Good, Coherent, Legal
<1>3. CASE PersistAck(r)
  <2>0. /\ pc'[r] = "waiting" /\ entry'[r] = entry[r]
        /\ outcome'[r] = outcome[r]
        /\ turn'[r] = turn[r]
        /\ repo' = repo /\ server' = server /\ pc[r] = "acked"
    BY <1>0, <1>3 DEF PersistAck, Goto, app, codex, store
  <2>1. CASE run' = run /\ run[r].status \in {"RUNNING"} \cup Over
    <3>2. Legal(run[r], run'[r])
      BY <1>0, <2>0, <2>1 DEF Coherent, Legal
    <3>3. StatusAt(r)' /\ FieldsAt(r)' /\ Course(r)
      BY <1>0, <2>0, <2>1 DEF Coherent, StatusAt, FieldsAt, Course
    <3>4. History(r)' /\ TellsTrue(r)' /\ SentTo(r)'
      BY <1>0, <2>0, <2>1
         DEF Coherent, StatusAt, FieldsAt, History, TellsTrue, SentTo
    <3>5. QED
      BY <3>2, <3>3, <3>4 DEF Good, Coherent, Legal
  <2>2. CASE /\ run'[r] = [run[r] EXCEPT !.status = "RUNNING", !.delivery = "ACKNOWLEDGED",
                              !.turnId = TRUE, !.server = turn[r].server]
             /\ Allowed(run[r], run'[r]) /\ ~Terminal(run[r])
    <3>1. Sound(run'[r])
      BY <1>0, <2>0, <2>2
         DEF Coherent, Sound, Consistent, StatusAt, RunRecord, SentTo, History
    <3>2. Legal(run[r], run'[r])
      BY <1>0, <3>1, <2>2 DEF Coherent, Legal, Sound
    <3>3. StatusAt(r)' /\ FieldsAt(r)' /\ Course(r)
      BY <1>0, <2>0, <2>2 DEF Coherent, StatusAt, FieldsAt, Course, RunRecord
    <3>4. History(r)' /\ TellsTrue(r)' /\ SentTo(r)'
      BY <1>0, <2>0, <2>2, Numbers
         DEF Coherent, StatusAt, FieldsAt, History, TellsTrue, SentTo,
             RunRecord
    <3>5. QED
      BY <3>2, <3>3, <3>4 DEF Good, Coherent, Legal
  <2>3. QED
    BY <1>0, <1>3, <2>1, <2>2 DEF PersistAck, Write
<1>4. CASE \/ SubmitFails(r) \/ Response(r) \/ ResponseLost(r) \/ DrainInbound(r)
           \/ PersistAckConflict(r) \/ StartFailsConflict(r)
  <2>1. /\ run'[r] = run[r] /\ entry'[r] = entry[r]
        /\ turn'[r] = turn[r]
        /\ repo' = repo /\ server' = server
    BY <1>0, <1>4
       DEF SubmitFails, Response, ResponseLost, DrainInbound,
           PersistAckConflict, StartFailsConflict, store, codex, app, GiveUp
  <2>2. Legal(run[r], run'[r])
    BY <1>0, <2>1 DEF Coherent, Legal
  <2>3. StatusAt(r)' /\ FieldsAt(r)' /\ Course(r)
    BY <1>0, <1>4, <2>1
       DEF Coherent, StatusAt, FieldsAt, Course, SubmitFails, Response,
           ResponseLost, DrainInbound, PersistAckConflict, StartFailsConflict,
           GiveUp, Goto
  <2>4. History(r)' /\ TellsTrue(r)' /\ SentTo(r)'
    BY <1>0, <1>4, <2>1
       DEF Coherent, StatusAt, FieldsAt, History, TellsTrue, SentTo,
           SubmitFails, Response, ResponseLost, DrainInbound,
           PersistAckConflict, StartFailsConflict, GiveUp, Goto
  <2>5. QED
    BY <2>2, <2>3, <2>4 DEF Good, Coherent, Legal
<1>5. CASE PrepareTurn(r)
  <2>1. /\ run'[r] = [NoRun EXCEPT !.status = "QUEUED"]
        /\ pc'[r] = "prepared" /\ entry'[r] = "QUEUED"
        /\ outcome'[r] = outcome[r] /\ turn'[r] = turn[r]
        /\ repo' = repo /\ server' = server /\ pc[r] = "idle"
    BY <1>0, <1>5 DEF PrepareTurn, Write, Goto, app, codex
  <2>2. Legal(run[r], run'[r])
    BY <1>0, <2>1 DEF Coherent, Legal, Sound, Consistent, StatusAt, Allowed,
                      InterruptAllowed, NoRun, StatusTransitions, Status
  <2>3. StatusAt(r)' /\ FieldsAt(r)' /\ Course(r)
    BY <1>0, <2>1 DEF Coherent, StatusAt, FieldsAt, Course, NoRun
  <2>4. History(r)' /\ TellsTrue(r)' /\ SentTo(r)'
    BY <1>0, <2>1, Numbers
       DEF Coherent, StatusAt, FieldsAt, History, TellsTrue, SentTo, NoRun
  <2>5. QED
    BY <2>2, <2>3, <2>4 DEF Good, Coherent, Legal
<1>6. CASE LeaseTurn(r) \/ SettleFailedStart(r)
  <2>1. /\ run'[r] = run[r] /\ turn'[r] = turn[r]
        /\ repo' = repo /\ server' = server
    BY <1>0, <1>6 DEF LeaseTurn, SettleFailedStart, codex, app
  <2>2. Legal(run[r], run'[r])
    BY <1>0, <2>1 DEF Coherent, Legal
  <2>3. StatusAt(r)' /\ FieldsAt(r)' /\ Course(r)
    BY <1>0, <1>6, <2>1
       DEF Coherent, StatusAt, FieldsAt, Course, LeaseTurn, SettleFailedStart,
           Goto
  <2>4. History(r)' /\ TellsTrue(r)' /\ SentTo(r)'
    BY <1>0, <1>6, <2>1 DEF Coherent, StatusAt, FieldsAt, History, TellsTrue,
                            SentTo, LeaseTurn, SettleFailedStart, Goto
  <2>5. QED
    BY <2>2, <2>3, <2>4 DEF Good, Coherent, Legal
<1>7. CASE InspectBeforeFails(r)
  <2>1. /\ run'[r] = [run[r] EXCEPT !.status = "FAILED",
                        !.delivery = "NOT_DELIVERED",
                        !.source = "REPOSITORY_INTEGRITY",
                        !.integrity = "UNVERIFIABLE"]
        /\ pc'[r] = "startFailed" /\ entry'[r] = entry[r]
        /\ outcome'[r] = outcome[r] /\ turn'[r] = turn[r]
        /\ repo' = repo /\ server' = server /\ pc[r] = "leased"
    BY <1>0, <1>7 DEF InspectBeforeFails, Write, Goto, app, codex
  <2>2. Legal(run[r], run'[r])
    BY <1>0, <2>1
       DEF Coherent, Legal, Sound, Consistent, StatusAt, RunRecord, Allowed,
           InterruptAllowed, StatusTransitions, DeliveryTransitions, Status,
           Delivery
  <2>3. StatusAt(r)' /\ FieldsAt(r)' /\ Course(r)
    BY <1>0, <2>1 DEF Coherent, StatusAt, FieldsAt, Course, RunRecord
  <2>4. History(r)' /\ TellsTrue(r)' /\ SentTo(r)'
    BY <1>0, <2>1 DEF Coherent, StatusAt, FieldsAt, History, TellsTrue, SentTo,
                      RunRecord
  <2>5. QED
    BY <2>2, <2>3, <2>4 DEF Good, Coherent, Legal
<1>8. CASE MarkStarting(r)
  <2>1. /\ run'[r] = [run[r] EXCEPT !.status = "STARTING", !.delivery = "SENDING"]
        /\ pc'[r] = "starting" /\ entry'[r] = entry[r]
        /\ outcome'[r] = outcome[r] /\ turn'[r] = turn[r]
        /\ repo' = repo /\ server' = server /\ pc[r] = "inspected"
    BY <1>0, <1>8 DEF MarkStarting, Write, Goto, app, codex
  <2>2. Legal(run[r], run'[r])
    BY <1>0, <2>1
       DEF Coherent, Legal, Sound, Consistent, StatusAt, RunRecord, Allowed,
           InterruptAllowed, StatusTransitions, DeliveryTransitions, Status,
           Delivery
  <2>3. StatusAt(r)' /\ FieldsAt(r)' /\ Course(r)
    BY <1>0, <2>1 DEF Coherent, StatusAt, FieldsAt, Course, RunRecord
  <2>4. History(r)' /\ TellsTrue(r)' /\ SentTo(r)'
    BY <1>0, <2>1 DEF Coherent, StatusAt, FieldsAt, History, TellsTrue, SentTo,
                      RunRecord
  <2>5. QED
    BY <2>2, <2>3, <2>4 DEF Good, Coherent, Legal
<1>9. CASE StartFails(r)
  <2>1. /\ entry'[r] = entry[r] /\ turn'[r] = turn[r]
        /\ repo' = repo /\ server' = server
        /\ pc[r] \in {"notDelivered", "ambiguous"}
    BY <1>9 DEF StartFails, codex, app
  <2>2. CASE run'[r] = run[r] /\ run[r].status \in {"RUNNING"} \cup Over
    <3>1. Legal(run[r], run'[r])
      BY <1>0, <2>2 DEF Coherent, Legal
    <3>2. StatusAt(r)' /\ FieldsAt(r)' /\ Course(r)
      BY <1>0, <1>9, <2>1, <2>2
         DEF Coherent, StatusAt, FieldsAt, Course, StartFails, GiveUp, Goto
    <3>3. History(r)' /\ TellsTrue(r)' /\ SentTo(r)'
      BY <1>0, <1>9, <2>1, <2>2
         DEF Coherent, StatusAt, FieldsAt, History, TellsTrue, SentTo,
             StartFails,
             GiveUp, Goto
    <3>4. QED
      BY <3>1, <3>2, <3>3 DEF Good, Coherent, Legal
  <2>3. CASE /\ pc[r] = "ambiguous" /\ run[r].status = "STARTING"
             /\ run'[r] = Uncertain(run[r])
             /\ pc'[r] = "done" /\ outcome'[r] = "error"
    <3>1. Legal(run[r], run'[r])
      BY <1>0, <2>3
         DEF Uncertain, Coherent, Legal, Sound, Consistent, RunRecord,
             Allowed, InterruptAllowed, StatusTransitions, DeliveryTransitions,
             Status, Delivery
    <3>2. StatusAt(r)' /\ FieldsAt(r)' /\ Course(r)
      BY <1>0, <2>1, <2>3 DEF Uncertain, StatusAt, FieldsAt, Course, RunRecord
    <3>3. History(r)' /\ TellsTrue(r)' /\ SentTo(r)'
      BY <1>0, <2>1, <2>3
         DEF Uncertain, Coherent, History, TellsTrue, SentTo, RunRecord
    <3>4. QED
      BY <3>1, <3>2, <3>3 DEF Good, Coherent, Legal
  <2>4. CASE /\ pc[r] = "notDelivered" /\ run[r].status = "STARTING"
             /\ run'[r] = [run[r] EXCEPT !.status = "FAILED",
                                         !.delivery = "NOT_DELIVERED"]
             /\ pc'[r] = "startFailed" /\ outcome'[r] = outcome[r]
    <3>1. Legal(run[r], run'[r])
      BY <1>0, <2>4
         DEF Coherent, Legal, Sound, Consistent, RunRecord, Allowed,
             InterruptAllowed, StatusTransitions, DeliveryTransitions, Status,
             Delivery
    <3>2. StatusAt(r)' /\ FieldsAt(r)' /\ Course(r)
      BY <1>0, <2>1, <2>4 DEF Coherent, StatusAt, FieldsAt, Course, RunRecord
    <3>3. History(r)' /\ TellsTrue(r)' /\ SentTo(r)'
      BY <1>0, <2>1, <2>4
         DEF Coherent, History, FieldsAt, TellsTrue, SentTo, RunRecord
    <3>4. QED
      BY <3>1, <3>2, <3>3 DEF Good, Coherent, Legal
  <2>5. run[r].status \in {"STARTING", "RUNNING"} \cup Over
    BY <1>0, <2>1 DEF Coherent, StatusAt
  <2>6. QED
    BY <1>0, <1>9, <2>2, <2>3, <2>4, <2>5 DEF StartFails, GiveUp, Write, Goto
<1>10. CASE VerifyFailedStart(r)
  <2>1. /\ pc'[r] = "finishing" /\ entry'[r] = entry[r]
        /\ outcome'[r] = outcome[r] /\ turn'[r] = turn[r]
        /\ repo' = repo /\ server' = server /\ pc[r] = "startSettled"
    BY <1>0, <1>10 DEF VerifyFailedStart, Goto, app, codex
  <2>2. /\ run'[r].status = run[r].status /\ run'[r].delivery = run[r].delivery
        /\ run'[r].turnId = run[r].turnId /\ run'[r].server = run[r].server
        /\ run'[r].interrupt = run[r].interrupt
        /\ run'[r].before = run[r].before
    <3>1. CASE run[r].integrity = "PENDING"
      <4>1. PICK found \in Boundary(run[r]) :
              run'[r] = [run[r] EXCEPT !.integrity = found,
                           !.source = IF found = "UNCHANGED" THEN @
                                      ELSE "REPOSITORY_INTEGRITY"]
        BY <1>0, <1>10, <3>1 DEF VerifyFailedStart, Write
      <4>2. QED
        BY <1>0, <4>1 DEF RunRecord
    <3>2. CASE run[r].integrity # "PENDING"
      BY <1>10, <3>2 DEF VerifyFailedStart
    <3>3. QED
      BY <3>1, <3>2
  <2>3. run[r].status = "FAILED" /\ turn[r].sent = 0
    BY <1>0, <2>1 DEF Coherent, StatusAt, History
  <2>4. Legal(run[r], run'[r])
    BY <1>0, <2>2, <2>3
       DEF Coherent, Legal, Sound, Consistent, Allowed, InterruptAllowed
  <2>5. StatusAt(r)' /\ FieldsAt(r)' /\ Course(r)
    BY <1>0, <2>1, <2>2, <2>3 DEF Coherent, StatusAt, FieldsAt, Course
  <2>6. History(r)' /\ TellsTrue(r)' /\ SentTo(r)'
    BY <1>0, <2>1, <2>2, <2>3 DEF Coherent, StatusAt, History, TellsTrue, SentTo
  <2>7. QED
    BY <2>4, <2>5, <2>6 DEF Good, Coherent, Legal
<1>11. QED
  BY <1>1, <1>2, <1>3, <1>4, <1>5, <1>6, <1>7, <1>8, <1>9, <1>10 DEF Start

\* A turn is read by its caller only when what the record says of it is so.
LEMMA ReadIsClean ==
  ASSUME TurnInv, NEW r \in Runs, pc[r] = "waiting", run[r].status = "COMPLETED",
         run[r].integrity = "UNCHANGED"
  PROVE  turn[r].state = "completed" /\ turn[r].from = turn[r].to
<1>1. ~Unheard(r)
  BY DEF Unheard
<1>2. QED
  BY <1>1 DEF TurnInv, RunsCoherent, Coherent, TellsTrue, FoundUnchanged, Open

\* Every step by which a caller waits for its turn, stops it or finishes it.
LEMMA StopGood ==
  ASSUME TypeOK, TurnInv, NEW r \in Runs, Stop(r)
  PROVE  Good(r)
<1>0. Coherent(r) /\ run[r] \in RunRecord /\ turn[r] \in TurnRecord
      /\ run \in [Runs -> RunRecord] /\ turn \in [Runs -> TurnRecord]
      /\ pc \in [Runs -> Labels]
      /\ entry \in [Runs -> {"NONE", "QUEUED", "LEASED", "SETTLED"}]
      /\ outcome \in [Runs -> {"none", "output", "error"}]
  BY DEF TurnInv, RunsCoherent, TypeOK
<1> USE DEF NotYetSent, Untimed, BeforeSend, Open, Over, TerminalStatus,
            Terminal, Recovering, Running, Ended
<1>1. CASE \/ WaitFails(r) \/ InterruptRefused(r) \/ ConfirmEnds(r) \/ AwaitEvents(r)
           \/ FinishTurn(r) \/ ReleaseFails(r)
  <2>1. /\ run'[r] = run[r] /\ turn'[r] = turn[r]
        /\ repo' = repo /\ server' = server
    BY <1>1
       DEF WaitFails, InterruptRefused, ConfirmEnds, AwaitEvents, FinishTurn,
                ReleaseFails, store, codex, app
  <2>2. Legal(run[r], run'[r])
    BY <1>0, <2>1 DEF Coherent, Legal
  <2>3. StatusAt(r)' /\ FieldsAt(r)' /\ Course(r)
    BY <1>0, <1>1, <2>1
       DEF Coherent, StatusAt, FieldsAt, Course, WaitFails, InterruptRefused,
           ConfirmEnds, AwaitEvents, FinishTurn, ReleaseFails, Goto
  <2>4. History(r)' /\ TellsTrue(r)' /\ SentTo(r)'
    BY <1>0, <1>1, <2>1
       DEF Coherent, History, TellsTrue, SentTo, WaitFails, InterruptRefused,
           ConfirmEnds, AwaitEvents, FinishTurn, ReleaseFails, Goto, store
  <2>5. QED
    BY <2>2, <2>3, <2>4 DEF Good, Coherent, Legal
<1>2. CASE WaitEnds(r)
  <2>1. /\ run'[r] = run[r] /\ turn'[r] = turn[r] /\ entry'[r] = entry[r]
        /\ repo' = repo /\ server' = server
        /\ pc[r] = "waiting" /\ pc'[r] = "finishing"
        /\ outcome'[r] = IF run[r].status = "COMPLETED" THEN "output" ELSE "error"
    BY <1>0, <1>2 DEF WaitEnds, Goto, store, codex, app
  <2>2. run[r].status = "COMPLETED" => run[r].integrity = "UNCHANGED"
    BY <1>2 DEF WaitEnds, Readable
  <2>3. Legal(run[r], run'[r])
    BY <1>0, <2>1 DEF Coherent, Legal
  <2>4. StatusAt(r)' /\ FieldsAt(r)' /\ Course(r)
    BY <1>0, <2>1 DEF Coherent, StatusAt, FieldsAt, Course
  <2>5. History(r)' /\ TellsTrue(r)' /\ SentTo(r)'
    BY <1>0, <2>1, <2>2, ReadIsClean DEF Coherent, History, TellsTrue, SentTo
  <2>6. QED
    BY <2>3, <2>4, <2>5 DEF Good, Coherent, Legal
<1>3. CASE InterruptReopen(r)
  <2>1. /\ run'[r] = [run[r] EXCEPT !.status = "RUNNING", !.interrupt = "NONE",
                                    !.recovery = "NONE"]
        /\ pc'[r] = "stopping" /\ entry'[r] = entry[r]
        /\ outcome'[r] = outcome[r] /\ turn'[r] = turn[r]
        /\ repo' = repo /\ server' = server /\ pc[r] = "stopping"
        /\ run[r].status = "RECOVERY_REQUIRED"
        /\ run[r].delivery = "ACKNOWLEDGED"
    BY <1>0, <1>3 DEF InterruptReopen, Write, app, codex, caller
  <2>2. Legal(run[r], run'[r])
    BY <1>0, <2>1
       DEF Coherent, Legal, Sound, Consistent, RunRecord, Allowed,
           InterruptAllowed, StatusTransitions, Status
  <2>3. StatusAt(r)' /\ FieldsAt(r)' /\ Course(r)
    BY <1>0, <2>1 DEF Coherent, StatusAt, FieldsAt, Course, RunRecord
  <2>4. History(r)' /\ TellsTrue(r)' /\ SentTo(r)'
    BY <1>0, <2>1 DEF Coherent, History, TellsTrue, SentTo, RunRecord
  <2>5. QED
    BY <2>2, <2>3, <2>4 DEF Good, Coherent, Legal
<1>4. CASE InterruptIntent(r)
  <2>1. /\ run'[r] = [run[r] EXCEPT !.status = "INTERRUPTING",
                                    !.interrupt = "SENDING"]
        /\ pc'[r] = "interrupting" /\ entry'[r] = entry[r]
        /\ outcome'[r] = outcome[r] /\ turn'[r] = turn[r]
        /\ repo' = repo /\ server' = server /\ pc[r] = "stopping"
        /\ run[r].status = "RUNNING"
    BY <1>0, <1>4 DEF InterruptIntent, Write, Goto, app, codex
  <2>2. Legal(run[r], run'[r])
    BY <1>0, <2>1
       DEF Coherent, Legal, Sound, Consistent, FieldsAt, RunRecord, Allowed,
           InterruptAllowed, StatusTransitions, Status
  <2>3. StatusAt(r)' /\ FieldsAt(r)' /\ Course(r)
    BY <1>0, <2>1 DEF Coherent, StatusAt, FieldsAt, Course, RunRecord
  <2>4. History(r)' /\ TellsTrue(r)' /\ SentTo(r)'
    BY <1>0, <2>1 DEF Coherent, History, TellsTrue, SentTo, RunRecord
  <2>5. QED
    BY <2>2, <2>3, <2>4 DEF Good, Coherent, Legal
<1>5. CASE InterruptDelivered(r)
  <2>1. /\ run'[r] = run[r] /\ turn'[r] = [turn[r] EXCEPT !.asked = TRUE]
        /\ pc'[r] = "interruptAcked" /\ entry'[r] = entry[r]
        /\ outcome'[r] = outcome[r]
        /\ repo' = repo /\ server' = server /\ pc[r] = "interrupting"
    BY <1>0, <1>5 DEF InterruptDelivered, Goto, app, store
  <2>2. Legal(run[r], run'[r])
    BY <1>0, <2>1 DEF Coherent, Legal
  <2>3. StatusAt(r)' /\ FieldsAt(r)' /\ Course(r)
    BY <1>0, <2>1 DEF Coherent, StatusAt, FieldsAt, Course, TurnRecord
  <2>4. History(r)' /\ TellsTrue(r)' /\ SentTo(r)'
    BY <1>0, <2>1 DEF Coherent, History, TellsTrue, SentTo, TurnRecord
  <2>5. QED
    BY <2>2, <2>3, <2>4 DEF Good, Coherent, Legal
<1>6. CASE InterruptFails(r)
  <2>1. /\ pc'[r] = "finishing" /\ entry'[r] = entry[r]
        /\ outcome'[r] = outcome[r]
        /\ repo' = repo /\ server' = server /\ pc[r] = "interrupting"
    BY <1>0, <1>6 DEF InterruptFails, Goto, app, codex
  <2>2. \E asked : turn'[r] = [turn[r] EXCEPT !.asked = asked]
    <3>1. turn[r] = [turn[r] EXCEPT !.asked = turn[r].asked]
      BY <1>0 DEF TurnRecord
    <3>2. QED
      BY <1>0, <1>6, <3>1 DEF InterruptFails
  <2>3. PICK asked : turn'[r] = [turn[r] EXCEPT !.asked = asked]
    BY <2>2
  <2>4. CASE run'[r] = run[r]
    <3>1. Legal(run[r], run'[r])
      BY <1>0, <2>4 DEF Coherent, Legal
    <3>2. StatusAt(r)' /\ FieldsAt(r)' /\ Course(r)
      BY <1>0, <2>1, <2>3, <2>4
         DEF Coherent, StatusAt, FieldsAt, Course, TurnRecord
    <3>3. History(r)' /\ TellsTrue(r)' /\ SentTo(r)'
      BY <1>0, <2>1, <2>3, <2>4
         DEF Coherent, History, TellsTrue, SentTo, TurnRecord
    <3>4. QED
      BY <3>1, <3>2, <3>3 DEF Good, Coherent, Legal
  <2>5. CASE /\ run[r].status = "INTERRUPTING" /\ run[r].interrupt = "SENDING"
             /\ run'[r] = [run[r] EXCEPT !.status = "INTERRUPTING",
                                         !.interrupt = "AMBIGUOUS",
                                         !.recovery = "NONE"]
    <3>1. Legal(run[r], run'[r])
      BY <1>0, <2>5
         DEF Coherent, Legal, Sound, Consistent, RunRecord, Allowed,
             InterruptAllowed, StatusTransitions, DeliveryTransitions, Status,
             Delivery
    <3>2. StatusAt(r)' /\ FieldsAt(r)' /\ Course(r)
      BY <1>0, <2>1, <2>3, <2>5
         DEF Coherent, StatusAt, FieldsAt, Course, RunRecord, TurnRecord
    <3>3. History(r)' /\ TellsTrue(r)' /\ SentTo(r)'
      BY <1>0, <2>1, <2>3, <2>5
         DEF Coherent, History, TellsTrue, SentTo, RunRecord, TurnRecord
    <3>4. QED
      BY <3>1, <3>2, <3>3 DEF Good, Coherent, Legal
  <2>6. CASE /\ run[r].status = "INTERRUPTING" /\ run[r].interrupt = "SENDING"
             /\ run'[r] = [run[r] EXCEPT !.status = "RECOVERY_REQUIRED",
                                         !.interrupt = "NOT_DELIVERED",
                                         !.recovery = "REQUIRES_USER_ACTION"]
    <3>1. Legal(run[r], run'[r])
      BY <1>0, <2>6
         DEF Coherent, Legal, Sound, Consistent, RunRecord, Allowed,
             InterruptAllowed, StatusTransitions, DeliveryTransitions, Status,
             Delivery
    <3>2. StatusAt(r)' /\ FieldsAt(r)' /\ Course(r)
      BY <1>0, <2>1, <2>3, <2>6
         DEF Coherent, StatusAt, FieldsAt, Course, RunRecord, TurnRecord
    <3>3. History(r)' /\ TellsTrue(r)' /\ SentTo(r)'
      BY <1>0, <2>1, <2>3, <2>6
         DEF Coherent, History, TellsTrue, SentTo, RunRecord, TurnRecord
    <3>4. QED
      BY <3>1, <3>2, <3>3 DEF Good, Coherent, Legal
  <2>7. QED
    BY <1>0, <1>6, <2>1, <2>4, <2>5, <2>6
       DEF InterruptFails, Write, Coherent, StatusAt
<1>7. CASE InterruptAcked(r)
  <2>1. /\ pc'[r] \in {"finishing", "confirming"} /\ entry'[r] = entry[r]
        /\ outcome'[r] = outcome[r] /\ turn'[r] = turn[r]
        /\ repo' = repo /\ server' = server /\ pc[r] = "interruptAcked"
    BY <1>0, <1>7 DEF InterruptAcked, Goto, app, codex
  <2>2. CASE run'[r] = run[r]
    <3>1. Legal(run[r], run'[r])
      BY <1>0, <2>2 DEF Coherent, Legal
    <3>2. StatusAt(r)' /\ FieldsAt(r)' /\ Course(r)
      BY <1>0, <2>1, <2>2 DEF Coherent, StatusAt, FieldsAt, Course
    <3>3. History(r)' /\ TellsTrue(r)' /\ SentTo(r)'
      BY <1>0, <2>1, <2>2 DEF Coherent, History, TellsTrue, SentTo
    <3>4. QED
      BY <3>1, <3>2, <3>3 DEF Good, Coherent, Legal
  <2>3. CASE /\ run[r].status = "INTERRUPTING" /\ run[r].interrupt = "SENDING"
             /\ run'[r] = [run[r] EXCEPT !.interrupt = "ACKNOWLEDGED"]
    <3>1. Legal(run[r], run'[r])
      BY <1>0, <2>3
         DEF Coherent, Legal, Sound, Consistent, RunRecord, Allowed,
             InterruptAllowed, DeliveryTransitions, Delivery
    <3>2. StatusAt(r)' /\ FieldsAt(r)' /\ Course(r)
      BY <1>0, <2>1, <2>3 DEF Coherent, StatusAt, FieldsAt, Course, RunRecord
    <3>3. History(r)' /\ TellsTrue(r)' /\ SentTo(r)'
      BY <1>0, <2>1, <2>3 DEF Coherent, History, TellsTrue, SentTo, RunRecord
    <3>4. QED
      BY <3>1, <3>2, <3>3 DEF Good, Coherent, Legal
  <2>4. QED
    BY <1>0, <1>7, <2>2, <2>3 DEF InterruptAcked, Write
<1>8. CASE Purge(r)
  <2>1. /\ pc'[r] = "done" /\ pc[r] = "releasing"
        /\ outcome'[r] = outcome[r] /\ turn'[r] = turn[r]
        /\ repo' = repo /\ server' = server
        /\ \/ run'[r] = run[r] /\ entry'[r] = entry[r]
           \/ run'[r] = NoRun /\ entry'[r] = "NONE"
    BY <1>0, <1>8 DEF Purge, Write, Goto, app, codex
  <2>2. Legal(run[r], run'[r])
    BY <1>0, <2>1, NoRunSound DEF Coherent, Legal
  <2>3. StatusAt(r)' /\ FieldsAt(r)' /\ Course(r)
    BY <1>0, <2>1 DEF Coherent, StatusAt, FieldsAt, Course, NoRun
  <2>4. History(r)' /\ TellsTrue(r)' /\ SentTo(r)'
    BY <1>0, <2>1, Numbers DEF Coherent, History, TellsTrue, SentTo, NoRun
  <2>5. QED
    BY <2>2, <2>3, <2>4 DEF Good, Coherent, Legal
<1>9. QED
  BY <1>1, <1>2, <1>3, <1>4, <1>5, <1>6, <1>7, <1>8 DEF Stop

\* A step of the adapter, of the event queue or of recovery that writes the
\* record of r and moves nothing else of it.
Rewritten(r, rec) ==
  /\ run'[r] = rec
  /\ entry'[r] = entry[r] /\ pc'[r] = pc[r]
  /\ outcome'[r] = outcome[r] /\ turn'[r] = turn[r]
  /\ server' = server /\ repo' = repo

\* turn/started is stored.
LEMMA AcknowledgedGood ==
  ASSUME TypeOK, NEW r \in Runs, Coherent(r), Fresh(r), server # 0,
         run[r].status = "STARTING",
         Rewritten(r, [run[r] EXCEPT !.status = "RUNNING",
                         !.delivery = "ACKNOWLEDGED", !.turnId = TRUE,
                         !.server = server])
  PROVE  Good(r)
<1> USE DEF NotYetSent, Untimed, BeforeSend, Open, Over, TerminalStatus,
            Terminal, Recovering, Running, Ended
<1>1. run[r] \in RunRecord
  BY DEF TypeOK
<1>2. Legal(run[r], run'[r])
  BY <1>1 DEF Rewritten, Coherent, Legal, Sound, Consistent, RunRecord, Allowed,
              InterruptAllowed, StatusTransitions, DeliveryTransitions, Status,
              Delivery
<1>3. StatusAt(r)' /\ FieldsAt(r)' /\ Course(r)
  BY <1>1
     DEF Rewritten, Coherent, StatusAt, FieldsAt, Course, RunRecord, History,
         Fresh
<1>4. History(r)' /\ TellsTrue(r)' /\ SentTo(r)'
  BY <1>1, Numbers
     DEF Rewritten, Coherent, History, TellsTrue, SentTo, RunRecord, Fresh
<1>5. QED
  BY <1>2, <1>3, <1>4 DEF Good, Coherent, Legal

\* The end of a turn is stored.
LEMMA EndedGood ==
  ASSUME TypeOK, NEW r \in Runs, Coherent(r), NEW kind \in TurnEnds,
         turn[r].state = kind, turn[r].sent = 1,
         run[r].delivery # "SENDING", ~Terminal(run[r]), run[r].status # "NONE",
         Rewritten(r, [run[r] EXCEPT !.status = EndStatus[kind],
                         !.delivery = "TERMINAL", !.turnId = TRUE,
                         !.interrupt = InterruptSettled(run[r]),
                         !.recovery = "NONE",
                         !.source = "TURN_COMPLETED_NOTIFICATION"])
  PROVE  Good(r)
<1> USE DEF NotYetSent, Untimed, BeforeSend, Open, Over, TerminalStatus,
            Terminal, Recovering, Running, Ended
<1>1. run[r] \in RunRecord
  BY DEF TypeOK
<1>2. /\ EndStatus[kind] \in TerminalStatus
      /\ EndStatus[kind] = "COMPLETED" => kind = "completed"
  BY DEF EndStatus, TurnEnds
<1> DEFINE end == EndStatus[kind]
           settled == InterruptSettled(run[r])
<1>3. settled \in {"NONE", "TERMINAL"} /\ (run[r].interrupt = "NONE" <=> settled = "NONE")
  BY DEF InterruptSettled
<1>4. run'[r] = [run[r] EXCEPT !.status = end, !.delivery = "TERMINAL", !.turnId = TRUE,
                         !.interrupt = settled, !.recovery = "NONE",
                         !.source = "TURN_COMPLETED_NOTIFICATION"]
  BY DEF Rewritten
<1>5. end \in TerminalStatus /\ (end = "COMPLETED" => kind = "completed")
  BY <1>2
<1> HIDE DEF end, settled
<1>6. Legal(run[r], run'[r])
  <2>1. Sound(run'[r])
    BY <1>1, <1>3, <1>4, <1>5 DEF Sound, Consistent, RunRecord
  <2>2. Allowed(run[r], run'[r])
    BY <1>1, <1>3, <1>4, <1>5
       DEF Coherent, Sound, Consistent, RunRecord, Allowed,
              InterruptAllowed, StatusTransitions, DeliveryTransitions, Status,
              Delivery, History
  <2>3. QED
    BY <2>1, <2>2 DEF Legal, Sound
<1>7. /\ run'[r].status = end /\ run'[r].interrupt = settled
      /\ run'[r].server = run[r].server /\ run'[r].before = run[r].before
      /\ run'[r].integrity = run[r].integrity
      /\ entry'[r] = entry[r] /\ pc'[r] = pc[r] /\ outcome'[r] = outcome[r]
      /\ turn'[r] = turn[r] /\ server' = server /\ repo' = repo
  BY <1>1, <1>4 DEF Rewritten, RunRecord
<1>8. StatusAt(r)' /\ FieldsAt(r)' /\ Course(r)
  BY <1>3, <1>5, <1>7 DEF Coherent, StatusAt, FieldsAt, Course, History
<1>9. History(r)' /\ TellsTrue(r)' /\ SentTo(r)'
  BY <1>5, <1>7 DEF Coherent, History, TellsTrue, SentTo, TurnEnds
<1>10. QED
  BY <1>6, <1>8, <1>9 DEF Good, Coherent, Legal

\* The loss of its server is stored with a run.
LEMMA LostGood ==
  ASSUME TypeOK, NEW r \in Runs, Coherent(r), run[r].server # 0,
         ~Terminal(run[r]), run[r].status # "NONE", Allowed(run[r], Lost(run[r])),
         Rewritten(r, Lost(run[r]))
  PROVE  Good(r)
<1> USE DEF NotYetSent, Untimed, BeforeSend, Open, Over, TerminalStatus,
            Terminal, Recovering, Running, Ended
<1>1. run[r] \in RunRecord
  BY DEF TypeOK
<1>2. run[r].delivery \in {"ACKNOWLEDGED", "AMBIGUOUS"}
  BY <1>1
     DEF Coherent, Sound, Consistent, Allowed, Lost, RunRecord,
         DeliveryTransitions, Delivery
<1>3. run'[r] = [run[r] EXCEPT !.status = "RECOVERY_REQUIRED",
              !.delivery = "AMBIGUOUS", !.recovery = "REQUIRES_USER_ACTION",
              !.source = "PROVIDER_PROCESS_LOSS"]
  BY <1>2 DEF Lost, Rewritten
<1>4. Legal(run[r], run'[r])
  <2>1. Sound(run'[r])
    BY <1>1, <1>2, <1>3 DEF Coherent, Sound, Consistent, RunRecord
  <2>2. QED
    BY <2>1 DEF Rewritten, Legal, Sound
<1>5. StatusAt(r)' /\ FieldsAt(r)' /\ Course(r)
  BY <1>1, <1>3 DEF Rewritten, Coherent, StatusAt, FieldsAt, Course, RunRecord
<1>6. History(r)' /\ TellsTrue(r)' /\ SentTo(r)'
  BY <1>1, <1>3 DEF Rewritten, Coherent, History, TellsTrue, SentTo, RunRecord
<1>7. QED
  BY <1>4, <1>5, <1>6 DEF Good, Coherent, Legal

\* A turn whose server is gone is stored as interrupted.
LEMMA StoppedGood ==
  ASSUME TypeOK, NEW r \in Runs, Coherent(r), run[r].server # 0, ~Running(r),
         ~Terminal(run[r]), run[r].status # "NONE", run[r].turnId,
         Allowed(run[r], Stopped(run[r])), Rewritten(r, Stopped(run[r]))
  PROVE  Good(r)
<1> USE DEF NotYetSent, Untimed, BeforeSend, Open, Over, TerminalStatus,
            Terminal, Recovering, Running, Ended
<1> DEFINE settled == InterruptSettled(run[r])
<1>1. run[r] \in RunRecord
  BY DEF TypeOK
<1>2. settled \in {"NONE", "TERMINAL"} /\ (run[r].interrupt = "NONE" <=> settled = "NONE")
  BY DEF InterruptSettled
<1>3. run'[r] = [run[r] EXCEPT !.status = "INTERRUPTED", !.delivery = "TERMINAL",
              !.interrupt = settled, !.recovery = "NONE",
              !.source = "CONFIRMED_STOP"]
  BY DEF Stopped, Rewritten
<1> HIDE DEF settled
<1>4. Legal(run[r], run'[r])
  <2>1. Sound(run'[r])
    BY <1>1, <1>3 DEF Sound, Consistent, RunRecord
  <2>2. QED
    BY <2>1 DEF Rewritten, Legal, Sound
<1>5. StatusAt(r)' /\ FieldsAt(r)' /\ Course(r)
  BY <1>1, <1>2, <1>3
     DEF Rewritten, Coherent, StatusAt, FieldsAt, Course, RunRecord
<1>6. History(r)' /\ TellsTrue(r)' /\ SentTo(r)'
  BY <1>1, <1>3 DEF Rewritten, Coherent, History, TellsTrue, SentTo, RunRecord
<1>7. QED
  BY <1>4, <1>5, <1>6 DEF Good, Coherent, Legal

\* A turn that did not end when it was told to is stored as such.
LEMMA UnsettledGood ==
  ASSUME TypeOK, NEW r \in Runs, Coherent(r), run[r].status = "INTERRUPTING",
         pc[r] \notin Untimed,
         Rewritten(r, [run[r] EXCEPT !.status = "RECOVERY_REQUIRED",
                         !.interrupt = "AMBIGUOUS",
                         !.recovery = "REQUIRES_USER_ACTION"])
  PROVE  Good(r)
<1> USE DEF NotYetSent, Untimed, BeforeSend, Open, Over, TerminalStatus,
            Terminal, Recovering, Running, Ended
<1>1. run[r] \in RunRecord
  BY DEF TypeOK
<1>2. Legal(run[r], run'[r])
  BY <1>1 DEF Rewritten, Coherent, Legal, Sound, Consistent, RunRecord, Allowed,
              InterruptAllowed, StatusTransitions, DeliveryTransitions, Status,
              Delivery
<1>3. StatusAt(r)' /\ FieldsAt(r)' /\ Course(r)
  BY <1>1 DEF Rewritten, Coherent, StatusAt, FieldsAt, Course, RunRecord
<1>4. History(r)' /\ TellsTrue(r)' /\ SentTo(r)'
  BY <1>1 DEF Rewritten, Coherent, History, TellsTrue, SentTo, RunRecord
<1>5. QED
  BY <1>2, <1>3, <1>4 DEF Good, Coherent, Legal

\* The turn of r ends, whoever ends it; its caller may be gone with the
\* application.
LEMMA TurnEndsGood ==
  ASSUME TypeOK, NEW r \in Runs, Coherent(r), Running(r),
         NEW end \in TurnEnds \cup {"stopped"},
         turn'[r] = [turn[r] EXCEPT !.state = end, !.to = repo],
         run'[r] = run[r], entry'[r] = entry[r], outcome'[r] = outcome[r],
         pc'[r] \in {pc[r], "done"}, server' = server, repo' = repo
  PROVE  Good(r)
<1> USE DEF NotYetSent, Untimed, BeforeSend, Open, Over, TerminalStatus,
            Terminal, Recovering, Running, Ended, TurnEnds
<1>1. turn[r] \in TurnRecord
  BY DEF TypeOK
<1>2. Legal(run[r], run'[r])
  BY DEF Coherent, Legal
<1>3. StatusAt(r)' /\ FieldsAt(r)' /\ Course(r)
  BY <1>1 DEF Coherent, StatusAt, FieldsAt, Course, TurnRecord, History
<1>4. History(r)' /\ TellsTrue(r)' /\ SentTo(r)'
  BY <1>1, Numbers DEF Coherent, History, TellsTrue, SentTo, TurnRecord
<1>5. QED
  BY <1>2, <1>3, <1>4 DEF Good, Coherent, Legal

\* The caller of r has done with waiting, or is gone.
LEMMA CallMovesOn ==
  ASSUME TypeOK, NEW r \in Runs, Coherent(r), turn'[r] = turn[r],
         run'[r] = run[r], entry'[r] = entry[r], outcome'[r] = outcome[r],
         pc[r] # "idle", pc'[r] \in {"done", "finishing", "settling"},
         server' = server, repo' = repo
  PROVE  Good(r)
<1> USE DEF NotYetSent, Untimed, BeforeSend, Open, Over, TerminalStatus,
            Terminal,
            Recovering, Running, Ended
<1>1. Legal(run[r], run'[r])
  BY DEF Coherent, Legal
<1>2. StatusAt(r)' /\ FieldsAt(r)' /\ Course(r)
  BY DEF Coherent, StatusAt, FieldsAt, Course, History
<1>3. History(r)' /\ TellsTrue(r)' /\ SentTo(r)'
  BY DEF Coherent, History, TellsTrue, SentTo
<1>4. QED
  BY <1>1, <1>2, <1>3 DEF Good, Coherent, Legal

\* An ambiguous start is stored as needing recovery, and given up.
LEMMA UncertainGood ==
  ASSUME TypeOK, NEW r \in Runs, Coherent(r), pc[r] = "ambiguous",
         run[r].status = "STARTING",
         run'[r] = Uncertain(run[r]), entry'[r] = entry[r], turn'[r] = turn[r],
         pc'[r] = "done", outcome'[r] = "error", server' = server, repo' = repo
  PROVE  Good(r)
<1> USE DEF NotYetSent, Untimed, BeforeSend, Open, Over, TerminalStatus,
            Terminal, Recovering, Running, Ended
<1>1. run[r] \in RunRecord
  BY DEF TypeOK
<1>2. Legal(run[r], run'[r])
  BY <1>1 DEF Uncertain, Coherent, Legal, Sound, Consistent, RunRecord,
              Allowed, InterruptAllowed, StatusTransitions, DeliveryTransitions,
              Status, Delivery
<1>3. StatusAt(r)' /\ FieldsAt(r)' /\ Course(r)
  BY <1>1 DEF Uncertain, StatusAt, FieldsAt, Course, RunRecord
<1>4. History(r)' /\ TellsTrue(r)' /\ SentTo(r)'
  BY <1>1 DEF Uncertain, Coherent, History, TellsTrue, SentTo, RunRecord
<1>5. QED
  BY <1>2, <1>3, <1>4 DEF Good, Coherent, Legal

\* A run that is reprocessed after a restart, its repository not yet inspected.
LEMMA ReprocessedGood ==
  ASSUME TypeOK, NEW r \in Runs, Coherent(r), NEW rec,
         rec = [run[r] EXCEPT !.status = "RECOVERY_REQUIRED",
                              !.recovery = "RECONCILING"],
         pc[r] \notin NotYetSent, run[r].delivery # "NOT_DELIVERED",
         run[r].status # "NONE", run[r].integrity = "PENDING",
         Allowed(run[r], rec), Consistent(rec), Rewritten(r, rec)
  PROVE  Good(r)
<1> USE DEF NotYetSent, Untimed, BeforeSend, Open, Over, TerminalStatus,
            Terminal, Recovering, Running, Ended
<1>1. run[r] \in RunRecord
  BY DEF TypeOK
<1>2. Legal(run[r], run'[r])
  BY <1>1 DEF Rewritten, Coherent, Legal, Sound, Consistent, RunRecord
<1>3. StatusAt(r)' /\ FieldsAt(r)' /\ Course(r)
  BY <1>1 DEF Rewritten, Coherent, StatusAt, FieldsAt, Course, RunRecord
<1>4. History(r)' /\ TellsTrue(r)' /\ SentTo(r)'
  BY <1>1
     DEF Rewritten, Coherent, History, TellsTrue, SentTo, RunRecord, Violated
<1>5. QED
  BY <1>2, <1>3, <1>4 DEF Good, Coherent, Legal

\* What was found of the repository is stored.
LEMMA InspectedGood ==
  ASSUME TypeOK, NEW r \in Runs, Coherent(r), NEW found \in Boundary(run[r]),
         pc[r] \notin NotYetSent, run[r].integrity = "PENDING",
         Rewritten(r, [run[r] EXCEPT !.integrity = found])
  PROVE  Good(r)
<1> USE DEF NotYetSent, Untimed, BeforeSend, Open, Over, TerminalStatus,
            Terminal, Recovering, Running, Ended
<1>1. run[r] \in RunRecord /\ found # "NONE"
  BY DEF TypeOK, Boundary
<1>2. Legal(run[r], run'[r])
  BY <1>1 DEF Rewritten, Coherent, Legal, Sound, Consistent, RunRecord, NoRun,
              Allowed, InterruptAllowed
<1>3. StatusAt(r)' /\ FieldsAt(r)' /\ Course(r)
  BY <1>1 DEF Rewritten, Coherent, StatusAt, FieldsAt, Course, RunRecord
<1>4. History(r)' /\ TellsTrue(r)' /\ SentTo(r)'
  BY <1>1
     DEF Rewritten, Coherent, History, TellsTrue, SentTo, RunRecord, Violated
<1>5. QED
  BY <1>2, <1>3, <1>4 DEF Good, Coherent, Legal

\* A turn that ended, and changed the repository, is reopened ...
LEMMA ReopenedGood ==
  ASSUME TypeOK, NEW r \in Runs, Coherent(r), pc[r] \notin NotYetSent,
         Terminal(run[r]), run[r].status # "FAILED",
         Rewritten(r, [run[r] EXCEPT !.status = "RECOVERY_REQUIRED",
                         !.recovery = "REQUIRES_USER_ACTION",
                         !.source = "REPOSITORY_INTEGRITY"])
  PROVE  Good(r)
<1> USE DEF NotYetSent, Untimed, BeforeSend, Open, Over, TerminalStatus,
            Terminal, Recovering, Running, Ended
<1>1. run[r] \in RunRecord
  BY DEF TypeOK
<1>2. Legal(run[r], run'[r])
  BY <1>1 DEF Rewritten, Coherent, Legal, Sound, Consistent, RunRecord, Allowed,
              InterruptAllowed, StatusTransitions, Status
<1>3. StatusAt(r)' /\ FieldsAt(r)' /\ Course(r)
  BY <1>1 DEF Rewritten, Coherent, StatusAt, FieldsAt, Course, RunRecord
<1>4. History(r)' /\ TellsTrue(r)' /\ SentTo(r)'
  BY <1>1 DEF Rewritten, Coherent, History, TellsTrue, SentTo, RunRecord
<1>5. QED
  BY <1>2, <1>3, <1>4 DEF Good, Coherent, Legal

\* ... to be failed.
LEMMA FailedGood ==
  ASSUME TypeOK, NEW r \in Runs, Coherent(r), pc[r] \notin NotYetSent,
         Terminal(run[r]) => run[r].status = "FAILED", run[r].status # "NONE",
         run[r].integrity \in Violated, NEW delivery,
         delivery = IF run[r].status = "FAILED" THEN run[r].delivery
                    ELSE IF run[r].turnId THEN "TERMINAL" ELSE "NOT_DELIVERED",
         Rewritten(r, [run[r] EXCEPT !.status = "FAILED", !.delivery = delivery,
                         !.recovery = "NONE", !.source = "REPOSITORY_INTEGRITY"])
  PROVE  Good(r)
<1> USE DEF NotYetSent, Untimed, BeforeSend, Open, Over, TerminalStatus,
            Terminal, Recovering, Running, Ended
<1>1. run[r] \in RunRecord
  BY DEF TypeOK
<1>2. /\ run'[r].status = "FAILED" /\ run'[r].delivery = delivery
      /\ run'[r].source = "REPOSITORY_INTEGRITY"
      /\ run'[r].interrupt = run[r].interrupt /\ run'[r].turnId = run[r].turnId
      /\ run'[r].server = run[r].server /\ run'[r].before = run[r].before
      /\ run'[r].integrity = run[r].integrity
      /\ entry'[r] = entry[r] /\ pc'[r] = pc[r] /\ outcome'[r] = outcome[r]
      /\ turn'[r] = turn[r] /\ server' = server /\ repo' = repo
  BY <1>1 DEF Rewritten, RunRecord
<1>3. Sound(run'[r])
  BY <1>1, <1>2 DEF Coherent, Sound, Consistent
<1>4. Allowed(run[r], run'[r])
  BY <1>1, <1>2 DEF Coherent, Sound, Consistent, Allowed, InterruptAllowed,
              StatusTransitions, DeliveryTransitions, Status, Delivery,
              RunRecord
<1>5. StatusAt(r)' /\ FieldsAt(r)' /\ Course(r)
  BY <1>2 DEF Coherent, StatusAt, FieldsAt, Course
<1>6. History(r)' /\ TellsTrue(r)' /\ SentTo(r)'
  BY <1>2 DEF Coherent, History, TellsTrue, SentTo
<1>7. QED
  BY <1>3, <1>4, <1>5, <1>6 DEF Good, Coherent, Legal, Sound

\* What the type invariant and TurnInv say of one run.
LEMMA TurnInvParts ==
  ASSUME TypeOK, TurnInv, NEW r \in Runs
  PROVE  /\ Coherent(r) /\ run[r] \in RunRecord /\ turn[r] \in TurnRecord
         /\ run \in [Runs -> RunRecord] /\ turn \in [Runs -> TurnRecord]
         /\ pc \in [Runs -> Labels]
         /\ entry \in [Runs -> {"NONE", "QUEUED", "LEASED", "SETTLED"}]
         /\ outcome \in [Runs -> {"none", "output", "error"}]
  BY DEF TurnInv, RunsCoherent, TypeOK

\* A step that leaves every run alone.
LEMMA AllSameGood ==
  ASSUME TypeOK, TurnInv, UNCHANGED <<run, entry, caller, turn>>, Onward
  PROVE  \A q \in Runs : Good(q)
  BY TurnInvParts, SameGood DEF Same, caller

\* A step of a caller moves nothing of the other calls.
LEMMA CallerOnly ==
  ASSUME TypeOK, NEW r \in Runs, Start(r) \/ Stop(r)
  PROVE  Onward /\ \A q \in Runs \ {r} : Same(q)
<1>1. /\ run \in [Runs -> RunRecord] /\ turn \in [Runs -> TurnRecord]
      /\ pc \in [Runs -> Labels]
      /\ entry \in [Runs -> {"NONE", "QUEUED", "LEASED", "SETTLED"}]
      /\ outcome \in [Runs -> {"none", "output", "error"}]
  BY DEF TypeOK
<1>2. CASE Start(r)
  BY <1>1, <1>2
     DEF Start, Onward, Same, Write, Goto, GiveUp, PrepareTurn, LeaseTurn,
         InspectBefore, InspectBeforeFails, MarkStarting, Submit, SubmitFails,
         Response, ResponseLost, DrainInbound, PersistAck, PersistAckConflict,
         StartFails, StartFailsConflict, SettleFailedStart, VerifyFailedStart,
         store, codex, caller, app
<1>3. CASE Stop(r)
  BY <1>1, <1>3
     DEF Stop, Onward, Same, Write, Goto, WaitEnds, WaitFails, InterruptReopen,
         InterruptIntent, InterruptRefused, InterruptDelivered, InterruptFails,
         InterruptAcked, ConfirmEnds, AwaitEvents, FinishTurn, Purge,
         ReleaseFails, store, codex, caller, app
<1>4. QED
  BY <1>2, <1>3

\* What a step of a caller leaves alone, who excepted.
LEMMA CallerFrame ==
  ASSUME NEW r \in Runs, Start(r) \/ Stop(r)
  PROVE  /\ UNCHANGED <<server, process, sweep, verifying, repo>>
         /\ UNCHANGED <<phase, todo>>
         /\ inbox' = inbox \/ Submit(r)
         /\ deadline' = deadline \/ InterruptDelivered(r)
         /\ events' = events \/ AwaitEvents(r)
         /\ pc[r] # "draining"
         /\ pc[r] \in Quiet => phase = "ready"
         /\ Start(r) /\ pc[r] \in Leaving => phase = "ready"
<1>1. CASE Start(r)
  BY <1>1
     DEF Start, PrepareTurn, LeaseTurn, InspectBefore, InspectBeforeFails,
         MarkStarting, Submit, SubmitFails, Response, ResponseLost,
         DrainInbound, PersistAck, PersistAckConflict, StartFails,
         StartFailsConflict, SettleFailedStart, VerifyFailedStart,
         codex, queue, app, Quiet, Leaving
<1>2. CASE Stop(r)
  <2>1. UNCHANGED <<server, process, sweep, verifying, repo, phase, todo, inbox>>
    BY <1>2
       DEF Stop, WaitEnds, WaitFails, InterruptReopen, InterruptIntent,
           InterruptRefused, InterruptDelivered, InterruptFails, InterruptAcked,
           ConfirmEnds, AwaitEvents, FinishTurn, Purge, ReleaseFails,
           codex, queue, app
  <2>2. /\ deadline' = deadline \/ InterruptDelivered(r)
        /\ events' = events \/ AwaitEvents(r)
        /\ pc[r] \notin Quiet \cup {"draining"}
    BY <1>2
       DEF Stop, WaitEnds, WaitFails, InterruptReopen, InterruptIntent,
           InterruptRefused, InterruptDelivered, InterruptFails, InterruptAcked,
           ConfirmEnds, AwaitEvents, FinishTurn, Purge, ReleaseFails,
           codex, queue, Quiet
  <2>3. CASE Start(r)
    BY <1>1, <2>3
  <2>4. QED
    BY <2>1, <2>2, <2>3
<1>3. QED
  BY <1>1, <1>2

\* The step of one caller, for every run.
LEMMA CallerGood ==
  ASSUME TypeOK, TurnInv, NEW r \in Runs, Start(r) \/ Stop(r)
  PROVE  \A q \in Runs : Good(q)
  BY StartGood, StopGood, CallerOnly, SameGood DEF TurnInv, RunsCoherent

\* One record is rewritten, and nothing else of any run changes.
LEMMA RewriteGood ==
  ASSUME TypeOK, TurnInv, NEW r \in Runs, NEW rec, Write(r, rec),
         UNCHANGED <<entry, caller, turn, server, repo>>,
         Rewritten(r, rec) => Good(r)
  PROVE  \A q \in Runs : Good(q)
<1>1. Rewritten(r, rec) /\ Onward /\ \A q \in Runs \ {r} : Same(q)
  BY TurnInvParts DEF Rewritten, Onward, Same, Write, caller
<1>2. QED
  BY <1>1, SameGood DEF TurnInv, RunsCoherent

\* The message at the head of the inbound queue.
LEMMA HeadFacts ==
  ASSUME TypeOK, TurnInv, inbox # <<>>
  PROVE  /\ Truthful(Head(inbox)) /\ process # "none" /\ server # 0
         /\ Head(inbox).kind # "exit" => Head(inbox).run \in Runs
         /\ Head(inbox).kind = "exit" =>
              Head(inbox).server \in Servers /\ Head(inbox).confirmed \in BOOLEAN
<1>1. inbox \in Seq(Message)
  BY DEF TypeOK
<1>2. Head(inbox) \in Range(inbox)
  BY <1>1 DEF Range
<1>3. QED
  BY <1>2, HeadTypes DEF TurnInv, InboxTruthful, ServersOrdered

\* The adapter handles a message or sweeps a run.
LEMMA AdapterGood ==
  ASSUME TypeOK, TurnInv, Adapter
  PROVE  \A q \in Runs : Good(q)
<1> DEFINE m == Head(inbox)
           r == Head(inbox).run
<1>1. CASE \/ HandleExit \/ HandleDeadlineLate \/ HandleSettleStopped \/ SweepEnds
           \/ \E s \in Runs : SweepAborts(s)
  <2>1. UNCHANGED <<run, entry, caller, turn, server, repo>>
    BY <1>1 DEF HandleExit, HandleDeadlineLate, HandleSettleStopped, SweepEnds,
                SweepAborts, store
  <2>2. QED
    BY <2>1, AllSameGood DEF Onward
<1>2. CASE HandleStarted \/ HandleCompletedAck
  <2>1. r \in Runs /\ Fresh(r) /\ server # 0 /\ Coherent(r)
    BY <1>2, HeadFacts, TurnInvParts
       DEF HandleStarted, HandleCompletedAck, Inbound, Truthful, TurnEnds
  <2>2. UNCHANGED <<entry, caller, turn, server, repo>>
    BY <1>2 DEF HandleStarted, HandleCompletedAck, codex
  <2> DEFINE rec == [run[r] EXCEPT !.status = "RUNNING",
                       !.delivery = "ACKNOWLEDGED", !.turnId = TRUE,
                       !.server = server]
  <2>3. CASE run' = run
    BY <2>2, <2>3, AllSameGood DEF Onward
  <2>4. CASE run[r].status = "STARTING" /\ Write(r, rec)
    BY <2>1, <2>2, <2>4, RewriteGood, AcknowledgedGood
  <2>5. QED
    BY <1>2, <2>1, <2>3, <2>4
       DEF HandleStarted, HandleCompletedAck, Coherent, Sound
<1>3. CASE CompletedConflict
  <2>1. r \in Runs /\ Coherent(r)
    BY <1>3, HeadFacts, TurnInvParts DEF CompletedConflict, Inbound, TurnEnds
  <2>2. Good(r)
    <3>1. /\ run'[r] = Uncertain(run[r]) /\ entry'[r] = entry[r]
          /\ turn'[r] = turn[r]
          /\ pc[r] = "ambiguous" /\ pc'[r] = "done" /\ outcome'[r] = "error"
          /\ server' = server /\ repo' = repo /\ run[r].delivery = "SENDING"
      BY <1>3, <2>1, TurnInvParts DEF CompletedConflict, Write, GiveUp, Goto
    <3>2. run[r].status = "STARTING"
      BY <2>1, <3>1 DEF Coherent, Sound
    <3>3. QED
      BY <2>1, <3>1, <3>2, UncertainGood
  <2>3. Onward /\ \A q \in Runs \ {r} : Same(q)
    BY <1>3, <2>1, TurnInvParts
       DEF CompletedConflict, Write, GiveUp, Goto, Onward, Same
  <2>4. QED
    BY <2>2, <2>3, SameGood DEF TurnInv, RunsCoherent
<1>4. CASE HandleCompleted
  <2>1. /\ r \in Runs /\ m.kind \in TurnEnds /\ turn[r].state = m.kind
        /\ turn[r].sent = 1 /\ Coherent(r) /\ run[r].delivery # "SENDING"
    BY <1>4, HeadFacts, TurnInvParts
       DEF HandleCompleted, Inbound, TurnEnds, Truthful, Fresh
  <2>2. UNCHANGED <<entry, caller, turn, server, repo>>
    BY <1>4 DEF HandleCompleted
  <2> DEFINE rec == [run[r] EXCEPT !.status = EndStatus[m.kind],
                       !.delivery = "TERMINAL", !.turnId = TRUE,
                       !.interrupt = InterruptSettled(run[r]),
                       !.recovery = "NONE",
                       !.source = "TURN_COMPLETED_NOTIFICATION"]
  <2>3. CASE run' = run
    BY <2>2, <2>3, AllSameGood DEF Onward
  <2>4. CASE ~Terminal(run[r]) /\ run[r].status # "NONE" /\ Write(r, rec)
    BY <2>1, <2>2, <2>4, RewriteGood, EndedGood
  <2>5. QED
    BY <1>4, <2>3, <2>4 DEF HandleCompleted
<1>5. CASE HandleDeadline
  <2>1. ASSUME NEW q \in Runs PROVE Good(q)
    <3>1. /\ run'[q] = run[q] /\ entry'[q] = entry[q] /\ pc'[q] = pc[q]
          /\ outcome'[q] = outcome[q] /\ server' = server /\ repo' = repo
      BY <1>5 DEF HandleDeadline, store, caller
    <3>2. CASE turn'[q] = turn[q]
      BY <3>1, <3>2, SameGood, TurnInvParts DEF Same, Onward
    <3>3. CASE Running(q) /\ turn'[q] = [turn[q] EXCEPT !.state = "stopped", !.to = repo]
      BY <3>1, <3>3, TurnEndsGood, TurnInvParts
    <3>4. QED
      BY <1>5, <3>2, <3>3 DEF HandleDeadline, StopTurnsOf, Active, Running
  <2>2. QED
    BY <2>1
<1>6. CASE HandleSettleUncertain
  <2>1. r \in Runs /\ Coherent(r) /\ pc[r] \notin Untimed
    BY <1>6, HeadFacts, TurnInvParts
       DEF HandleSettleUncertain, Inbound, Truthful, Timed
  <2>2. UNCHANGED <<entry, caller, turn, server, repo>>
    BY <1>6 DEF HandleSettleUncertain
  <2> DEFINE rec == [run[r] EXCEPT !.status = "RECOVERY_REQUIRED",
                       !.interrupt = "AMBIGUOUS",
                       !.recovery = "REQUIRES_USER_ACTION"]
  <2>3. CASE run' = run
    BY <2>2, <2>3, AllSameGood DEF Onward
  <2>4. CASE run[r].status = "INTERRUPTING" /\ Write(r, rec)
    BY <2>1, <2>2, <2>4, RewriteGood, UnsettledGood
  <2>5. QED
    BY <1>6, <2>3, <2>4 DEF HandleSettleUncertain
<1>7. ASSUME NEW s \in Runs, SweepRun(s)
      PROVE  \A q \in Runs : Good(q)
  <2>1. /\ Coherent(s) /\ run[s].server = sweep.server /\ Gone(sweep.server)
        /\ run[s].status # "NONE" /\ ~Terminal(run[s])
        /\ sweep.confirmed => Still(sweep.server)
        /\ Allowed(run[s], SweepUpdate(run[s]))
    BY <1>7, TurnInvParts DEF SweepRun, SweepAccepted, TurnInv, SweepSound
  <2>2. run[s].server # 0
    BY <2>1 DEF Gone
  <2>3. UNCHANGED <<entry, caller, turn, server, repo>> /\ Write(s, SweepUpdate(run[s]))
    BY <1>7 DEF SweepRun
  <2>4. CASE sweep.confirmed /\ run[s].turnId
    <3>1. ~Running(s)
      BY <2>1, <2>2, <2>4 DEF Still, Coherent, SentTo
    <3>2. QED
      BY <2>1, <2>2, <2>3, <2>4, <3>1, RewriteGood, StoppedGood DEF SweepUpdate
  <2>5. CASE ~(sweep.confirmed /\ run[s].turnId)
    BY <2>1, <2>2, <2>3, <2>5, RewriteGood, LostGood DEF SweepUpdate
  <2>6. QED
    BY <2>4, <2>5
<1>8. QED
  BY <1>1, <1>2, <1>3, <1>4, <1>5, <1>6, <1>7 DEF Adapter

\* What the event queue verifies is the record of a run.
LEMMA VerifyingTypes ==
  ASSUME TypeOK, VerifyingNow
  PROVE  verifying.run \in Runs /\ verifying.stage \in {"inspect", "fail"}
  BY DEF TypeOK, VerifyingNow

\* A step of the event queue.
LEMMA EventsGood ==
  ASSUME TypeOK, TurnInv, EventQueue
  PROVE  \A q \in Runs : Good(q)
<1> DEFINE r == verifying.run
<1>1. CASE ReachBarrier
  <2> DEFINE s == Head(events).run
  <2>1. events \in Seq(QueueItem) /\ events # <<>> /\ Head(events).kind = "barrier"
    BY <1>1 DEF ReachBarrier, TypeOK
  <2>2. Head(events) \in QueueItem /\ Head(events) \in Range(events)
    BY <2>1 DEF Range
  <2>3. s \in Runs /\ Coherent(s) /\ pc[s] \notin Untimed
    BY <2>1, <2>2, TurnInvParts
       DEF QueueItem, TurnInv, EventsSound, Untimed, NotYetSent, BeforeSend,
           Open
  <2>4. /\ run' = run /\ entry' = entry /\ outcome' = outcome /\ turn' = turn
        /\ server' = server /\ repo' = repo /\ Goto(s, "settling")
    BY <1>1 DEF ReachBarrier, store, codex
  <2>5. Onward /\ \A q \in Runs \ {s} : Same(q)
    BY <2>3, <2>4, TurnInvParts DEF Goto, Onward, Same
  <2>6. pc'[s] = "settling"
    BY <2>3, <2>4, TurnInvParts DEF Goto
  <2>7. Good(s)
    BY <2>3, <2>4, <2>6, CallMovesOn DEF Untimed, NotYetSent, BeforeSend
  <2>8. QED
    BY <2>5, <2>7, SameGood DEF TurnInv, RunsCoherent
<1>2. CASE TakeEvent
  <2>1. UNCHANGED <<run, entry, caller, turn, server, repo>>
    BY <1>2 DEF TakeEvent, store, codex
  <2>2. QED
    BY <2>1, AllSameGood DEF Onward
<1>3. CASE VerifyBoundary
  <2>1. /\ r \in Runs /\ Coherent(r) /\ pc[r] \notin NotYetSent
        /\ VerifyingNow /\ verifying.stage = "inspect"
        /\ verifying.snap.integrity = "PENDING"
        /\ run[r].status # "NONE" => run[r].integrity = "PENDING"
        /\ run[r].delivery = "NOT_DELIVERED" => run[r] = verifying.snap
    BY <1>3, VerifyingTypes, TurnInvParts
       DEF VerifyBoundary, TurnInv, VerifyingSound
  <2>2. UNCHANGED <<entry, caller, turn, server, repo>>
    BY <1>3 DEF VerifyBoundary, codex
  <2>3. CASE run' = run
    BY <2>2, <2>3, AllSameGood DEF Onward
  <2>4. CASE run[r] # verifying.snap /\ run' # run
    <3> DEFINE rec == [run[r] EXCEPT !.status = "RECOVERY_REQUIRED",
                                     !.recovery = "RECONCILING"]
    <3>1. /\ run[r].status # "NONE" /\ Allowed(run[r], rec) /\ Consistent(rec)
          /\ Write(r, rec)
      BY <1>3, <2>4 DEF VerifyBoundary, RecoverProcessing
    <3>2. Rewritten(r, rec) => Good(r)
      BY <2>1, <2>4, <3>1, ReprocessedGood
    <3>3. QED
      BY <2>1, <2>2, <3>1, <3>2, RewriteGood
  <2>5. CASE run[r] = verifying.snap
    <3>1. PICK found \in Boundary(run[r]) : Write(r, [run[r] EXCEPT !.integrity = found])
      BY <1>3, <2>5 DEF VerifyBoundary
    <3>2. QED
      BY <2>1, <2>2, <2>5, <3>1, RewriteGood, InspectedGood
  <2>6. QED
    BY <2>3, <2>4, <2>5
<1>4. CASE ReopenViolated
  <2>1. r \in Runs /\ Coherent(r) /\ pc[r] \notin NotYetSent
    BY <1>4, VerifyingTypes, TurnInvParts
       DEF ReopenViolated, TurnInv, VerifyingSound
  <2>2. UNCHANGED <<entry, caller, turn, server, repo>>
    BY <1>4 DEF ReopenViolated, codex
  <2>3. QED
    BY <1>4, <2>1, <2>2, RewriteGood, ReopenedGood DEF ReopenViolated
<1>5. CASE FailViolated
  <2>1. /\ r \in Runs /\ Coherent(r) /\ pc[r] \notin NotYetSent
        /\ run[r].status # "NONE" => run[r].integrity \in Violated
    BY <1>5, VerifyingTypes, TurnInvParts
       DEF FailViolated, TurnInv, VerifyingSound
  <2>2. UNCHANGED <<entry, caller, turn, server, repo>>
    BY <1>5 DEF FailViolated, codex
  <2>3. CASE run' = run
    BY <2>2, <2>3, AllSameGood DEF Onward
  <2>4. CASE run[r].status # "NONE"
    <3> DEFINE delivery == IF run[r].status = "FAILED" THEN run[r].delivery
                           ELSE IF run[r].turnId THEN "TERMINAL"
                           ELSE "NOT_DELIVERED"
               rec == [run[r] EXCEPT !.status = "FAILED", !.delivery = delivery,
                         !.recovery = "NONE", !.source = "REPOSITORY_INTEGRITY"]
    <3>1. Write(r, rec) /\ (Terminal(run[r]) => run[r].status = "FAILED")
      BY <1>5, <2>4 DEF FailViolated
    <3>2. Rewritten(r, rec) => Good(r)
      BY <2>1, <2>4, <3>1, FailedGood
    <3>3. QED
      BY <2>1, <2>2, <3>1, <3>2, RewriteGood
  <2>5. QED
    BY <1>5, <2>3, <2>4 DEF FailViolated
<1>6. QED
  BY <1>1, <1>2, <1>3, <1>4, <1>5 DEF EventQueue

\* A step of startup, of reconciliation or of shutdown.
LEMMA RecoveryGood ==
  ASSUME TypeOK, TurnInv, Recovery
  PROVE  \A q \in Runs : Good(q)
<1>1. CASE RecoverEnds \/ BeginReconcile \/ OpenService
  <2>1. UNCHANGED <<run, entry, caller, turn, server, repo>>
    BY <1>1 DEF RecoverEnds, BeginReconcile, OpenService, store, codex
  <2>2. QED
    BY <2>1, AllSameGood DEF Onward
<1>2. ASSUME NEW r \in Runs, RecoverLoss(r)
      PROVE  \A q \in Runs : Good(q)
  <2>1. /\ Coherent(r) /\ Allowed(run[r], Lost(run[r])) /\ run[r].server # 0
        /\ Write(r, Lost(run[r]))
    BY <1>2, TurnInvParts DEF RecoverLoss, TurnInv, CallsLeaving
  <2>2. ~Terminal(run[r]) /\ run[r].status # "NONE"
    BY <2>1, TurnInvParts
       DEF Coherent, Sound, Consistent, NoRun, Allowed, Lost, RunRecord,
           DeliveryTransitions, Delivery, Terminal, TerminalStatus
  <2>3. UNCHANGED <<entry, caller, turn, server, repo>>
    BY <1>2 DEF RecoverLoss, codex
  <2>4. QED
    BY <2>1, <2>2, <2>3, RewriteGood, LostGood
<1>3. ASSUME NEW r \in Runs, ReconcileRun(r)
      PROVE  \A q \in Runs : Good(q)
  <2>1. UNCHANGED <<run, entry, outcome, turn, server, repo>>
    BY <1>3 DEF ReconcileRun, store, codex
  <2>2. CASE pc' = pc
    BY <2>1, <2>2, AllSameGood DEF Onward, caller
  <2>3. CASE Goto(r, "finishing") /\ Terminal(run[r])
    <3>1. pc'[r] = "finishing" /\ pc[r] # "idle" /\ Coherent(r)
      BY <2>3, TurnInvParts
         DEF Goto, Coherent, StatusAt, NoRun, Terminal, TerminalStatus
    <3>2. Onward /\ \A q \in Runs \ {r} : Same(q)
      BY <2>1, <2>3, TurnInvParts DEF Goto, Onward, Same
    <3>3. Good(r)
      BY <2>1, <3>1, CallMovesOn
    <3>4. QED
      BY <3>2, <3>3, SameGood DEF TurnInv, RunsCoherent
  <2>4. QED
    BY <1>3, <2>2, <2>3 DEF ReconcileRun
<1>4. QED
  BY <1>1, <1>2, <1>3 DEF Recovery

\* The processes and the application: turns end, calls vanish, the repository
\* grows older.
LEMMA WorldGood ==
  ASSUME TypeOK, TurnInv, Shutdown \/ Environment
  PROVE  \A q \in Runs : Good(q)
<1>1. CASE LatchShutdown \/ SettleShutdown \/ CloseStores
  <2>1. UNCHANGED <<run, entry, caller, turn, server, repo>>
    BY <1>1 DEF LatchShutdown, SettleShutdown, CloseStores, store, codex
  <2>2. QED
    BY <2>1, AllSameGood DEF Onward
<1>2. CASE \/ ServerStarts \/ Edit \/ BeginShutdown \/ Restart
           \/ \E r \in Runs : DeadlineFires(r)
  <2>1. UNCHANGED <<run, entry, caller, turn>> /\ Onward
    BY <1>2 DEF ServerStarts, Edit, BeginShutdown, Restart, DeadlineFires,
                store, codex, Onward
  <2>2. QED
    BY <2>1, AllSameGood
<1>3. CASE StopProvider \/ ServerExits \/ Crash
  <2>1. ASSUME NEW q \in Runs PROVE Good(q)
    <3>1. /\ run'[q] = run[q] /\ entry'[q] = entry[q]
          /\ outcome'[q] = outcome[q] /\ server' = server /\ repo' = repo
          /\ pc'[q] \in {pc[q], "done"} /\ (pc[q] = "idle" => pc'[q] = "idle")
      BY <1>3 DEF StopProvider, ServerExits, Crash, store, caller
    <3>2. CASE turn'[q] = turn[q] /\ pc'[q] = pc[q]
      BY <3>1, <3>2, SameGood, TurnInvParts DEF Same, Onward
    <3>3. CASE turn'[q] = turn[q] /\ pc'[q] # pc[q]
      BY <3>1, <3>3, CallMovesOn, TurnInvParts
    <3>4. CASE Running(q) /\ turn'[q] = [turn[q] EXCEPT !.state = "stopped", !.to = repo]
      BY <3>1, <3>4, TurnEndsGood, TurnInvParts
    <3>5. QED
      BY <1>3, <3>2, <3>3, <3>4
         DEF StopProvider, ServerExits, Crash, StopTurnsOf, Active, Running
  <2>2. QED
    BY <2>1
<1>4. ASSUME NEW r \in Runs, ProviderEnds(r)
      PROVE  \A q \in Runs : Good(q)
  <2>1. /\ run' = run /\ entry' = entry /\ pc' = pc /\ outcome' = outcome
        /\ server' = server /\ repo' = repo /\ Running(r)
    BY <1>4 DEF ProviderEnds, store, caller, Active, Running
  <2>2. PICK end \in TurnEnds : turn' = [turn EXCEPT ![r].state = end, ![r].to = repo]
    BY <1>4 DEF ProviderEnds
  <2>3. turn'[r] = [turn[r] EXCEPT !.state = end, !.to = repo]
    BY <2>2, TurnInvParts
  <2>4. Good(r)
    BY <2>1, <2>3, TurnEndsGood, TurnInvParts
  <2>5. Onward /\ \A q \in Runs \ {r} : Same(q)
    BY <2>1, <2>2, TurnInvParts DEF Onward, Same
  <2>6. QED
    BY <2>4, <2>5, SameGood DEF TurnInv, RunsCoherent
<1>5. QED
  BY <1>1, <1>2, <1>3, <1>4 DEF Shutdown, Environment

\* Every step leaves every run coherent.
LEMMA NextGood ==
  ASSUME TypeOK, TurnInv, Next
  PROVE  \A q \in Runs : Good(q)
  BY CallerGood, AdapterGood, EventsGood, RecoveryGood, WorldGood DEF Next

-----------------------------------------------------------------------------
(* Servers, and what is in the mail about them.                            *)

\* The newest server, its process, and how a step may change them.
Succession ==
  /\ server' = server => (process' = "up" => process = "up")
  /\ server' # server =>
       /\ server' = server + 1
       /\ process \in {"none", "down"} /\ process' = "up"
       /\ phase \in {"ready", "closing"} /\ phase' = phase

\* Every step moves the servers on as stated.
LEMMA SuccessionStep ==
  ASSUME TypeOK, TurnInv, Next
  PROVE  Succession
<1>1. CASE ServerStarts
  BY <1>1, Numbers DEF ServerStarts, Succession, TypeOK, app
<1>2. ASSUME NEW r \in Runs, Start(r) \/ Stop(r)
      PROVE  Succession
  BY <1>2, CallerFrame DEF Succession
<1>3. CASE Adapter
  BY <1>3
     DEF Succession, codex, Adapter, HandleStarted, HandleCompletedAck,
         CompletedConflict, HandleCompleted, HandleExit, HandleDeadlineLate,
         HandleDeadline, HandleSettleStopped, HandleSettleUncertain, SweepEnds,
         SweepRun, SweepAborts
<1>4. CASE EventQueue \/ Recovery \/ Shutdown
  BY <1>4
     DEF Succession, codex, EventQueue, ReachBarrier, TakeEvent, VerifyBoundary,
         ReopenViolated, FailViolated, Recovery, RecoverEnds, BeginReconcile,
         OpenService, RecoverLoss, ReconcileRun, Shutdown, LatchShutdown,
         StopProvider, SettleShutdown, CloseStores, Forget
<1>5. CASE Environment /\ ~ServerStarts
  BY <1>5
     DEF Succession, codex, Environment, ServerExits, Edit, BeginShutdown,
         Crash,
         Forget, Restart, ProviderEnds, DeadlineFires
<1>6. QED
  BY <1>1, <1>2, <1>3, <1>4, <1>5 DEF Next

\* What holds of a server or a turn and is not undone.
LEMMA Persists ==
  ASSUME TypeOK, TurnInv, Succession, \A q \in Runs : Good(q)
  PROVE  /\ \A s : Gone(s) => Gone(s)'
         /\ \A s : Dead(s) => Dead(s)'
         /\ \A r \in Runs : Fresh(r) /\ process # "none" => Fresh(r)'
         /\ \A r \in Runs : Timed(r) /\ process # "none" => Timed(r)'
         /\ \A r \in Runs : pc[r] \notin NotYetSent /\ Fenced(r) => Fenced(r)'
         /\ \A r \in Runs : Inspectable(r) => Inspectable(r)'
<1>0. server \in Nat
  BY Numbers, BoundsAssumption DEF TypeOK, Servers
<1>1. \A q \in Runs : Coherent(q) /\ Course(q) /\ Coherent(q)'
  BY DEF TurnInv, RunsCoherent, Good
<1>2. ASSUME NEW s, Gone(s)
      PROVE  Gone(s)'
  BY <1>0, <1>2 DEF Gone, Succession
<1>3. ASSUME NEW s, Dead(s)
      PROVE  Dead(s)'
  <2>1. ASSUME NEW r \in Runs, Running(r)' PROVE turn'[r].server # s
    <3>1. CASE Running(r)
      BY <1>1, <1>3, <2>1, <3>1
         DEF Dead, Still, Course, Coherent, History, Running
    <3>2. CASE ~Running(r)
      BY <1>1, <1>3, <2>1, <3>2 DEF Dead, Gone, Course
    <3>3. QED
      BY <3>1, <3>2
  <2>2. QED
    BY <1>2, <1>3, <2>1 DEF Dead, Still
<1>4. ASSUME NEW r \in Runs, Fresh(r), process # "none"
      PROVE  Fresh(r)'
  <2>1. turn'[r].sent = 1 /\ turn'[r].server = turn[r].server
    BY <1>1, <1>4 DEF Course, Fresh, Coherent, History
  <2>2. ASSUME Running(r)' PROVE turn'[r].server = server'
    <3>1. Running(r) /\ turn[r].server = server
      BY <1>1, <1>4, <2>1, <2>2
         DEF Course, Fresh, Running, Ended, Coherent, History
    <3>2. process # "down"
      BY <1>4, <3>1 DEF TurnInv, ServersOrdered, Still
    <3>3. QED
      BY <1>4, <2>1, <3>1, <3>2 DEF Succession
  <2>3. QED
    BY <2>1, <2>2 DEF Fresh
<1>5. ASSUME NEW r \in Runs, Timed(r), process # "none"
      PROVE  Timed(r)'
  <2>1. Fresh(r)'
    BY <1>4, <1>5 DEF Timed
  <2>2. pc'[r] \notin Untimed /\ run'[r].status # "STARTING"
        /\ run'[r].server \in {0, run[r].server}
    BY <1>1, <1>5 DEF Timed, Course
  <2>3. PICK s : s = run[r].server
    OBVIOUS
  <2>4. s \in {0, server'} \/ Dead(s)'
    <3>1. s \in {0, server} \/ Dead(s)
      BY <1>5, <2>3 DEF Timed
    <3>2. CASE s = server /\ server' # server
      <4>1. process = "down" /\ server' = server + 1
        BY <1>5, <3>2 DEF Succession
      <4>2. Still(server) /\ server # 0
        BY <4>1 DEF TurnInv, ServersOrdered
      <4>3. Gone(s) /\ Still(s)
        BY <1>0, <3>2, <4>1, <4>2 DEF Gone
      <4>4. QED
        BY <1>3, <4>3 DEF Dead
    <3>3. QED
      BY <1>3, <3>1, <3>2
  <2>5. run'[r].server \in {0, s}
    BY <2>2, <2>3
  <2>6. run'[r].server \in {0, server'} \/ Dead(run[r].server)'
    BY <2>4, <2>5
  <2>7. QED
    BY <2>1, <2>2, <2>6 DEF Timed
<1>6. ASSUME NEW r \in Runs, pc[r] \notin NotYetSent, Fenced(r)
      PROVE  Fenced(r)'
  <2>1. turn'[r].server = turn[r].server /\ turn[r].server <= server
        /\ turn[r].server \in Nat
    BY <1>1, <1>6, Numbers DEF Course, Coherent, SentTo
  <2>2. QED
    BY <1>0, <1>6, <2>1 DEF Fenced, Succession
<1>7. ASSUME NEW r \in Runs, Inspectable(r)
      PROVE  Inspectable(r)'
  <2>1. /\ pc[r] \notin NotYetSent /\ pc'[r] \notin NotYetSent
        /\ pc'[r] \in Open => pc[r] \in Open
        /\ Ended(r) => Ended(r)'
    BY <1>1, <1>7 DEF Inspectable, Course, NotYetSent, BeforeSend, Ended
  <2>2. QED
    BY <1>6, <1>7, <2>1 DEF Inspectable
<1>8. QED
  BY <1>2, <1>3, <1>4, <1>5, <1>6, <1>7

\* What Append and Tail do to the members of a queue.
LEMMA QueueRange ==
  ASSUME NEW S, NEW q \in Seq(S), NEW x \in S
  PROVE  /\ Range(Append(q, x)) = Range(q) \cup {x}
         /\ q # <<>> => Range(Tail(q)) \subseteq Range(q) /\ Head(q) \in Range(q)
<1>1. Range(Append(q, x)) = Range(q) \cup {x}
  <2>1. Append(q, x) \in Seq(S) /\ Len(Append(q, x)) = Len(q) + 1 /\ Len(q) \in Nat
    OBVIOUS
  <2>2. \A i \in 1..Len(q) : Append(q, x)[i] = q[i]
    OBVIOUS
  <2>3. Append(q, x)[Len(q) + 1] = x
    OBVIOUS
  <2>4. DOMAIN q = 1..Len(q) /\ DOMAIN Append(q, x) = 1..(Len(q) + 1)
    BY <2>1
  <2>5. QED
    BY <2>1, <2>2, <2>3, <2>4 DEF Range
<1>2. q # <<>> => Range(Tail(q)) \subseteq Range(q) /\ Head(q) \in Range(q)
  BY DEF Range
<1>3. QED
  BY <1>1, <1>2

\* The members of a queue of one.
LEMMA SingletonQueue ==
  ASSUME NEW S, NEW x \in S
  PROVE  Range(<<x>>) = {x} /\ <<x>> \in Seq(S)
  BY DEF Range

\* A message that is true stays so.
LEMMA MailPersists ==
  ASSUME TypeOK, TurnInv, Succession, \A q \in Runs : Good(q),
         NEW m \in Range(inbox)
  PROVE  Truthful(m)'
<1>1. Truthful(m) /\ process # "none"
  BY DEF TurnInv, InboxTruthful, ServersOrdered, Range
<1>2. m \in Message
  <2>1. inbox \in Seq(Message)
    BY DEF TypeOK
  <2>2. QED
    BY <2>1, RangeOfSeq
<1>3. CASE m.kind = "exit"
  BY <1>1, <1>3, Persists DEF Truthful, Dead, TurnEnds
<1>4. CASE m.kind # "exit"
  <2>1. m.run \in Runs
    BY <1>2, <1>4 DEF Message
  <2>2. PICK r \in Runs : r = m.run
    BY <2>1
  <2>3. Fresh(r)'
    BY <1>1, <1>4, <2>2, Persists DEF Truthful
  <2>4. m.kind \in TurnEnds => turn'[r].state = m.kind
    BY <1>1, <2>2 DEF Truthful, TurnEnds, Good, Course, Ended
  <2>5. m.kind \in {"deadline", "settle"} => Timed(r) /\ Timed(r)'
    BY <1>1, <2>2, Persists DEF Truthful
  <2>6. m.kind = "settle" /\ ~m.failed => run'[r].server = 0 \/ Dead(run[r].server)'
    <3>1. SUFFICES ASSUME m.kind = "settle", ~m.failed
                   PROVE  run'[r].server = 0 \/ Dead(run[r].server)'
      OBVIOUS
    <3>2. run'[r].server \in {0, run[r].server}
      BY <2>5, <3>1 DEF Timed, Good, Course
    <3>3. PICK s : s = run[r].server
      OBVIOUS
    <3>4. s = 0 \/ Dead(s)'
      BY <1>1, <2>2, <3>1, <3>3, Persists DEF Truthful
    <3>5. run'[r].server \in {0, s}
      BY <3>2, <3>3
    <3>6. QED
      BY <3>4, <3>5
  <2>7. QED
    BY <1>4, <2>2, <2>3, <2>4, <2>5, <2>6 DEF Truthful
<1>5. QED
  BY <1>3, <1>4

\* A message that a step adds is true, and tells the end only of a turn whose
\* server is connected.
NewMail ==
  \A m \in Range(inbox') :
    \/ m \in Range(inbox)
    \/ Truthful(m)' /\ (m.kind \in TurnEnds => ~Fenced(m.run))

\* One true message is appended.
LEMMA AppendedMail ==
  ASSUME TypeOK, NEW m \in Message, inbox' = Append(inbox, m), Truthful(m)',
         m.kind \in TurnEnds => ~Fenced(m.run)
  PROVE  NewMail
<1>1. inbox \in Seq(Message)
  BY DEF TypeOK
<1>2. Range(inbox') = Range(inbox) \cup {m}
  BY <1>1, QueueRange
<1>3. QED
  BY <1>2 DEF NewMail

\* Nothing is appended.
LEMMA NoMail ==
  ASSUME TypeOK, inbox' \in {inbox, <<>>} \/ (inbox # <<>> /\ inbox' = Tail(inbox))
  PROVE  NewMail
<1>1. inbox \in Seq(Message) /\ Range(<<>>) = {}
  BY DEF TypeOK, Range
<1>2. inbox # <<>> => Range(Tail(inbox)) \subseteq Range(inbox)
  BY <1>1 DEF Range
<1>3. QED
  BY <1>1, <1>2 DEF NewMail

\* The messages that a deadline appends for a turn that did not end.
LEMMA DeadlineMail ==
  ASSUME TypeOK, inbox # <<>>, NEW m \in Message, NEW n \in Message,
         NEW announced \in {<<>>, <<m>>},
         inbox' = Tail(inbox) \o announced \o <<n>>,
         Truthful(m)', Truthful(n)', m.kind \notin TurnEnds, n.kind \notin TurnEnds
  PROVE  NewMail
<1>1. inbox \in Seq(Message)
  BY DEF TypeOK
<1>2. Range(Tail(inbox)) \subseteq Range(inbox) /\ Tail(inbox) \in Seq(Message)
  BY <1>1 DEF Range
<1>3. announced \in Seq(Message) /\ Range(announced) \subseteq {m}
  <2>1. Range(<<>>) = {} /\ <<>> \in Seq(Message)
    BY DEF Range
  <2>2. Range(<<m>>) = {m} /\ <<m>> \in Seq(Message)
    BY SingletonQueue
  <2>3. QED
    BY <2>1, <2>2
<1>4. Range(<<n>>) = {n} /\ <<n>> \in Seq(Message)
  BY SingletonQueue
<1>5. /\ Tail(inbox) \o announced \in Seq(Message)
      /\ Range(Tail(inbox) \o announced) = Range(Tail(inbox)) \cup Range(announced)
  <2>1. PICK q \in Seq(Message) : q = Tail(inbox)
    BY <1>2
  <2>2. PICK a \in Seq(Message) : a = announced
    BY <1>3
  <2>3. Range(q \o a) = Range(q) \cup Range(a)
    BY RangeConcatenation
  <2>4. q \o a \in Seq(Message)
    OBVIOUS
  <2>5. QED
    BY <2>1, <2>2, <2>3, <2>4
<1>6. Range(inbox') = Range(Tail(inbox) \o announced) \cup Range(<<n>>)
  <2>1. PICK q \in Seq(Message) : q = Tail(inbox) \o announced
    BY <1>5
  <2>2. PICK a \in Seq(Message) : a = <<n>>
    BY <1>4
  <2>3. Range(q \o a) = Range(q) \cup Range(a)
    BY RangeConcatenation
  <2>4. QED
    BY <2>1, <2>2, <2>3
<1>7. QED
  BY <1>2, <1>3, <1>4, <1>5, <1>6 DEF NewMail

\* When the process tree of the newest server is gone, no turn runs on it.
LEMMA StopTurnsStill ==
  ASSUME TypeOK, StopTurnsOf(server), server' = server
  PROVE  Still(server)'
<1>1. turn \in [Runs -> TurnRecord]
  BY DEF TypeOK
<1>2. ASSUME NEW q \in Runs, turn'[q].state = "active"
      PROVE  turn'[q].server # server
  <2>1. turn[q] \in TurnRecord
    BY <1>1
  <2>2. CASE q \in Active /\ turn[q].server = server
    <3>1. turn'[q] = [turn[q] EXCEPT !.state = "stopped", !.to = repo]
      BY <2>2 DEF StopTurnsOf
    <3>2. turn'[q].state = "stopped"
      BY <2>1, <3>1 DEF TurnRecord
    <3>3. QED
      BY <1>2, <3>2
  <2>3. CASE ~(q \in Active /\ turn[q].server = server)
    <3>1. turn'[q] = turn[q]
      BY <2>3 DEF StopTurnsOf
    <3>2. QED
      BY <1>2, <2>3, <3>1 DEF Active
  <2>4. QED
    BY <2>2, <2>3
<1>3. QED
  BY <1>2 DEF Still, Running

\* Every step appends true messages only.
LEMMA MailStep ==
  ASSUME TypeOK, TurnInv, Next, Succession, \A q \in Runs : Good(q)
  PROVE  NewMail
<1>1. ASSUME NEW r \in Runs, Start(r) \/ Stop(r), ~Submit(r)
      PROVE  NewMail
  BY <1>1, CallerFrame, NoMail
<1>3. ASSUME NEW r \in Runs, Submit(r)
      PROVE  NewMail
  <2>1. /\ turn'[r].sent = 1 /\ turn'[r].server = server /\ server' = server
    <3>1. turn[r].sent = 0 /\ turn[r] \in TurnRecord /\ turn \in [Runs -> TurnRecord]
      BY <1>3, TurnInvParts
         DEF Submit, Coherent, History, NotYetSent, BeforeSend
    <3>2. QED
      BY <1>3, <3>1 DEF Submit, TurnRecord
  <2>2. Truthful(Notification("started", r))'
    BY <2>1 DEF Truthful, Notification, Fresh, TurnEnds
  <2>3. CASE inbox' = inbox
    BY <2>3, NoMail
  <2>4. CASE inbox' = Append(inbox, Notification("started", r))
    BY <2>2, <2>4, AppendedMail, MessageTypes DEF Notification, TurnEnds
  <2>5. QED
    BY <1>3, <2>3, <2>4 DEF Submit
<1>4. CASE Adapter /\ ~HandleDeadline
  <2>1. inbox' = inbox \/ (inbox # <<>> /\ inbox' = Tail(inbox))
    BY <1>4
       DEF codex, Adapter, Inbound, HandleStarted, HandleCompletedAck,
           CompletedConflict, HandleCompleted, HandleExit, HandleDeadlineLate,
           HandleSettleStopped, HandleSettleUncertain, SweepEnds, SweepRun,
           SweepAborts
  <2>2. QED
    BY <2>1, NoMail
<1>5. CASE HandleDeadline
  <2> DEFINE r == Head(inbox).run
  <2>1. /\ r \in Runs /\ Timed(r) /\ process # "none" /\ server # 0
        /\ server' = server /\ inbox # <<>> /\ run' = run
    BY <1>5, HeadFacts DEF HandleDeadline, Inbound, Truthful, store
  <2>2. PICK s \in Runs : s = r
    BY <2>1
  <2>3. Timed(s)'
    BY <2>1, <2>2, Persists
  <2>4. ASSUME process' # "up", NEW confirmed \in BOOLEAN, NEW failed \in BOOLEAN,
               confirmed => Still(server)', failed \/ Still(server)',
               NEW announced \in {<<>>, <<Exit(server, confirmed)>>},
               inbox' = Tail(inbox) \o announced \o <<Settle(s, failed)>>
        PROVE  NewMail
    <3>1. Gone(server)'
      BY <2>1, <2>4, Numbers, BoundsAssumption DEF Gone, TypeOK, Servers
    <3>2. Truthful(Exit(server, confirmed))'
      BY <2>4, <3>1 DEF Truthful, Exit, TurnEnds
    <3>3. Truthful(Settle(s, failed))'
      <4>1. Still(server)' => Dead(server)'
        BY <3>1 DEF Dead
      <4>2. ~failed => run'[s].server = 0 \/ Dead(run[s].server)'
        BY <2>1, <2>3, <2>4, <4>1 DEF Timed
      <4>3. QED
        BY <2>3, <4>2 DEF Truthful, Settle, TurnEnds, Timed
    <3>4. Exit(server, confirmed) \in Message /\ Settle(s, failed) \in Message
      BY MessageTypes DEF TypeOK
    <3>5. QED
      BY <2>1, <2>4, <3>2, <3>3, <3>4, DeadlineMail DEF Exit, Settle, TurnEnds
  <2>5. CASE /\ process' = "down" /\ StopTurnsOf(server)
             /\ \E announced \in {<<>>, <<Exit(server, TRUE)>>} :
                  inbox' = Tail(inbox) \o announced \o <<Settle(s, FALSE)>>
    <3>1. Still(server)'
      BY <2>1, <2>5, StopTurnsStill
    <3>2. QED
      BY <2>4, <2>5, <3>1
  <2>6. CASE /\ process' = "fenced"
             /\ \E announced \in {<<>>, <<Exit(server, FALSE)>>} :
                  inbox' = Tail(inbox) \o announced \o <<Settle(s, TRUE)>>
    BY <2>4, <2>6
  <2>7. QED
    BY <1>5, <2>1, <2>2, <2>5, <2>6 DEF HandleDeadline
<1>6. CASE EventQueue \/ Recovery \/ Shutdown
  <2>1. inbox' \in {inbox, <<>>}
    BY <1>6
     DEF codex, EventQueue, ReachBarrier, TakeEvent, VerifyBoundary,
         ReopenViolated, FailViolated, Recovery, RecoverEnds, BeginReconcile,
         OpenService, RecoverLoss, ReconcileRun, Shutdown, LatchShutdown,
         StopProvider, SettleShutdown, CloseStores, Forget
  <2>2. QED
    BY <2>1, NoMail
<1>7. CASE ServerStarts \/ Edit \/ BeginShutdown \/ Crash \/ Restart
  <2>1. inbox' \in {inbox, <<>>}
    BY <1>7 DEF codex, ServerStarts, Edit, BeginShutdown, Crash, Forget, Restart
  <2>2. QED
    BY <2>1, NoMail
<1>8. CASE ServerExits
  <2>1. PICK confirmed \in BOOLEAN :
          /\ process' = IF confirmed THEN "down" ELSE "fenced"
          /\ inbox' = Append(inbox, Exit(server, confirmed))
          /\ IF confirmed THEN StopTurnsOf(server) ELSE UNCHANGED turn
    BY <1>8 DEF ServerExits
  <2>2. server' = server /\ server # 0 /\ server \in Servers
    BY <1>8 DEF ServerExits, TurnInv, ServersOrdered, TypeOK
  <2>3. Gone(server)' /\ (confirmed => Still(server)')
    BY <2>1, <2>2, StopTurnsStill, BoundsAssumption DEF Gone, Servers
  <2>4. Truthful(Exit(server, confirmed))'
    BY <2>3 DEF Truthful, Exit, TurnEnds
  <2>5. QED
    BY <2>1, <2>2, <2>4, AppendedMail, MessageTypes DEF Exit, TurnEnds
<1>9. ASSUME NEW r \in Runs, ProviderEnds(r)
      PROVE  NewMail
  <2>1. PICK end \in TurnEnds :
          /\ turn' = [turn EXCEPT ![r].state = end, ![r].to = repo]
          /\ inbox' = IF Fenced(r) THEN inbox
                      ELSE Append(inbox, Notification(end, r))
    BY <1>9 DEF ProviderEnds
  <2>2. turn'[r].state = end /\ turn'[r].sent = 1
    BY <1>9, <2>1, TurnInvParts
       DEF ProviderEnds, Active, Coherent, History, TurnRecord
  <2>3. Truthful(Notification(end, r))'
    BY <2>2 DEF Truthful, Notification, Fresh, Running, TurnEnds
  <2>4. CASE Fenced(r)
    BY <2>1, <2>4, NoMail
  <2>5. CASE ~Fenced(r)
    BY <2>1, <2>3, <2>5, AppendedMail, MessageTypes DEF Notification
  <2>6. QED
    BY <2>4, <2>5
<1>10. ASSUME NEW r \in Runs, DeadlineFires(r)
       PROVE  NewMail
  <2>1. Timed(r) /\ process # "none" /\ inbox' = Append(inbox, Notification("deadline", r))
    BY <1>10 DEF DeadlineFires, TurnInv, Deadlines, ServersOrdered
  <2>2. Timed(r)'
    BY <2>1, Persists
  <2>3. Truthful(Notification("deadline", r))'
    BY <2>2 DEF Truthful, Notification, Timed, TurnEnds
  <2>4. QED
    BY <2>1, <2>3, AppendedMail, MessageTypes DEF Notification, TurnEnds
<1>11. QED
  BY <1>1, <1>3, <1>4, <1>5, <1>6, <1>7, <1>8, <1>9, <1>10
     DEF Next, Environment

\* The inbox stays truthful.
LEMMA InboxStep ==
  ASSUME TypeOK, TurnInv, Next, Succession, \A q \in Runs : Good(q)
  PROVE  InboxTruthful'
  BY MailStep, MailPersists DEF NewMail, InboxTruthful

-----------------------------------------------------------------------------
(* Phases, servers, deadlines and the loss sweep.                          *)

\* How a step moves the application from one phase to the next.
PhaseMoves ==
  \/ phase' = phase
  \/ phase = "ready" /\ phase' = "closing"
  \/ /\ phase = "closing" /\ phase' = "stopping"
     /\ pc' = pc
     /\ \A r \in Runs : pc[r] \in Quiet
  \/ phase = "stopping" /\ phase' = "settling" /\ process' # "up"
  \/ phase = "settling" /\ phase' = "stopped" /\ process' = process
  \/ phase = "stopped" /\ phase' = "down" /\ pc' = pc
  \/ phase' = "down" /\ \A r \in Runs : pc'[r] \in Quiet
  \/ phase = "down" /\ phase' = "recovering" /\ todo' = Orphans /\ run' = run /\ pc' = pc
  \/ phase = "recovering" /\ phase' = "draining" /\ pc' = pc
  \/ phase = "draining" /\ phase' = "reconciling" /\ pc' = pc
  \/ phase = "reconciling" /\ phase' = "ready"

\* Every step moves the application as stated.
LEMMA PhaseStep ==
  ASSUME TypeOK, TurnInv, Next
  PROVE  PhaseMoves
<1>1. ASSUME NEW r \in Runs, Start(r) \/ Stop(r)
      PROVE  phase' = phase
  BY <1>1, CallerFrame
<1>2. CASE Adapter \/ EventQueue
  BY <1>2
     DEF app, Adapter, HandleStarted, HandleCompletedAck,
         CompletedConflict, HandleCompleted, HandleExit, HandleDeadlineLate,
         HandleDeadline, HandleSettleStopped, HandleSettleUncertain, SweepEnds,
         SweepRun, SweepAborts, EventQueue, ReachBarrier, TakeEvent,
         VerifyBoundary, ReopenViolated, FailViolated, PhaseMoves
<1>3. CASE Recovery \/ LatchShutdown \/ SettleShutdown \/ CloseStores
  BY <1>3
     DEF app, store, caller, codex, Recovery, RecoverEnds, BeginReconcile,
         OpenService, RecoverLoss, ReconcileRun, LatchShutdown,
         SettleShutdown, CloseStores, Forget, PhaseMoves, Quiet
<1>4. CASE StopProvider
  BY <1>4 DEF StopProvider, PhaseMoves
<1>5. CASE Crash
  BY <1>5 DEF Crash, Forget, PhaseMoves, Quiet
<1>6. CASE Environment /\ ~Crash
  BY <1>6
     DEF app, store, caller, Environment, ServerStarts, ServerExits, Edit,
         BeginShutdown, Restart, ProviderEnds, DeadlineFires, PhaseMoves
<1>7. QED
  BY <1>1, <1>2, <1>3, <1>4, <1>5, <1>6 DEF Next, Shutdown, PhaseMoves

\* No process is up when the application has stopped.
LEMMA SettlingStep ==
  ASSUME TypeOK, TurnInv, Next, Succession
  PROVE  phase' \in {"settling", "stopped"} => process' # "up"
<1>1. CASE phase' = phase
  BY <1>1 DEF Succession, TurnInv, ServersOrdered
<1>2. CASE phase' # phase
  BY <1>2, PhaseStep DEF PhaseMoves, TurnInv, ServersOrdered
<1>3. QED
  BY <1>1, <1>2

\* The servers stay ordered.
LEMMA ServersStep ==
  ASSUME TypeOK, TurnInv, Next, Succession, \A q \in Runs : Good(q)
  PROVE  ServersOrdered'
<1>0. server \in Nat /\ ServersOrdered /\ server' \in Nat
  BY Numbers, BoundsAssumption DEF TypeOK, Servers, TurnInv, Succession
<1>1. CASE process' = process /\ server' = server
  <2>1. process = "none" => inbox' = inbox /\ deadline' = deadline
    <3> SUFFICES ASSUME process = "none" PROVE inbox' = inbox /\ deadline' = deadline
      OBVIOUS
    <3>0. inbox = <<>> /\ deadline = {}
      BY <1>0 DEF ServersOrdered
    <3>1. ASSUME NEW r \in Runs, Start(r) \/ Stop(r)
          PROVE  inbox' = inbox /\ deadline' = deadline
      BY <3>0, <3>1, CallerFrame DEF Submit, InterruptDelivered
    <3>2. CASE Adapter
      BY <3>0, <3>2
         DEF codex, Inbound, Adapter, HandleStarted, HandleCompletedAck,
             CompletedConflict, HandleCompleted, HandleExit, HandleDeadlineLate,
             HandleDeadline, HandleSettleStopped, HandleSettleUncertain,
             SweepEnds,
             SweepRun, SweepAborts
    <3>3. CASE EventQueue \/ Recovery \/ Shutdown
      BY <3>0, <3>3
         DEF codex, EventQueue, ReachBarrier, TakeEvent, VerifyBoundary,
             ReopenViolated, FailViolated, Recovery, RecoverEnds,
             BeginReconcile,
             OpenService, RecoverLoss, ReconcileRun, Shutdown, LatchShutdown,
             StopProvider, SettleShutdown, CloseStores, Forget
    <3>4. CASE Environment
      BY <3>0, <3>4
         DEF codex, Environment, ServerStarts, ServerExits, Edit, BeginShutdown,
             Crash, Forget, Restart, ProviderEnds, Fenced, DeadlineFires
    <3>5. QED
      BY <3>1, <3>2, <3>3, <3>4 DEF Next
  <2>2. process = "down" => Still(server)'
    <3>1. process = "down" => Dead(server)
      BY <1>0 DEF ServersOrdered, Dead, Gone
    <3>2. Dead(server) => Dead(server)'
      BY <1>1, Persists
    <3>3. QED
      BY <3>1, <3>2 DEF Dead
  <2>3. QED
    BY <1>0, <1>1, <2>1, <2>2, SettlingStep DEF ServersOrdered
<1>2. CASE server' # server
  BY <1>0, <1>2, SettlingStep DEF Succession, ServersOrdered
<1>3. CASE process' # process /\ server' = server
  <2>1. \/ process' = "none" /\ inbox' = <<>> /\ deadline' = {}
        \/ process # "none" /\ process' = "down" /\ StopTurnsOf(server)
        \/ process # "none" /\ process' = "fenced"
    <3>1. ASSUME NEW r \in Runs, Start(r) \/ Stop(r)
          PROVE  FALSE
      BY <1>3, <3>1, CallerFrame
    <3>2. CASE Adapter
      BY <1>0, <1>3, <3>2
         DEF codex, Inbound, ServersOrdered, Adapter, HandleStarted,
             HandleCompletedAck,
             CompletedConflict, HandleCompleted, HandleExit, HandleDeadlineLate,
             HandleDeadline, HandleSettleStopped, HandleSettleUncertain,
             SweepEnds,
             SweepRun, SweepAborts
    <3>3. CASE EventQueue \/ Recovery \/ Shutdown
      BY <1>3, <3>3
         DEF codex, EventQueue, ReachBarrier, TakeEvent, VerifyBoundary,
             ReopenViolated, FailViolated, Recovery, RecoverEnds,
             BeginReconcile,
             OpenService, RecoverLoss, ReconcileRun, Shutdown, LatchShutdown,
             StopProvider, SettleShutdown, CloseStores, Forget
    <3>4. CASE Environment
      <4>1. ~ServerStarts
        BY <1>0, <1>3 DEF ServerStarts
      <4>2. QED
        BY <1>3, <3>4, <4>1
         DEF codex, Environment, ServerExits, Edit, BeginShutdown,
             Crash, Forget, Restart, ProviderEnds, Fenced, DeadlineFires
    <3>5. QED
      BY <3>1, <3>2, <3>3, <3>4 DEF Next
  <2>2. StopTurnsOf(server) => Still(server)'
    BY <1>3, StopTurnsStill
  <2>3. QED
    BY <1>0, <1>3, <2>1, <2>2, SettlingStep DEF ServersOrdered
<1>4. QED
  BY <1>1, <1>2, <1>3

\* The deadlines stay sound.
LEMMA DeadlineStep ==
  ASSUME TypeOK, TurnInv, Next, Succession, \A q \in Runs : Good(q)
  PROVE  Deadlines'
<1>1. ASSUME NEW r \in Runs, InterruptDelivered(r)
      PROVE  deadline' = deadline \cup {r} /\ Timed(r)'
  <2>1. /\ pc[r] = "interrupting" /\ process = "up" /\ run[r].server = server
        /\ run' = run /\ server' = server /\ server # 0
        /\ deadline' = deadline \cup {r}
    BY <1>1 DEF InterruptDelivered, store, TurnInv, ServersOrdered
  <2>2. pc'[r] = "interruptAcked" /\ turn'[r].state = turn[r].state
        /\ turn'[r].sent = turn[r].sent /\ turn'[r].server = turn[r].server
    BY <1>1, TurnInvParts DEF InterruptDelivered, Goto, TurnRecord
  <2>3. run[r].status # "STARTING" /\ turn[r].sent = 1
        /\ (Running(r) => turn[r].server = server)
    BY <2>1, TurnInvParts
       DEF Coherent, StatusAt, History, SentTo, Over, TerminalStatus
  <2>4. QED
    BY <2>1, <2>2, <2>3
       DEF Timed, Fresh, Running, Untimed, NotYetSent, BeforeSend, Open
<1>2. \/ deadline' \subseteq deadline
      \/ \E r \in Runs : InterruptDelivered(r)
  <2>1. ASSUME NEW r \in Runs, Start(r) \/ Stop(r), ~InterruptDelivered(r)
        PROVE  deadline' = deadline
    BY <2>1, CallerFrame
  <2>2. CASE Adapter
    BY <2>2
       DEF codex, Adapter, HandleStarted, HandleCompletedAck,
           CompletedConflict, HandleCompleted, HandleExit, HandleDeadlineLate,
           HandleDeadline, HandleSettleStopped, HandleSettleUncertain,
           SweepEnds,
           SweepRun, SweepAborts
  <2>3. CASE EventQueue \/ Recovery \/ Shutdown
    BY <2>3
       DEF codex, EventQueue, ReachBarrier, TakeEvent, VerifyBoundary,
           ReopenViolated, FailViolated, Recovery, RecoverEnds, BeginReconcile,
           OpenService, RecoverLoss, ReconcileRun, Shutdown, LatchShutdown,
           StopProvider, SettleShutdown, CloseStores, Forget
  <2>4. CASE Environment
    BY <2>4
       DEF codex, Environment, ServerStarts, ServerExits, Edit, BeginShutdown,
           Crash, Forget, Restart, ProviderEnds, DeadlineFires
  <2>5. QED
    BY <2>1, <2>2, <2>3, <2>4 DEF Next
<1>3. ASSUME NEW r \in deadline PROVE Timed(r)'
  BY Persists DEF TurnInv, Deadlines, ServersOrdered, TypeOK
<1>4. CASE deadline' \subseteq deadline
  BY <1>3, <1>4 DEF Deadlines
<1>5. ASSUME NEW r \in Runs, InterruptDelivered(r) PROVE Deadlines'
  <2>1. deadline' = deadline \cup {r} /\ Timed(r)'
    BY <1>1, <1>5
  <2>2. ASSUME NEW q \in deadline' PROVE Timed(q)'
    BY <1>3, <2>1
  <2>3. QED
    BY <2>2 DEF Deadlines
<1>6. QED
  BY <1>2, <1>4, <1>5

\* A sweep begins with the runs that the records give to its server.
LEMMA SweepBegins ==
  ASSUME NEW s, NEW confirmed, NEW retry
  PROVE  LET new == SweepOf(s, confirmed, retry) IN
         /\ new.server = s /\ new.confirmed = confirmed
         /\ \A r \in new.runs :
              /\ new.snap[r].server = s
              /\ new.snap[r].status # "NONE" /\ ~Terminal(new.snap[r])
  BY DEF SweepOf, Affected

\* The loss sweep stays sound.
LEMMA SweepStep ==
  ASSUME TypeOK, TurnInv, Next, Succession, \A q \in Runs : Good(q)
  PROVE  SweepSound'
<1>1. ASSUME NEW s, NEW confirmed, NEW retry, sweep' = SweepOf(s, confirmed, retry),
             Gone(s), confirmed => Still(s)
      PROVE  SweepSound'
  <2>1. Gone(s)' /\ (confirmed => Still(s)')
    BY <1>1, Persists DEF Dead
  <2>2. QED
    BY <1>1, <2>1, SweepBegins DEF SweepSound
<1>2. CASE sweep' \in {sweep, NoSweep}
  <2>1. CASE sweep' = NoSweep
    BY <2>1 DEF SweepSound, Sweeping
  <2>2. CASE sweep' = sweep /\ Sweeping
    <3>1. PICK s : s = sweep.server
      OBVIOUS
    <3>2. Gone(s) /\ (sweep.confirmed => Still(s))
      BY <2>2, <3>1 DEF TurnInv, SweepSound
    <3>3. Gone(s)' /\ (sweep.confirmed => Still(s)')
      BY <3>2, Persists DEF Dead
    <3>4. QED
      BY <2>2, <3>1, <3>3 DEF TurnInv, SweepSound
  <2>3. QED
    BY <1>2, <2>1, <2>2 DEF Sweeping, SweepSound
<1>3. ASSUME NEW r \in Runs, SweepRun(r)
      PROVE  SweepSound'
  <2>1. PICK s : s = sweep.server
    OBVIOUS
  <2>2. /\ sweep \in SweepRecord /\ Sweeping
        /\ sweep' = [sweep EXCEPT !.runs = @ \ {r}]
    BY <1>3 DEF SweepRun, TypeOK, Sweeping
  <2>3. /\ sweep'.server = s /\ sweep'.confirmed = sweep.confirmed
        /\ sweep'.snap = sweep.snap /\ sweep'.runs \subseteq sweep.runs
    BY <2>1, <2>2 DEF SweepRecord
  <2>4. Gone(s)' /\ (sweep.confirmed => Still(s)')
    BY <2>1, <2>2, Persists DEF Dead, TurnInv, SweepSound
  <2>5. QED
    BY <2>1, <2>2, <2>3, <2>4 DEF TurnInv, SweepSound
<1>4. ASSUME NEW r \in Runs, SweepAborts(r)
      PROVE  SweepSound'
  <2>1. Gone(sweep.server) /\ (sweep.confirmed => Still(sweep.server))
    BY <1>4 DEF SweepAborts, TurnInv, SweepSound
  <2>2. sweep' \in {NoSweep, SweepOf(sweep.server, sweep.confirmed, sweep.retry)}
    BY <1>4 DEF SweepAborts
  <2>3. QED
    BY <1>1, <1>2, <2>1, <2>2
<1>5. CASE HandleExit
  <2>1. inbox # <<>> /\ Head(inbox).kind = "exit"
        /\ sweep' = SweepOf(Head(inbox).server, Head(inbox).confirmed, {})
    BY <1>5 DEF HandleExit, Inbound
  <2>2. Gone(Head(inbox).server) /\ (Head(inbox).confirmed => Still(Head(inbox).server))
    BY <2>1, HeadFacts DEF Truthful
  <2>3. QED
    BY <1>1, <2>1, <2>2
<1>6. CASE HandleSettleStopped
  <2>1. PICK r : r = Head(inbox).run
    OBVIOUS
  <2>2. /\ inbox # <<>> /\ Head(inbox).kind = "settle" /\ ~Head(inbox).failed
        /\ sweep' \in {NoSweep, SweepOf(run[r].server, TRUE, {r})}
        /\ sweep' # NoSweep => run[r].status = "INTERRUPTING"
    BY <1>6, <2>1 DEF HandleSettleStopped, Inbound
  <2>3. r \in Runs /\ (run[r].server = 0 \/ Dead(run[r].server))
    BY <2>1, <2>2, HeadFacts DEF Truthful
  <2>4. run[r].status = "INTERRUPTING" => run[r].server # 0
    BY <2>3, TurnInvParts DEF Coherent, Sound, Consistent
  <2>5. CASE sweep' = NoSweep
    BY <1>2, <2>5
  <2>6. CASE sweep' # NoSweep
    BY <1>1, <2>2, <2>3, <2>4, <2>6 DEF Dead
  <2>7. QED
    BY <2>5, <2>6
<1>7. CASE SettleShutdown
  <2>1. CASE sweep' = sweep
    BY <1>2, <2>1
  <2>2. CASE process # "none" /\ sweep' = SweepOf(server, process = "down", {})
    <3>1. phase = "settling"
      BY <1>7 DEF SettleShutdown
    <3>2. server # 0 /\ (process = "down" => Still(server))
      BY <2>2 DEF TurnInv, ServersOrdered
    <3>3. process # "up" => Gone(server)
      BY <3>2, Numbers, BoundsAssumption DEF Gone, TypeOK, Servers
    <3>4. process # "up"
      BY <3>1 DEF TurnInv, ServersOrdered
    <3>5. QED
      BY <1>1, <2>2, <3>2, <3>3, <3>4
  <2>3. QED
    BY <1>7, <2>1, <2>2 DEF SettleShutdown
<1>8. CASE sweep' # sweep
  <2>1. ASSUME NEW r \in Runs, Start(r) \/ Stop(r)
        PROVE  FALSE
    BY <1>8, <2>1, CallerFrame
  <2>2. CASE Adapter
    BY <1>2, <1>3, <1>4, <1>5, <1>6, <1>8, <2>2
       DEF codex, Adapter, HandleStarted, HandleCompletedAck,
           CompletedConflict, HandleCompleted, HandleDeadlineLate,
           HandleDeadline, HandleSettleUncertain, SweepEnds
  <2>3. CASE EventQueue \/ Recovery \/ Shutdown
    BY <1>2, <1>7, <1>8, <2>3
       DEF codex, EventQueue, ReachBarrier, TakeEvent, VerifyBoundary,
           ReopenViolated, FailViolated, Recovery, RecoverEnds, BeginReconcile,
           OpenService, RecoverLoss, ReconcileRun, Shutdown, LatchShutdown,
           StopProvider, CloseStores, Forget
  <2>4. CASE Environment
    BY <1>2, <1>8, <2>4
       DEF codex, Environment, ServerStarts, ServerExits, Edit, BeginShutdown,
           Crash, Forget, Restart, ProviderEnds, DeadlineFires
  <2>5. QED
    BY <2>1, <2>2, <2>3, <2>4 DEF Next
<1>9. QED
  BY <1>2, <1>8

-----------------------------------------------------------------------------
(* The event queue, and the calls that wait for it.                        *)

\* What a step does to the event queue and the calls that await it.
Awaiting == \A r \in Runs : pc[r] = "draining" => pc'[r] = "draining"

EventMoves ==
  \/ events' = <<>>
  \/ events' = events /\ Awaiting
  \/ /\ events # <<>> /\ Head(events).kind = "event"
     /\ events' = Tail(events) /\ Awaiting
  \/ /\ events # <<>> /\ Head(events).kind = "barrier"
     /\ events' = Tail(events)
     /\ pc' = [pc EXCEPT ![Head(events).run] = "settling"]
  \/ /\ Awaiting
     /\ \E r \in Runs :
          /\ Inspectable(r)
          /\ events' = Append(events, [kind |-> "event", run |-> r])
  \/ /\ Awaiting
     /\ \E r \in Runs :
          /\ pc[r] = "finishing" /\ pc'[r] = "draining"
          /\ events' = Append(events, [kind |-> "barrier", run |-> r])

\* Emit appends an event at most.
LEMMA EmitMoves ==
  ASSUME NEW r \in Runs, Inspectable(r), Emit(r), Awaiting
  PROVE  EventMoves
  BY DEF Emit, EventMoves

\* A turn that was sent to a server that is lost, and a turn that has ended,
\* may be inspected.
LEMMA LostInspectable ==
  ASSUME TypeOK, TurnInv, NEW r \in Runs, Gone(run[r].server)
  PROVE  Inspectable(r)
<1>1. run[r].server # 0 /\ turn[r].sent = 1
  BY Numbers, TurnInvParts, BoundsAssumption
     DEF Gone, Coherent, History, TypeOK, Servers
<1>2. Ended(r) \/ Running(r)
  BY <1>1, TurnInvParts DEF Coherent, History, Ended, Running
<1>3. Running(r) => Fenced(r)
  BY <1>1, TurnInvParts DEF Coherent, SentTo, Fenced, Gone
<1>4. QED
  BY <1>1, <1>2, <1>3, TurnInvParts DEF Inspectable, Coherent, History

\* Every step changes the event queue as stated.
LEMMA EventStep ==
  ASSUME TypeOK, TurnInv, Next
  PROVE  EventMoves
<1>1. ASSUME NEW r \in Runs, Start(r) \/ Stop(r)
      PROVE  EventMoves
  <2>0. pc \in [Runs -> Labels]
    BY DEF TypeOK
  <2>1. CASE AwaitEvents(r)
    BY <2>0, <2>1 DEF AwaitEvents, EventMoves, Awaiting, Goto
  <2>2. CASE ~AwaitEvents(r)
    BY <1>1, <2>0, <2>2, CallerFrame, CallerOnly DEF Awaiting, EventMoves, Same
  <2>3. QED
    BY <2>1, <2>2
<1>2. CASE HandleCompleted
  <2>1. PICK r : r = Head(inbox).run
    OBVIOUS
  <2>2. inbox # <<>> /\ Head(inbox).kind \in TurnEnds
    BY <1>2 DEF HandleCompleted, Inbound
  <2>3. r \in Runs /\ turn[r].sent = 1 /\ turn[r].state \in TurnEnds
    BY <2>1, <2>2, HeadFacts DEF Truthful, Fresh, TurnEnds
  <2>4. Inspectable(r)
    BY <2>3, TurnInvParts DEF Inspectable, Ended, Coherent, History, TurnEnds
  <2>5. (events' = events \/ Emit(r)) /\ Awaiting
    BY <1>2, <2>1 DEF HandleCompleted, caller, Awaiting
  <2>6. QED
    BY <2>3, <2>4, <2>5, EmitMoves DEF EventMoves
<1>3. ASSUME NEW r \in Runs, SweepRun(r)
      PROVE  EventMoves
  <2>1. Gone(run[r].server) /\ Emit(r) /\ Awaiting
    BY <1>3
       DEF SweepRun, SweepAccepted, TurnInv, SweepSound, caller, Awaiting
  <2>2. QED
    BY <2>1, LostInspectable, EmitMoves
<1>4. CASE HandleSettleUncertain
  <2>1. PICK r : r = Head(inbox).run
    OBVIOUS
  <2>2. inbox # <<>> /\ Head(inbox).kind = "settle"
    BY <1>4 DEF HandleSettleUncertain, Inbound
  <2>3. r \in Runs /\ Timed(r)
    BY <2>1, <2>2, HeadFacts DEF Truthful
  <2>4. Inspectable(r)
    BY <2>3 DEF Inspectable, Timed, Untimed
  <2>5. (events' = events \/ Emit(r)) /\ Awaiting
    BY <1>4, <2>1 DEF HandleSettleUncertain, caller, Awaiting
  <2>6. QED
    BY <2>3, <2>4, <2>5, EmitMoves DEF EventMoves
<1>5. ASSUME NEW r \in Runs, RecoverLoss(r)
      PROVE  EventMoves
  <2>1. run[r].server # 0 /\ pc[r] \in Quiet /\ Emit(r) /\ Awaiting
    BY <1>5 DEF RecoverLoss, TurnInv, CallsLeaving, caller, Awaiting
  <2>2. turn[r].sent = 1
    BY <2>1, TurnInvParts DEF Coherent, History
  <2>3. Inspectable(r)
    BY <2>1, <2>2, TurnInvParts DEF Inspectable, Coherent, History, Quiet, Open
  <2>4. QED
    BY <2>1, <2>3, EmitMoves
<1>6. CASE CompletedConflict
  <2>1. pc \in [Runs -> Labels]
    BY DEF TypeOK
  <2>2. QED
    BY <1>6, <2>1
       DEF CompletedConflict, queue, GiveUp, Goto, EventMoves, Awaiting
<1>7. CASE Adapter
  BY <1>2, <1>3, <1>4, <1>6, <1>7
     DEF queue, caller, Awaiting, Adapter, HandleStarted, HandleCompletedAck,
         HandleExit, HandleDeadlineLate, HandleDeadline, HandleSettleStopped,
         SweepEnds, SweepAborts, EventMoves
<1>8. CASE EventQueue
  BY <1>8
     DEF queue, caller, Awaiting, EventQueue, ReachBarrier, TakeEvent,
         VerifyBoundary,
         ReopenViolated, FailViolated, EventMoves, Goto
<1>9. ASSUME NEW r \in Runs, ReconcileRun(r)
      PROVE  EventMoves
  BY <1>9 DEF ReconcileRun, Goto, EventMoves, Awaiting
<1>10. CASE Recovery \/ Shutdown
  BY <1>5, <1>9, <1>10
     DEF queue, caller, Awaiting, Recovery, RecoverEnds, BeginReconcile,
         OpenService, Shutdown, LatchShutdown,
         StopProvider, SettleShutdown, CloseStores, Forget, EventMoves
<1>11. CASE Environment
  BY <1>11
     DEF queue, caller, Awaiting, Environment, ServerStarts, ServerExits, Edit,
         BeginShutdown, Crash, Forget, Restart, ProviderEnds, DeadlineFires,
         EventMoves
<1>12. QED
  BY <1>1, <1>7, <1>8, <1>10, <1>11 DEF Next

\* The event queue stays sound.
LEMMA EventsStep ==
  ASSUME TypeOK, TurnInv, Next, Succession, \A q \in Runs : Good(q)
  PROVE  EventsSound'
<1> DEFINE Fit(e) == IF e.kind = "event" THEN Inspectable(e.run)
                                         ELSE pc[e.run] = "draining"
           Alone(q) == \A i, j \in DOMAIN q :
                         q[i].kind = "barrier" /\ q[j] = q[i] => i = j
<1>1. events \in Seq(QueueItem) /\ pc \in [Runs -> Labels] /\ Alone(events)
  BY DEF TypeOK, TurnInv, EventsSound
<1>2. ASSUME NEW e \in Range(events)
      PROVE  /\ e.run \in Runs /\ Fit(e)
             /\ e.kind = "event" \/ Awaiting => Fit(e)'
  <2>1. Fit(e) /\ e \in QueueItem
    BY <1>1, <1>2, RangeOfSeq DEF TurnInv, EventsSound
  <2>2. PICK r \in Runs : r = e.run
    BY <2>1 DEF QueueItem
  <2>3. Inspectable(r) => Inspectable(r)'
    BY Persists
  <2>4. QED
    BY <2>1, <2>2, <2>3 DEF Awaiting
<1>3. ASSUME NEW e \in QueueItem, Fit(e)', events' = Append(events, e), Awaiting,
             e.kind = "barrier" => pc[e.run] # "draining"
      PROVE  EventsSound'
  <2>1. Range(events') = Range(events) \cup {e}
    BY <1>1, <1>3, QueueRange
  <2>2. e.kind = "barrier" => e \notin Range(events)
    BY <1>2, <1>3
  <2>3. Alone(events')
    <3>1. ASSUME NEW i \in DOMAIN events', NEW j \in DOMAIN events',
                 events'[i].kind = "barrier", events'[j] = events'[i]
          PROVE  i = j
      <4>1. /\ DOMAIN events = 1..Len(events) /\ Len(events) \in Nat
            /\ DOMAIN events' = 1..(Len(events) + 1)
            /\ events'[Len(events) + 1] = e
            /\ \A k \in 1..Len(events) : events'[k] = events[k]
        BY <1>1, <1>3
      <4>2. \A k \in 1..Len(events) : events[k] \in Range(events)
        BY <4>1 DEF Range
      <4>3. CASE i \in 1..Len(events) /\ j \in 1..Len(events)
        BY <1>1, <3>1, <4>1, <4>3
      <4>4. CASE i = Len(events) + 1 /\ j \in 1..Len(events)
        BY <2>2, <3>1, <4>1, <4>2, <4>4
      <4>5. CASE j = Len(events) + 1 /\ i \in 1..Len(events)
        BY <2>2, <3>1, <4>1, <4>2, <4>5
      <4>6. QED
        BY <4>1, <4>3, <4>4, <4>5
    <3>2. QED
      BY <3>1
  <2>4. QED
    BY <1>2, <1>3, <2>1, <2>3 DEF EventsSound
<1>4. CASE /\ events # <<>> /\ events' = Tail(events)
           /\ \/ Awaiting
              \/ /\ Head(events).kind = "barrier"
                 /\ pc' = [pc EXCEPT ![Head(events).run] = "settling"]
  <2>1. /\ DOMAIN events = 1..Len(events) /\ Len(events) \in Nat \ {0}
        /\ DOMAIN events' = 1..(Len(events) - 1)
        /\ \A k \in 1..(Len(events) - 1) : events'[k] = events[k + 1]
        /\ Head(events) = events[1]
    BY <1>1, <1>4
  <2>2. Alone(events')
    BY <1>1, <2>1
  <2>3. Range(events') \subseteq Range(events)
    BY <2>1 DEF Range
  <2>4. CASE Awaiting
    BY <1>2, <2>2, <2>3, <2>4 DEF EventsSound
  <2>5. CASE /\ Head(events).kind = "barrier"
             /\ pc' = [pc EXCEPT ![Head(events).run] = "settling"]
    <3>1. Head(events) \in Range(events) /\ Head(events) \in QueueItem
      BY <1>1, <2>1 DEF Range
    <3>2. ASSUME NEW e \in Range(events')
          PROVE  Fit(e)'
      <4>1. e \in Range(events) /\ e \in QueueItem
        BY <1>1, <2>3, <3>2, RangeOfSeq
      <4>2. e.kind = "barrier" => e # Head(events)
        BY <1>1, <2>1, <3>2 DEF Range
      <4>3. e.kind = "barrier" => e.run # Head(events).run
        BY <2>5, <3>1, <4>1, <4>2 DEF QueueItem
      <4>4. e.kind # "event" => pc'[e.run] = "draining"
        BY <1>1, <1>2, <2>5, <4>1, <4>3 DEF QueueItem
      <4>5. QED
        BY <1>2, <4>1, <4>4
    <3>3. QED
      BY <2>2, <3>2 DEF EventsSound
  <2>6. QED
    BY <1>4, <2>4, <2>5
<1>5. ASSUME NEW r \in Runs, Inspectable(r), Awaiting,
             events' = Append(events, [kind |-> "event", run |-> r])
      PROVE  EventsSound'
  <2>1. Inspectable(r)'
    BY <1>5, Persists
  <2>2. [kind |-> "event", run |-> r] \in QueueItem
    BY DEF QueueItem
  <2>3. QED
    BY <1>3, <1>5, <2>1, <2>2
<1>6. ASSUME NEW r \in Runs, pc[r] = "finishing", pc'[r] = "draining", Awaiting,
             events' = Append(events, [kind |-> "barrier", run |-> r])
      PROVE  EventsSound'
  <2>1. [kind |-> "barrier", run |-> r] \in QueueItem
    BY DEF QueueItem
  <2>2. QED
    BY <1>3, <1>6, <2>1
<1>7. CASE events' = <<>>
  BY <1>7 DEF EventsSound, Range
<1>8. CASE events' = events /\ Awaiting
  BY <1>1, <1>2, <1>8 DEF EventsSound
<1>9. QED
  BY <1>4, <1>5, <1>6, <1>7, <1>8, EventStep DEF EventMoves

\* The event queue writes the record of the run it verifies only, completes
\* none, and changes what was found of the repository by inspecting it.
EventWrites(q) ==
  /\ run'[q].server = run[q].server
  /\ run'[q].status = "COMPLETED" => run[q].status = "COMPLETED"
  /\ \/ run'[q].integrity = run[q].integrity
     \/ /\ VerifyBoundary
        /\ q = verifying.run /\ run[q] = verifying.snap
        /\ run'[q].integrity \in Boundary(run[q])

\* Every step of the event queue writes as stated.
LEMMA EventQueueWrites ==
  ASSUME TypeOK, EventQueue, NEW q \in Runs
  PROVE  EventWrites(q)
<1>0. run \in [Runs -> RunRecord] /\ run[q] \in RunRecord
  BY DEF TypeOK
<1>1. CASE ReachBarrier \/ TakeEvent
  BY <1>1 DEF ReachBarrier, TakeEvent, store, EventWrites
<1>2. CASE VerifyBoundary \/ ReopenViolated \/ FailViolated
  <2>1. VerifyingNow
    BY <1>2 DEF VerifyBoundary, ReopenViolated, FailViolated
  <2>2. PICK r \in Runs : r = verifying.run
    BY <2>1, VerifyingTypes
  <2>3. run[r] \in RunRecord
    BY <1>0
  <2>4. ASSUME NEW rec, run' = [run EXCEPT ![r] = rec],
               rec.server = run[r].server, rec.integrity = run[r].integrity,
               rec.status = "COMPLETED" => run[r].status = "COMPLETED"
        PROVE  EventWrites(q)
    <3>1. CASE q = r
      BY <1>0, <2>4, <3>1 DEF EventWrites
    <3>2. CASE q # r
      BY <1>0, <2>4, <3>2 DEF EventWrites
    <3>3. QED
      BY <3>1, <3>2
  <2>5. CASE ReopenViolated
    <3> DEFINE rec == [run[r] EXCEPT !.status = "RECOVERY_REQUIRED",
                             !.recovery = "REQUIRES_USER_ACTION",
                             !.source = "REPOSITORY_INTEGRITY"]
    <3>1. run' = [run EXCEPT ![r] = rec]
      BY <2>2, <2>5 DEF ReopenViolated, Write
    <3>2. rec.server = run[r].server /\ rec.integrity = run[r].integrity
          /\ rec.status = "RECOVERY_REQUIRED"
      BY <2>3 DEF RunRecord
    <3> HIDE DEF rec
    <3>3. QED
      BY <2>4, <3>1, <3>2
  <2>6. CASE FailViolated
    <3> DEFINE delivery == IF run[r].status = "FAILED" THEN run[r].delivery
                           ELSE IF run[r].turnId THEN "TERMINAL"
                           ELSE "NOT_DELIVERED"
               rec == [run[r] EXCEPT !.status = "FAILED", !.delivery = delivery,
                         !.recovery = "NONE", !.source = "REPOSITORY_INTEGRITY"]
    <3>1. run' = run \/ run' = [run EXCEPT ![r] = rec]
      BY <2>2, <2>6 DEF FailViolated, Write
    <3>2. rec.server = run[r].server /\ rec.integrity = run[r].integrity
          /\ rec.status = "FAILED"
      BY <2>3 DEF RunRecord
    <3> HIDE DEF rec
    <3>3. QED
      BY <2>4, <3>1, <3>2 DEF EventWrites
  <2>7. CASE VerifyBoundary
    <3>1. CASE RecoverProcessing(r)
      <4> DEFINE rec == [run[r] EXCEPT !.status = "RECOVERY_REQUIRED",
                                       !.recovery = "RECONCILING"]
      <4>1. run' = run \/ run' = [run EXCEPT ![r] = rec]
        BY <3>1 DEF RecoverProcessing, Write
      <4>2. rec.server = run[r].server /\ rec.integrity = run[r].integrity
            /\ rec.status = "RECOVERY_REQUIRED"
        BY <2>3 DEF RunRecord
      <4> HIDE DEF rec
      <4>3. QED
        BY <2>4, <4>1, <4>2 DEF EventWrites
    <3>2. ASSUME NEW found \in Boundary(run[r]), run[r] = verifying.snap,
                 Write(r, [run[r] EXCEPT !.integrity = found])
          PROVE  EventWrites(q)
      <4> DEFINE rec == [run[r] EXCEPT !.integrity = found]
      <4>1. /\ rec.server = run[r].server /\ rec.status = run[r].status
            /\ rec.integrity = found /\ run' = [run EXCEPT ![r] = rec]
        BY <2>3, <3>2 DEF RunRecord, Write
      <4> HIDE DEF rec
      <4>2. CASE q # r
        BY <1>0, <4>1, <4>2 DEF EventWrites
      <4>3. CASE q = r
        <5>1. run'[q] = rec
          BY <1>0, <4>1, <4>3
        <5>2. QED
          BY <2>2, <2>7, <3>2, <4>1, <4>3, <5>1 DEF EventWrites
      <4>4. QED
        BY <4>2, <4>3
    <3>3. QED
      BY <2>2, <2>7, <3>1, <3>2 DEF VerifyBoundary
  <2>8. QED
    BY <1>2, <2>5, <2>6, <2>7
<1>3. QED
  BY <1>1, <1>2 DEF EventQueue

\* The update for a lost server keeps the server in the record.
LEMMA LossKeepsServer ==
  ASSUME TypeOK, NEW s \in Runs, SweepRun(s) \/ RecoverLoss(s), NEW q \in Runs
  PROVE  run'[q].server = run[q].server
<1>1. run \in [Runs -> RunRecord] /\ run[q] \in RunRecord
  BY DEF TypeOK
<1>2. \/ run' = [run EXCEPT ![s] = Lost(run[s])]
      \/ run' = [run EXCEPT ![s] = Stopped(run[s])]
  BY DEF SweepRun, RecoverLoss, Write, SweepUpdate
<1>3. Lost(run[q]).server = run[q].server /\ Stopped(run[q]).server = run[q].server
  BY <1>1 DEF Lost, Stopped, RunRecord
<1>4. QED
  BY <1>1, <1>2, <1>3

\* Calls stay at the points that the phase allows.
LEMMA CallsStep ==
  ASSUME TypeOK, TurnInv, Next
  PROVE  CallsLeaving'
<1>1. PhaseMoves
  BY PhaseStep
<1>2. pc \in [Runs -> Labels] /\ CallsLeaving
  BY DEF TypeOK, TurnInv
<1>3. ASSUME phase \notin {"ready", "closing"}, phase' # "ready", NEW q \in Runs
      PROVE  pc'[q] \in Leaving
  <2>0. pc[q] \in Leaving
    BY <1>2, <1>3 DEF CallsLeaving
  <2>1. ASSUME NEW r \in Runs, Start(r)
        PROVE  FALSE
    <3>1. pc[r] \in Leaving
      BY <1>2, <1>3 DEF CallsLeaving
    <3>2. QED
      BY <1>3, <2>1, <3>1, CallerFrame
  <2>2. ASSUME NEW r \in Runs, Stop(r)
        PROVE  pc'[q] \in Leaving
    <3>1. pc[r] \in Leaving
      BY <1>2, <1>3 DEF CallsLeaving
    <3>2. pc' = [pc EXCEPT ![r] = pc'[r]] /\ pc'[r] \in Leaving /\ pc[r] # "idle"
      BY <1>2, <2>2, <3>1
         DEF Goto, Stop, WaitEnds, WaitFails, InterruptReopen, Quiet,
             InterruptIntent, InterruptRefused, InterruptDelivered,
             InterruptFails,
             InterruptAcked, ConfirmEnds, AwaitEvents, FinishTurn, Purge,
             ReleaseFails, Leaving
    <3>3. QED
      BY <1>2, <2>0, <3>2
  <2>3. CASE Adapter
    <3>1. ~CompletedConflict
      <4>1. SUFFICES ASSUME CompletedConflict PROVE FALSE
        OBVIOUS
      <4>2. PICK r : r = Head(inbox).run
        OBVIOUS
      <4>3. r \in Runs /\ pc[r] = "ambiguous"
        BY <4>1, <4>2, HeadFacts DEF CompletedConflict, Inbound, TurnEnds
      <4>4. QED
        BY <1>2, <1>3, <4>3 DEF CallsLeaving, Leaving, Quiet
    <3>2. pc' = pc
      BY <2>3, <3>1
         DEF caller, Adapter, HandleStarted, HandleCompletedAck,
             HandleCompleted, HandleExit, HandleDeadlineLate,
             HandleDeadline, HandleSettleStopped, HandleSettleUncertain,
             SweepEnds, SweepRun, SweepAborts
    <3>3. QED
      BY <2>0, <3>2 DEF Quiet
  <2>4. CASE ReachBarrier
    <3>1. PICK e : e = Head(events)
      OBVIOUS
    <3>2. pc' = [pc EXCEPT ![e.run] = "settling"]
      BY <2>4, <3>1 DEF ReachBarrier, Goto
    <3>3. QED
      BY <1>2, <2>0, <3>2 DEF Leaving
  <2>5. CASE EventQueue /\ ~ReachBarrier
    <3>1. pc' = pc
      BY <2>5
         DEF caller, EventQueue, TakeEvent, VerifyBoundary,
             ReopenViolated, FailViolated
    <3>2. QED
      BY <2>0, <3>1 DEF Quiet
  <2>6. CASE Recovery \/ Shutdown \/ Environment
    <3>1. pc'[q] \in {pc[q], "finishing"} \cup Quiet
      BY <1>2, <2>6
         DEF caller, Recovery, RecoverEnds, BeginReconcile, Goto, Quiet,
             OpenService, RecoverLoss, ReconcileRun, Shutdown, LatchShutdown,
             StopProvider, SettleShutdown, CloseStores, Forget,
             Environment, ServerStarts, ServerExits, Edit, BeginShutdown,
             Crash, Restart, ProviderEnds, DeadlineFires
    <3>2. QED
      BY <2>0, <3>1 DEF Leaving, Quiet
  <2>7. QED
    BY <2>1, <2>2, <2>3, <2>4, <2>5, <2>6 DEF Next, Quiet
<1>4. ASSUME phase \notin {"ready", "closing", "reconciling"}, NEW q \in Runs
      PROVE  pc'[q] \in Quiet
  <2>0. \A r \in Runs : pc[r] \in Quiet
    BY <1>2, <1>4 DEF CallsLeaving
  <2>1. ASSUME NEW r \in Runs, Start(r) \/ Stop(r)
        PROVE  FALSE
    BY <1>4, <2>0, <2>1, CallerFrame
  <2>2. ~CompletedConflict
    <3>1. SUFFICES ASSUME CompletedConflict PROVE FALSE
      OBVIOUS
    <3>2. PICK r : r = Head(inbox).run
      OBVIOUS
    <3>3. r \in Runs /\ pc[r] = "ambiguous"
      BY <3>1, <3>2, HeadFacts DEF CompletedConflict, Inbound, TurnEnds
    <3>4. QED
      BY <2>0, <3>3 DEF Quiet
  <2>3. ~ReachBarrier
    <3>1. SUFFICES ASSUME ReachBarrier PROVE FALSE
      OBVIOUS
    <3>2. events \in Seq(QueueItem) /\ events # <<>> /\ Head(events).kind = "barrier"
      BY <3>1 DEF ReachBarrier, TypeOK
    <3>3. Head(events) \in Range(events) /\ Head(events) \in QueueItem
      BY <3>2 DEF Range
    <3>4. Head(events).run \in Runs /\ pc[Head(events).run] = "draining"
      BY <3>2, <3>3 DEF TurnInv, EventsSound, QueueItem
    <3>5. QED
      BY <2>0, <3>4 DEF Quiet
  <2>4. CASE Adapter \/ EventQueue
    <3>1. pc' = pc
      BY <2>2, <2>3, <2>4
         DEF caller, Adapter, HandleStarted, HandleCompletedAck,
             HandleCompleted, HandleExit, HandleDeadlineLate,
             HandleDeadline, HandleSettleStopped, HandleSettleUncertain,
             SweepEnds, SweepRun, SweepAborts, EventQueue, TakeEvent,
             VerifyBoundary, ReopenViolated, FailViolated
    <3>2. QED
      BY <2>0, <3>1
  <2>5. CASE Recovery \/ Shutdown \/ Environment
    BY <1>4, <2>0, <2>5
       DEF caller, Recovery, RecoverEnds, BeginReconcile, Quiet,
           OpenService, RecoverLoss, ReconcileRun, Shutdown, LatchShutdown,
           StopProvider, SettleShutdown, CloseStores, Forget,
           Environment, ServerStarts, ServerExits, Edit, BeginShutdown,
           Crash, Restart, ProviderEnds, DeadlineFires
  <2>6. QED
    BY <2>1, <2>4, <2>5 DEF Next
<1>5. phase' = "recovering" => \A r \in todo' : run'[r].server # 0
  <2>1. CASE phase = "recovering" /\ phase' = "recovering"
    <3>1. todo' \subseteq todo /\ \A r \in Runs : run'[r].server = run[r].server
      <4>0. \A r \in Runs : pc[r] \in Quiet
        BY <1>2, <2>1 DEF CallsLeaving
      <4>1. ASSUME NEW r \in Runs, Start(r) \/ Stop(r)
            PROVE  FALSE
        BY <2>1, <4>0, <4>1, CallerFrame
      <4>2. CASE EventQueue \/ (\E s \in Runs : SweepRun(s) \/ RecoverLoss(s))
        <5>1. todo' \subseteq todo
          BY <4>2 DEF EventQueue, ReachBarrier, TakeEvent, VerifyBoundary,
                      ReopenViolated, FailViolated, SweepRun, RecoverLoss, app
        <5>2. QED
          BY <4>2, <5>1, EventQueueWrites, LossKeepsServer DEF EventWrites
      <4>3. CASE Adapter /\ ~\E s \in Runs : SweepRun(s)
        BY <2>1, <4>3
           DEF app, store, Inbound, Adapter, HandleStarted, HandleCompletedAck,
               CompletedConflict, HandleCompleted, HandleExit,
               HandleDeadlineLate, HandleDeadline, HandleSettleStopped,
               HandleSettleUncertain, SweepEnds, SweepAborts
      <4>4. CASE (Recovery /\ ~\E s \in Runs : RecoverLoss(s)) \/ Shutdown
        BY <2>1, <4>4
           DEF store, Recovery, RecoverEnds, BeginReconcile, OpenService,
               ReconcileRun, Shutdown, LatchShutdown, StopProvider,
               SettleShutdown, CloseStores, Forget
      <4>5. CASE Environment
        BY <2>1, <4>5
           DEF store, app, Environment, ServerStarts, ServerExits, Edit,
               BeginShutdown, Crash, Forget, Restart, ProviderEnds,
               DeadlineFires
      <4>6. QED
        BY <4>1, <4>2, <4>3, <4>4, <4>5 DEF Next
    <3>2. QED
      BY <1>2, <2>1, <3>1 DEF CallsLeaving, TypeOK
  <2>2. CASE phase # "recovering" /\ phase' = "recovering"
    BY <1>1, <2>2 DEF PhaseMoves, Orphans
  <2>3. QED
    BY <2>1, <2>2
<1>6. QED
  BY <1>1, <1>2, <1>3, <1>4, <1>5 DEF PhaseMoves, CallsLeaving, Leaving

-----------------------------------------------------------------------------
(* What keeps the end and the verdict of a record.                         *)

\* The end of turn q is the next message.
Heard(q) ==
  inbox # <<>> /\ Head(inbox).kind \in TurnEnds /\ Head(inbox).run = q

\* How the steps of all but the event queue rewrite the record of a turn that
\* was, or may be, sent: it is purged, or keeps what was found of the
\* repository, and completes only when that is heard.
Kept(q) ==
  \/ run'[q] = NoRun
  \/ /\ run'[q].integrity = run[q].integrity
     /\ run[q].status = "NONE" => run'[q] = run[q]
     /\ run'[q].delivery = "NOT_DELIVERED" => run'[q] = run[q]
     /\ run'[q].status = "COMPLETED" => run[q].status = "COMPLETED" \/ Heard(q)

\* A record is rewritten and keeps its integrity.
LEMMA KeptWrite ==
  ASSUME TypeOK, NEW r \in Runs, NEW q \in Runs, NEW rec, Write(r, rec),
         run[r].status # "NONE", rec.integrity = run[r].integrity,
         rec.delivery # "NOT_DELIVERED", rec.status = "COMPLETED" => Heard(r)
  PROVE  Kept(q)
<1>1. run \in [Runs -> RunRecord]
  BY DEF TypeOK
<1>2. CASE q = r
  <2>1. run'[q] = rec
    BY <1>1, <1>2 DEF Write
  <2>2. QED
    BY <1>2, <2>1 DEF Kept
<1>3. CASE q # r
  BY <1>1, <1>3 DEF Write, Kept
<1>4. QED
  BY <1>2, <1>3

\* A record that is not written is kept.
LEMMA UnwrittenKept ==
  ASSUME NEW q \in Runs, run'[q] = run[q]
  PROVE  Kept(q)
  BY DEF Kept

\* The callers keep the end and the verdict of every record.
LEMMA CallerKeeps ==
  ASSUME TypeOK, TurnInv, NEW r \in Runs, Start(r) \/ Stop(r), NEW q \in Runs,
         pc[q] \notin NotYetSent \ {"starting"}
  PROVE  Kept(q)
<1>1. CASE q # r
  BY <1>1, CallerOnly DEF Same, Kept
<1>2. CASE q = r /\ PersistAck(r)
  <2> DEFINE acked == [run[r] EXCEPT !.status = "RUNNING",
                         !.delivery = "ACKNOWLEDGED", !.turnId = TRUE,
                         !.server = turn[r].server]
  <2>1. run' = run \/ Write(r, acked)
    BY <1>2 DEF PersistAck
  <2>2. run[r] \in RunRecord /\ run[r].status # "NONE"
    BY <1>2, TurnInvParts
       DEF PersistAck, Coherent, StatusAt, Open, Over, TerminalStatus
  <2>3. acked.integrity = run[r].integrity /\ acked.delivery = "ACKNOWLEDGED"
        /\ acked.status = "RUNNING"
    BY <2>2 DEF RunRecord
  <2> HIDE DEF acked
  <2>4. QED
    BY <2>1, <2>2, <2>3, KeptWrite, UnwrittenKept
<1>3. CASE q = r /\ StartFails(r)
  <2>1. pc[r] = "ambiguous"
    BY <1>3 DEF StartFails, NotYetSent, BeforeSend
  <2>2. run' = run \/ Write(r, Uncertain(run[r]))
    BY <1>3, <2>1 DEF StartFails
  <2>3. run[r] \in RunRecord /\ run[r].status # "NONE"
    BY <2>1, TurnInvParts DEF Coherent, StatusAt, Open, Over, TerminalStatus
  <2>4. /\ Uncertain(run[r]).integrity = run[r].integrity
        /\ Uncertain(run[r]).delivery = "AMBIGUOUS"
        /\ Uncertain(run[r]).status = "RECOVERY_REQUIRED"
    BY <2>3 DEF RunRecord, Uncertain
  <2>5. QED
    BY <2>2, <2>3, <2>4, KeptWrite, UnwrittenKept
<1>4. CASE q = r /\ Start(r) /\ ~PersistAck(r) /\ ~StartFails(r)
  <2>1. run' = run
    BY <1>4
       DEF store, Start, PrepareTurn, LeaseTurn,
           InspectBefore, InspectBeforeFails, MarkStarting, Submit,
           SubmitFails, Response, ResponseLost, DrainInbound,
           PersistAckConflict, StartFailsConflict, SettleFailedStart,
           VerifyFailedStart, NotYetSent, BeforeSend
  <2>2. QED
    BY <2>1, UnwrittenKept
<1>5. CASE q = r /\ InterruptReopen(r)
  <2> DEFINE rec == [run[r] EXCEPT !.status = "RUNNING", !.interrupt = "NONE",
                             !.recovery = "NONE"]
  <2>1. run[r] \in RunRecord /\ Write(r, rec) /\ run[r].status # "NONE"
        /\ run[r].delivery = "ACKNOWLEDGED"
    BY <1>5, TurnInvParts DEF InterruptReopen, Recovering
  <2>2. rec.integrity = run[r].integrity /\ rec.delivery = "ACKNOWLEDGED"
        /\ rec.status = "RUNNING"
    BY <2>1 DEF RunRecord
  <2> HIDE DEF rec
  <2>3. QED
    BY <2>1, <2>2, KeptWrite
<1>6. CASE q = r /\ InterruptIntent(r)
  <2> DEFINE rec == [run[r] EXCEPT !.status = "INTERRUPTING",
                             !.interrupt = "SENDING"]
  <2>1. run[r] \in RunRecord /\ Write(r, rec) /\ run[r].status # "NONE"
        /\ run[r].delivery = "ACKNOWLEDGED"
    BY <1>6, TurnInvParts DEF InterruptIntent, Coherent, Sound, Consistent
  <2>2. rec.integrity = run[r].integrity /\ rec.delivery = "ACKNOWLEDGED"
        /\ rec.status = "INTERRUPTING"
    BY <2>1 DEF RunRecord
  <2> HIDE DEF rec
  <2>3. QED
    BY <2>1, <2>2, KeptWrite
<1>7. CASE q = r /\ InterruptFails(r)
  <2> DEFINE uncertain == [run[r] EXCEPT !.status = "INTERRUPTING",
                              !.interrupt = "AMBIGUOUS", !.recovery = "NONE"]
             refused == [run[r] EXCEPT !.status = "RECOVERY_REQUIRED",
                                !.interrupt = "NOT_DELIVERED",
                                !.recovery = "REQUIRES_USER_ACTION"]
  <2>1. \/ run' = run
        \/ /\ ~Terminal(run[r]) /\ ~Recovering(run[r])
           /\ Write(r, uncertain) \/ Write(r, refused)
    BY <1>7 DEF InterruptFails
  <2>2. run[r] \in RunRecord /\ pc[r] = "interrupting" /\ Coherent(r)
    BY <1>7, TurnInvParts DEF InterruptFails
  <2>3. ~Terminal(run[r]) /\ ~Recovering(run[r]) =>
          run[r].status # "NONE" /\ run[r].delivery = "ACKNOWLEDGED"
    BY <2>2
       DEF Coherent, StatusAt, Over, Terminal, Recovering, Sound, Consistent
  <2>4. /\ uncertain.integrity = run[r].integrity
        /\ uncertain.delivery = run[r].delivery
        /\ uncertain.status = "INTERRUPTING"
        /\ refused.integrity = run[r].integrity
        /\ refused.delivery = run[r].delivery
        /\ refused.status = "RECOVERY_REQUIRED"
    BY <2>2 DEF RunRecord
  <2> HIDE DEF uncertain, refused
  <2>5. QED
    BY <2>1, <2>3, <2>4, KeptWrite, UnwrittenKept
<1>8. CASE q = r /\ InterruptAcked(r)
  <2> DEFINE rec == [run[r] EXCEPT !.interrupt = "ACKNOWLEDGED"]
  <2>1. run[r] \in RunRecord /\ Coherent(r)
        /\ (run' = run \/ (run[r].status = "INTERRUPTING" /\ Write(r, rec)))
    BY <1>8, TurnInvParts DEF InterruptAcked
  <2>2. rec.integrity = run[r].integrity /\ rec.delivery = run[r].delivery
        /\ rec.status = run[r].status
    BY <2>1 DEF RunRecord
  <2>3. run[r].status = "INTERRUPTING" => run[r].delivery = "ACKNOWLEDGED"
    BY <2>1 DEF Coherent, Sound, Consistent
  <2> HIDE DEF rec
  <2>4. QED
    BY <2>1, <2>2, <2>3, KeptWrite, UnwrittenKept
<1>9. CASE q = r /\ Purge(r)
  BY <1>9, TurnInvParts DEF Purge, Write, Kept
<1>10. CASE /\ q = r /\ Stop(r) /\ ~InterruptReopen(r) /\ ~InterruptIntent(r)
            /\ ~InterruptFails(r) /\ ~InterruptAcked(r) /\ ~Purge(r)
  <2>1. run' = run
    BY <1>10
       DEF store, Stop, WaitEnds, WaitFails, InterruptRefused,
           InterruptDelivered, ConfirmEnds, AwaitEvents, FinishTurn,
           ReleaseFails
  <2>2. QED
    BY <2>1, UnwrittenKept
<1>11. QED
  BY <1>1, <1>2, <1>3, <1>4, <1>5, <1>6, <1>7, <1>8, <1>9, <1>10

\* So does the update for a lost server ...
LEMMA LostKept ==
  ASSUME TypeOK, TurnInv, NEW r \in Runs, NEW q \in Runs, run[r].server # 0,
         run[r].status # "NONE", Write(r, Lost(run[r]))
  PROVE  Kept(q)
<1>1. run[r] \in RunRecord /\ Coherent(r)
  BY TurnInvParts
<1>2. run[r].delivery # "NOT_SENT"
  BY <1>1 DEF Coherent, Sound
<1>3. /\ Lost(run[r]).integrity = run[r].integrity
      /\ Lost(run[r]).delivery = "AMBIGUOUS"
      /\ Lost(run[r]).status = "RECOVERY_REQUIRED"
  BY <1>1, <1>2 DEF Lost, RunRecord
<1>4. QED
  BY <1>3, KeptWrite

\* ... and so does the adapter, but for the end it was told.
LEMMA AdapterKeeps ==
  ASSUME TypeOK, TurnInv, Adapter, NEW q \in Runs
  PROVE  Kept(q)
<1>0. PICK r : r = Head(inbox).run
  OBVIOUS
<1>1. CASE HandleStarted \/ HandleCompletedAck
  <2> DEFINE rec == [run[r] EXCEPT !.status = "RUNNING",
                       !.delivery = "ACKNOWLEDGED", !.turnId = TRUE,
                       !.server = server]
  <2>1. r \in Runs /\ run[r] \in RunRecord /\ Coherent(r)
    BY <1>0, <1>1, HeadFacts, TurnInvParts
       DEF HandleStarted, HandleCompletedAck, Inbound, TurnEnds
  <2>2. run' = run \/ (run[r].delivery = "SENDING" /\ Write(r, rec))
    BY <1>0, <1>1 DEF HandleStarted, HandleCompletedAck
  <2>3. run[r].delivery = "SENDING" => run[r].status # "NONE"
    BY <2>1 DEF Coherent, Sound
  <2>4. rec.integrity = run[r].integrity /\ rec.delivery = "ACKNOWLEDGED"
        /\ rec.status = "RUNNING"
    BY <2>1 DEF RunRecord
  <2> HIDE DEF rec
  <2>5. QED
    BY <2>1, <2>2, <2>3, <2>4, KeptWrite, UnwrittenKept
<1>2. CASE CompletedConflict
  <2>1. r \in Runs /\ run[r] \in RunRecord /\ Coherent(r)
    BY <1>0, <1>2, HeadFacts, TurnInvParts
       DEF CompletedConflict, Inbound, TurnEnds
  <2>2. Write(r, Uncertain(run[r])) /\ run[r].status # "NONE"
    BY <1>0, <1>2, <2>1 DEF CompletedConflict, Coherent, Sound
  <2>3. /\ Uncertain(run[r]).integrity = run[r].integrity
        /\ Uncertain(run[r]).delivery = "AMBIGUOUS"
        /\ Uncertain(run[r]).status = "RECOVERY_REQUIRED"
    BY <2>1 DEF RunRecord, Uncertain
  <2>4. QED
    BY <2>1, <2>2, <2>3, KeptWrite
<1>3. CASE HandleCompleted
  <2> DEFINE end == EndStatus[Head(inbox).kind]
             settled == InterruptSettled(run[r])
             rec == [run[r] EXCEPT !.status = end, !.delivery = "TERMINAL",
                       !.turnId = TRUE, !.interrupt = settled,
                       !.recovery = "NONE",
                       !.source = "TURN_COMPLETED_NOTIFICATION"]
  <2>1. /\ r \in Runs /\ run[r] \in RunRecord /\ Heard(r)
    BY <1>0, <1>3, HeadFacts, TurnInvParts
       DEF HandleCompleted, Inbound, TurnEnds, Heard
  <2>2. run' = run \/ (run[r].status # "NONE" /\ Write(r, rec))
    BY <1>0, <1>3 DEF HandleCompleted
  <2> HIDE DEF end, settled
  <2>3. rec.integrity = run[r].integrity /\ rec.delivery = "TERMINAL"
    BY <2>1 DEF RunRecord
  <2> HIDE DEF rec
  <2>4. QED
    BY <2>1, <2>2, <2>3, KeptWrite, UnwrittenKept
<1>4. CASE HandleSettleUncertain
  <2> DEFINE rec == [run[r] EXCEPT !.status = "RECOVERY_REQUIRED",
                         !.interrupt = "AMBIGUOUS",
                         !.recovery = "REQUIRES_USER_ACTION"]
  <2>1. r \in Runs /\ run[r] \in RunRecord /\ Coherent(r)
    BY <1>0, <1>4, HeadFacts, TurnInvParts DEF HandleSettleUncertain, Inbound
  <2>2. run' = run \/ (run[r].status = "INTERRUPTING" /\ Write(r, rec))
    BY <1>0, <1>4 DEF HandleSettleUncertain
  <2>3. run[r].status = "INTERRUPTING" => run[r].delivery = "ACKNOWLEDGED"
    BY <2>1 DEF Coherent, Sound, Consistent
  <2>4. rec.integrity = run[r].integrity /\ rec.delivery = run[r].delivery
        /\ rec.status = "RECOVERY_REQUIRED"
    BY <2>1 DEF RunRecord
  <2> HIDE DEF rec
  <2>5. QED
    BY <2>1, <2>2, <2>3, <2>4, KeptWrite, UnwrittenKept
<1>5. ASSUME NEW s \in Runs, SweepRun(s)
      PROVE  Kept(q)
  <2>1. /\ run[s].server # 0 /\ run[s].status # "NONE" /\ run[s] \in RunRecord
        /\ Write(s, SweepUpdate(run[s]))
    BY <1>5, TurnInvParts
       DEF SweepRun, SweepAccepted, TurnInv, SweepSound, Gone
  <2>2. CASE SweepUpdate(run[s]) = Lost(run[s])
    BY <2>1, <2>2, LostKept
  <2>3. CASE SweepUpdate(run[s]) = Stopped(run[s])
    <3> DEFINE settled == InterruptSettled(run[s])
               rec == [run[s] EXCEPT !.status = "INTERRUPTED",
                         !.delivery = "TERMINAL", !.interrupt = settled,
                         !.recovery = "NONE", !.source = "CONFIRMED_STOP"]
    <3>1. Write(s, rec)
      BY <2>1, <2>3 DEF Stopped
    <3> HIDE DEF settled
    <3>2. rec.integrity = run[s].integrity /\ rec.delivery = "TERMINAL"
          /\ rec.status = "INTERRUPTED"
      BY <2>1 DEF RunRecord
    <3> HIDE DEF rec
    <3>3. QED
      BY <2>1, <3>1, <3>2, KeptWrite
  <2>4. QED
    BY <2>2, <2>3 DEF SweepUpdate
<1>6. CASE \/ HandleExit \/ HandleDeadlineLate \/ HandleDeadline
           \/ HandleSettleStopped \/ SweepEnds \/ \E s \in Runs : SweepAborts(s)
  <2>1. run' = run
    BY <1>6 DEF HandleExit, HandleDeadlineLate, HandleDeadline,
                HandleSettleStopped, SweepEnds, SweepAborts, store
  <2>2. QED
    BY <2>1, UnwrittenKept
<1>7. QED
  BY <1>1, <1>2, <1>3, <1>4, <1>5, <1>6 DEF Adapter

\* So does every step but those of the event queue and of recovery.
LEMMA KeptStep ==
  ASSUME TypeOK, TurnInv, Next, ~EventQueue, NEW q \in Runs,
         pc[q] \notin NotYetSent \ {"starting"}
  PROVE  Kept(q)
<1>1. ASSUME NEW r \in Runs, RecoverLoss(r)
      PROVE  Kept(q)
  <2>1. run[r].server # 0 /\ Write(r, Lost(run[r])) /\ Coherent(r)
        /\ Allowed(run[r], Lost(run[r])) /\ run[r] \in RunRecord
    BY <1>1, TurnInvParts DEF RecoverLoss, TurnInv, CallsLeaving
  <2>2. run[r].status # "NONE"
    BY <2>1 DEF Coherent, Sound, NoRun
  <2>3. QED
    BY <2>1, <2>2, LostKept
<1>2. CASE Recovery /\ ~\E r \in Runs : RecoverLoss(r)
  <2>1. run' = run
    BY <1>2 DEF store, Recovery, RecoverEnds, BeginReconcile, OpenService,
                ReconcileRun
  <2>2. QED
    BY <2>1, UnwrittenKept
<1>3. CASE Shutdown \/ Environment
  <2>1. run' = run
    BY <1>3
       DEF store, Shutdown, LatchShutdown, StopProvider, SettleShutdown,
           CloseStores, Environment, ServerStarts, ServerExits, Edit,
           BeginShutdown, Crash, Restart, ProviderEnds, DeadlineFires
  <2>2. QED
    BY <2>1, UnwrittenKept
<1>4. QED
  BY <1>1, <1>2, <1>3, CallerKeeps, AdapterKeeps DEF Next

-----------------------------------------------------------------------------
(* Verification of the repository, and the inductive invariant.            *)

\* Only the event queue and reconciliation begin to verify a run.
LEMMA VerifyingMoves ==
  ASSUME Next
  PROVE  \/ verifying' = Idle
         \/ verifying' = verifying /\ (EventQueue => ReopenViolated)
         \/ TakeEvent \/ VerifyBoundary \/ \E r \in Runs : ReconcileRun(r)
<1>1. ASSUME NEW r \in Runs, Start(r) \/ Stop(r)
      PROVE  verifying' = verifying
  BY <1>1, CallerFrame
<1>2. ASSUME Adapter
      PROVE  verifying' = verifying
  BY <1>2
     DEF queue, Adapter, HandleStarted, HandleCompletedAck,
         CompletedConflict, HandleCompleted, HandleExit, HandleDeadlineLate,
         HandleDeadline, HandleSettleStopped, HandleSettleUncertain, SweepEnds,
         SweepRun, SweepAborts
<1>3. CASE EventQueue
  BY <1>3 DEF queue, EventQueue, ReachBarrier, ReopenViolated, FailViolated,
              VerifyingNow
<1>4. ASSUME Recovery \/ Shutdown \/ Environment
      PROVE  \/ verifying' \in {verifying, Idle}
             \/ \E r \in Runs : ReconcileRun(r)
  BY <1>4
     DEF queue, Recovery, RecoverEnds, BeginReconcile,
         OpenService, RecoverLoss, Shutdown, LatchShutdown,
         StopProvider, SettleShutdown, CloseStores, Forget, Environment,
         ServerStarts, ServerExits, Edit, BeginShutdown,
         Crash, Restart, ProviderEnds, DeadlineFires
<1>5. QED
  BY <1>1, <1>2, <1>3, <1>4 DEF Next

\* What is being verified stays sound.
LEMMA VerifyingStep ==
  ASSUME TypeOK, TurnInv, Next, Succession, \A q \in Runs : Good(q)
  PROVE  VerifyingSound'
<1>1. CASE verifying' = Idle
  BY <1>1 DEF VerifyingSound, VerifyingNow
<1>2. CASE verifying' = verifying /\ ~EventQueue /\ VerifyingNow
  <2>1. PICK r \in Runs : r = verifying.run
    BY <1>2, VerifyingTypes
  <2>2. PICK snap : snap = verifying.snap
    OBVIOUS
  <2>3. pc[r] \notin NotYetSent /\ pc'[r] \notin NotYetSent
    BY <1>2, <2>1 DEF TurnInv, VerifyingSound, Good, Course
  <2>4. Kept(r)
    BY <1>2, <2>3, KeptStep
  <2>5. ASSUME verifying.stage = "inspect"
        PROVE  /\ Inspectable(r)'
               /\ snap.integrity = "PENDING"
               /\ run'[r].status # "NONE" => run'[r].integrity = "PENDING"
               /\ run'[r].delivery = "NOT_DELIVERED" => run'[r] = snap
    <3>1. /\ Inspectable(r) /\ snap.integrity = "PENDING"
          /\ run[r].status # "NONE" => run[r].integrity = "PENDING"
          /\ run[r].delivery = "NOT_DELIVERED" => run[r] = snap
      BY <1>2, <2>1, <2>2, <2>5 DEF TurnInv, VerifyingSound
    <3>2. Inspectable(r)'
      BY <3>1, Persists
    <3>3. QED
      BY <2>4, <3>1, <3>2 DEF Kept, NoRun
  <2>6. ASSUME verifying.stage = "fail", run'[r].status # "NONE"
        PROVE  run'[r].integrity \in Violated
    <3>1. run[r].status # "NONE" => run[r].integrity \in Violated
      BY <1>2, <2>1, <2>6 DEF TurnInv, VerifyingSound
    <3>2. QED
      BY <2>4, <2>6, <3>1 DEF Kept, NoRun
  <2>7. QED
    BY <1>2, <2>1, <2>2, <2>3, <2>5, <2>6 DEF VerifyingSound
<1>3. CASE verifying' = verifying /\ ReopenViolated
  <2>1. VerifyingNow /\ verifying.stage = "fail"
    BY <1>3 DEF ReopenViolated
  <2>2. PICK r \in Runs : r = verifying.run
    BY <2>1, VerifyingTypes
  <2>3. pc'[r] \notin NotYetSent
    BY <2>1, <2>2 DEF TurnInv, VerifyingSound, Good, Course
  <2>4. run[r].status # "NONE" /\ run[r].integrity \in Violated
    BY <1>3, <2>1, <2>2
       DEF ReopenViolated, TurnInv, VerifyingSound, Terminal, TerminalStatus
  <2>5. run'[r].integrity = run[r].integrity
    BY <1>3, <2>2, TurnInvParts DEF ReopenViolated, Write, RunRecord
  <2>6. QED
    BY <1>3, <2>1, <2>2, <2>3, <2>4, <2>5 DEF VerifyingSound
<1>4. ASSUME NEW r \in Runs, Inspectable(r), run[r].integrity = "PENDING",
             run' = run, verifying' = [stage |-> "inspect", run |-> r, snap |-> run[r]]
      PROVE  VerifyingSound'
  <2>1. Inspectable(r)'
    BY <1>4, Persists
  <2>2. QED
    BY <1>4, <2>1 DEF VerifyingSound, Inspectable
<1>5. CASE TakeEvent
  <2>1. PICK r : r = Head(events).run
    OBVIOUS
  <2>2. events \in Seq(QueueItem) /\ events # <<>> /\ Head(events).kind = "event"
    BY <1>5 DEF TakeEvent, TypeOK
  <2>3. Head(events) \in QueueItem /\ Head(events) \in Range(events)
    BY <2>2 DEF Range
  <2>4. r \in Runs /\ Inspectable(r)
    BY <2>1, <2>2, <2>3 DEF QueueItem, TurnInv, EventsSound
  <2>5. /\ run' = run
        /\ \/ verifying' = Idle
           \/ /\ run[r].integrity = "PENDING"
              /\ verifying' = [stage |-> "inspect", run |-> r, snap |-> run[r]]
    BY <1>5, <2>1 DEF TakeEvent, store
  <2>6. QED
    BY <1>1, <1>4, <2>4, <2>5
<1>6. ASSUME NEW r \in Runs, ReconcileRun(r)
      PROVE  VerifyingSound'
  <2>1. CASE verifying' = verifying
    BY <1>6, <2>1 DEF ReconcileRun, VerifyingSound, VerifyingNow
  <2>2. CASE verifying' # verifying
    <3>1. /\ run[r].status # "NONE" /\ run[r].integrity = "PENDING"
          /\ run' = run
          /\ verifying' = [stage |-> "inspect", run |-> r, snap |-> run[r]]
          /\ pc[r] \in {"idle", "done"}
      BY <1>6, <2>2
         DEF ReconcileRun, store, Terminal, TerminalStatus, Recovering
    <3>2. Inspectable(r)
      BY <3>1, TurnInvParts
         DEF Coherent, StatusAt, NoRun, Inspectable, NotYetSent, BeforeSend,
             Open
    <3>3. QED
      BY <1>4, <3>1, <3>2
  <2>3. QED
    BY <2>1, <2>2
<1>7. CASE VerifyBoundary /\ verifying' # Idle
  <2>1. VerifyingNow
    BY <1>7 DEF VerifyBoundary
  <2>2. PICK r \in Runs : r = verifying.run
    BY <2>1, VerifyingTypes
  <2>3. PICK found \in Boundary(run[r]) :
          /\ Write(r, [run[r] EXCEPT !.integrity = found])
          /\ found # "UNCHANGED"
          /\ verifying' = [stage |-> "fail", run |-> r, snap |-> NoRun]
    BY <1>7, <2>2 DEF VerifyBoundary
  <2>4. run'[r].integrity \in Violated
    BY <2>2, <2>3, TurnInvParts DEF Write, RunRecord, Boundary, Violated
  <2>5. pc'[r] \notin NotYetSent
    BY <2>1, <2>2 DEF TurnInv, VerifyingSound, Good, Course
  <2>6. QED
    BY <2>2, <2>3, <2>4, <2>5 DEF VerifyingSound
<1>8. QED
  BY <1>1, <1>2, <1>3, <1>5, <1>6, <1>7, VerifyingMoves DEF VerifyingNow

\* What is not heard of stays unheard.
LEMMA UnheardStays ==
  ASSUME TypeOK, TurnInv, Next, Succession, \A q \in Runs : Good(q),
         NEW r \in Runs, pc[r] \notin NotYetSent, Unheard(r),
         run'[r].status # "COMPLETED"
  PROVE  Unheard(r)'
<1>1. Fenced(r) /\ Fenced(r)'
  BY Persists DEF Unheard
<1>2. ASSUME NEW m \in Range(inbox'), m.kind \in TurnEnds, m.run = r
      PROVE  FALSE
  BY <1>1, <1>2, MailStep DEF NewMail, Unheard
<1>3. QED
  BY <1>1, <1>2 DEF Unheard

\* What was found unchanged stays so.
LEMMA FoundStep ==
  ASSUME TypeOK, TurnInv, Next, Succession, \A q \in Runs : Good(q)
  PROVE  FoundUnchanged'
<1> SUFFICES ASSUME NEW r \in Runs, pc'[r] \in Open, run'[r].integrity = "UNCHANGED"
             PROVE  \/ Ended(r)' /\ turn'[r].from = turn'[r].to
                    \/ Unheard(r)'
  BY DEF FoundUnchanged
<1>1. /\ Coherent(r) /\ Course(r) /\ pc[r] \in Open \cup {"starting"}
      /\ run[r] \in RunRecord /\ turn[r] \in TurnRecord
  BY TurnInvParts DEF Good, Course
<1>2. pc[r] \notin NotYetSent \ {"starting"}
  BY <1>1 DEF NotYetSent, BeforeSend, Open
<1>3. ASSUME run[r].integrity = "UNCHANGED",
             run'[r].status = "COMPLETED" => run[r].status = "COMPLETED" \/ Heard(r)
      PROVE  \/ Ended(r)' /\ turn'[r].from = turn'[r].to
             \/ Unheard(r)'
  <2>1. pc[r] \in Open
    BY <1>1, <1>3 DEF Coherent, FieldsAt, BeforeSend
  <2>2. CASE Ended(r) /\ turn[r].from = turn[r].to
    BY <1>1, <2>2 DEF Course, Ended
  <2>3. CASE Unheard(r)
    <3>1. ~Heard(r) /\ run[r].status # "COMPLETED"
      <4>1. inbox \in Seq(Message)
        BY DEF TypeOK
      <4>2. inbox # <<>> => Head(inbox) \in Range(inbox)
        BY <4>1 DEF Range
      <4>3. QED
        BY <2>3, <4>2 DEF Unheard, Heard
    <3>2. QED
      BY <1>3, <2>1, <2>3, <3>1, UnheardStays DEF NotYetSent, BeforeSend, Open
  <2>4. QED
    BY <1>3, <2>1, <2>2, <2>3 DEF TurnInv, FoundUnchanged
<1>4. CASE ~EventQueue
  <2>1. Kept(r)
    BY <1>2, <1>4, KeptStep
  <2>2. QED
    BY <1>3, <2>1 DEF Kept, NoRun
<1>5. CASE EventQueue
  <2>1. EventWrites(r)
    BY <1>5, EventQueueWrites
  <2>2. CASE run'[r].integrity = run[r].integrity
    BY <1>3, <2>1, <2>2 DEF EventWrites
  <2>3. CASE /\ VerifyBoundary /\ r = verifying.run /\ run[r] = verifying.snap
             /\ run'[r].integrity \in Boundary(run[r])
    <3>1. run[r].before = repo
      BY <2>3 DEF Boundary
    <3>2. UNCHANGED <<pc, turn>>
      BY <2>3 DEF VerifyBoundary, caller
    <3>3. Inspectable(r) /\ pc[r] \in Open
      BY <1>1, <2>3, <3>2 DEF VerifyBoundary, TurnInv, VerifyingSound
    <3>4. CASE Ended(r)
      <4>1. turn[r].sent = 1
        BY <1>1, <3>4 DEF Coherent, History, Ended
      <4>2. /\ run[r].before <= turn[r].from /\ turn[r].from <= turn[r].to
            /\ turn[r].to <= repo
        BY <1>1, <3>4, <4>1 DEF Coherent, History
      <4>3. turn[r].from = turn[r].to
        BY <3>1, <4>2, Numbers
      <4>4. QED
        BY <3>2, <3>4, <4>3 DEF Ended
    <3>5. CASE ~Ended(r)
      <4>1. Fenced(r)
        BY <3>3, <3>5 DEF Inspectable
      <4>2. ASSUME NEW m \in Range(inbox), m.kind \in TurnEnds, m.run = r
            PROVE  FALSE
        BY <3>5, <4>2 DEF TurnInv, InboxTruthful, Truthful, TurnEnds, Ended
      <4>3. run[r].status # "COMPLETED"
        BY <1>1, <3>5 DEF Coherent, TellsTrue, Ended
      <4>4. Unheard(r)
        BY <4>1, <4>2, <4>3 DEF Unheard
      <4>5. QED
        BY <2>1, <3>3, <4>3, <4>4, UnheardStays
           DEF EventWrites, Inspectable
    <3>6. QED
      BY <3>4, <3>5
  <2>4. QED
    BY <2>1, <2>2, <2>3 DEF EventWrites
<1>6. QED
  BY <1>4, <1>5

-----------------------------------------------------------------------------
\* The invariant holds at first.
LEMMA TurnInvInit == Init => TurnInv
<1> SUFFICES ASSUME Init PROVE TurnInv
  OBVIOUS
<1>1. ASSUME NEW r \in Runs PROVE Coherent(r)
  <2>1. /\ run[r] = NoRun /\ entry[r] = "NONE" /\ pc[r] = "idle"
        /\ outcome[r] = "none" /\ turn[r] = NoTurn /\ repo = 0 /\ server = 0
    BY DEF Init
  <2>2. Sound(run[r])
    BY <2>1, NoRunSound
  <2>3. StatusAt(r) /\ FieldsAt(r)
    BY <2>1 DEF StatusAt, FieldsAt, NotYetSent, BeforeSend, Open, NoRun
  <2>4. History(r) /\ TellsTrue(r) /\ SentTo(r)
    BY <2>1 DEF History, TellsTrue, SentTo, Running, Ended, NoRun, NoTurn,
                NotYetSent, BeforeSend, Open
  <2>5. QED
    BY <2>2, <2>3, <2>4 DEF Coherent
<1>2. Range(<<>>) = {}
  BY DEF Range
<1>3. ServersOrdered /\ Deadlines /\ InboxTruthful /\ SweepSound
  BY <1>2
     DEF Init, ServersOrdered, Deadlines, InboxTruthful, SweepSound, Sweeping
<1>4. EventsSound /\ VerifyingSound /\ CallsLeaving
  BY <1>2 DEF Init, EventsSound, VerifyingSound, VerifyingNow, CallsLeaving
<1>5. FoundUnchanged
  BY DEF Init, FoundUnchanged, Open
<1>6. QED
  BY <1>1, <1>3, <1>4, <1>5 DEF TurnInv, RunsCoherent

\* It is about these variables only.
LEMMA TurnInvStutter ==
  ASSUME TurnInv, UNCHANGED vars
  PROVE  TurnInv'
<1>1. /\ run' = run /\ entry' = entry /\ server' = server /\ process' = process
      /\ inbox' = inbox /\ sweep' = sweep /\ deadline' = deadline
      /\ events' = events /\ verifying' = verifying /\ pc' = pc
      /\ outcome' = outcome /\ turn' = turn /\ repo' = repo /\ phase' = phase
      /\ todo' = todo
  BY DEF vars, store, codex, queue, caller, app
<1>2. RunsCoherent'
  BY <1>1 DEF TurnInv, RunsCoherent, Coherent, StatusAt, FieldsAt, History,
              TellsTrue, SentTo, Running, Ended
<1>3. ServersOrdered' /\ Deadlines'
  BY <1>1 DEF TurnInv, ServersOrdered, Still, Running, Deadlines, Timed, Dead,
              Gone, Fresh
<1>4. InboxTruthful'
  BY <1>1 DEF TurnInv, InboxTruthful, Truthful, Still, Running, Timed, Dead,
              Gone, Fresh
<1>5. SweepSound' /\ CallsLeaving'
  BY <1>1 DEF TurnInv, SweepSound, Sweeping, Gone, Still, Running, CallsLeaving
<1>6. EventsSound' /\ VerifyingSound'
  BY <1>1 DEF TurnInv, EventsSound, VerifyingSound, VerifyingNow, Inspectable,
              Ended, Fenced
<1>7. FoundUnchanged'
  BY <1>1 DEF TurnInv, FoundUnchanged, Unheard, Ended, Fenced
<1>8. QED
  BY <1>2, <1>3, <1>4, <1>5, <1>6, <1>7 DEF TurnInv

\* Every step preserves it.
LEMMA TurnInvStep ==
  ASSUME TypeOK, TurnInv, [Next]_vars
  PROVE  TurnInv'
<1>1. CASE UNCHANGED vars
  BY <1>1, TurnInvStutter
<1>2. CASE Next
  <2>1. \A q \in Runs : Good(q)
    BY <1>2, NextGood
  <2>2. Succession
    BY <1>2, SuccessionStep
  <2>3. RunsCoherent'
    BY <2>1 DEF Good, RunsCoherent
  <2>4. ServersOrdered' /\ Deadlines' /\ InboxTruthful' /\ SweepSound'
    BY <1>2, <2>1, <2>2, ServersStep, DeadlineStep, InboxStep, SweepStep
  <2>5. EventsSound' /\ VerifyingSound' /\ FoundUnchanged' /\ CallsLeaving'
    BY <1>2, <2>1, <2>2, EventsStep, VerifyingStep, FoundStep, CallsStep
  <2>6. QED
    BY <2>3, <2>4, <2>5 DEF TurnInv
<1>3. QED
  BY <1>1, <1>2

\* The inductive invariant: the records, the queues, the deadlines and the
\* servers of TransientTurn agree in every reachable state.
THEOREM TurnInvariant == Spec => [](TypeOK /\ TurnInv)
<1>1. Init => TypeOK /\ TurnInv
  BY InitTypes, TurnInvInit
<1>2. (TypeOK /\ TurnInv) /\ [Next]_vars => (TypeOK /\ TurnInv)'
  BY NextTypes, TurnInvStep
<1>3. QED
  BY <1>1, <1>2, PTL DEF Spec

-----------------------------------------------------------------------------
(* What the invariant is for.                                              *)

\* What the invariant says of the records and of the answers.
LEMMA TurnInvSafe ==
  ASSUME TurnInv
  PROVE  EndedMeansStopped /\ OutputIsVerified
<1>1. \A r \in Runs : TellsTrue(r)
  BY DEF TurnInv, RunsCoherent, Coherent
<1>2. QED
  BY <1>1 DEF TellsTrue, Running, EndedMeansStopped, OutputIsVerified

\* The queue entry of a turn is settled, and its record says that it ended,
\* only when it does not run any more, but for a turn that was failed because
\* the repository was found changed under it.
THEOREM EndedTheorem == Spec => []EndedMeansStopped
  BY TurnInvariant, TurnInvSafe, PTL

\* An answer is handed out only for a turn that completed, and that left the
\* repository as it found it.
THEOREM OutputTheorem == Spec => []OutputIsVerified
  BY TurnInvariant, TurnInvSafe, PTL

\* The store refuses none of the updates: each is a transition that the store
\* allows, to a record that it takes for consistent.
THEOREM UpdatesTheorem == Spec => UpdatesAccepted
<1>1. TypeOK /\ TurnInv /\ [Next]_vars =>
        [\A r \in Runs :
           run'[r] # run[r] /\ run'[r] # NoRun =>
             Allowed(run[r], run'[r]) /\ Consistent(run'[r])]_vars
  BY NextGood DEF Good, Legal
<1>2. QED
  BY <1>1, TurnInvariant, PTL DEF Spec, UpdatesAccepted

-----------------------------------------------------------------------------
\* Only Submit sends.
LEMMA NextSendsNothing ==
  ASSUME TypeOK, Next, \A r \in Runs : ~Submit(r)
  PROVE  SendsNothing
  BY StartSendsNothing, StopSendsNothing, AdapterSendsNothing,
     EventsSendNothing, RecoverySendsNothing, ShutdownSendsNothing,
     EnvironmentSendsNothing DEF Next

\* A step that sends nothing ends turns at most.
LEMMA PromptMoves ==
  ASSUME TypeOK, TurnInv, Next, \A q \in Runs : ~Submit(q), NEW r \in Runs
  PROVE  \/ PromptOf(turn'[r]) = PromptOf(turn[r])
         \/ /\ PromptOf(turn[r]) = "running"
            /\ PromptOf(turn'[r]) \in {"clean", "spoiled"}
<1>1. turn'[r].sent = turn[r].sent
  BY NextSendsNothing DEF SendsNothing
<1>2. Course(r) /\ History(r) /\ History(r)'
  BY NextGood, TurnInvParts DEF Good, Coherent
<1>3. CASE turn[r].sent = 0
  BY <1>1, <1>3 DEF PromptOf
<1>4. CASE turn[r].sent = 1 /\ Running(r)
  BY <1>1, <1>4 DEF PromptOf, Running
<1>5. CASE turn[r].sent = 1 /\ Ended(r)
  BY <1>1, <1>2, <1>5 DEF PromptOf, Ended, Course
<1>6. QED
  BY <1>2, <1>3, <1>4, <1>5 DEF History, Ended, Running

\* A caller is told one thing, in a step that changes nothing at the provider.
Tells(r) ==
  /\ outcome[r] = "none"
  /\ \E told \in {"output", "error"} :
       outcome' = [outcome EXCEPT ![r] = told]
  /\ turn' = turn

\* Every step tells one caller one thing, or nobody anything.
LEMMA OutcomeMoves ==
  ASSUME TypeOK, TurnInv, Next
  PROVE  outcome' = outcome \/ \E r \in Runs : Tells(r)
<1>1. ASSUME NEW r \in Runs, Start(r) \/ Stop(r)
      PROVE  outcome' = outcome \/ Tells(r)
  <2>1. pc[r] \in {"acked", "ambiguous", "notDelivered", "startFailed", "waiting"}
           => outcome[r] = "none"
    BY TurnInvParts DEF Coherent, FieldsAt, Open
  <2>2. CASE \/ PersistAckConflict(r) \/ StartFails(r) \/ StartFailsConflict(r)
             \/ SettleFailedStart(r) \/ WaitFails(r)
    BY <2>1, <2>2
       DEF PersistAckConflict, StartFails, StartFailsConflict, GiveUp,
           SettleFailedStart, WaitFails, Tells
  <2>3. CASE WaitEnds(r)
    BY <2>1, <2>3 DEF WaitEnds, Tells
  <2>4. QED
    BY <1>1, <2>2, <2>3
       DEF caller, Start, PrepareTurn, LeaseTurn, InspectBefore,
           InspectBeforeFails, MarkStarting, Submit, SubmitFails, Response,
           ResponseLost, DrainInbound, PersistAck, VerifyFailedStart, Stop,
           InterruptReopen, InterruptIntent, InterruptRefused,
           InterruptDelivered, InterruptFails, InterruptAcked, ConfirmEnds,
           AwaitEvents, FinishTurn, Purge, ReleaseFails
<1>2. CASE CompletedConflict
  <2>1. PICK r : r = Head(inbox).run
    OBVIOUS
  <2>2. r \in Runs /\ pc[r] = "ambiguous" /\ GiveUp(r) /\ turn' = turn
    BY <1>2, <2>1, HeadFacts DEF CompletedConflict, Inbound, TurnEnds
  <2>3. outcome[r] = "none"
    BY <2>2, TurnInvParts DEF Coherent, FieldsAt, Open
  <2>4. QED
    BY <2>2, <2>3 DEF GiveUp, Tells
<1>3. CASE Adapter /\ ~CompletedConflict
  BY <1>3
     DEF caller, Adapter, HandleStarted, HandleCompletedAck,
         HandleCompleted, HandleExit, HandleDeadlineLate,
         HandleDeadline, HandleSettleStopped, HandleSettleUncertain, SweepEnds,
         SweepRun, SweepAborts
<1>4. CASE EventQueue \/ Recovery \/ Shutdown \/ Environment
  <2>1. outcome' = outcome
    BY <1>4
       DEF caller, EventQueue, ReachBarrier, TakeEvent, VerifyBoundary,
           ReopenViolated, FailViolated, Recovery, RecoverEnds, BeginReconcile,
           OpenService, RecoverLoss, ReconcileRun, Shutdown, LatchShutdown,
           StopProvider, SettleShutdown, CloseStores, Environment,
           ServerStarts, ServerExits, Edit, BeginShutdown, Crash, Restart,
           ProviderEnds, DeadlineFires
  <2>2. QED
    BY <2>1
<1>5. QED
  BY <1>1, <1>2, <1>3, <1>4 DEF Next

\* How a turn that was not sent, and one that runs, are seen from outside.
LEMMA UnsentPrompt ==
  ASSUME NEW t, t.sent = 0, t.state = "none"
  PROVE  PromptOf(t) = "unsent"
<1>1. ~(t.sent > 1) /\ t.state # "active" /\ t.state # "completed"
  OBVIOUS
<1>2. QED
  BY <1>1 DEF PromptOf

LEMMA RunningPrompt ==
  ASSUME NEW t, t.sent = 1, t.state = "active"
  PROVE  PromptOf(t) = "running"
<1>1. t.sent # 0 /\ ~(t.sent > 1) /\ t.state # "completed"
  OBVIOUS
<1>2. QED
  BY <1>1 DEF PromptOf

\* The refinement: OneShotTurn begins where TransientTurn does, ...
LEMMA PromiseInit == Init => Promise!Init
  BY DEF Init, Promise!Init, PromptOf, NoTurn

\* ... Submit is its Send, ...
LEMMA PromiseSend ==
  ASSUME TypeOK, TurnInv, NEW r \in Runs, Submit(r)
  PROVE  Promise!Send(r)
<1>1. /\ turn[r].sent = 0 /\ turn[r].state = "none" /\ outcome[r] = "none"
      /\ outcome' = outcome
      /\ turn \in [Runs -> TurnRecord]
  BY TurnInvParts
     DEF Submit, Coherent, History, FieldsAt, NotYetSent, BeforeSend
<1>2. turn'[r].sent = 1 /\ turn'[r].state = "active"
      /\ \A q \in Runs \ {r} : turn'[q] = turn[q]
  BY <1>1 DEF Submit, TurnRecord
<1>3. PromptOf(turn[r]) = "unsent" /\ PromptOf(turn'[r]) = "running"
  BY <1>1, <1>2, UnsentPrompt, RunningPrompt
<1>4. \A q \in Runs \ {r} : PromptOf(turn'[q]) = PromptOf(turn[q])
  BY <1>2
<1>5. QED
  BY <1>1, <1>3, <1>4 DEF Promise!Send

\* ... a step that tells nobody anything ends some turns, or none, ...
LEMMA PromiseEnd ==
  ASSUME TypeOK, TurnInv, Next, \A q \in Runs : ~Submit(q), outcome' = outcome
  PROVE  \E ended \in SUBSET Runs : Promise!End(ended)
<1> DEFINE ended == {r \in Runs : PromptOf(turn'[r]) # PromptOf(turn[r])}
<1>1. \A r \in Runs :
        PromptOf(turn[r]) \in Promise!Prompts /\ PromptOf(turn'[r]) \in Promise!Prompts
  <2>1. ASSUME NEW r \in Runs
        PROVE  History(r) /\ History(r)'
    BY NextGood, TurnInvParts DEF Good, Coherent
  <2>2. QED
    BY <2>1 DEF History, PromptOf, Promise!Prompts
<1>2. \A r \in ended : /\ PromptOf(turn[r]) = "running"
                       /\ PromptOf(turn'[r]) \in {"clean", "spoiled"}
  BY PromptMoves
<1>3. Promise!End(ended)
  BY <1>1, <1>2 DEF Promise!End
<1>4. QED
  BY <1>3

\* ... and what a caller is told is an answer to what it sent.
LEMMA PromiseAnswer ==
  ASSUME TypeOK, TurnInv, Next, NEW r \in Runs, Tells(r)
  PROVE  Promise!Answer(r)
<1>1. PICK told \in {"output", "error"} : outcome' = [outcome EXCEPT ![r] = told]
  BY DEF Tells
<1>2. outcome'[r] = told /\ turn' = turn /\ outcome[r] = "none"
  BY <1>1 DEF TypeOK, Tells
<1>3. ASSUME told = "output"
      PROVE  PromptOf(turn[r]) = "clean"
  <2>1. TellsTrue(r)' /\ History(r)'
    BY NextGood DEF Good, Coherent
  <2>2. turn[r].state = "completed" /\ turn[r].from = turn[r].to /\ turn[r].sent = 1
    BY <1>2, <1>3, <2>1 DEF TellsTrue, History
  <2>3. QED
    BY <2>2 DEF PromptOf
<1>4. QED
  BY <1>1, <1>2, <1>3 DEF Promise!Answer

\* Through failures and restarts the caller sees a one-shot turn: every step
\* of TransientTurn is a step of OneShotTurn or leaves it alone.
THEOREM PromiseTheorem == Spec => KeepsPromise
<1>1. TypeOK /\ TurnInv /\ [Next]_vars => [Promise!Next]_Promise!turnVars
  <2>1. SUFFICES ASSUME TypeOK, TurnInv, [Next]_vars
                 PROVE  [Promise!Next]_Promise!turnVars
    OBVIOUS
  <2>2. CASE UNCHANGED vars
    BY <2>2 DEF vars, caller, Promise!turnVars
  <2>3. CASE Next /\ \E r \in Runs : Submit(r)
    BY <2>1, <2>3, PromiseSend DEF Promise!Next
  <2>4. CASE Next /\ \E r \in Runs : Tells(r)
    BY <2>1, <2>4, PromiseAnswer DEF Promise!Next
  <2>5. CASE Next /\ outcome' = outcome /\ \A r \in Runs : ~Submit(r)
    BY <2>1, <2>5, PromiseEnd DEF Promise!Next
  <2>6. QED
    BY <2>1, <2>2, <2>3, <2>4, <2>5, OutcomeMoves
<1>2. QED
  BY <1>1, PromiseInit, TurnInvariant, PTL DEF Spec, KeepsPromise, Promise!Spec

=============================================================================
