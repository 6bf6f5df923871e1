----------------------- MODULE TransientTurnInvariant -----------------------
(***************************************************************************)
(* The inductive invariant of TransientTurn: what is true of its records,  *)
(* queues, timers and processes between any two steps.  It is the reason   *)
(* why EndedMeansStopped and OutputIsVerified hold, why the store refuses  *)
(* no update and why the module implements OneShotTurn.                    *)
(* TransientTurnSafetyProofs proves all that.                              *)
(***************************************************************************)
EXTENDS TransientTurn, Functions

\* Nothing was sent for the call, and that is known.
NotYetSent == BeforeSend \cup {"notDelivered", "startFailed", "startSettled"}

\* The call was sent, or may have been, and its end is awaited.
Open == {"sent", "responded", "acked", "ambiguous", "waiting"}

\* The call has no interruption deadline yet.
Untimed == NotYetSent \cup Open \cup {"stopping", "interrupting"}

\* No call is under way, or one has nothing left to do but to finish.
Quiet == {"idle", "done"}
Leaving == Quiet \cup {"finishing", "draining", "settling", "releasing"}

Over == TerminalStatus \cup {"RECOVERY_REQUIRED"}
Violated == {"CHANGED", "UNVERIFIABLE"}

Running(r) == turn[r].state = "active"
Ended(r) == turn[r].state \notin {"none", "active"}

-----------------------------------------------------------------------------
(* One run: its record, its queue entry, its caller and its turn.          *)

\* How far the fields of a record can have come, beyond what the store checks
\* itself.
Sound(rec) ==
  /\ Consistent(rec)
  /\ rec.status = "NONE" => rec = NoRun
  /\ rec.delivery = "SENDING" => rec.status = "STARTING"
  /\ rec.delivery = "NOT_SENT" => rec.status \in {"NONE", "QUEUED"}
  /\ rec.delivery = "NOT_DELIVERED" => rec.status = "FAILED"
  /\ rec.delivery \in {"ACKNOWLEDGED", "TERMINAL"} => rec.turnId
  /\ rec.delivery = "ACKNOWLEDGED" => rec.server # 0
  /\ rec.status \in {"QUEUED", "STARTING"} => ~rec.turnId /\ rec.server = 0
  /\ rec.status = "INTERRUPTING" =>
       rec.interrupt \in {"SENDING", "ACKNOWLEDGED", "AMBIGUOUS"}

\* The status of the record at each point of its caller.
StatusAt(r) ==
  /\ pc[r] = "idle" => run[r] = NoRun
  /\ pc[r] \in {"prepared", "leased", "inspected"} => run[r].status = "QUEUED"
  /\ pc[r] \in {"starting", "notDelivered"} => run[r].status = "STARTING"
  /\ pc[r] \in {"startFailed", "startSettled"} => run[r].status = "FAILED"
  /\ pc[r] \in Open => run[r].status \in {"STARTING", "RUNNING"} \cup Over
  /\ pc[r] \in {"waiting", "stopping"} =>
       run[r].status \in {"RUNNING"} \cup Over
  /\ pc[r] = "interrupting" =>
       \/ run[r].status \in Over
       \/ run[r].status = "INTERRUPTING" /\ run[r].interrupt = "SENDING"
  /\ pc[r] = "interruptAcked" => run[r].status \in {"INTERRUPTING"} \cup Over

\* Its other fields, the queue entry and the answer.
FieldsAt(r) ==
  /\ pc[r] \in NotYetSent \cup Open \cup {"stopping"} =>
       run[r].interrupt = "NONE"
  /\ pc[r] \in NotYetSent => run[r].server = 0
  /\ pc[r] \in BeforeSend \cup Open => entry[r] # "SETTLED"
  /\ pc[r] \in BeforeSend => run[r].integrity \in {"NONE", "PENDING"}
  /\ pc[r] \in {"inspected", "starting"} \cup Open =>
       run[r].integrity # "NONE"
  /\ pc[r] \in BeforeSend \cup Open \cup {"notDelivered", "startFailed"} =>
       outcome[r] = "none"

\* What was sent, and what the repository was like before and after.
History(r) ==
  /\ turn[r].sent \in {0, 1}
  /\ turn[r].sent = 0 <=> turn[r].state = "none"
  /\ pc[r] \in NotYetSent => turn[r].sent = 0
  /\ pc[r] \in {"sent", "responded", "acked"} => turn[r].sent = 1
  /\ run[r].status = "QUEUED" => turn[r].sent = 0
  /\ run[r].server # 0 => turn[r].sent = 1
  /\ run[r].before <= repo
  /\ turn[r].sent = 1 =>
       run[r].before <= turn[r].from /\ turn[r].from <= repo
  /\ Ended(r) => turn[r].from <= turn[r].to /\ turn[r].to <= repo

\* What the records and the answer tell of the end of the turn is so.
TellsTrue(r) ==
  /\ run[r].status = "COMPLETED" => turn[r].state = "completed"
  /\ outcome[r] = "output" =>
       turn[r].state = "completed" /\ turn[r].from = turn[r].to
  /\ Running(r) /\ Terminal(run[r]) =>
       /\ run[r].status = "FAILED" /\ run[r].source = "REPOSITORY_INTEGRITY"
       /\ run[r].integrity \in Violated
  /\ Running(r) /\ entry[r] = "SETTLED" => Terminal(run[r])

\* Where the turn was sent, and what the record knows of that.
SentTo(r) ==
  /\ turn[r].server <= server /\ run[r].server <= server
  /\ turn[r].sent = 1 => turn[r].server # 0
  /\ Running(r) /\ run[r].server # 0 => turn[r].server = run[r].server

Coherent(r) ==
  /\ Sound(run[r]) /\ StatusAt(r) /\ FieldsAt(r)
  /\ History(r) /\ TellsTrue(r) /\ SentTo(r)

RunsCoherent == \A r \in Runs : Coherent(r)

-----------------------------------------------------------------------------
(* App Servers, their messages and the deadlines.                          *)

\* No turn runs on server s; it was there and is not connected any more; both.
Still(s) == \A r \in Runs : Running(r) => turn[r].server # s
Gone(s) == s \in 1..server /\ (s = server => process # "up")
Dead(s) == Gone(s) /\ Still(s)

\* A session of the application hears of the turns of its newest server only.
Fresh(r) ==
  turn[r].sent = 1 /\ (Running(r) => turn[r].server = server)

ServersOrdered ==
  /\ process # "none" => server # 0
  /\ process = "none" => inbox = <<>> /\ deadline = {}
  /\ process = "down" => Still(server)
  /\ phase \in {"settling", "stopped"} => process # "up"

\* The call whose deadline is armed, or fired: the record is past its start,
\* and names the newest server, if not one that runs nothing.
Timed(r) ==
  /\ pc[r] \notin Untimed
  /\ run[r].status # "STARTING"
  /\ run[r].server \in {0, server} \/ Dead(run[r].server)
  /\ Fresh(r)

Deadlines == \A r \in deadline : Timed(r)

Truthful(m) ==
  /\ m.kind = "exit" => Gone(m.server) /\ (m.confirmed => Still(m.server))
  /\ m.kind # "exit" => Fresh(m.run)
  /\ m.kind \in TurnEnds => turn[m.run].state = m.kind
  /\ m.kind \in {"deadline", "settle"} => Timed(m.run)
  /\ m.kind = "settle" /\ ~m.failed =>
       run[m.run].server = 0 \/ Dead(run[m.run].server)

InboxTruthful == \A m \in Range(inbox) : Truthful(m)

SweepSound ==
  Sweeping =>
    /\ Gone(sweep.server)
    /\ sweep.confirmed => Still(sweep.server)
    /\ \A r \in sweep.runs :
         /\ sweep.snap[r].server = sweep.server
         /\ sweep.snap[r].status # "NONE" /\ ~Terminal(sweep.snap[r])

-----------------------------------------------------------------------------
(* The event queue.                                                        *)

\* The end of the turn, if it ends, is not heard of any more.
Unheard(r) ==
  /\ Fenced(r)
  /\ \A m \in Range(inbox) : m.kind \in TurnEnds => m.run # r
  /\ run[r].status # "COMPLETED"

\* The repository is inspected only when the turn has ended, or runs on a
\* server that is lost.
Inspectable(r) ==
  /\ pc[r] \notin NotYetSent
  /\ pc[r] \in Open => Ended(r) \/ Fenced(r)

\* A call that awaits the queue has one place in it.
EventsSound ==
  /\ \A e \in Range(events) :
       IF e.kind = "event" THEN Inspectable(e.run)
                           ELSE pc[e.run] = "draining"
  /\ \A i, j \in DOMAIN events :
       events[i].kind = "barrier" /\ events[j] = events[i] => i = j

VerifyingSound ==
  VerifyingNow =>
    LET r == verifying.run
        snap == verifying.snap
    IN /\ pc[r] \notin NotYetSent
       /\ verifying.stage = "inspect" =>
            /\ Inspectable(r)
            /\ snap.integrity = "PENDING"
            /\ run[r].status # "NONE" => run[r].integrity = "PENDING"
            /\ run[r].delivery = "NOT_DELIVERED" => run[r] = snap
       /\ verifying.stage = "fail" /\ run[r].status # "NONE" =>
            run[r].integrity \in Violated

\* What was found unchanged was so from the first to the last moment of the
\* turn.
FoundUnchanged ==
  \A r \in Runs :
    pc[r] \in Open /\ run[r].integrity = "UNCHANGED" =>
      \/ Ended(r) /\ turn[r].from = turn[r].to
      \/ Unheard(r)

\* Startup and the end of shutdown run while no call does; reconciliation
\* finishes what had ended.
CallsLeaving ==
  /\ phase \notin {"ready", "closing"} => \A r \in Runs : pc[r] \in Leaving
  /\ phase \notin {"ready", "closing", "reconciling"} =>
       \A r \in Runs : pc[r] \in Quiet
  /\ phase = "recovering" => \A r \in todo : run[r].server # 0

\* Between any two steps of caller, orchestrator, adapter, event queue and
\* recovery, what the store, the queues, the timers and the processes hold fits
\* together; every part is one that some handler of the code relies on.
TurnInv ==
  /\ RunsCoherent
  /\ ServersOrdered /\ Deadlines /\ InboxTruthful /\ SweepSound
  /\ EventsSound /\ VerifyingSound /\ FoundUnchanged
  /\ CallsLeaving

=============================================================================
