------------------------- MODULE DiscourseWaveProofs -------------------------
(***************************************************************************)
(* Proofs about DiscourseWave, for one or two agents and any number of     *)
(* crashes, faults and stops: what is published is the answer of a turn    *)
(* whose repository was found unchanged, and a job closed as never sent    *)
(* was never sent.  Both speak of records of two stores that no            *)
(* transaction spans, and of what a process does long after it read them.  *)
(* So the invariant says of each record what the others allow it to be     *)
(* (StoreInv), and of each process, at the label it is at, what the        *)
(* records it holds still tell of those there are (ProcInv): either they   *)
(* are of the present job, and then say so little that no step of another  *)
(* process makes it false, or the job has been overtaken and no write of   *)
(* the process is accepted.                                                *)
(*                                                                         *)
(* From these two follows a third, that a wave is settled only when its    *)
(* turn is over (SInv).  It needs to know of a run that ended that nobody  *)
(* works on it (TurnInv), of a job that is closed that its run had ended   *)
(* (OverInv), and of each process on its way to close a job why the run    *)
(* has ended by then, or why the process is overtaken (ActInv).            *)
(***************************************************************************)
EXTENDS DiscourseWave, TLAPS

-----------------------------------------------------------------------------
(* What a step does to the place, the reads and the lock of the processes. *)

\* The type of the state of the processes.
ControlOK ==
  /\ lock \in Procs \cup {"free"}
  /\ pc \in [Procs -> Labels] /\ handling \in [Procs -> BOOLEAN]
  /\ seen \in [Procs -> RunRecord]
  /\ stale \in [Procs -> SUBSET {"job", "wave", "entry", "phase"}]
  /\ after \in [Procs -> Labels] /\ back \in [Procs -> Labels]

\* A step of p leaves every other process where it is; what was stale to it
\* stays so, its job is still the present one, and what is stale of it is not
\* that it is queued.
Beside(p) ==
  \A q \in Procs \ {p} :
    /\ pc'[q] = pc[q] /\ seen'[q] = seen[q]
    /\ after'[q] = after[q] /\ back'[q] = back[q]
    /\ stale[q] \subseteq stale'[q]
    /\ "phase" \in stale'[q] => "phase" \in stale[q]
    /\ "job" \in stale'[q] => "job" \in stale[q] \/ job'.status # "QUEUED"
    /\ lock = q <=> lock' = q

\* Where a process is that threw, that moved on, and that has just read: it
\* holds what it held, or what there is.
Threw(p) ==
  /\ pc'[p] \in {"idle", "failed", "lockRecover", "retry", "finish"}
  /\ p = "user" => pc'[p] = "idle"
  /\ p = "boot" => pc'[p] = "failed"
  /\ seen'[p] = NoRun /\ stale'[p] = {}
  /\ after'[p] = "idle" /\ back'[p] = "idle"

Arrived(p, label) ==
  /\ pc'[p] = label /\ lock' = lock
  /\ seen'[p] = seen[p] /\ stale'[p] = stale[p]
  /\ after'[p] = after[p] /\ back'[p] = back[p]

Saw(p, label, a, b) ==
  /\ pc'[p] = label /\ lock' = lock
  /\ seen'[p] = (IF label \in UsesRun THEN run ELSE NoRun)
  /\ stale'[p] = {}
  /\ after'[p] = a /\ back'[p] = b

\* An element of a sequence is one of its range.
LEMMA SeqElement ==
  ASSUME NEW S, NEW s \in Seq(S), NEW i \in DOMAIN s
  PROVE  s[i] \in S
  OBVIOUS

LEMMA NoRunType == NoRun \in RunRecord /\ NewRun \in RunRecord
  BY DEF NoRun, NewRun, RunRecord, Delivery, RunEnded

\* The updates of a run that are made.
LEMMA RunUpdates ==
  ASSUME NEW r \in RunRecord
  PROVE  /\ Withdrawn(r) \in RunRecord /\ Lost(r) \in RunRecord /\ Fenced(r) \in RunRecord
         /\ Abandoned(r) \in RunRecord
         /\ \A s \in {"INTERRUPTED", "FAILED", "RECOVERY_REQUIRED"} :
              [r EXCEPT !.status = s] \in RunRecord
         /\ \A i \in {"ACKNOWLEDGED", "AMBIGUOUS", "TERMINAL", "none"} :
              [r EXCEPT !.interrupt = i] \in RunRecord
         /\ [r EXCEPT !.status = "INTERRUPTING", !.interrupt = "SENDING"] \in RunRecord
         /\ \A i \in {"NOT_DELIVERED", "AMBIGUOUS", r.interrupt} :
              [r EXCEPT !.status = "RECOVERY_REQUIRED", !.interrupt = i] \in RunRecord
         /\ [r EXCEPT !.dated = TRUE] \in RunRecord
         /\ [r EXCEPT !.status = "INTERRUPTED", !.delivery = "NOT_DELIVERED"] \in RunRecord
  <1> USE DEF RunRecord, RunEnded, Delivery
  <1>1. /\ Withdrawn(r) \in RunRecord /\ Lost(r) \in RunRecord
        /\ Abandoned(r) \in RunRecord
    BY DEF Withdrawn, Lost, Abandoned
  <1>2. Fenced(r) \in RunRecord
    <2>1. CASE r.delivery = "NOT_SENT"
      <3>1. Fenced(r) = [r EXCEPT !.status = "RECOVERY_REQUIRED", !.delivery = "NOT_DELIVERED"]
        BY <2>1 DEF Fenced
      <3> QED BY <3>1
    <2>2. CASE r.delivery = "SENDING"
      <3>1. Fenced(r) = [r EXCEPT !.status = "RECOVERY_REQUIRED", !.delivery = "AMBIGUOUS"]
        BY <2>2 DEF Fenced
      <3> QED BY <3>1
    <2>3. CASE r.delivery \notin {"NOT_SENT", "SENDING"}
      <3>1. Fenced(r) = [r EXCEPT !.status = "RECOVERY_REQUIRED", !.delivery = r.delivery]
        BY <2>3 DEF Fenced
      <3> QED BY <3>1
    <2> QED
      BY <2>1, <2>2, <2>3
  <1>3. \A s \in {"INTERRUPTED", "FAILED", "RECOVERY_REQUIRED"} :
          [r EXCEPT !.status = s] \in RunRecord
    OBVIOUS
  <1>4. \A i \in {"ACKNOWLEDGED", "AMBIGUOUS", "TERMINAL", "none"} :
          [r EXCEPT !.interrupt = i] \in RunRecord
    OBVIOUS
  <1>5. [r EXCEPT !.status = "INTERRUPTING", !.interrupt = "SENDING"] \in RunRecord
    OBVIOUS
  <1>6. \A i \in {"NOT_DELIVERED", "AMBIGUOUS", r.interrupt} :
          [r EXCEPT !.status = "RECOVERY_REQUIRED", !.interrupt = i] \in RunRecord
    OBVIOUS
  <1>7. [r EXCEPT !.dated = TRUE] \in RunRecord
    OBVIOUS
  <1>8. [r EXCEPT !.status = "INTERRUPTED", !.delivery = "NOT_DELIVERED"] \in RunRecord
    OBVIOUS
  <1> QED
    BY <1>1, <1>2, <1>3, <1>4, <1>5, <1>6, <1>7, <1>8

LEMMA ProcLabels ==
  /\ {"idle", "failed", "lockRecover", "retry", "finish"} \subseteq Labels
  /\ "raise" \in Labels
  BY DEF Labels, Blind

LEMMA Thrown ==
  ASSUME ControlOK, NEW p \in Procs, Throw(p)
  PROVE  ControlOK' /\ Beside(p) /\ Threw(p)
  <1> DEFINE to == CASE p = "user" -> "idle"
                     [] p = "boot" -> "failed"
                     [] p \in {"pump", "events"} /\ ~handling[p] -> "lockRecover"
                     [] p = "pump" /\ handling[p] -> "retry"
                     [] p = "events" /\ handling[p] -> "finish"
  <1>0. pc' = [pc EXCEPT ![p] = to]
    BY DEF Throw
  <1>1. pc'[p] = to
    <2> HIDE DEF to
    <2> QED BY <1>0 DEF ControlOK
  <1>5. p = "user" => to = "idle"
    OBVIOUS
  <1>6. p = "boot" => to = "failed"
    OBVIOUS
  <1>7. to \in {"idle", "failed", "lockRecover", "retry", "finish"}
    BY DEF Procs
  <1> HIDE DEF to
  <1>2. ControlOK'
    BY <1>0, <1>7, ProcLabels, NoRunType, Zenon DEF ControlOK, Throw, Rest
  <1>3. Beside(p)
    BY DEF ControlOK, Throw, Rest, Beside, Procs
  <1>4. Threw(p)
    BY <1>1, <1>5, <1>6, <1>7 DEF ControlOK, Throw, Rest, Threw
  <1> QED
    BY <1>2, <1>3, <1>4

LEMMA Looked ==
  ASSUME ControlOK, run \in RunRecord, NEW p \in Procs, NEW label \in Labels,
         NEW a \in Labels, NEW b \in Labels, Look(p, label, a, b)
  PROVE  /\ ControlOK' /\ Beside(p)
         /\ IF label = "raise" THEN Threw(p) ELSE Saw(p, label, a, b)
  <1>1. CASE label = "raise"
    BY <1>1, Thrown DEF Look
  <1>2. CASE label # "raise"
    <2>1. ControlOK'
      BY <1>2, NoRunType DEF ControlOK, Look, Goto
    <2>2. Beside(p)
      BY <1>2 DEF ControlOK, Look, Goto, Beside
    <2>3. Saw(p, label, a, b)
      BY <1>2 DEF ControlOK, Look, Goto, Saw
    <2> QED
      BY <1>2, <2>1, <2>2, <2>3
  <1> QED
    BY <1>1, <1>2

LEMMA Moved ==
  ASSUME ControlOK, NEW p \in Procs, NEW label \in Labels, Move(p, label)
  PROVE  ControlOK' /\ Beside(p) /\ Arrived(p, label)
  BY DEF ControlOK, Move, Goto, locals, Beside, Arrived

LEMMA Entered ==
  ASSUME ControlOK, NEW p \in Procs, NEW label \in Labels,
         NEW a \in Labels, NEW b \in Labels, Enter(p, label, a, b), lock = "free"
  PROVE  /\ ControlOK' /\ Beside(p) /\ lock' = p
         /\ pc'[p] = label /\ seen'[p] = NoRun /\ stale'[p] = {}
         /\ after'[p] = a /\ back'[p] = b
  <1>1. ControlOK'
    BY NoRunType, Zenon DEF ControlOK, Enter
  <1> QED
    BY <1>1 DEF ControlOK, Enter, Beside, Procs

\* A write of p, which is news to the others.
LEMMA Touched ==
  ASSUME ControlOK, NEW p \in Procs, NEW label \in Labels,
         NEW kinds \in SUBSET {"job", "wave", "entry"},
         Touch(p, kinds), Goto(p, label), UNCHANGED <<seen, after, back>>,
         "job" \in kinds => job'.status # "QUEUED"
  PROVE  ControlOK' /\ Beside(p) /\ Arrived(p, label)
  <1>1. stale' \in [Procs -> SUBSET {"job", "wave", "entry", "phase"}]
    BY DEF ControlOK, Touch
  <1>2. ControlOK'
    BY <1>1 DEF ControlOK, Goto
  <1>3. Beside(p)
    BY DEF ControlOK, Goto, Touch, Beside
  <1>4. Arrived(p, label)
    BY DEF ControlOK, Goto, Touch, Arrived
  <1> QED
    BY <1>2, <1>3, <1>4

-----------------------------------------------------------------------------
(* The type of the records, and what a write that may be refused does to   *)
(* them.                                                                   *)

DataOK ==
  /\ wave \in WaveStatus /\ phase \in 1..Agents
  /\ job \in [status : JobStatus, delivery : Delivery]
  /\ message \in {"none", "live", "recovery"}
  /\ run \in RunRecord /\ entry \in EntryStatus /\ released \in BOOLEAN
  /\ provider \in [state : {"idle", "working", "done", "lost"}, sent : BOOLEAN,
                   owed : BOOLEAN, answer : Answers]
  /\ inbox \in Seq([kind : {"completed", "ended", "recovery"},
                    phase : 1..Agents])
  /\ wake \in BOOLEAN /\ up \in {"down", "starting", "up"}
  /\ crashes \in 0..MaxCrashes /\ faults \in 0..MaxFaults
  /\ stops \in 0..MaxStops

LEMMA TypeParts == /\ TypeOK <=> DataOK /\ ControlOK
                   /\ TypeOK' <=> DataOK' /\ ControlOK'
  BY DEF TypeOK, DataOK, ControlOK

LEMMA Transitions ==
  /\ \A s \in WaveStatus : WaveTransitions[s] \subseteq WaveStatus \ {"none"}
  /\ \A s \in JobStatus : JobTransitions[s] \subseteq JobStatus
  /\ \A d \in Delivery : JobDeliveries[d] \subseteq Delivery \ {"NOT_SENT"}
  <1>1. \A s \in WaveStatus : WaveTransitions[s] \subseteq WaveStatus \ {"none"}
    BY DEF WaveTransitions, WaveStatus, Unsubmitted, Stopping
  <1>2. \A s \in JobStatus : JobTransitions[s] \subseteq JobStatus
    BY DEF JobTransitions, JobStatus, JobEnded
  <1>3. \A d \in Delivery : JobDeliveries[d] \subseteq Delivery \ {"NOT_SENT"}
    BY DEF JobDeliveries, Delivery
  <1> QED
    BY <1>1, <1>2, <1>3

\* The job was written by p: what another process has read of it is stale.
JobNews(p) ==
  \A q \in Procs \ {p} : pc[q] \in Blind \/ "job" \in stale'[q]

LEMMA JobTried ==
  ASSUME TypeOK, NEW p \in Procs, NEW status \in JobStatus \ {"QUEUED"},
         NEW delivery \in Delivery, NEW next \in Labels,
         TryJob(p, status, delivery, next)
  PROVE  /\ TypeOK' /\ Beside(p)
         /\ UNCHANGED <<wave, phase, message, run, entry, released, provider,
                       inbox, wake, up, crashes, faults, stops>>
         /\ \/ job' = job /\ Threw(p)
            \/ /\ "job" \notin stale[p]
               /\ job' = [status |-> status, delivery |-> delivery]
               /\ status \in {job.status} \cup JobTransitions[job.status]
               /\ delivery \in {job.delivery} \cup JobDeliveries[job.delivery]
               /\ Arrived(p, next) /\ JobNews(p)
  <1> DEFINE new == [status |-> status, delivery |-> delivery]
  <1>0. DataOK /\ ControlOK
    BY TypeParts
  <1>1. UNCHANGED <<wave, phase, message, run, entry, released, provider,
                    inbox, wake, up, crashes, faults, stops>>
    BY DEF TryJob, runtime, app
  <1>2. CASE "job" \notin stale[p] /\ JobAccepted(new)
    <2>1. job' = new /\ Touch(p, {"job"}) /\ Goto(p, next)
          /\ UNCHANGED <<seen, after, back>>
      BY <1>2 DEF TryJob
    <2>2. ControlOK' /\ Beside(p) /\ Arrived(p, next)
      BY <1>0, <2>1, Touched
    <2>3. DataOK'
      BY <1>0, <1>1, <2>1 DEF DataOK
    <2>4. /\ status \in {job.status} \cup JobTransitions[job.status]
          /\ delivery \in {job.delivery} \cup JobDeliveries[job.delivery]
      BY <1>2 DEF JobAccepted
    <2>5. JobNews(p)
      BY <2>1 DEF Touch, JobNews
    <2> QED
      BY <1>1, <1>2, <2>1, <2>2, <2>3, <2>4, <2>5, TypeParts
  <1>3. CASE ~("job" \notin stale[p] /\ JobAccepted(new))
    <2>1. Throw(p) /\ job' = job
      BY <1>3 DEF TryJob
    <2>2. ControlOK' /\ Beside(p) /\ Threw(p)
      BY <1>0, <2>1, Thrown
    <2>3. DataOK'
      BY <1>0, <1>1, <2>1 DEF DataOK
    <2> QED
      BY <1>1, <2>1, <2>2, <2>3, TypeParts
  <1> QED
    BY <1>2, <1>3

\* A write of the wave: refused, or along a transition.
WaveMoves(p, status, next) ==
  \/ wave' = wave /\ Threw(p)
  \/ /\ wave' = status /\ status \in {wave} \cup WaveTransitions[wave]
     /\ Arrived(p, next)

LEMMA WaveTried ==
  ASSUME TypeOK, NEW p \in Procs, NEW status \in WaveStatus, NEW next \in Labels,
         TryWave(p, status, next) \/ SetWave(p, status, next)
  PROVE  /\ TypeOK' /\ Beside(p) /\ WaveMoves(p, status, next)
         /\ TryWave(p, status, next) /\ Arrived(p, next) => "wave" \notin stale[p]
         /\ UNCHANGED <<phase, job, message, run, entry, released, provider,
                       inbox, wake, up, crashes, faults, stops>>
  <1>0. DataOK /\ ControlOK
    BY TypeParts
  <1>1. UNCHANGED <<phase, job, message, run, entry, released, provider,
                    inbox, wake, up, crashes, faults, stops>>
    BY DEF TryWave, SetWave, runtime, app
  <1>2. CASE /\ wave' = status /\ status \in {wave} \cup WaveTransitions[wave]
             /\ Goto(p, next) /\ UNCHANGED <<seen, after, back>>
             /\ Touch(p, {"wave"}) \/ Touch(p, {})
             /\ TryWave(p, status, next) => "wave" \notin stale[p]
    <2>1. ControlOK' /\ Beside(p) /\ Arrived(p, next)
      BY <1>0, <1>2, Touched
    <2>2. DataOK'
      BY <1>0, <1>1, <1>2 DEF DataOK
    <2> QED
      BY <1>1, <1>2, <2>1, <2>2, TypeParts DEF WaveMoves
  <1>3. CASE Throw(p) /\ wave' = wave
             /\ (TryWave(p, status, next) => "wave" \in stale[p]
                                            \/ status \notin WaveTransitions[wave])
    <2>1. ControlOK' /\ Beside(p) /\ Threw(p)
      BY <1>0, <1>3, Thrown
    <2>2. DataOK'
      BY <1>0, <1>1, <1>3 DEF DataOK
    <2>3. TryWave(p, status, next) /\ Arrived(p, next) => "wave" \notin stale[p]
      <3>1. ASSUME TryWave(p, status, next), Arrived(p, next), "wave" \in stale[p]
            PROVE  FALSE
        BY <2>1, <3>1 DEF Threw, Arrived
      <3> QED
        BY <3>1
    <2> QED
      BY <1>1, <1>3, <2>1, <2>2, <2>3, TypeParts DEF WaveMoves
  <1>4. \/ /\ wave' = status /\ status \in {wave} \cup WaveTransitions[wave]
           /\ Goto(p, next) /\ UNCHANGED <<seen, after, back>>
           /\ Touch(p, {"wave"}) \/ Touch(p, {})
           /\ TryWave(p, status, next) => "wave" \notin stale[p]
        \/ Throw(p) /\ wave' = wave
             /\ (TryWave(p, status, next) => "wave" \in stale[p]
                                            \/ status \notin WaveTransitions[wave])
    BY Zenon DEF TryWave, SetWave
  <1> QED
    BY <1>2, <1>3, <1>4

LEMMA EntrySet ==
  ASSUME TypeOK, NEW p \in Procs, NEW status \in EntryStatus, NEW next \in Labels,
         SetEntry(p, status, next)
  PROVE  /\ TypeOK' /\ Beside(p) /\ Arrived(p, next) /\ entry' = status
         /\ UNCHANGED <<wave, phase, job, message, run, released, provider,
                       inbox, wake, up, crashes, faults, stops>>
  <1>0. DataOK /\ ControlOK
    BY TypeParts
  <1>1. UNCHANGED <<wave, phase, job, message, run, released, provider,
                    inbox, wake, up, crashes, faults, stops>>
    BY DEF SetEntry, discourse, app
  <1>2. entry' = status /\ Goto(p, next) /\ UNCHANGED <<seen, after, back>>
        /\ (Touch(p, {"entry"}) \/ Touch(p, {}))
    BY DEF SetEntry
  <1>3. ControlOK' /\ Beside(p) /\ Arrived(p, next)
    BY <1>0, <1>2, Touched
  <1>4. DataOK'
    BY <1>0, <1>1, <1>2 DEF DataOK
  <1> QED
    BY <1>1, <1>2, <1>3, <1>4, TypeParts

LEMMA RunTried ==
  ASSUME TypeOK, NEW p \in Procs, NEW new \in RunRecord, NEW next \in Labels,
         TryRun(p, new, next)
  PROVE  /\ TypeOK' /\ Beside(p)
         /\ UNCHANGED <<wave, phase, job, message, entry, released, provider,
                       inbox, wake, up, crashes, faults, stops>>
         /\ \/ run' = run /\ Threw(p)
            \/ /\ run = seen[p] /\ run' = new
               /\ pc'[p] = next /\ lock' = lock
               /\ seen'[p] = new /\ stale'[p] = stale[p]
               /\ after'[p] = after[p] /\ back'[p] = back[p]
  <1>0. DataOK /\ ControlOK
    BY TypeParts
  <1>1. UNCHANGED <<wave, phase, job, message, entry, released, provider,
                    inbox, wake, up, crashes, faults, stops>>
    BY DEF TryRun, discourse, app
  <1>2. CASE run = seen[p]
    <2>1. run' = new /\ seen' = [seen EXCEPT ![p] = new] /\ Goto(p, next)
          /\ UNCHANGED <<stale, after, back>>
      BY <1>2 DEF TryRun
    <2>2. ControlOK'
      BY <1>0, <2>1 DEF ControlOK, Goto
    <2>3. Beside(p)
      BY <1>0, <2>1 DEF ControlOK, Goto, Beside
    <2>4. DataOK'
      BY <1>0, <1>1, <2>1 DEF DataOK
    <2> QED
      BY <1>0, <1>1, <1>2, <2>1, <2>2, <2>3, <2>4, TypeParts DEF ControlOK, Goto
  <1>3. CASE run # seen[p]
    <2>1. Throw(p) /\ run' = run
      BY <1>3 DEF TryRun
    <2>2. ControlOK' /\ Beside(p) /\ Threw(p)
      BY <1>0, <2>1, Thrown
    <2>3. DataOK'
      BY <1>0, <1>1, <2>1 DEF DataOK
    <2> QED
      BY <1>1, <2>1, <2>2, <2>3, TypeParts
  <1> QED
    BY <1>2, <1>3

-----------------------------------------------------------------------------
(* The inductive invariant.                                                *)

\* A completed turn whose repository was found unchanged; a run that a start
\* was made for; a turn the provider never got and no call can send any more;
\* and one that is not counted against it, for its repository changed.
Verified(r) == r.status = "COMPLETED" /\ r.intact = "UNCHANGED"
RunBegun == run.status \notin {"none", "QUEUED"}
Barred == RunBegun /\ ~provider.sent /\ ~Calling
Spared == Barred \/ run.intact = "CHANGED"

\* A run is not sent as long as it is queued, and over once its repository was
\* found changed.
RecordSound(r) ==
  /\ r.delivery = "NOT_SENT" <=> r.status \in {"none", "QUEUED"}
  /\ r.intact = "CHANGED" => Ended(r)

\* What the run says of the provider: a run that counts as not sent was not,
\* and none is about to be; one that counts as not delivered is barred from
\* being sent.  Likewise for the job.
RunInv ==
  /\ RecordSound(run)
  /\ provider.state = "working" => provider.sent
  /\ provider.owed => RunBegun /\ run.intact # "CHANGED"
  /\ run.delivery = "NOT_SENT" => ~provider.sent /\ ~Calling
  /\ run.delivery = "NOT_DELIVERED" => Spared

JobInv ==
  /\ provider.sent \/ Calling => job.delivery # "NOT_SENT"
  /\ job.delivery = "NOT_DELIVERED" => Spared

\* The labels at which there may be no wave yet.
Early == {"idle", "retry", "settling", "lease", "lockRecover", "recover",
          "advance", "activate", "finish", "ending"}
NoWaveInv ==
  wave = "none" =>
    /\ run = NoRun /\ job = NewJob /\ entry = "none" /\ inbox = <<>>
    /\ \A p \in Procs : pc[p] \in Early

\* Published messages, and events of completed turns, are of verified runs.
MessageInv ==
  /\ message # "none" => Verified(run)
  /\ job.status = "COMPLETED" => message # "none"

InboxInv ==
  \A i \in DOMAIN inbox :
    /\ inbox[i].phase <= phase
    /\ inbox[i].kind = "completed" /\ inbox[i].phase = phase => Verified(run)

StoreInv == RunInv /\ JobInv /\ NoWaveInv /\ MessageInv /\ InboxInv

\* The labels at which a run that was read is used; those of recovery that a
\* release or a requeue goes through; and where a process goes on to, after the
\* stop or the settling it makes and once told of a change.
SeenUsed == {"startRecovery", "relink", "release", "requeue", "decide",
  "rCancelRun", "rInterrupted", "rRequired", "rStarting"}
Recovering == {"relink", "release", "requeue", "decide", "advance", "activate",
               "handoff", "finish", "settling", "lockRecover"}

Afters == {"idle", "finish", "lockAdvance", "advance", "raise"}
Backs == {"idle", "finish", "reconcile", "rejectJob", "stopWave", "stopCheck",
  "cancelJob", "stopRecovered", "requestCancel", "stopRun", "interruptedJob",
  "interruptedRecovered", "settleOnly", "advance", "lockAdvance", "raise", "release",
  "requeue"}

\* Where p holds the lock of the conversation.
Held == {"recover", "relink", "release", "requeue", "decide", "rCancelRun", "rCancelEntry",
  "rCancelJob", "rInterrupted", "rInterruptedJob", "rRequired", "rRunning",
  "rRunningJob", "rStarting", "rStartingJob", "rStartingWave", "advance", "handoff"}
LockInv(p) ==
  pc[p] \in Held \/ after[p] = "advance" \/ back[p] = "advance" => lock = p

\* The process returns where the code that called it is; the hand-off is from
\* the peer's job to the author's.
WayInv(p) ==
  /\ after[p] \in Afters /\ back[p] \in Backs
  /\ back[p] \in {"release", "requeue"} => pc[p] \in Recovering
  /\ pc[p] = "handoff" => Agents = 2 /\ phase = 1

\* What the run that was read says of the run there is, as long as it is that
\* of the present job; a process the hand-off has overtaken holds a stale job,
\* and its writes of it are refused.
SeenInv(p) ==
  /\ RecordSound(seen[p])
  /\ Overtaken(p) => "job" \in stale[p]
  /\ pc[p] \in SeenUsed /\ ~Overtaken(p) =>
       /\ seen[p].delivery = "NOT_DELIVERED" => Spared
       /\ Verified(seen[p]) => Verified(run)
  /\ pc[p] \in {"startRecovery", "rRequired"} => seen[p].status = "RECOVERY_REQUIRED"
  /\ pc[p] = "rStarting" => seen[p].status = "STARTING"

\* The answer that is about to be published is that of a verified run, and a
\* job is completed after its message.
ResultInv(p) ==
  /\ pc[p] \in {"ingest", "project", "append"} /\ ~Overtaken(p) => Verified(run)
  /\ pc[p] = "complete" /\ "job" \notin stale[p] => message # "none"

\* The pump dispatches the job it leased the entry of, and has marked it as
\* being sent before it starts it; it counts it as not sent only when nothing
\* can be.
PumpInv(p) ==
  p = "pump" =>
    /\ pc[p] \in {"dispatchWave", "dispatchJob", "start"} /\ Overtaken(p) =>
         entry # "LEASED"
    /\ pc[p] = "start" /\ ~Overtaken(p) => job.delivery # "NOT_SENT"
    /\ pc[p] = "startFailed" /\ "job" \notin stale[p] => Spared

ProcInv(p) == LockInv(p) /\ WayInv(p) /\ SeenInv(p) /\ ResultInv(p) /\ PumpInv(p)

IInv == StoreInv /\ \A p \in Procs : ProcInv(p)

-----------------------------------------------------------------------------
\* What every step but the hand-off keeps.
Onward ==
  /\ phase' = phase
  /\ Spared => Spared'
  /\ Verified(run) => Verified(run')
  /\ message # "none" => message' # "none"
  /\ job.delivery # "NOT_SENT" => job'.delivery # "NOT_SENT"

\* A step of p that goes on keeps what every other process holds.
LEMMA OthersKeep ==
  ASSUME TypeOK, IInv, NEW p \in Procs, Beside(p), Onward,
         p # "pump" /\ entry' = "LEASED" => entry = "LEASED"
  PROVE  \A q \in Procs \ {p} : ProcInv(q)'
  <1> SUFFICES ASSUME NEW q \in Procs \ {p}
               PROVE  ProcInv(q)'
    OBVIOUS
  <1>0. ProcInv(q)
    BY DEF IInv
  <1>1. /\ pc'[q] = pc[q] /\ seen'[q] = seen[q]
        /\ after'[q] = after[q] /\ back'[q] = back[q]
        /\ stale[q] \subseteq stale'[q]
        /\ Overtaken(q)' <=> Overtaken(q)
        /\ lock = q => lock' = q
    BY DEF Beside, Overtaken
  <1>2. LockInv(q)' /\ WayInv(q)'
    BY <1>0, <1>1 DEF ProcInv, LockInv, WayInv, Onward
  <1>3. SeenInv(q)'
    BY <1>0, <1>1 DEF ProcInv, SeenInv, Onward, RecordSound, Verified, Ended
  <1>4. ResultInv(q)'
    BY <1>0, <1>1 DEF ProcInv, ResultInv, Onward, Verified
  <1>5. PumpInv(q)'
    BY <1>0, <1>1 DEF ProcInv, PumpInv, Onward
  <1> QED
    BY <1>2, <1>3, <1>4, <1>5 DEF ProcInv

\* The labels at which the invariant claims something of what p holds, and the
\* others.
Special == SeenUsed \cup
  {"ingest", "project", "append", "complete", "dispatchWave", "dispatchJob",
   "start", "startFailed", "handoff", "calling"}
Plain == Labels \ Special

\* A process that has come to a label where nothing is claimed.
Landed(p) ==
  /\ pc'[p] \in Plain
  /\ seen'[p] \in {seen[p], NoRun} /\ stale'[p] \in {stale[p], {}}
  /\ after'[p] \in Afters /\ back'[p] \in Backs
  /\ back'[p] \in {"release", "requeue"} => pc'[p] \in Recovering
  /\ LockInv(p)'

LEMMA NoRunSound == RecordSound(NoRun) /\ RecordSound(NewRun) /\ ~Verified(NoRun)
  BY DEF RecordSound, NoRun, NewRun, Ended, RunEnded, Verified

LEMMA PlainInv ==
  ASSUME TypeOK, IInv, NEW p \in Procs, Landed(p)
  PROVE  ProcInv(p)'
  <1>0. SeenInv(p)
    BY DEF IInv, ProcInv
  <1>1. pc'[p] \notin Special
    BY DEF Landed, Plain
  <1>2. LockInv(p)' /\ WayInv(p)'
    BY <1>1 DEF Landed, WayInv, Special
  <1>3. SeenInv(p)'
    BY <1>0, <1>1, NoRunSound DEF Landed, SeenInv, Special, SeenUsed, RecordSound,
       Ended, Overtaken
  <1>4. ResultInv(p)' /\ PumpInv(p)'
    BY <1>1 DEF ResultInv, PumpInv, Special
  <1> QED
    BY <1>2, <1>3, <1>4 DEF ProcInv

LEMMA ThrewLands ==
  ASSUME TypeOK, NEW p \in Procs, Threw(p)
  PROVE  Landed(p)
  <1>1. pc'[p] \in Plain
    BY DEF Threw, Plain, Labels, Blind, Special, SeenUsed
  <1> QED
    BY <1>1 DEF Threw, Landed, Afters, Backs, LockInv, Held

\* A step that writes none of the records the invariant speaks of, but the
\* entry and the wave.
LEMMA StoreKeeps ==
  ASSUME TypeOK, IInv, NEW p \in Procs, Beside(p), pc'[p] # "calling",
         UNCHANGED <<phase, job, message, run, provider, inbox>>,
         wave' # "none" \/ (wave = "none" /\ pc'[p] \in Early /\ entry' = entry)
  PROVE  StoreInv' /\ Onward
  <1>0. StoreInv
    BY DEF IInv
  <1>1. Calling' => Calling
    BY DEF Calling, Beside, Procs, Overtaken
  <1>2. Spared => Spared'
    BY <1>1 DEF Spared, Barred, RunBegun
  <1>3. Onward
    BY <1>2 DEF Onward, Verified
  <1>4. RunInv' /\ JobInv'
    BY <1>0, <1>1, <1>2 DEF StoreInv, RunInv, JobInv, RecordSound, RunBegun, Ended
  <1>5. NoWaveInv'
    BY <1>0 DEF StoreInv, NoWaveInv, Beside
  <1>6. MessageInv' /\ InboxInv'
    BY <1>0 DEF StoreInv, MessageInv, InboxInv, Verified
  <1> QED
    BY <1>3, <1>4, <1>5, <1>6 DEF StoreInv

LEMMA QuietKeeps ==
  ASSUME TypeOK, IInv, NEW p \in Procs, Beside(p), pc'[p] # "calling",
         UNCHANGED <<phase, job, message, run, provider, inbox>>,
         wave' # "none" \/ (wave = "none" /\ pc'[p] \in Early /\ entry' = entry),
         p # "pump" /\ entry' = "LEASED" => entry = "LEASED",
         ProcInv(p)'
  PROVE  IInv'
  <1>1. StoreInv' /\ Onward
    BY StoreKeeps
  <1>2. \A q \in Procs \ {p} : ProcInv(q)'
    BY <1>1, OthersKeep
  <1> QED
    BY <1>1, <1>2 DEF IInv

\* So is IInv kept, when p lands.
LEMMA QuietLands ==
  ASSUME TypeOK, IInv, NEW p \in Procs, Beside(p), Landed(p),
         UNCHANGED <<phase, job, message, run, provider, inbox>>,
         wave' # "none" \/ (wave = "none" /\ pc'[p] \in Early /\ entry' = entry),
         p # "pump" /\ entry' = "LEASED" => entry = "LEASED"
  PROVE  IInv'
  <1>1. pc'[p] # "calling"
    BY DEF Landed, Plain, Special
  <1>2. ProcInv(p)'
    BY PlainInv
  <1> QED
    BY <1>1, <1>2, QuietKeeps

\* Past the early labels, there is a wave.
LEMMA WaveBegun ==
  ASSUME IInv, NEW p \in Procs, pc[p] \notin Early
  PROVE  wave # "none"
  BY DEF IInv, StoreInv, NoWaveInv

LEMMA Ways ==
  /\ Afters \subseteq Plain /\ Afters \subseteq Labels
  /\ Backs \subseteq Labels /\ Backs \ {"release", "requeue"} \subseteq Plain
  /\ Plain \subseteq Labels /\ Early \subseteq Plain
  BY DEF Afters, Backs, Plain, Labels, Blind, Special, SeenUsed, Early

LEMMA ArrivedLands ==
  ASSUME TypeOK, IInv, NEW p \in Procs, NEW next \in Plain, Arrived(p, next),
         next \in Held => lock = p, pc[p] \notin Recovering \/ next \in Recovering
  PROVE  Landed(p)
  <1>1. LockInv(p) /\ WayInv(p)
    BY DEF IInv, ProcInv
  <1> QED
    BY <1>1 DEF Arrived, Landed, LockInv, WayInv

LEMMA SawLands ==
  ASSUME TypeOK, NEW p \in Procs, NEW label \in Plain, NEW a \in Afters,
         NEW b \in Backs, b \notin {"release", "requeue"} \/ label \in Recovering,
         label \in Held \/ a = "advance" \/ b = "advance" => lock = p,
         Saw(p, label, a, b)
  PROVE  Landed(p)
  BY DEF Saw, Landed, Plain, Special, SeenUsed, UsesRun, LockInv

\* Steps that read, and steps that write the job, the wave or the entry, and
\* land where nothing is claimed of what p holds.
LEMMA LookStep ==
  ASSUME TypeOK, IInv, NEW p \in Procs, NEW label \in Plain, NEW a \in Afters,
         NEW b \in Backs \ {"release", "requeue"}, Look(p, label, a, b), DataOK',
         label \in Held \/ a = "advance" \/ b = "advance" => lock = p,
         UNCHANGED <<phase, job, message, run, entry, provider, inbox>>,
         wave' # "none" \/ (wave = "none" /\ label \in Early)
  PROVE  TypeOK' /\ IInv'
  <1>0. DataOK /\ ControlOK
    BY TypeParts
  <1>1. /\ ControlOK' /\ Beside(p)
        /\ IF label = "raise" THEN Threw(p) ELSE Saw(p, label, a, b)
    BY <1>0, Looked, Ways DEF DataOK
  <1>2. TypeOK'
    BY <1>1, TypeParts
  <1>3. Landed(p)
    BY <1>1, ThrewLands, SawLands
  <1>4. wave' # "none" \/ (wave = "none" /\ pc'[p] \in Early)
    BY <1>1 DEF Saw, Early
  <1> QED
    BY <1>1, <1>2, <1>3, <1>4, QuietLands

LEMMA MoveStep ==
  ASSUME TypeOK, IInv, NEW p \in Procs, NEW next \in Plain, Move(p, next), DataOK',
         next \in Held => lock = p, pc[p] \notin Recovering \/ next \in Recovering,
         UNCHANGED <<phase, job, message, run, entry, provider, inbox>>,
         wave' # "none" \/ (wave = "none" /\ next \in Early)
  PROVE  TypeOK' /\ IInv'
  <1>0. DataOK /\ ControlOK
    BY TypeParts
  <1>1. ControlOK' /\ Beside(p) /\ Arrived(p, next)
    BY <1>0, Moved, Ways
  <1>2. TypeOK'
    BY <1>1, TypeParts
  <1>3. Landed(p)
    BY <1>1, ArrivedLands
  <1>4. wave' # "none" \/ (wave = "none" /\ pc'[p] \in Early)
    BY <1>1 DEF Arrived
  <1> QED
    BY <1>1, <1>2, <1>3, <1>4, QuietLands

LEMMA ThrowStep ==
  ASSUME TypeOK, IInv, NEW p \in Procs, Throw(p), DataOK',
         UNCHANGED <<phase, job, message, run, entry, provider, inbox>>,
         wave' # "none"
  PROVE  TypeOK' /\ IInv'
  <1>1. ControlOK' /\ Beside(p) /\ Threw(p)
    BY Thrown, TypeParts
  <1>2. TypeOK'
    BY <1>1, TypeParts
  <1>3. Landed(p)
    BY <1>1, ThrewLands
  <1> QED
    BY <1>1, <1>2, <1>3, QuietLands

LEMMA WaveStep ==
  ASSUME TypeOK, IInv, NEW p \in Procs, NEW status \in WaveStatus, NEW next \in Plain,
         TryWave(p, status, next) \/ SetWave(p, status, next), wave # "none",
         next \in Held => lock = p, pc[p] \notin Recovering \/ next \in Recovering
  PROVE  TypeOK' /\ IInv'
  <1>0. wave \in WaveStatus
    BY TypeParts DEF DataOK
  <1>1. /\ TypeOK' /\ Beside(p) /\ WaveMoves(p, status, next)
        /\ UNCHANGED <<phase, job, message, run, entry, provider, inbox>>
    BY WaveTried, Ways
  <1>2. wave' # "none"
    BY <1>0, <1>1, Transitions DEF WaveMoves
  <1>3. Landed(p)
    BY <1>1, ArrivedLands, ThrewLands DEF WaveMoves
  <1> QED
    BY <1>1, <1>2, <1>3, QuietLands

LEMMA EntryStep ==
  ASSUME TypeOK, IInv, NEW p \in Procs, NEW status \in EntryStatus, NEW next \in Plain,
         SetEntry(p, status, next),
         next \in Held => lock = p, pc[p] \notin Recovering \/ next \in Recovering,
         status = "LEASED" => entry = "LEASED" \/ p = "pump",
         wave # "none" \/ (next \in Early /\ status = entry)
  PROVE  TypeOK' /\ IInv'
  <1>1. /\ TypeOK' /\ Beside(p) /\ Arrived(p, next) /\ entry' = status
        /\ UNCHANGED <<wave, phase, job, message, run, provider, inbox>>
    BY EntrySet, Ways
  <1>2. Landed(p)
    BY <1>1, ArrivedLands
  <1>3. wave' # "none" \/ (wave = "none" /\ pc'[p] \in Early /\ entry' = entry)
    BY <1>1 DEF Arrived
  <1> QED
    BY <1>1, <1>2, <1>3, QuietLands

\* What a write of the job must respect.
JobWrite(p, status, delivery) ==
  "job" \notin stale[p] =>
    /\ delivery = "NOT_DELIVERED" => job.delivery = "NOT_DELIVERED" \/ Spared
    /\ status = "COMPLETED" => message # "none"

\* A write of the job that respects this keeps the records and the others.
LEMMA JobKeeps ==
  ASSUME TypeOK, IInv, NEW p \in Procs, NEW status \in JobStatus \ {"QUEUED"},
         NEW delivery \in Delivery, NEW next \in Labels \ {"calling"},
         TryJob(p, status, delivery, next), JobWrite(p, status, delivery),
         wave # "none"
  PROVE  /\ TypeOK' /\ StoreInv' /\ Onward
         /\ \A q \in Procs \ {p} : ProcInv(q)'
         /\ \/ Threw(p) /\ ProcInv(p)'
            \/ /\ "job" \notin stale[p] /\ Arrived(p, next)
               /\ job' = [status |-> status, delivery |-> delivery]
  <1>0. StoreInv /\ job \in [status : JobStatus, delivery : Delivery]
    BY TypeParts DEF IInv, DataOK
  <1>1. /\ TypeOK' /\ Beside(p)
        /\ UNCHANGED <<wave, phase, message, run, entry, provider, inbox>>
        /\ \/ job' = job /\ Threw(p)
           \/ /\ "job" \notin stale[p]
              /\ job' = [status |-> status, delivery |-> delivery]
              /\ delivery \in {job.delivery} \cup JobDeliveries[job.delivery]
              /\ Arrived(p, next)
    BY JobTried
  <1>2. pc'[p] # "calling"
    BY <1>1 DEF Threw, Arrived
  <1>3. Calling' => Calling
    BY <1>1, <1>2 DEF Calling, Beside, Procs, Overtaken
  <1>4. Spared => Spared'
    BY <1>1, <1>3 DEF Spared, Barred, RunBegun
  <1>5. job.delivery # "NOT_SENT" => job'.delivery # "NOT_SENT"
    BY <1>0, <1>1, Transitions
  <1>6. Onward
    BY <1>1, <1>4, <1>5 DEF Onward, Verified
  <1>7. RunInv'
    BY <1>0, <1>1, <1>3, <1>4 DEF StoreInv, RunInv, RecordSound, RunBegun, Ended
  <1>8. JobInv'
    <2>1. job'.delivery = "NOT_DELIVERED" => job.delivery = "NOT_DELIVERED" \/ Spared
      BY <1>1 DEF JobWrite
    <2> QED
      BY <2>1, <1>0, <1>1, <1>3, <1>4, <1>5 DEF StoreInv, JobInv
  <1>9. NoWaveInv' /\ InboxInv'
    BY <1>0, <1>1 DEF StoreInv, NoWaveInv, InboxInv, Verified
  <1>10. MessageInv'
    BY <1>0, <1>1 DEF StoreInv, MessageInv, Verified, JobWrite
  <1>11. \A q \in Procs \ {p} : ProcInv(q)'
    BY <1>1, <1>6, OthersKeep
  <1>12. Threw(p) => ProcInv(p)'
    BY ThrewLands, PlainInv
  <1> QED
    BY <1>1, <1>6, <1>7, <1>8, <1>9, <1>10, <1>11, <1>12 DEF StoreInv

LEMMA JobStep ==
  ASSUME TypeOK, IInv, NEW p \in Procs, NEW status \in JobStatus \ {"QUEUED"},
         NEW delivery \in Delivery, NEW next \in Plain,
         TryJob(p, status, delivery, next), JobWrite(p, status, delivery), wave # "none",
         next \in Held => lock = p, pc[p] \notin Recovering \/ next \in Recovering
  PROVE  TypeOK' /\ IInv'
  <1>0. next \in Labels \ {"calling"}
    BY DEF Plain, Special
  <1>1. /\ TypeOK' /\ StoreInv' /\ Onward
        /\ \A q \in Procs \ {p} : ProcInv(q)'
        /\ (Threw(p) /\ ProcInv(p)') \/ Arrived(p, next)
    BY <1>0, JobKeeps
  <1>2. ProcInv(p)'
    BY <1>1, ArrivedLands, PlainInv
  <1> QED
    BY <1>1, <1>2 DEF IInv

\* A record that can follow the present one.
Follows(new) ==
  /\ RecordSound(new)
  /\ RunBegun => new.status \notin {"none", "QUEUED"}
  /\ Verified(run) => Verified(new)
  /\ new.intact = "CHANGED" <=> run.intact = "CHANGED"
  /\ new.delivery = "NOT_DELIVERED" => run.delivery \in {"NOT_DELIVERED", "NOT_SENT"}

\* And so does an update of the run.
LEMMA RunKeeps ==
  ASSUME TypeOK, IInv, NEW p \in Procs, Beside(p), Follows(run'), wave # "none",
         UNCHANGED <<wave, phase, job, message, provider, inbox>>,
         pc'[p] # "calling",
         p # "pump" /\ entry' = "LEASED" => entry = "LEASED"
  PROVE  /\ StoreInv' /\ Onward
         /\ \A q \in Procs \ {p} : ProcInv(q)'
         /\ Landed(p) => IInv'
  <1>0. StoreInv
    BY DEF IInv
  <1>1. Calling' => Calling
    BY DEF Calling, Beside, Procs, Overtaken
  <1>2. Spared => Spared'
    BY <1>1 DEF Spared, Barred, RunBegun, Follows
  <1>3. Onward
    BY <1>2 DEF Onward, Follows
  <1>4. RunInv'
    <2>1. provider.owed => RunBegun' /\ run'.intact # "CHANGED"
      BY <1>0 DEF StoreInv, RunInv, RunBegun, Follows
    <2>2. run'.delivery = "NOT_SENT" => run.delivery = "NOT_SENT"
      BY <1>0 DEF StoreInv, RunInv, RunBegun, Follows, RecordSound
    <2>3. run.delivery = "NOT_SENT" /\ run'.delivery = "NOT_DELIVERED" => Spared'
      <3>1. run'.delivery = "NOT_DELIVERED" => RunBegun'
        BY DEF Follows, RecordSound, RunBegun
      <3> QED
        BY <3>1, <1>0, <1>1 DEF StoreInv, RunInv, Spared, Barred
    <2>4. run'.delivery = "NOT_DELIVERED" => Spared'
      BY <2>3, <1>0, <1>2 DEF StoreInv, RunInv, Follows
    <2> QED
      BY <2>1, <2>2, <2>4, <1>0, <1>1 DEF StoreInv, RunInv, Follows
  <1>5. JobInv' /\ NoWaveInv'
    BY <1>0, <1>1, <1>2 DEF StoreInv, JobInv, NoWaveInv
  <1>6. MessageInv' /\ InboxInv'
    BY <1>0, <1>3 DEF StoreInv, MessageInv, InboxInv, Onward
  <1>7. \A q \in Procs \ {p} : ProcInv(q)'
    BY <1>3, OthersKeep
  <1>8. Landed(p) => ProcInv(p)'
    BY PlainInv
  <1> QED
    BY <1>3, <1>4, <1>5, <1>6, <1>7, <1>8 DEF StoreInv, IInv

-----------------------------------------------------------------------------
(* The steps, in the order of the module.                                  *)

LEMMA SendStep ==
  ASSUME TypeOK, IInv, Send
  PROVE  TypeOK' /\ IInv'
  <1> DEFINE p == "user"
  <1>0. p \in Procs /\ DataOK /\ ControlOK /\ StoreInv /\ wave = "none"
    BY TypeParts DEF Procs, Send, IInv
  <1>1. /\ ControlOK' /\ Beside(p) /\ lock' = p
        /\ pc'[p] = "activate" /\ seen'[p] = NoRun /\ stale'[p] = {}
        /\ after'[p] = "finish" /\ back'[p] = "finish"
    BY <1>0, Entered, "activate" \in Labels, "finish" \in Labels DEF Send, Requests,
       Labels, Blind
  <1>2. /\ UNCHANGED <<phase, message, run, entry, released, provider, inbox, wake, up,
                       crashes, faults, stops>>
        /\ wave' = "PLANNED" /\ job' = job
    BY <1>0 DEF Send, runtime, app, StoreInv, NoWaveInv
  <1>3. DataOK'
    BY <1>0, <1>2 DEF DataOK, WaveStatus, Unsubmitted
  <1>4. Landed(p)
    BY <1>1 DEF Landed, Plain, Labels, Blind, Special, SeenUsed, Afters, Backs,
       LockInv, Held
  <1> QED
    BY <1>0, <1>1, <1>2, <1>3, <1>4, TypeParts, QuietLands

LEMMA StopStep ==
  ASSUME TypeOK, IInv, StopWave
  PROVE  TypeOK' /\ IInv'
  <1> DEFINE p == "user"
  <1>0. p \in Procs /\ DataOK /\ ControlOK /\ wave # "none"
    BY TypeParts DEF Procs, StopWave
  <1>1. PICK l \in {"cancelCheck", "stopCheck"}, b \in {"reconcile", "stopWave"} :
          Enter(p, l, "finish", b)
    BY DEF StopWave
  <1>2. /\ ControlOK' /\ Beside(p)
        /\ pc'[p] = l /\ seen'[p] = NoRun /\ stale'[p] = {}
        /\ after'[p] = "finish" /\ back'[p] = b
    <2>1. l \in Labels /\ b \in Labels /\ "finish" \in Labels
      BY DEF Labels, Blind
    <2> QED
      BY <1>0, <1>1, <2>1, Entered DEF StopWave, Requests
  <1>3. /\ UNCHANGED <<wave, phase, job, message, run, entry, released, provider,
                       inbox, wake, up, crashes, faults>>
        /\ stops' = stops + 1 /\ stops < MaxStops
    BY DEF StopWave, discourse, runtime
  <1>4. DataOK'
    <2>1. stops' \in 0..MaxStops
      BY <1>0, <1>3, WaveAssumption DEF DataOK
    <2> QED
      BY <1>0, <1>3, <2>1 DEF DataOK
  <1>5. Landed(p)
    BY <1>2 DEF Landed, Plain, Labels, Blind, Special, SeenUsed, Afters, Backs,
       LockInv, Held
  <1> QED
    BY <1>0, <1>2, <1>3, <1>4, <1>5, TypeParts, QuietLands

LEMMA FinishStep ==
  ASSUME TypeOK, IInv, NEW p \in Procs, Finish(p)
  PROVE  TypeOK' /\ IInv'
  <1>0. DataOK /\ ControlOK
    BY TypeParts
  <1>1. pc'[p] \in {"idle", "retry", "lease"}
    BY <1>0 DEF Finish, ControlOK
  <1>2. Beside(p) /\ seen'[p] = NoRun /\ stale'[p] = {} /\ after'[p] = "idle"
        /\ back'[p] = "idle"
    BY <1>0 DEF Finish, ControlOK, Rest, Beside, Procs
  <1>3. ControlOK'
    <2>1. {"idle", "retry", "lease"} \subseteq Labels
      BY DEF Labels, Blind
    <2> QED
      BY <1>0, <1>1, <2>1, NoRunType, Zenon DEF Finish, ControlOK, Rest
  <1>4. UNCHANGED <<wave, phase, job, message, run, entry, released, provider,
                    inbox, crashes, faults, stops>>
    BY DEF Finish, discourse, runtime
  <1>5. DataOK'
    BY <1>0, <1>4 DEF DataOK, Finish, Notified
  <1>6. Landed(p)
    BY <1>1, <1>2 DEF Landed, Plain, Labels, Blind, Special, SeenUsed, Afters, Backs,
       LockInv, Held
  <1>7. pc'[p] \in Early
    BY <1>1 DEF Early
  <1> QED
    BY <1>0, <1>2, <1>3, <1>4, <1>5, <1>6, <1>7, TypeParts, QuietLands

\* What the steps of a process at an ordinary label begin with.
LEMMA ReadsNothing ==
  ASSUME TypeOK, Reads
  PROVE  /\ DataOK'
         /\ UNCHANGED <<wave, phase, job, message, run, entry, released, provider, inbox,
                       wake, up, crashes, faults, stops>>
  BY TypeParts DEF DataOK, Reads, discourse, runtime, app

LEMMA WaysOf ==
  ASSUME IInv, NEW p \in Procs
  PROVE  /\ after[p] \in Afters /\ back[p] \in Backs
         /\ pc[p] \notin Recovering => back[p] \in Backs \ {"release", "requeue"}
         /\ after[p] \in Held \/ after[p] = "advance" => lock = p
         /\ (back[p] \in Held /\ back[p] \in Plain) \/ back[p] = "advance" => lock = p
  BY DEF IInv, ProcInv, WayInv, LockInv, Afters, Backs, Held, Plain, Special, SeenUsed

LEMMA PrepareSteps ==
  ASSUME TypeOK, IInv, NEW p \in Procs,
         \/ ActivateNextWave(p) \/ PrepareJob(p) \/ PrepareRun(p) \/ LinkJob(p)
         \/ QueueWave(p) \/ Notify(p)
  PROVE  TypeOK' /\ IInv'
  <1>0. DataOK /\ ControlOK /\ StoreInv
    BY TypeParts DEF IInv
  <1> DEFINE labels == {"activate", "finish", "prepare", "reconcile", "prepareRun", "link",
                        "queueWave", "notify"}
  <1>a. labels \subseteq Plain \ Held /\ "finish" \in Afters /\ "finish" \in Early
        /\ "finish" \in Backs \ {"release", "requeue"}
    BY DEF Plain, Labels, Blind, Special, SeenUsed, Afters, Backs, Early, Held
  <1>b. (labels \ {"activate", "finish"}) \cap (Early \cup Recovering) = {}
    BY DEF Early, Recovering
  <1> HIDE DEF labels
  <1>1. CASE ActivateNextWave(p)
    <2> DEFINE label == IF wave \notin Unsubmitted THEN "finish"
                        ELSE IF job.status = "QUEUED" THEN "prepare" ELSE "reconcile"
    <2>1. label \in Plain \ Held
      BY <1>a DEF labels
    <2>2. Look(p, label, "finish", "finish") /\ Reads
      BY <1>1 DEF ActivateNextWave
    <2>3. wave = "none" => label \in Early
      BY <1>a DEF Unsubmitted
    <2> HIDE DEF label
    <2> QED
      BY <2>1, <2>2, <2>3, <1>a, ReadsNothing, LookStep
  <1>2. CASE PrepareJob(p)
    <2>1. pc[p] = "prepare" /\ wave # "none" /\ pc[p] \notin Recovering
      BY <1>2, <1>b, WaveBegun DEF PrepareJob, At, labels
    <2>2. UNCHANGED <<phase, job, message, run, entry, released, provider, inbox, wake, up,
                      crashes, faults, stops>>
      BY <1>2 DEF PrepareJob, runtime, app
    <2>3. wave' \in {wave, "SNAPSHOTTING"} /\ wave' # "none"
      BY <1>2, <2>1 DEF PrepareJob
    <2>4. DataOK'
      BY <1>0, <2>2, <2>3 DEF DataOK, WaveStatus, Unsubmitted
    <2>5. Throw(p) \/ Look(p, "prepareRun", after[p], back[p])
      BY <1>2 DEF PrepareJob
    <2>6. CASE Throw(p)
      BY <2>2, <2>3, <2>4, <2>6, ThrowStep
    <2>7. CASE Look(p, "prepareRun", after[p], back[p])
      <3>1. "prepareRun" \in Plain \ Held
        BY <1>a DEF labels
      <3> QED
        BY <2>1, <2>2, <2>3, <2>4, <2>7, <3>1, WaysOf, LookStep
    <2> QED
      BY <2>5, <2>6, <2>7
  <1>3. CASE PrepareRun(p)
    <2>1. pc[p] = "prepareRun" /\ wave # "none" /\ pc[p] \notin Recovering
      BY <1>3, <1>b, WaveBegun DEF PrepareRun, At, labels
    <2>2. UNCHANGED <<wave, phase, job, message, released, provider, inbox, wake, up,
                      crashes, faults, stops>>
      BY <1>3 DEF PrepareRun, discourse, app
    <2>3. /\ Goto(p, "link") /\ UNCHANGED <<seen, after, back>>
          /\ \/ run = NoRun /\ run' = NewRun /\ entry' = "QUEUED" /\ Touch(p, {"entry"})
             \/ UNCHANGED <<run, entry, stale>>
      BY <1>3 DEF PrepareRun
    <2>4. "link" \in Plain \ Held
      BY <1>a DEF labels
    <2>5. ControlOK' /\ Beside(p) /\ Arrived(p, "link")
      <3>1. CASE Touch(p, {"entry"})
        BY <1>0, <2>3, <2>4, <3>1, Touched, Ways
      <3>2. CASE UNCHANGED stale
        BY <1>0, <2>3, <2>4, <3>2, Moved, Ways DEF Move, locals
      <3> QED
        BY <2>3, <3>1, <3>2
    <2>6. DataOK'
      BY <1>0, <2>2, <2>3, NoRunType DEF DataOK, EntryStatus
    <2>7. Landed(p)
      BY <2>1, <2>4, <2>5, ArrivedLands
    <2>8. Follows(run')
      BY <1>0, <2>3, NoRunSound DEF Follows, StoreInv, RunInv, RunBegun, NoRun, NewRun,
         Verified
    <2>9. pc'[p] # "calling"
      BY <2>5 DEF Arrived
    <2>10. entry' = "LEASED" => entry = "LEASED"
      BY <2>3
    <2> QED
      BY <2>1, <2>2, <2>5, <2>6, <2>7, <2>8, <2>9, <2>10, TypeParts, RunKeeps
  <1>4. CASE LinkJob(p)
    <2>1. pc[p] = "link" /\ wave # "none" /\ pc[p] \notin Recovering
      BY <1>4, <1>b, WaveBegun DEF LinkJob, At, labels
    <2>2. "queueWave" \in Plain \ Held
      BY <1>a DEF labels
    <2>3. CASE TryJob(p, "RESOLVING_CONTEXT", "NOT_SENT", "queueWave")
      BY <2>1, <2>2, <2>3, JobStep DEF JobWrite, JobStatus, Delivery
    <2>4. CASE Move(p, "queueWave") /\ Reads
      BY <2>1, <2>2, <2>4, ReadsNothing, MoveStep
    <2> QED
      BY <1>4, <2>3, <2>4 DEF LinkJob
  <1>5. CASE QueueWave(p)
    <2>1. pc[p] = "queueWave" /\ wave # "none" /\ pc[p] \notin Recovering
      BY <1>5, <1>b, WaveBegun DEF QueueWave, At, labels
    <2>2. "notify" \in Plain \ Held /\ "QUEUED" \in WaveStatus
      BY <1>a DEF labels, WaveStatus, Unsubmitted
    <2>3. CASE TryWave(p, "QUEUED", "notify")
      BY <2>1, <2>2, <2>3, WaveStep
    <2>4. CASE Move(p, "notify") /\ Reads
      BY <2>1, <2>2, <2>4, ReadsNothing, MoveStep
    <2> QED
      BY <1>5, <2>3, <2>4 DEF QueueWave
  <1>6. CASE Notify(p)
    <2>1. pc[p] = "notify" /\ wave # "none" /\ pc[p] \notin Recovering
      BY <1>6, <1>b, WaveBegun DEF Notify, At, labels
    <2>2. UNCHANGED <<wave, phase, job, message, run, entry, released, provider, inbox, up,
                      crashes, faults, stops>> /\ Move(p, back[p])
      BY <1>6 DEF Notify, discourse, runtime
    <2>3. DataOK'
      BY <1>0, <1>6, <2>2 DEF DataOK, Notify, Notified
    <2>4. back[p] \in Plain /\ (back[p] \in Held => lock = p)
      BY <2>1, WaysOf, Ways
    <2> QED
      BY <2>1, <2>2, <2>3, <2>4, MoveStep
  <1> QED
    BY <1>1, <1>2, <1>3, <1>4, <1>5, <1>6

\* At most labels a wave was sent, and whoever is there returns to an ordinary
\* label.
LEMMA AtWork ==
  ASSUME IInv, NEW p \in Procs, pc[p] \notin Early \cup Recovering
  PROVE  /\ wave # "none" /\ pc[p] \notin Recovering
         /\ after[p] \in Afters /\ back[p] \in Backs \ {"release", "requeue"}
         /\ after[p] \in Plain /\ back[p] \in Plain
         /\ after[p] \in Held \/ after[p] = "advance" => lock = p
         /\ back[p] \in Held \/ back[p] = "advance" => lock = p
  BY WaveBegun, WaysOf, Ways

StopLabels ==
  {"cancelCheck", "cancelIntent", "cancelJob", "cancelRun", "cancelEntry", "cancelDone",
   "rejectJob", "stopCheck", "stopIntent", "requestCancel", "stopRun", "interrupt",
   "interrupting", "interruptedJob", "stopRecovered", "stopRecovery",
   "interruptedRecovered", "recoveredPending", "recoveredDone", "stopWave",
   "markRun", "markEntry", "markJob", "markWave", "reconcile", "raise"}

LEMMA StopPlain ==
  /\ StopLabels \subseteq Plain \ Held /\ "finish" \in Plain \ Held
  /\ StopLabels \cap (Early \cup Recovering) = {}
  /\ {"stopWave", "reconcile", "rejectJob", "stopCheck", "cancelJob", "stopRecovered",
      "requestCancel", "stopRun", "interruptedJob", "interruptedRecovered", "raise",
      "finish", "settleOnly"} \subseteq Backs \ {"release", "requeue"}
  BY DEF Plain, Labels, Blind, Special, SeenUsed, Early, Recovering, StopLabels,
     Backs, Held

\* A step that updates the run and moves on.
LEMMA RunMoves ==
  ASSUME TypeOK, IInv, NEW p \in Procs, NEW next \in Plain, Move(p, next),
         pc[p] \notin Recovering, wave # "none", Follows(run'), run' \in RunRecord,
         next \in Held => lock = p,
         UNCHANGED <<discourse, entry, released, provider, app>>
  PROVE  TypeOK' /\ IInv'
  <1>0. DataOK /\ ControlOK
    BY TypeParts
  <1>1. UNCHANGED <<wave, phase, job, message, entry, released, provider, inbox, wake, up,
                    crashes, faults, stops>>
    BY DEF discourse, app
  <1>2. DataOK'
    BY <1>0, <1>1 DEF DataOK
  <1>3. ControlOK' /\ Beside(p) /\ Arrived(p, next)
    BY <1>0, Moved, Ways
  <1>4. Landed(p)
    BY <1>3, ArrivedLands
  <1>5. pc'[p] # "calling"
    BY <1>3 DEF Arrived, Plain, Special
  <1> QED
    BY <1>1, <1>2, <1>3, <1>4, <1>5, TypeParts, RunKeeps

LEMMA CancelSteps ==
  ASSUME TypeOK, IInv, NEW p \in Procs,
         \/ CancelQueuedWave(p) \/ CancelIntent(p) \/ CancelUnsubmittedJob(p)
         \/ CancelRun(p) \/ CancelEntry(p) \/ CancelDone(p)
  PROVE  TypeOK' /\ IInv'
  <1>0. DataOK /\ ControlOK /\ StoreInv
    BY TypeParts DEF IInv
  <1>1. pc[p] \in StopLabels
    BY DEF CancelQueuedWave, CancelIntent, CancelUnsubmittedJob, CancelRun, CancelEntry,
       CancelDone, At, StopLabels
  <1>2. /\ wave # "none" /\ pc[p] \notin Recovering
        /\ after[p] \in Afters /\ back[p] \in Backs \ {"release", "requeue"}
        /\ back[p] \in Plain
        /\ after[p] = "advance" => lock = p
        /\ back[p] \in Held \/ back[p] = "advance" => lock = p
    BY <1>1, AtWork, StopPlain
  <1>3. /\ Canceled(p) \in Plain /\ (Canceled(p) \in Held => lock = p)
        /\ Closer(p) \in Plain \ Held
    BY <1>2, StopPlain DEF Canceled, Closer, StopLabels
  <1>4. job.delivery \in Delivery /\ job.status \in JobStatus
    BY <1>0 DEF DataOK
  <1>5. CASE CancelQueuedWave(p)
    <2>1. PICK label \in {"finish", "cancelIntent", "raise"} :
            Look(p, label, after[p], "reconcile")
      BY <1>5, Zenon DEF CancelQueuedWave
    <2>2. Reads
      BY <1>5 DEF CancelQueuedWave
    <2> QED
      BY <1>2, <2>1, <2>2, ReadsNothing, LookStep, StopPlain DEF StopLabels
  <1>6. CASE CancelIntent(p)
    <2>1. TryWave(p, "STOP_REQUESTED", "cancelJob")
      BY <1>6 DEF CancelIntent
    <2> QED
      BY <1>2, <2>1, WaveStep, StopPlain DEF StopLabels, WaveStatus, Stopping
  <1>7. CASE CancelUnsubmittedJob(p)
    <2>1. PICK next \in {"cancelRun", "cancelDone", Canceled(p)} :
            \/ Throw(p) /\ Reads
            \/ Move(p, next) /\ Reads
            \/ TryJob(p, "CANCELED", job.delivery, next)
            \/ TryJob(p, "CANCEL_REQUESTED", job.delivery, next)
      BY <1>7, Zenon DEF CancelUnsubmittedJob
    <2>2. next \in Plain /\ (next \in Held => lock = p)
      BY <1>3, StopPlain DEF StopLabels
    <2>3. CASE Throw(p) /\ Reads
      BY <1>2, <2>3, ReadsNothing, ThrowStep
    <2>4. CASE Move(p, next) /\ Reads
      BY <1>2, <2>2, <2>4, ReadsNothing, MoveStep
    <2>5. CASE TryJob(p, "CANCELED", job.delivery, next)
      BY <1>2, <1>4, <2>2, <2>5, JobStep DEF JobWrite, JobStatus, JobEnded
    <2>6. CASE TryJob(p, "CANCEL_REQUESTED", job.delivery, next)
      BY <1>2, <1>4, <2>2, <2>6, JobStep DEF JobWrite, JobStatus
    <2> QED
      BY <2>1, <2>3, <2>4, <2>5, <2>6
  <1>8. CASE CancelRun(p)
    <2>0. UNCHANGED <<discourse, entry, released, provider, app>>
      BY <1>8 DEF CancelRun
    <2>1. CASE Unsent(run)
      <3>1. run' = Withdrawn(run) /\ Move(p, "cancelEntry")
        BY <1>8, <2>1 DEF CancelRun
      <3>2. Follows(run') /\ run' \in RunRecord
        BY <1>0, <2>1, <3>1 DEF Follows, RecordSound, Withdrawn, Unsent, RunBegun,
           Verified,
           Ended, RunEnded, StoreInv, RunInv, DataOK, RunRecord, Delivery
      <3> QED
        BY <1>2, <2>0, <3>1, <3>2, RunMoves, StopPlain DEF StopLabels
    <2>2. CASE ~Unsent(run)
      <3>1. run' = run /\ (Move(p, Closer(p)) \/ Throw(p))
        BY <1>8, <2>2 DEF CancelRun
      <3>2. Reads
        BY <2>0, <3>1 DEF Reads, runtime
      <3>3. CASE Move(p, Closer(p))
        BY <1>2, <1>3, <3>2, <3>3, ReadsNothing, MoveStep
      <3>4. CASE Throw(p)
        BY <1>2, <3>2, <3>4, ReadsNothing, ThrowStep
      <3> QED
        BY <3>1, <3>3, <3>4
    <2> QED
      BY <2>1, <2>2
  <1>9. CASE CancelEntry(p)
    <2>1. SetEntry(p, Closing(entry, TRUE), Closer(p))
      BY <1>9 DEF CancelEntry
    <2>2. Closing(entry, TRUE) \in EntryStatus /\ Closing(entry, TRUE) # "LEASED"
      BY <1>0 DEF Closing, DataOK, EntryStatus
    <2> QED
      BY <1>2, <1>3, <2>1, <2>2, EntryStep
  <1>10. CASE CancelDone(p)
    <2>1. TryJob(p, "CANCELED", job.delivery, Canceled(p))
      BY <1>10 DEF CancelDone
    <2> QED
      BY <1>2, <1>3, <1>4, <2>1, JobStep DEF JobWrite, JobStatus, JobEnded
  <1> QED
    BY <1>5, <1>6, <1>7, <1>8, <1>9, <1>10

LEMMA StopSteps ==
  ASSUME TypeOK, IInv, NEW p \in Procs,
         \/ StopActiveWave(p) \/ StopIntent(p) \/ RequestCancel(p) \/ StopRun(p)
         \/ InterruptTurn(p) \/ InterruptReturns(p) \/ InterruptedJob(p)
         \/ StopRecovery(p) \/ StopRecovered(p) \/ InterruptedRecovered(p)
         \/ RecoveredPending(p) \/ RecoveredDone(p) \/ FinishStop(p)
  PROVE  TypeOK' /\ IInv'
  <1>0. DataOK /\ ControlOK /\ StoreInv
    BY TypeParts DEF IInv
  <1>1. pc[p] \in StopLabels
    BY DEF StopActiveWave, StopIntent, RequestCancel, StopRun, InterruptTurn,
       InterruptReturns, InterruptedJob, StopRecovery, StopRecovered, InterruptedRecovered,
       RecoveredPending, RecoveredDone, FinishStop, At, StopLabels
  <1>2. /\ wave # "none" /\ pc[p] \notin Recovering
        /\ after[p] \in Afters /\ back[p] \in Backs \ {"release", "requeue"}
        /\ back[p] \in Plain
        /\ after[p] = "advance" => lock = p
        /\ back[p] \in Held \/ back[p] = "advance" => lock = p
    BY <1>1, AtWork, StopPlain
  <1>3. job.delivery \in Delivery /\ job.status \in JobStatus /\ wave \in WaveStatus
    BY <1>0 DEF DataOK
  <1>l. ASSUME NEW label \in StopLabels \cup {"finish"},
               NEW b \in Backs \ {"release", "requeue"},
               Look(p, label, after[p], b), Reads, b # "advance"
        PROVE  TypeOK' /\ IInv'
    BY <1>2, <1>l, ReadsNothing, LookStep, StopPlain
  <1>j. ASSUME NEW status \in JobStatus \ {"QUEUED", "COMPLETED"}, NEW next \in StopLabels,
               TryJob(p, status, job.delivery, next)
        PROVE  TypeOK' /\ IInv'
    BY <1>2, <1>3, <1>j, JobStep, StopPlain DEF JobWrite
  <1>4. CASE StopActiveWave(p)
    <2>1. PICK label \in {"finish", "raise", "markRun", "stopIntent"},
               b \in {"stopCheck", "stopWave", "cancelJob", "stopRecovered",
                      "requestCancel", "stopRun", "raise"} :
            Look(p, label, after[p], b)
      BY <1>4, Zenon DEF StopActiveWave
    <2>2. Reads
      BY <1>4 DEF StopActiveWave
    <2> QED
      BY <2>1, <2>2, <1>l, StopPlain DEF StopLabels
  <1>5. CASE StopIntent(p)
    <2>1. PICK to \in {"STOPPING", "STOP_REQUESTED"} :
            (Move(p, back[p]) /\ Reads) \/ TryWave(p, to, back[p])
      BY <1>5, Zenon DEF StopIntent
    <2>2. CASE Move(p, back[p]) /\ Reads
      BY <1>2, <2>2, ReadsNothing, MoveStep
    <2>3. CASE TryWave(p, to, back[p])
      BY <1>2, <2>3, WaveStep DEF WaveStatus, Stopping
    <2> QED
      BY <2>1, <2>2, <2>3
  <1>6. CASE RequestCancel(p)
    BY <1>6, <1>j DEF RequestCancel, StopLabels, JobStatus
  <1>7. CASE StopRun(p)
    <2>1. PICK label \in {"markRun", "interrupt"}, b \in {"stopRecovered", "interruptedJob"} :
            Look(p, label, after[p], b)
      BY <1>7, Zenon DEF StopRun
    <2>2. Reads
      BY <1>7 DEF StopRun
    <2> QED
      BY <2>1, <2>2, <1>l, StopPlain DEF StopLabels
  <1>8. CASE InterruptTurn(p)
    <2>0. UNCHANGED <<discourse, entry, released, provider, app>>
      BY <1>8 DEF InterruptTurn
    <2>1. \/ /\ \/ Acknowledged(run)
                \/ run.status = "RECOVERY_REQUIRED" /\ run.delivery = "ACKNOWLEDGED"
             /\ run' = [run EXCEPT !.status = "INTERRUPTING", !.interrupt = "SENDING"]
             /\ Move(p, "interrupting")
          \/ /\ run.status = "RECOVERY_REQUIRED"
             /\ run' = [run EXCEPT !.status = "INTERRUPTED"] /\ Move(p, back[p])
          \/ run' = run /\ Move(p, back[p])
      BY <1>8 DEF InterruptTurn, Acknowledged
    <2>2. run' \in RunRecord
      <3>1. run \in RunRecord
        BY <1>0 DEF DataOK
      <3>2. /\ [run EXCEPT !.status = "INTERRUPTING", !.interrupt = "SENDING"] \in RunRecord
            /\ [run EXCEPT !.status = "INTERRUPTED"] \in RunRecord
        BY <3>1, RunUpdates
      <3> QED
        BY <2>1, <3>1, <3>2
    <2>3. Follows(run')
      BY <1>0, <2>1 DEF Follows, RecordSound, Acknowledged, RunBegun, Verified,
           Ended, RunEnded, StoreInv, RunInv, DataOK, RunRecord
    <2>4. Move(p, "interrupting") \/ Move(p, back[p])
      BY <2>1
    <2> QED
      BY <1>2, <2>0, <2>2, <2>3, <2>4, RunMoves, StopPlain DEF StopLabels
  <1>9. CASE InterruptReturns(p)
    <2>0. UNCHANGED <<discourse, entry, released, provider, app>> /\ Move(p, back[p])
      BY <1>9 DEF InterruptReturns
    <2>1. \/ run' = run
          \/ /\ run.status = "INTERRUPTING"
             /\ run' \in {[run EXCEPT !.interrupt = "ACKNOWLEDGED"],
                          [run EXCEPT !.interrupt = "AMBIGUOUS"],
                          [run EXCEPT !.status = "RECOVERY_REQUIRED",
                                      !.interrupt = "NOT_DELIVERED"]}
      BY <1>9, Zenon DEF InterruptReturns
    <2>2. run' \in RunRecord
      <3>1. run \in RunRecord
        BY <1>0 DEF DataOK
      <3>2. /\ [run EXCEPT !.interrupt = "ACKNOWLEDGED"] \in RunRecord
            /\ [run EXCEPT !.interrupt = "AMBIGUOUS"] \in RunRecord
            /\ [run EXCEPT !.status = "RECOVERY_REQUIRED", !.interrupt = "NOT_DELIVERED"]
                 \in RunRecord
        BY <3>1, RunUpdates
      <3> QED
        BY <2>1, <3>1, <3>2
    <2>3. run \in RunRecord /\ RecordSound(run)
      BY <1>0 DEF DataOK, StoreInv, RunInv
    <2>4. /\ run.status = "INTERRUPTING" \/ run' = run
          /\ run'.delivery = run.delivery /\ run'.intact = run.intact
          /\ run'.status \in {run.status, "INTERRUPTING", "RECOVERY_REQUIRED"}
      BY <2>1, <2>3 DEF RunRecord
    <2>6. Follows(run')
      BY <2>3, <2>4 DEF Follows, RecordSound, RunBegun, Verified, Ended, RunEnded
    <2> QED
      BY <1>2, <2>0, <2>2, <2>6, RunMoves
  <1>10. CASE InterruptedJob(p)
    <2>1. PICK label \in {"stopRecovery", "stopWave", "raise"} :
            Look(p, label, after[p], "stopWave")
      BY <1>10, Zenon DEF InterruptedJob
    <2>2. Reads
      BY <1>10 DEF InterruptedJob
    <2> QED
      BY <2>1, <2>2, <1>l, StopPlain DEF StopLabels
  <1>11. CASE StopRecovery(p)
    BY <1>11, <1>j DEF StopRecovery, StopLabels, JobStatus
  <1>12. CASE StopRecovered(p)
    <2>1. PICK label \in {"recoveredDone", "interrupt", "raise"} :
            Look(p, label, after[p], "interruptedRecovered")
      BY <1>12, Zenon DEF StopRecovered
    <2>2. Reads
      BY <1>12 DEF StopRecovered
    <2> QED
      BY <2>1, <2>2, <1>l, StopPlain DEF StopLabels
  <1>13. CASE InterruptedRecovered(p)
    <2>1. PICK label \in {"stopWave", "recoveredDone", "recoveredPending", "raise"} :
            Look(p, label, after[p], "stopWave")
      BY <1>13, Zenon DEF InterruptedRecovered
    <2>2. Reads
      BY <1>13 DEF InterruptedRecovered
    <2> QED
      BY <2>1, <2>2, <1>l, StopPlain DEF StopLabels
  <1>14. CASE RecoveredPending(p)
    BY <1>14, <1>j DEF RecoveredPending, StopLabels, JobStatus
  <1>15. CASE RecoveredDone(p)
    <2>1. CASE Move(p, "stopWave") /\ Reads
      BY <1>2, <2>1, ReadsNothing, MoveStep, StopPlain DEF StopLabels
    <2>2. CASE TryJob(p, "CANCELED", job.delivery, "stopWave")
      BY <2>2, <1>j DEF StopLabels, JobStatus, JobEnded
    <2> QED
      BY <1>15, <2>1, <2>2 DEF RecoveredDone
  <1>16. CASE FinishStop(p)
    <2>1. PICK to \in {"STOPPING", wave} : SetWave(p, to, "reconcile")
      BY <1>16 DEF FinishStop
    <2>2. to \in WaveStatus
      BY <1>3 DEF WaveStatus, Stopping
    <2> QED
      BY <1>2, <2>1, <2>2, WaveStep, StopPlain DEF StopLabels
  <1> QED
    BY <1>4, <1>5, <1>6, <1>7, <1>8, <1>9, <1>10, <1>11, <1>12, <1>13, <1>14, <1>15,
       <1>16

LEMMA MarkSteps ==
  ASSUME TypeOK, IInv, NEW p \in Procs,
         MarkRun(p) \/ MarkEntry(p) \/ MarkJob(p) \/ MarkWave(p)
  PROVE  TypeOK' /\ IInv'
  <1>0. DataOK /\ ControlOK /\ StoreInv
    BY TypeParts DEF IInv
  <1>1. pc[p] \in StopLabels
    BY DEF MarkRun, MarkEntry, MarkJob, MarkWave, At, StopLabels
  <1>2. /\ wave # "none" /\ pc[p] \notin Recovering
        /\ after[p] \in Afters /\ back[p] \in Backs \ {"release", "requeue"}
        /\ back[p] \in Plain
        /\ after[p] = "advance" => lock = p
        /\ back[p] \in Held \/ back[p] = "advance" => lock = p
    BY <1>1, AtWork, StopPlain
  <1>3. job.delivery \in Delivery /\ wave \in WaveStatus
    BY <1>0 DEF DataOK
  <1>4. CASE MarkRun(p)
    <2>0. UNCHANGED <<discourse, entry, released, provider, app>>
      BY <1>4 DEF MarkRun
    <2>1. \/ run' = run /\ Move(p, back[p])
          \/ /\ run' = run \/ (/\ run' = Fenced(run) /\ ~Ended(run)
                               /\ run.status \notin {"none", "RECOVERY_REQUIRED"})
             /\ Look(p, "markEntry", after[p], back[p])
      BY <1>4, Zenon DEF MarkRun
    <2>2. run' \in RunRecord
      BY <1>0, <2>1, RunUpdates, Zenon DEF DataOK
    <2>3. Follows(run')
      BY <1>0, <2>1 DEF Follows, RecordSound, Fenced, RunBegun, Verified,
           Ended, RunEnded, StoreInv, RunInv, DataOK, RunRecord, Delivery
    <2>4. CASE Move(p, back[p])
      BY <1>2, <2>0, <2>2, <2>3, <2>4, RunMoves
    <2>5. CASE Look(p, "markEntry", after[p], back[p])
      <3>0. "markEntry" \in Plain \ Held /\ "markEntry" \in Labels
        BY StopPlain, Ways DEF StopLabels
      <3>1. ControlOK' /\ Beside(p) /\ Saw(p, "markEntry", after[p], back[p])
        BY <1>0, <1>2, <2>5, <3>0, Looked, Ways DEF DataOK
      <3>2. Landed(p)
        BY <1>2, <3>0, <3>1, SawLands
      <3>3. UNCHANGED <<wave, phase, job, message, entry, released, provider, inbox, wake,
                        up, crashes, faults, stops>>
        BY <2>0 DEF discourse, app
      <3>4. DataOK'
        BY <1>0, <2>2, <3>3 DEF DataOK
      <3>5. pc'[p] # "calling"
        BY <3>1 DEF Saw
      <3> QED
        BY <1>2, <2>3, <3>1, <3>2, <3>3, <3>4, <3>5, TypeParts, RunKeeps
    <2> QED
      BY <2>1, <2>4, <2>5
  <1>5. CASE MarkEntry(p)
    <2>1. SetEntry(p, Closing(entry, Ended(run)), "markJob")
      BY <1>5 DEF MarkEntry
    <2>2. /\ Closing(entry, Ended(run)) \in EntryStatus
          /\ Closing(entry, Ended(run)) = "LEASED" => entry = "LEASED"
      BY <1>0 DEF Closing, DataOK, EntryStatus
    <2> QED
      BY <1>2, <2>1, <2>2, EntryStep, StopPlain DEF StopLabels
  <1>6. CASE MarkJob(p)
    <2>1. TryJob(p, "RECOVERY_REQUIRED", job.delivery, "markWave")
      BY <1>6 DEF MarkJob
    <2> QED
      BY <1>2, <1>3, <2>1, JobStep, StopPlain DEF StopLabels, JobWrite, JobStatus
  <1>7. CASE MarkWave(p)
    <2>1. PICK to \in {wave, "RECOVERY_REQUIRED"} : SetWave(p, to, back[p])
      BY <1>7 DEF MarkWave
    <2>2. to \in WaveStatus
      BY <1>3 DEF WaveStatus
    <2> QED
      BY <1>2, <2>1, <2>2, WaveStep
  <1> QED
    BY <1>4, <1>5, <1>6, <1>7

-----------------------------------------------------------------------------
(* The result of a turn: ingest, project, append, complete and the         *)
(* failures.                                                               *)

LEMMA RunLooks ==
  ASSUME TypeOK, IInv, NEW p \in Procs, NEW label \in Plain, NEW a \in Afters,
         NEW b \in Backs \ {"release", "requeue"}, Look(p, label, a, b),
         label \in Held \/ a = "advance" \/ b = "advance" => lock = p,
         wave # "none", Follows(run'), run' \in RunRecord,
         UNCHANGED <<discourse, entry, released, provider, app>>
  PROVE  TypeOK' /\ IInv'
  <1>0. DataOK /\ ControlOK
    BY TypeParts
  <1>1. UNCHANGED <<wave, phase, job, message, entry, released, provider, inbox, wake, up,
                    crashes, faults, stops>>
    BY DEF discourse, app
  <1>2. DataOK'
    BY <1>0, <1>1 DEF DataOK
  <1>3. /\ ControlOK' /\ Beside(p)
        /\ IF label = "raise" THEN Threw(p) ELSE Saw(p, label, a, b)
    BY <1>0, Looked, Ways DEF DataOK
  <1>4. Landed(p)
    BY <1>3, ThrewLands, SawLands
  <1>5. pc'[p] # "calling"
    BY <1>4 DEF Landed, Plain, Special
  <1> QED
    BY <1>1, <1>2, <1>3, <1>4, <1>5, TypeParts, RunKeeps

ResultLabels == {"ingest", "project", "append", "complete", "fail", "failCanceled",
                 "failFailed", "failResult", "settle", "settleOnly"}

LEMMA ResultPlain ==
  /\ {"fail", "failCanceled", "failFailed", "failResult", "settle", "settleOnly", "markRun",
      "reconcile"} \subseteq Plain \ Held
  /\ ResultLabels \subseteq Labels \ {"calling", "raise"}
  /\ ResultLabels \cap (Early \cup Recovering \cup Held) = {}
  /\ "settleOnly" \in Backs \ {"release", "requeue"}
  BY DEF Plain, Labels, Blind, Special, SeenUsed, Early, Recovering, ResultLabels,
     Backs, Held

\* A process that has just read, at a label where nothing is claimed of what it
\* saw.
LEMMA SawInv ==
  ASSUME TypeOK, IInv, NEW p \in Procs, NEW label \in ResultLabels, NEW a \in Afters,
         NEW b \in Backs \ {"release", "requeue"}, Saw(p, label, a, b),
         a = "advance" \/ b = "advance" => lock = p
  PROVE  LockInv(p)' /\ WayInv(p)' /\ SeenInv(p)' /\ PumpInv(p)'
  <1>0. /\ pc'[p] = label /\ seen'[p] = NoRun /\ stale'[p] = {} /\ lock' = lock
        /\ after'[p] = a /\ back'[p] = b
    BY DEF Saw, ResultLabels, UsesRun
  <1>1. label \notin SeenUsed \cup {"dispatchWave", "dispatchJob", "start", "startFailed",
                                    "handoff"}
    BY DEF ResultLabels, SeenUsed
  <1> QED
    BY <1>0, <1>1, NoRunSound, ResultPlain DEF LockInv, WayInv, SeenInv, PumpInv,
       Overtaken, RecordSound, Ended, SeenUsed

LEMMA ResultSteps ==
  ASSUME TypeOK, IInv, NEW p \in Procs,
         \/ Ingest(p) \/ Project(p) \/ ProjectedPeer(p) \/ FailResult(p)
         \/ AppendMessage(p) \/ Complete(p) \/ IngestFailure(p) \/ CloseFailedJob(p)
         \/ SettleRuntime(p)
  PROVE  TypeOK' /\ IInv'
  <1>0. DataOK /\ ControlOK /\ StoreInv /\ ResultInv(p) /\ SeenInv(p)
    BY TypeParts DEF IInv, ProcInv
  <1>1. pc[p] \in ResultLabels
    BY DEF Ingest, Project, ProjectedPeer, FailResult, AppendMessage, Complete,
       IngestFailure, CloseFailedJob, SettleRuntime, At, ResultLabels
  <1>2. /\ wave # "none" /\ pc[p] \notin Recovering
        /\ after[p] \in Afters /\ back[p] \in Backs \ {"release", "requeue"}
        /\ after[p] \in Plain
        /\ after[p] \in Held \/ after[p] = "advance" => lock = p
        /\ back[p] = "advance" => lock = p
    BY <1>1, AtWork, ResultPlain
  <1>3. run \in RunRecord /\ RecordSound(run)
    BY <1>0 DEF DataOK, StoreInv, RunInv
  <1>m. ASSUME NEW next \in Plain \ Held, Move(p, next), Reads
        PROVE  TypeOK' /\ IInv'
    BY <1>2, <1>m, ReadsNothing, MoveStep
  <1>4. CASE Ingest(p)
    <2>0. UNCHANGED <<discourse, entry, released, provider, app>>
      BY <1>4 DEF Ingest
    <2>1. CASE Overtaken(p)
      <3>1. Move(p, "settle") /\ Reads
        BY <1>4, <2>0, <2>1 DEF Ingest, Reads, runtime
      <3> QED
        BY <3>1, <1>m, ResultPlain
    <2>2. CASE ~Overtaken(p)
      <3>1. run' = [run EXCEPT !.dated = TRUE] /\ Look(p, "project", after[p], back[p])
            /\ pc[p] = "ingest"
        BY <1>4, <2>2 DEF Ingest, At
      <3>2. Verified(run)
        BY <1>0, <2>2, <3>1 DEF ResultInv
      <3>3. run' \in RunRecord
        BY <1>3, <3>1, RunUpdates
      <3>4. Follows(run') /\ Verified(run')
        BY <1>3, <3>1, <3>2 DEF Follows, RecordSound, RunBegun, Verified, Ended,
           RunEnded,
           RunRecord
      <3>5. ControlOK' /\ Beside(p) /\ Saw(p, "project", after[p], back[p])
        BY <1>0, <1>2, <1>3, <3>1, Looked, Ways, ResultPlain DEF ResultLabels
      <3>6. UNCHANGED <<wave, phase, job, message, entry, released, provider, inbox, wake,
                        up, crashes, faults, stops>>
        BY <2>0 DEF discourse, app
      <3>7. DataOK'
        BY <1>0, <3>3, <3>6 DEF DataOK
      <3>8. pc'[p] = "project"
        BY <3>5 DEF Saw
      <3>9. StoreInv' /\ \A q \in Procs \ {p} : ProcInv(q)'
        BY <1>2, <3>4, <3>5, <3>6, <3>8, RunKeeps
      <3>10. ProcInv(p)'
        <4>1. LockInv(p)' /\ WayInv(p)' /\ SeenInv(p)' /\ PumpInv(p)'
          BY <1>2, <3>5, SawInv, "project" \in ResultLabels DEF ResultLabels
        <4>2. ResultInv(p)'
          BY <3>4, <3>8 DEF ResultInv, Verified
        <4> QED
          BY <4>1, <4>2 DEF ProcInv
      <3> QED
        BY <3>5, <3>7, <3>9, <3>10, TypeParts DEF IInv
    <2> QED
      BY <2>1, <2>2
  <1>5. CASE Project(p)
    <2>1. PICK label \in {"markRun", "settleOnly", "failResult", "settle", "append"} :
            Look(p, label, after[p], "settleOnly")
      BY <1>5, Zenon DEF Project
    <2>2. Reads /\ pc[p] = "project" /\ ~Overtaken(p)
      BY <1>5 DEF Project, At
    <2>3. CASE label # "append"
      BY <1>2, <2>1, <2>2, <2>3, ReadsNothing, LookStep, ResultPlain
    <2>4. CASE label = "append"
      <3>1. Verified(run)
        BY <1>0, <2>2 DEF ResultInv
      <3>2. ControlOK' /\ Beside(p) /\ Saw(p, "append", after[p], "settleOnly")
        BY <1>0, <1>2, <1>3, <2>1, <2>4, Looked, Ways, ResultPlain DEF ResultLabels
      <3>3. pc'[p] = "append"
        BY <3>2 DEF Saw
      <3>4. DataOK' /\ UNCHANGED <<wave, phase, job, message, run, entry, provider, inbox>>
        BY <2>2, ReadsNothing
      <3>5. ProcInv(p)'
        <4>1. LockInv(p)' /\ WayInv(p)' /\ SeenInv(p)' /\ PumpInv(p)'
          BY <1>2, <3>2, SawInv, ResultPlain, "append" \in ResultLabels DEF ResultLabels
        <4>2. ResultInv(p)'
          BY <3>1, <3>3, <3>4 DEF ResultInv, Verified
        <4> QED
          BY <4>1, <4>2 DEF ProcInv
      <3> QED
        BY <1>2, <3>2, <3>3, <3>4, <3>5, QuietKeeps, TypeParts
    <2> QED
      BY <2>3, <2>4
  <1>6. CASE ProjectedPeer(p)
    BY <1>6, <1>m, ResultPlain DEF ProjectedPeer
  <1>7. CASE FailResult(p)
    <2>1. TryJob(p, "FAILED", "TERMINAL", "settle")
      BY <1>7 DEF FailResult
    <2> QED
      BY <1>2, <2>1, JobStep, ResultPlain DEF JobWrite, JobStatus, JobEnded, Delivery
  <1>8. CASE AppendMessage(p)
    <2>0. UNCHANGED <<wave, phase, job, run, entry, released, provider, inbox, wake, up,
                      crashes, faults, stops>>
      BY <1>8 DEF AppendMessage, runtime, app
    <2>1. \/ ~Overtaken(p) /\ message' \in {"recovery", "live"} /\ Move(p, "complete")
          \/ Throw(p) /\ message' = message
      BY <1>8 DEF AppendMessage
    <2>2. CASE Throw(p) /\ message' = message
      <3>1. DataOK'
        BY <1>0, <2>0, <2>2 DEF DataOK
      <3> QED
        BY <1>2, <2>0, <2>2, <3>1, ThrowStep
    <2>3. CASE ~Overtaken(p) /\ message' \in {"recovery", "live"} /\ Move(p, "complete")
      <3>1. Verified(run)
        BY <1>0, <1>8, <2>3 DEF ResultInv, AppendMessage, At
      <3>2. DataOK'
        BY <1>0, <2>0, <2>3 DEF DataOK
      <3>3. ControlOK' /\ Beside(p) /\ Arrived(p, "complete")
        BY <1>0, <2>3, Moved, ResultPlain DEF ResultLabels
      <3>4. Calling' => Calling
        BY <3>3 DEF Calling, Beside, Procs, Overtaken, Arrived
      <3>5. Spared => Spared'
        BY <2>0, <3>4 DEF Spared, Barred, RunBegun
      <3>6. Onward
        BY <2>0, <2>3, <3>5 DEF Onward, Verified
      <3>7. RunInv' /\ JobInv'
        BY <1>0, <2>0, <3>4, <3>5 DEF StoreInv, RunInv, JobInv, RecordSound,
           RunBegun, Ended
      <3>8. NoWaveInv' /\ InboxInv' /\ MessageInv'
        BY <1>0, <1>2, <2>0, <2>3, <3>1
           DEF StoreInv, NoWaveInv, InboxInv, MessageInv, Verified
      <3>9. \A q \in Procs \ {p} : ProcInv(q)'
        BY <2>0, <3>3, <3>6, OthersKeep
      <3>10. ProcInv(p)'
        <4>1. pc'[p] = "complete" /\ pc'[p] \notin SeenUsed
          BY <3>3 DEF Arrived, SeenUsed
        <4>2. LockInv(p)' /\ WayInv(p)'
          BY <1>2, <3>3 DEF Arrived, LockInv, WayInv, Held
        <4>3. SeenInv(p)'
          BY <1>0, <3>3, <4>1 DEF Arrived, SeenInv, Overtaken, RecordSound, Ended
        <4>4. ResultInv(p)' /\ PumpInv(p)'
          BY <2>3, <4>1 DEF ResultInv, PumpInv
        <4> QED
          BY <4>2, <4>3, <4>4 DEF ProcInv
      <3> QED
        BY <3>2, <3>3, <3>7, <3>8, <3>9, <3>10, TypeParts DEF IInv, StoreInv
    <2> QED
      BY <2>1, <2>2, <2>3
  <1>9. CASE Complete(p)
    <2>1. TryJob(p, "COMPLETED", "TERMINAL", "settle") /\ pc[p] = "complete"
      BY <1>9 DEF Complete, At
    <2>2. JobWrite(p, "COMPLETED", "TERMINAL")
      BY <1>0, <2>1 DEF JobWrite, ResultInv
    <2> QED
      BY <1>2, <2>1, <2>2, JobStep, ResultPlain DEF JobStatus, JobEnded, Delivery
  <1>10. CASE IngestFailure(p)
    <2>0. UNCHANGED <<discourse, entry, released, provider, app>>
          /\ run' = [run EXCEPT !.interrupt = Closed(run)]
      BY <1>10 DEF IngestFailure
    <2>1. PICK label \in {"markRun", "settle", "failCanceled", "failFailed"} :
            Look(p, label, after[p], "settleOnly")
      BY <1>10, Zenon DEF IngestFailure
    <2>2. run' \in RunRecord
      BY <1>3, <2>0, RunUpdates DEF Closed
    <2>3. Follows(run')
      BY <1>3, <2>0 DEF Follows, RecordSound, RunBegun, Verified, Ended, RunEnded,
         RunRecord
    <2> QED
      BY <1>2, <2>0, <2>1, <2>2, <2>3, RunLooks, ResultPlain
  <1>11. CASE CloseFailedJob(p)
    <2>1. PICK status \in {"CANCELED", "FAILED"} : TryJob(p, status, "TERMINAL", "settle")
      BY <1>11 DEF CloseFailedJob
    <2> QED
      BY <1>2, <2>1, JobStep, ResultPlain DEF JobWrite, JobStatus, JobEnded, Delivery
  <1>12. CASE SettleRuntime(p)
    <2>1. PICK e \in {entry, Closing(entry, entry = "LEASED")}, next \in {"reconcile", after[p]} :
            SetEntry(p, e, next)
      BY <1>12, Zenon DEF SettleRuntime
    <2>2. e \in EntryStatus /\ (e = "LEASED" => entry = "LEASED")
      BY <1>0 DEF Closing, DataOK, EntryStatus
    <2> QED
      BY <1>2, <2>1, <2>2, EntryStep, ResultPlain
  <1> QED
    BY <1>4, <1>5, <1>6, <1>7, <1>8, <1>9, <1>10, <1>11, <1>12

-----------------------------------------------------------------------------
(* Recovery: what is read, and an entry that is released or queued again.  *)

RecoverLabels ==
  {"recover", "relink", "release", "requeue", "decide", "rCancelRun", "rCancelEntry",
   "rCancelJob", "rInterrupted", "rInterruptedJob", "rRequired", "rRunning",
   "rRunningJob", "rStarting", "rStartingJob", "rStartingWave", "advance"}

LEMMA RecoverPlain ==
  /\ {"recover", "rCancelEntry", "rCancelJob", "rInterruptedJob", "rRunning", "rRunningJob",
      "rStartingJob", "rStartingWave", "advance", "reconcile", "markWave", "markRun", "settle",
      "fail"} \subseteq Plain
  /\ RecoverLabels \subseteq Labels \ {"calling", "raise"} /\ RecoverLabels \subseteq Held
  /\ RecoverLabels \ {"recover", "advance"} \subseteq Labels \ Early
  /\ {"reconcile", "markWave", "markRun", "settle", "fail", "activate", "finish"} \cap Held = {}
  /\ {"activate", "finish", "recover", "advance"} \subseteq Early
  /\ {"relink", "release", "requeue", "decide", "advance", "activate", "finish"}
       \subseteq Recovering
  /\ RecoverLabels \cap Recovering = {"relink", "release", "requeue", "decide", "advance"}
  /\ "advance" \in Afters /\ "advance" \in Backs \ {"release", "requeue"} /\ "idle" \in Backs
  BY DEF Plain, Labels, Blind, Special, SeenUsed, Early, Recovering, RecoverLabels,
     Afters,
     Backs, Held

\* The run that was seen and the run that is, while recovery goes on.
LEMMA StillSeen ==
  ASSUME TypeOK, IInv, NEW p \in Procs, pc[p] \in SeenUsed, pc'[p] \in SeenUsed,
         seen'[p] = seen[p], stale'[p] = stale[p], Spared => Spared',
         Verified(run) => Verified(run'),
         pc'[p] \notin {"startRecovery", "rRequired", "rStarting"}
  PROVE  SeenInv(p)'
  <1>1. SeenInv(p)
    BY DEF IInv, ProcInv
  <1> QED
    BY <1>1 DEF SeenInv, Overtaken, RecordSound, Ended, Verified

LEMMA OtherInvs ==
  ASSUME NEW p \in Procs, pc'[p] \in SeenUsed
  PROVE  ResultInv(p)' /\ PumpInv(p)'
  BY DEF ResultInv, PumpInv, SeenUsed

\* What recovery holds when it has read the run.
LEMMA RecoverReads ==
  ASSUME TypeOK, IInv, NEW p \in Procs, LockRecover(p) \/ LockAdvance(p) \/ Recover(p)
  PROVE  TypeOK' /\ IInv'
  <1>0. DataOK /\ ControlOK /\ StoreInv
    BY TypeParts DEF IInv
  <1>1. after[p] \in Afters /\ run \in RunRecord /\ RecordSound(run)
    BY <1>0, WaysOf DEF DataOK, StoreInv, RunInv
  <1>2. CASE LockRecover(p) \/ LockAdvance(p)
    <2>1. PICK label \in {"recover", "advance"}, a \in Afters : Enter(p, label, a, "idle")
      BY <1>1, <1>2, RecoverPlain DEF LockRecover, LockAdvance
    <2>2. Reads /\ lock = "free"
      BY <1>2 DEF LockRecover, LockAdvance
    <2>3. DataOK' /\ UNCHANGED <<wave, phase, job, message, run, entry, provider, inbox>>
      BY <2>2, ReadsNothing
    <2>4. label \in Labels /\ "idle" \in Labels /\ a \in Labels
      BY Ways, RecoverPlain, ProcLabels DEF RecoverLabels
    <2>5. /\ ControlOK' /\ Beside(p) /\ lock' = p
          /\ pc'[p] = label /\ seen'[p] = NoRun /\ stale'[p] = {}
          /\ after'[p] = a /\ back'[p] = "idle"
      BY <1>0, <2>1, <2>2, <2>4, Entered
    <2>6. Landed(p)
      BY <2>5, RecoverPlain DEF Landed, LockInv
    <2>7. pc'[p] \in Early
      BY <2>5, RecoverPlain
    <2> QED
      BY <2>3, <2>5, <2>6, <2>7, TypeParts, QuietLands
  <1>3. CASE Recover(p)
    <2>0. pc[p] = "recover" /\ Reads
      BY <1>3 DEF Recover, At
    <2>1. PICK label \in {"advance", "relink", "release", "requeue"},
               b \in {"release", "requeue"} :
            /\ Look(p, label, "advance", b)
            /\ label # "advance" => run # NoRun
      BY <1>3, Zenon DEF Recover
    <2>2. lock = p
      BY <2>0, RecoverPlain DEF IInv, ProcInv, LockInv, RecoverLabels
    <2>3. DataOK' /\ UNCHANGED <<wave, phase, job, message, run, entry, provider, inbox>>
      BY <2>0, ReadsNothing
    <2>4. label \in Labels /\ b \in Labels /\ "advance" \in Labels /\ b \in Backs
          /\ label \in Recovering /\ "advance" \in Afters /\ label # "raise"
      BY RecoverPlain DEF RecoverLabels, Backs
    <2>5. ControlOK' /\ Beside(p) /\ Saw(p, label, "advance", b)
      BY <1>0, <1>1, <2>1, <2>4, Looked
    <2>6. CASE label = "advance"
      <3>1. Landed(p)
        BY <2>2, <2>4, <2>5, <2>6, SawLands, RecoverPlain
      <3>2. pc'[p] \in Early
        BY <2>5, <2>6, RecoverPlain DEF Saw
      <3> QED
        BY <2>3, <2>5, <3>1, <3>2, TypeParts, QuietLands
    <2>7. CASE label # "advance"
      <3>1. wave # "none"
        BY <1>0, <2>1, <2>7 DEF StoreInv, NoWaveInv
      <3>2. /\ pc'[p] = label /\ seen'[p] = run /\ stale'[p] = {} /\ after'[p] = "advance"
            /\ back'[p] = b /\ lock' = lock
        BY <2>5, <2>7 DEF Saw, UsesRun
      <3>3. pc'[p] \in SeenUsed \ {"startRecovery", "rRequired", "rStarting"}
            /\ pc'[p] \notin {"calling", "handoff"}
        BY <2>7, <3>2 DEF SeenUsed
      <3>4. StoreInv' /\ Onward
        BY <2>3, <2>5, <3>1, <3>3, StoreKeeps
      <3>5. SeenInv(p)'
        BY <1>0, <1>1, <2>3, <3>2, <3>3, <3>4 DEF SeenInv, Overtaken, RecordSound,
           Ended,
           StoreInv, RunInv, Onward
      <3>6. LockInv(p)' /\ WayInv(p)'
        BY <2>2, <2>4, <3>2, <3>3 DEF LockInv, WayInv
      <3>7. ProcInv(p)'
        BY <3>3, <3>5, <3>6, OtherInvs DEF ProcInv
      <3> QED
        BY <2>3, <2>5, <3>1, <3>3, <3>7, QuietKeeps, TypeParts
    <2> QED
      BY <2>6, <2>7
  <1> QED
    BY <1>2, <1>3

LEMMA RequeueSteps ==
  ASSUME TypeOK, IInv, NEW p \in Procs, Relink(p) \/ ReleaseEntry(p) \/ Requeue(p)
  PROVE  TypeOK' /\ IInv'
  <1>0. DataOK /\ ControlOK /\ StoreInv /\ LockInv(p) /\ WayInv(p)
    BY TypeParts DEF IInv, ProcInv
  <1>1. pc[p] \in {"relink", "release", "requeue"}
    BY DEF Relink, ReleaseEntry, Requeue, At
  <1>2. wave # "none" /\ lock = p /\ pc[p] \in SeenUsed
    BY <1>0, <1>1, RecoverPlain, WaveBegun DEF LockInv, RecoverLabels, SeenUsed
  <1>3. after[p] \in Afters /\ back[p] \in Backs
    BY WaysOf
  <1>4. job.delivery \in Delivery /\ wave \in WaveStatus
    BY <1>0 DEF DataOK
  <1>h. ASSUME NEW next \in {"release", "requeue", "decide"}, Arrived(p, next),
               Spared => Spared', Verified(run) => Verified(run')
        PROVE  ProcInv(p)'
    <2>1. pc'[p] \in SeenUsed /\ pc'[p] \in Recovering /\ pc'[p] # "handoff"
          /\ pc'[p] \notin {"startRecovery", "rRequired", "rStarting"}
      BY <1>h, RecoverPlain DEF Arrived, SeenUsed
    <2>2. LockInv(p)' /\ WayInv(p)'
      BY <1>0, <1>2, <1>h, <2>1 DEF Arrived, LockInv, WayInv
    <2>3. SeenInv(p)'
      BY <1>2, <1>h, <2>1, StillSeen DEF Arrived
    <2> QED
      BY <2>1, <2>2, <2>3, OtherInvs DEF ProcInv
  <1>5. CASE Relink(p)
    <2>1. TryJob(p, "RESOLVING_CONTEXT", job.delivery, back[p]) /\ pc[p] = "relink"
      BY <1>5 DEF Relink, At
    <2>2. JobWrite(p, "RESOLVING_CONTEXT", job.delivery)
      BY DEF JobWrite
    <2>3. back[p] \in Labels \ {"calling"} /\ "RESOLVING_CONTEXT" \in JobStatus
      BY <1>3, Ways DEF Backs, JobStatus
    <2>4. /\ TypeOK' /\ StoreInv' /\ Onward
          /\ \A q \in Procs \ {p} : ProcInv(q)'
          /\ (Threw(p) /\ ProcInv(p)') \/ Arrived(p, back[p])
      BY <1>2, <1>4, <2>1, <2>2, <2>3, JobKeeps
    <2>5. CASE back[p] \in {"release", "requeue"}
      BY <1>h, <2>4, <2>5 DEF IInv, Onward
    <2>6. CASE back[p] \notin {"release", "requeue"}
      <3>1. back[p] \in Plain
        BY <1>3, <2>6, Ways
      <3>2. Arrived(p, back[p]) => Landed(p)
        BY <1>0, <1>2, <1>3, <2>6, <3>1 DEF Arrived, Landed, LockInv
      <3> QED
        BY <2>4, <3>2, PlainInv DEF IInv
    <2> QED
      BY <2>5, <2>6
  <1>6. CASE ReleaseEntry(p)
    <2>0. UNCHANGED <<wave, phase, job, message, run, provider, inbox, wake, up, crashes,
                      faults, stops>>
      BY <1>6 DEF ReleaseEntry, discourse, app
    <2>1. /\ entry' \in {entry, "QUEUED"}
          /\ \/ Move(p, "requeue")
             \/ Touch(p, {"entry"}) /\ Goto(p, "requeue") /\ UNCHANGED <<seen, after, back>>
             \/ Throw(p) /\ UNCHANGED <<entry, released>>
      BY <1>6 DEF ReleaseEntry
    <2>2. DataOK'
      <3>1. released \in BOOLEAN /\ (released' = TRUE \/ released' = released)
        BY <1>0, <1>6, Zenon DEF DataOK, ReleaseEntry
      <3>2. released' \in BOOLEAN
        BY <3>1, Zenon
      <3> QED
        BY <1>0, <2>0, <2>1, <3>2 DEF DataOK, EntryStatus
    <2>3. CASE Throw(p) /\ UNCHANGED <<entry, released>>
      BY <1>2, <2>0, <2>2, <2>3, ThrowStep
    <2>4. CASE \/ Move(p, "requeue")
               \/ Touch(p, {"entry"}) /\ Goto(p, "requeue") /\ UNCHANGED <<seen, after, back>>
      <3>1. "requeue" \in Labels
        BY RecoverPlain DEF RecoverLabels
      <3>2. ControlOK' /\ Beside(p) /\ Arrived(p, "requeue")
        BY <1>0, <2>4, <3>1, Moved, Touched
      <3>3. pc'[p] # "calling" /\ wave' # "none" /\ (entry' = "LEASED" => entry = "LEASED")
        BY <1>2, <2>0, <2>1, <3>2 DEF Arrived
      <3>4. Onward
        BY <2>0, <3>2, <3>3, StoreKeeps
      <3>5. ProcInv(p)'
        BY <1>h, <3>2, <3>4 DEF Onward
      <3> QED
        BY <2>0, <2>2, <3>2, <3>3, <3>5, QuietKeeps, TypeParts
    <2> QED
      BY <2>1, <2>3, <2>4
  <1>7. CASE Requeue(p)
    <2>1. PICK to \in {"QUEUED", wave} : SetWave(p, to, "decide")
      BY <1>7 DEF Requeue
    <2>2. to \in WaveStatus /\ "decide" \in Labels
      BY <1>4, RecoverPlain DEF WaveStatus, Unsubmitted, RecoverLabels
    <2>3. /\ TypeOK' /\ Beside(p) /\ WaveMoves(p, to, "decide")
          /\ UNCHANGED <<phase, job, message, run, entry, provider, inbox>>
      BY <2>1, <2>2, WaveTried
    <2>4. wave' # "none"
      BY <1>2, <1>4, <2>3, Transitions DEF WaveMoves
    <2>5. CASE Threw(p)
      BY <2>3, <2>4, <2>5, ThrewLands, QuietLands
    <2>6. CASE Arrived(p, "decide")
      <3>1. pc'[p] # "calling"
        BY <2>6 DEF Arrived
      <3>2. Onward
        BY <2>3, <2>4, <3>1, StoreKeeps
      <3>3. ProcInv(p)'
        BY <1>h, <2>6, <3>2 DEF Onward
      <3> QED
        BY <2>3, <2>4, <3>1, <3>3, QuietKeeps
    <2> QED
      BY <2>3, <2>5, <2>6 DEF WaveMoves
  <1> QED
    BY <1>5, <1>6, <1>7

-----------------------------------------------------------------------------
(* Recovery decides on the run, and closes or resumes the job.             *)

\* A run that was updated as it was read.
LEMMA TriedStep ==
  ASSUME TypeOK, IInv, NEW p \in Procs, NEW new \in RunRecord, NEW next \in Plain,
         TryRun(p, new, next), run = seen[p] => Follows(new), wave # "none",
         next \in Held => lock = p, pc[p] \notin Recovering
  PROVE  TypeOK' /\ IInv'
  <1>1. /\ TypeOK' /\ Beside(p)
        /\ UNCHANGED <<wave, phase, job, message, entry, released, provider,
                       inbox, wake, up, crashes, faults, stops>>
        /\ \/ run' = run /\ Threw(p)
           \/ /\ run = seen[p] /\ run' = new
              /\ pc'[p] = next /\ lock' = lock
              /\ seen'[p] = new /\ stale'[p] = stale[p]
              /\ after'[p] = after[p] /\ back'[p] = back[p]
    BY RunTried, Ways
  <1>2. LockInv(p) /\ WayInv(p) /\ SeenInv(p)
    BY DEF IInv, ProcInv
  <1>3. CASE run' = run /\ Threw(p)
    BY <1>1, <1>3, ThrewLands, QuietLands
  <1>4. CASE ~(run' = run /\ Threw(p))
    <2>1. Follows(run') /\ pc'[p] = next /\ RecordSound(new)
      BY <1>1, <1>4 DEF Follows
    <2>2. next \notin Special
      BY DEF Plain
    <2>3. pc'[p] # "calling"
      BY <2>1, <2>2 DEF Special
    <2>4. StoreInv' /\ \A q \in Procs \ {p} : ProcInv(q)'
      BY <1>1, <2>1, <2>3, RunKeeps
    <2>5. LockInv(p)' /\ WayInv(p)'
      BY <1>1, <1>2, <1>4, <2>2 DEF LockInv, WayInv, Special
    <2>6. SeenInv(p)'
      BY <1>1, <1>2, <1>4, <2>1, <2>2 DEF SeenInv, Special, SeenUsed, Overtaken,
         RecordSound,
         Ended
    <2>7. ResultInv(p)' /\ PumpInv(p)'
      BY <2>1, <2>2 DEF ResultInv, PumpInv, Special
    <2> QED
      BY <1>1, <2>4, <2>5, <2>6, <2>7 DEF IInv, ProcInv
  <1> QED
    BY <1>3, <1>4

LEMMA DecideStep ==
  ASSUME TypeOK, IInv, NEW p \in Procs, Decide(p)
  PROVE  TypeOK' /\ IInv'
  <1>0. DataOK /\ ControlOK /\ StoreInv /\ LockInv(p) /\ WayInv(p) /\ SeenInv(p)
    BY TypeParts DEF IInv, ProcInv
  <1>1. pc[p] = "decide" /\ Reads /\ UNCHANGED <<lock, handling, seen, stale, after>>
    BY DEF Decide, At
  <1>2. wave # "none" /\ lock = p
    BY <1>0, <1>1, RecoverPlain, WaveBegun DEF LockInv, RecoverLabels
  <1> DEFINE labels == {"rCancelRun", "rInterrupted", "rRequired", "markRun", "settle", "fail",
                        "ingest", "rRunning", "rStarting", "advance"}
  <1> DEFINE r == seen[p]
             jobEnded == job.status \in JobEnded
             interrupted == job.status = "CANCEL_REQUESTED" /\ r.interrupt # "none"
             completed == CASE job.status = "COMPLETED" -> "settle"
                            [] job.status # "COMPLETED" /\ ~r.dated -> "markRun"
                            [] OTHER -> IF provider.answer = "blank" THEN "fail" ELSE "ingest"
             failed == IF jobEnded THEN "settle" ELSE IF r.turn THEN "fail" ELSE "markRun"
             next ==
        CASE job.status = "CANCEL_REQUESTED" /\ NeverSent(r) -> "rCancelRun"
          [] job.status = "CANCEL_REQUESTED" /\ r.interrupt # "none"
               /\ r.status \in {"INTERRUPTING", "RECOVERY_REQUIRED"} -> "rInterrupted"
          [] r.status = "RECOVERY_REQUIRED" /\ ~jobEnded /\ ~interrupted -> "rRequired"
          [] r.status = "COMPLETED" /\ r.intact # "UNCHANGED" -> "markRun"
          [] r.status = "COMPLETED" /\ r.intact = "UNCHANGED" -> completed
          [] r.status \in {"FAILED", "INTERRUPTED"}
               /\ ~(job.status = "CANCEL_REQUESTED" /\ NeverSent(r)) -> failed
          [] Acknowledged(r) -> "rRunning"
          [] r.status = "STARTING" -> "rStarting"
          [] OTHER -> "advance"
             b == IF r.status = "COMPLETED" /\ r.intact # "UNCHANGED"
                  THEN "settleOnly" ELSE "advance"
  <1>3. pc' = [pc EXCEPT ![p] = next] /\ back' = [back EXCEPT ![p] = b]
    BY DEF Decide
  <1>a. completed \in {"settle", "markRun", "fail", "ingest"} /\ failed \in {"settle", "fail", "markRun"}
    OBVIOUS
  <1> HIDE DEF completed, failed
  <1>b. /\ next \in labels
        /\ next = "rRequired" => r.status = "RECOVERY_REQUIRED"
        /\ next = "rStarting" => r.status = "STARTING"
        /\ next = "ingest" => Verified(r)
    BY <1>a DEF Verified
  <1> HIDE DEF next
  <1>4. labels \subseteq Labels \ {"calling", "handoff", "relink", "release", "requeue",
                                  "decide"} /\ b \in Labels /\ b \in Backs \ {"release", "requeue"}
    BY DEF Labels, Blind, Backs
  <1> HIDE DEF b
  <1>5. labels \cap {"project", "append", "complete", "dispatchWave", "dispatchJob", "start",
                     "startFailed", "startRecovery"} = {}
    OBVIOUS
  <1> HIDE DEF labels
  <1>6. DataOK' /\ UNCHANGED <<wave, phase, job, message, run, entry, provider, inbox>>
    BY <1>1, ReadsNothing
  <1>7. ControlOK'
    BY <1>0, <1>1, <1>3, <1>4, <1>b, Zenon DEF ControlOK
  <1>8. Beside(p) /\ pc'[p] = next /\ back'[p] = b
    BY <1>0, <1>1, <1>3 DEF ControlOK, Beside
  <1>9. pc'[p] # "calling"
    BY <1>4, <1>8, <1>b
  <1>10. Onward
    BY <1>2, <1>6, <1>8, <1>9, StoreKeeps
  <1>11. LockInv(p)' /\ WayInv(p)'
    BY <1>0, <1>1, <1>2, <1>4, <1>8, <1>b DEF LockInv, WayInv
  <1>12. SeenInv(p)'
    <2>1. pc[p] \in SeenUsed
      BY <1>1 DEF SeenUsed
    <2>2. pc'[p] # "startRecovery"
      BY <1>5, <1>8, <1>b
    <2> QED
      BY <1>0, <1>1, <1>b, <1>8, <1>10, <2>1, <2>2
         DEF SeenInv, Overtaken, RecordSound, Ended, Onward, Verified
  <1>13. ResultInv(p)' /\ PumpInv(p)'
    <2>1. pc[p] \in SeenUsed
      BY <1>1 DEF SeenUsed
    <2>2. next = "ingest" /\ ~Overtaken(p) => Verified(run)
      BY <1>0, <1>b, <2>1 DEF SeenInv
    <2>3. pc'[p] \notin {"project", "append", "complete", "dispatchWave", "dispatchJob", "start",
                        "startFailed"}
      BY <1>5, <1>8, <1>b
    <2> QED
      BY <1>1, <1>6, <1>8, <2>2, <2>3 DEF ResultInv, PumpInv, Overtaken, Verified
  <1>14. ProcInv(p)'
    BY <1>11, <1>12, <1>13 DEF ProcInv
  <1> QED
    BY <1>2, <1>6, <1>7, <1>8, <1>9, <1>14, QuietKeeps, TypeParts

LEMMA RecoverSteps ==
  ASSUME TypeOK, IInv, NEW p \in Procs,
         \/ RecoverCancelRun(p) \/ RecoverCancelEntry(p) \/ RecoverCancelJob(p)
         \/ RecoverInterrupted(p) \/ RecoverInterruptedJob(p) \/ RecoverRequired(p)
         \/ RecoverRunning(p) \/ RecoverRunningJob(p) \/ RecoverStarting(p)
         \/ RecoverStartingJob(p) \/ RecoverStartingWave(p)
  PROVE  TypeOK' /\ IInv'
  <1>0. DataOK /\ ControlOK /\ StoreInv /\ LockInv(p) /\ WayInv(p) /\ SeenInv(p)
    BY TypeParts DEF IInv, ProcInv
  <1>1. pc[p] \in {"rCancelRun", "rCancelEntry", "rCancelJob", "rInterrupted",
                   "rInterruptedJob", "rRequired", "rRunning", "rRunningJob", "rStarting",
                   "rStartingJob", "rStartingWave"}
    BY DEF RecoverCancelRun, RecoverCancelEntry, RecoverCancelJob, RecoverInterrupted,
       RecoverInterruptedJob, RecoverRequired, RecoverRunning, RecoverRunningJob,
       RecoverStarting, RecoverStartingJob, RecoverStartingWave, At
  <1>2. wave # "none" /\ lock = p /\ pc[p] \notin Recovering
    <2>1. pc[p] \in RecoverLabels /\ pc[p] \notin {"recover", "relink", "release", "requeue",
                                                 "decide", "advance"}
      BY <1>1 DEF RecoverLabels
    <2> QED
      BY <1>0, <2>1, RecoverPlain, WaveBegun DEF LockInv
  <1>3. /\ job.delivery \in Delivery /\ wave \in WaveStatus /\ run \in RunRecord
        /\ seen[p] \in RunRecord /\ RecordSound(run)
    BY <1>0 DEF DataOK, ControlOK, StoreInv, RunInv
  <1>m. ASSUME NEW next \in Plain, Move(p, next), Reads
        PROVE  TypeOK' /\ IInv'
    BY <1>2, <1>m, ReadsNothing, MoveStep
  <1>j. ASSUME NEW status \in JobStatus \ {"QUEUED", "COMPLETED"}, NEW delivery \in Delivery,
               NEW next \in Plain, TryJob(p, status, delivery, next),
               "job" \notin stale[p] /\ delivery = "NOT_DELIVERED" =>
                 job.delivery = "NOT_DELIVERED" \/ Spared
        PROVE  TypeOK' /\ IInv'
    BY <1>2, <1>j, JobStep DEF JobWrite
  <1>w. ASSUME NEW next \in Plain, Goto(p, next), Touch(p, {"wave"}) \/ Touch(p, {}),
               wave' \in WaveStatus \ {"none"},
               UNCHANGED <<phase, job, message, runtime, provider, app, seen, after, back>>
        PROVE  TypeOK' /\ IInv'
    <2>1. ControlOK' /\ Beside(p) /\ Arrived(p, next)
      BY <1>0, <1>w, Touched, Ways
    <2>2. UNCHANGED <<phase, job, message, run, entry, released, provider, inbox, wake, up,
                      crashes, faults, stops>>
      BY <1>w DEF runtime, app
    <2>3. DataOK'
      BY <1>0, <1>w, <2>2 DEF DataOK
    <2>4. Landed(p)
      BY <1>2, <2>1, ArrivedLands
    <2> QED
      BY <1>w, <2>1, <2>2, <2>3, <2>4, TypeParts, QuietLands
  <1>4. CASE RecoverCancelRun(p)
    <2> DEFINE new == [seen[p] EXCEPT !.status = "INTERRUPTED", !.delivery = "NOT_DELIVERED"]
    <2>1. CASE Unsent(seen[p])
      <3>1. TryRun(p, new, "rCancelEntry")
        BY <1>4, <2>1 DEF RecoverCancelRun
      <3>2. new \in RunRecord
        BY <1>3, RunUpdates
      <3>3. run = seen[p] => Follows(new)
        BY <1>3, <2>1 DEF Follows, RecordSound, Unsent, RunBegun, Verified, Ended,
           RunEnded,
           RunRecord
      <3> QED
        BY <1>2, <3>1, <3>2, <3>3, TriedStep, RecoverPlain
    <2>2. CASE ~Unsent(seen[p])
      BY <1>4, <2>2, <1>m, RecoverPlain DEF RecoverCancelRun
    <2> QED
      BY <2>1, <2>2
  <1>5. CASE RecoverCancelEntry(p)
    <2>1. CASE SetEntry(p, "CANCELED", "rCancelJob")
      BY <1>2, <2>1, EntryStep, RecoverPlain DEF EntryStatus
    <2>2. CASE Move(p, "advance") /\ Reads
      BY <2>2, <1>m, RecoverPlain
    <2> QED
      BY <1>5, <2>1, <2>2 DEF RecoverCancelEntry
  <1>6. CASE RecoverCancelJob(p)
    BY <1>3, <1>6, <1>j, RecoverPlain DEF RecoverCancelJob, JobStatus, JobEnded
  <1>7. CASE RecoverInterrupted(p)
    <2>1. CASE seen[p].status = "INTERRUPTING"
      <3>1. PICK i \in {"AMBIGUOUS", seen[p].interrupt} :
              TryRun(p, [seen[p] EXCEPT !.status = "RECOVERY_REQUIRED", !.interrupt = i],
                     "rInterruptedJob")
        BY <1>7, <2>1 DEF RecoverInterrupted
      <3> DEFINE new == [seen[p] EXCEPT !.status = "RECOVERY_REQUIRED", !.interrupt = i]
      <3>2. new \in RunRecord
        BY <1>3, RunUpdates
      <3>3. run = seen[p] => Follows(new)
        BY <1>3, <2>1 DEF Follows, RecordSound, RunBegun, Verified, Ended, RunEnded,
           RunRecord
      <3> QED
        BY <1>2, <3>1, <3>2, <3>3, TriedStep, RecoverPlain
    <2>2. CASE seen[p].status # "INTERRUPTING"
      BY <1>7, <2>2, <1>m, RecoverPlain DEF RecoverInterrupted
    <2> QED
      BY <2>1, <2>2
  <1>8. CASE RecoverInterruptedJob(p)
    BY <1>3, <1>8, <1>j, RecoverPlain DEF RecoverInterruptedJob, JobStatus
  <1>9. CASE RecoverRequired(p)
    <2>1. PICK sent \in {"ACKNOWLEDGED", "AMBIGUOUS", seen[p].delivery} :
            \/ Move(p, "markWave") /\ Reads
            \/ TryJob(p, "RECOVERY_REQUIRED", sent, "markWave")
      BY <1>9, Zenon DEF RecoverRequired
    <2>2. sent \in Delivery
      BY <1>3, <2>1 DEF Delivery, RunRecord
    <2>3. "job" \notin stale[p] /\ sent = "NOT_DELIVERED" => Spared
      BY <1>0, <1>9, <2>1 DEF SeenInv, RecoverRequired, At, SeenUsed
    <2>4. CASE Move(p, "markWave") /\ Reads
      BY <2>4, <1>m, RecoverPlain
    <2>5. CASE TryJob(p, "RECOVERY_REQUIRED", sent, "markWave")
      BY <2>2, <2>3, <2>5, <1>j, RecoverPlain DEF JobStatus
    <2> QED
      BY <2>1, <2>4, <2>5
  <1>10. CASE RecoverRunning(p)
    <2>1. PICK next \in {"rRunningJob", "advance"} : Goto(p, next)
      BY <1>10 DEF RecoverRunning
    <2>2. wave' \in WaveStatus \ {"none"}
      BY <1>2, <1>3, <1>10 DEF RecoverRunning, RunningWave, WaveStatus
    <2>3. /\ Touch(p, {"wave"}) \/ Touch(p, {})
          /\ UNCHANGED <<phase, job, message, runtime, provider, app, seen, after, back>>
      BY <1>10 DEF RecoverRunning
    <2> QED
      BY <2>1, <2>2, <2>3, <1>w, RecoverPlain
  <1>11. CASE RecoverRunningJob(p)
    BY <1>11, <1>j, RecoverPlain DEF RecoverRunningJob, JobStatus, Delivery
  <1>12. CASE RecoverStarting(p)
    <2>1. PICK next \in {"rStartingJob", "rStartingWave"} : TryRun(p, Lost(seen[p]), next)
      BY <1>12 DEF RecoverStarting
    <2>2. Lost(seen[p]) \in RunRecord
      BY <1>3, RunUpdates
    <2>3. run = seen[p] => Follows(Lost(seen[p]))
      <3>1. seen[p].status = "STARTING"
        BY <1>0, <1>12 DEF SeenInv, RecoverStarting, At
      <3> QED
        BY <1>3, <3>1 DEF Lost, Follows, RecordSound, RunBegun, Verified, Ended,
           RunEnded,
           RunRecord
    <2> QED
      BY <1>2, <2>1, <2>2, <2>3, TriedStep, RecoverPlain
  <1>13. CASE RecoverStartingJob(p)
    BY <1>13, <1>j, RecoverPlain DEF RecoverStartingJob, JobStatus, Delivery
  <1>14. CASE RecoverStartingWave(p)
    <2>1. wave' \in WaveStatus \ {"none"}
      BY <1>2, <1>3, <1>14 DEF RecoverStartingWave, WaveStatus
    <2>2. /\ Goto(p, "advance") /\ (Touch(p, {"wave"}) \/ Touch(p, {}))
          /\ UNCHANGED <<phase, job, message, runtime, provider, app, seen, after, back>>
      BY <1>14 DEF RecoverStartingWave
    <2>3. Goto(p, "advance")
      BY <1>14 DEF RecoverStartingWave
    <2> QED
      BY <2>1, <2>2, <2>3, <1>w, RecoverPlain
  <1> QED
    BY <1>4, <1>5, <1>6, <1>7, <1>8, <1>9, <1>10, <1>11, <1>12, <1>13, <1>14

-----------------------------------------------------------------------------
(* The settled wave, the author's turn after the peer's, and the events    *)
(* taken.                                                                  *)

LEMMA ReconcileStep ==
  ASSUME TypeOK, IInv, NEW p \in Procs, Reconcile(p)
  PROVE  TypeOK' /\ IInv'
  <1>1. pc[p] = "reconcile" /\ SetWave(p, IF wave = "SETTLED" THEN wave ELSE Derived, after[p])
    BY DEF Reconcile, At
  <1>2. wave \in WaveStatus /\ job.status \in JobStatus
    BY TypeParts DEF DataOK
  <1>3. (IF wave = "SETTLED" THEN wave ELSE Derived) \in WaveStatus
    BY <1>2, Zenon DEF Derived, WaveStatus
  <1>4. /\ wave # "none" /\ pc[p] \notin Recovering
        /\ after[p] \in Plain /\ (after[p] \in Held => lock = p)
    BY <1>1, AtWork, StopPlain DEF StopLabels
  <1> QED
    BY <1>1, <1>3, <1>4, WaveStep

LEMMA AdvanceStep ==
  ASSUME TypeOK, IInv, NEW p \in Procs, AdvanceWave(p)
  PROVE  TypeOK' /\ IInv'
  <1>0. DataOK /\ ControlOK /\ StoreInv /\ LockInv(p) /\ WayInv(p) /\ SeenInv(p)
    BY TypeParts DEF IInv, ProcInv
  <1>1. pc[p] = "advance" /\ lock = p
    BY <1>0, RecoverPlain DEF AdvanceWave, At, LockInv, RecoverLabels
  <1>2. UNCHANGED <<phase, job, message, run, entry, released, provider, inbox, wake, up,
                    crashes, stops>>
    BY DEF AdvanceWave, runtime
  <1>3. PICK on \in {"activate", "finish"} :
          \/ /\ AwaitsAuthor /\ Move(p, "handoff") /\ UNCHANGED <<wave, faults>>
          \/ /\ AwaitsAuthor /\ faults < MaxFaults
             /\ faults' = faults + 1 /\ wave' = "SETTLED"
             /\ Touch(p, {"wave"}) /\ Goto(p, on)
             /\ UNCHANGED <<seen, after, back>>
          \/ Move(p, on) /\ UNCHANGED <<wave, faults>>
    BY Zenon DEF AdvanceWave
  <1>4. on \in Plain /\ on \in Recovering /\ on \in Early /\ on \notin Held /\ on \in Labels
    BY RecoverPlain, Ways
  <1>5. AwaitsAuthor => wave # "none" /\ Agents = 2 /\ phase = 1
    BY <1>0 DEF AwaitsAuthor, StoreInv, NoWaveInv, NewJob
  <1>6. CASE AwaitsAuthor /\ Move(p, "handoff") /\ UNCHANGED <<wave, faults>>
    <2>1. DataOK'
      BY <1>0, <1>2, <1>6 DEF DataOK
    <2>2. "handoff" \in Labels
      BY DEF Labels
    <2>3. ControlOK' /\ Beside(p) /\ Arrived(p, "handoff")
      BY <1>0, <1>6, <2>2, Moved
    <2>4. pc'[p] = "handoff" /\ pc'[p] # "calling" /\ pc'[p] \notin SeenUsed
          /\ pc'[p] \in Recovering
      BY <2>3 DEF Arrived, SeenUsed, Recovering
    <2>5. LockInv(p)' /\ WayInv(p)'
      BY <1>0, <1>1, <1>2, <1>5, <1>6, <2>3, <2>4 DEF LockInv, WayInv, Arrived
    <2>6. SeenInv(p)'
      BY <1>0, <2>3, <2>4 DEF SeenInv, Arrived, Overtaken, RecordSound, Ended, SeenUsed
    <2>7. ResultInv(p)' /\ PumpInv(p)'
      BY <2>4 DEF ResultInv, PumpInv
    <2> QED
      BY <1>2, <1>5, <1>6, <2>1, <2>3, <2>4, <2>5, <2>6, <2>7, QuietKeeps, TypeParts
         DEF ProcInv
  <1>7. CASE /\ AwaitsAuthor /\ faults < MaxFaults
             /\ faults' = faults + 1 /\ wave' = "SETTLED"
             /\ Touch(p, {"wave"}) /\ Goto(p, on)
             /\ UNCHANGED <<seen, after, back>>
    <2>1. ControlOK' /\ Beside(p) /\ Arrived(p, on)
      BY <1>0, <1>4, <1>7, Touched
    <2>2. Landed(p)
      BY <1>4, <2>1, ArrivedLands
    <2>3. faults' \in 0..MaxFaults
      BY <1>0, <1>7, WaveAssumption DEF DataOK
    <2>4. DataOK'
      BY <1>0, <1>2, <1>7, <2>3 DEF DataOK, WaveStatus
    <2> QED
      BY <1>2, <1>7, <2>1, <2>2, <2>4, TypeParts, QuietLands
  <1>8. CASE Move(p, on) /\ UNCHANGED <<wave, faults>>
    <2>1. DataOK'
      BY <1>0, <1>2, <1>8 DEF DataOK
    <2> QED
      BY <1>2, <1>4, <1>8, <2>1, MoveStep
  <1> QED
    BY <1>3, <1>6, <1>7, <1>8

LEMMA AuthorStep ==
  ASSUME TypeOK, IInv, NEW p \in Procs, AddAuthorJob(p)
  PROVE  TypeOK' /\ IInv'
  <1>0. DataOK /\ ControlOK /\ StoreInv /\ LockInv(p) /\ WayInv(p)
    BY TypeParts DEF IInv, ProcInv
  <1>1. pc[p] = "handoff" /\ lock = p /\ Agents = 2 /\ phase = 1 /\ wave # "none"
    BY <1>0, WaveBegun DEF AddAuthorJob, At, LockInv, Held, WayInv, Early
  <1>2. /\ phase' = 2 /\ job' = NewJob /\ message' = "none"
        /\ run' = NoRun /\ entry' = "none" /\ released' = FALSE /\ provider' = NoTurn
        /\ UNCHANGED <<wave, inbox, wake, up, crashes, faults, stops, lock, handling>>
    BY DEF AddAuthorJob, app
  <1>3. /\ pc' = [pc EXCEPT ![p] = "prepare"] /\ seen' = [seen EXCEPT ![p] = NoRun]
        /\ after' = [after EXCEPT ![p] = "finish"]
        /\ back' = [back EXCEPT ![p] = "reconcile"]
        /\ stale' = [q \in Procs |-> IF q = p THEN {}
                               ELSE IF pc[q] \in Blind THEN stale[q]
                               ELSE stale[q] \cup {"job", "entry", "phase"}]
    BY DEF AddAuthorJob
  <1>4. {"prepare", "finish", "reconcile"} \subseteq Labels /\ "prepare" \in Plain
        /\ "finish" \in Afters /\ "reconcile" \in Backs /\ "prepare" \notin Held
    BY DEF Labels, Blind, Plain, Special, SeenUsed, Afters, Backs, Held
  <1>5. DataOK'
    <2>1. NewJob \in [status : JobStatus, delivery : Delivery]
      BY DEF NewJob, JobStatus, Delivery
    <2>2. NoTurn \in [state : {"idle", "working", "done", "lost"}, sent : BOOLEAN,
                      owed : BOOLEAN, answer : Answers]
      BY DEF NoTurn, Answers
    <2>3. released' \in BOOLEAN
      BY <1>2, Zenon
    <2> QED
      BY <1>0, <1>1, <1>2, <2>1, <2>2, <2>3, NoRunType DEF DataOK, EntryStatus
  <1>6. ControlOK'
    <2>1. stale' \in [Procs -> SUBSET {"job", "wave", "entry", "phase"}]
      BY <1>0, <1>3 DEF ControlOK
    <2> QED
      BY <1>0, <1>2, <1>3, <1>4, <2>1, NoRunType DEF ControlOK
  <1>7. \A q \in Procs \ {p} :
          /\ pc'[q] = pc[q] /\ seen'[q] = seen[q]
          /\ after'[q] = after[q] /\ back'[q] = back[q]
          /\ \/ pc[q] \in Blind /\ stale'[q] = stale[q]
             \/ stale'[q] = stale[q] \cup {"job", "entry", "phase"}
    BY <1>0, <1>3 DEF ControlOK
  <1>8. /\ pc'[p] = "prepare" /\ seen'[p] = NoRun /\ stale'[p] = {}
        /\ after'[p] = "finish" /\ back'[p] = "reconcile"
    BY <1>0, <1>3 DEF ControlOK
  <1>9. ~Calling'
    BY <1>7, <1>8 DEF Calling, Overtaken, Blind, Procs
  <1>10. StoreInv'
    <2>1. RunInv' /\ JobInv'
      <3>1. RecordSound(run') /\ run'.delivery = "NOT_SENT" /\ job'.delivery = "NOT_SENT"
        BY <1>2, NoRunSound DEF NoRun, NewJob
      <3>2. ~provider'.sent /\ ~provider'.owed /\ provider'.state = "idle"
        BY <1>2 DEF NoTurn
      <3> QED
        BY <1>9, <3>1, <3>2 DEF RunInv, JobInv, RecordSound, Ended
    <2>2. NoWaveInv' /\ MessageInv'
      BY <1>1, <1>2 DEF NoWaveInv, MessageInv, NewJob
    <2>3. InboxInv'
      <3>1. ASSUME NEW i \in DOMAIN inbox
            PROVE  inbox[i].phase <= 1
        BY <1>0, <1>1, <3>1 DEF StoreInv, InboxInv
      <3>2. ASSUME NEW i \in DOMAIN inbox
            PROVE  inbox[i].phase <= 2 /\ inbox[i].phase # 2
        <4>1. inbox \in Seq([kind : {"completed", "ended", "recovery"}, phase : 1..Agents])
          BY <1>0 DEF DataOK
        <4>3. inbox[i] \in [kind : {"completed", "ended", "recovery"}, phase : 1..Agents]
          BY <4>1, SeqElement
        <4>4. inbox[i].phase \in 1..Agents
          BY <4>3
        <4>5. inbox[i].phase \in 1..2
          BY <1>1, <4>4
        <4> QED
          BY <3>1, <3>2, <4>5
      <3> QED
        BY <1>2, <3>2 DEF InboxInv
    <2> QED
      BY <2>1, <2>2, <2>3 DEF StoreInv
  <1>11. ASSUME NEW q \in Procs \ {p}
         PROVE  ProcInv(q)'
    <2>0. LockInv(q) /\ WayInv(q) /\ SeenInv(q) /\ ResultInv(q) /\ PumpInv(q)
      BY DEF IInv, ProcInv
    <2>1. pc[q] # "handoff"
      BY <1>1, <2>0 DEF LockInv, Held
    <2>2. LockInv(q)' /\ WayInv(q)'
      BY <1>2, <1>7, <2>0, <2>1 DEF LockInv, WayInv
    <2>3. pc[q] \in Blind => pc[q] \notin SeenUsed \cup
            {"ingest", "project", "append", "complete", "dispatchWave", "dispatchJob", "start",
             "startFailed"}
      BY DEF Blind, SeenUsed
    <2>4. SeenInv(q)'
      BY <1>7, <2>0, <2>3 DEF SeenInv, Overtaken, RecordSound, Ended, SeenUsed
    <2>5. ResultInv(q)'
      BY <1>7, <2>0, <2>3 DEF ResultInv, Overtaken
    <2>6. PumpInv(q)'
      BY <1>2, <1>7, <2>0, <2>3 DEF PumpInv, Overtaken
    <2> QED
      BY <2>2, <2>4, <2>5, <2>6 DEF ProcInv
  <1>12. Landed(p)
    BY <1>4, <1>8 DEF Landed, LockInv
  <1> QED
    BY <1>5, <1>6, <1>10, <1>11, <1>12, PlainInv, TypeParts DEF IInv

LEMMA TakeStep ==
  ASSUME TypeOK, IInv, TakeEvent
  PROVE  TypeOK' /\ IInv'
  <1> DEFINE p == "events"
             event == Head(inbox)
  <1>0. DataOK /\ ControlOK /\ StoreInv /\ p \in Procs
    BY TypeParts DEF IInv, Procs
  <1>1. inbox # <<>> /\ inbox' = Tail(inbox)
        /\ UNCHANGED <<wave, phase, job, message, run, entry, released, provider, wake, up,
                       crashes, faults, stops>>
    BY DEF TakeEvent, discourse, runtime
  <1>2. PICK label \in {"lockRecover", "reconcile", "ingest", "fail"} :
          /\ Look(p, label, "lockAdvance", "idle")
          /\ label = "ingest" => event = Event("completed")
    BY Zenon DEF TakeEvent
  <1>3. inbox \in Seq([kind : {"completed", "ended", "recovery"}, phase : 1..Agents])
    BY <1>0 DEF DataOK
  <1>4. /\ inbox' \in Seq([kind : {"completed", "ended", "recovery"}, phase : 1..Agents])
        /\ Len(inbox') = Len(inbox) - 1
        /\ \A i \in 1..Len(inbox') : inbox'[i] = inbox[i + 1] /\ i + 1 \in 1..Len(inbox)
    BY <1>1, <1>3
  <1>5. event = inbox[1] /\ 1 \in DOMAIN inbox
    BY <1>1, <1>3
  <1>6. wave # "none"
    BY <1>0, <1>1 DEF StoreInv, NoWaveInv
  <1>7. DataOK'
    BY <1>0, <1>1, <1>4 DEF DataOK
  <1>8. label \in Labels /\ "lockAdvance" \in Labels /\ "idle" \in Labels /\ label # "raise"
    BY DEF Labels, Blind
  <1>9. ControlOK' /\ Beside(p) /\ Saw(p, label, "lockAdvance", "idle")
    BY <1>0, <1>2, <1>8, Looked DEF DataOK
  <1>10. /\ pc'[p] = label /\ seen'[p] = NoRun /\ stale'[p] = {} /\ lock' = lock
         /\ after'[p] = "lockAdvance" /\ back'[p] = "idle"
    BY <1>9 DEF Saw, UsesRun
  <1>11. Calling' => Calling
    BY <1>9, <1>10 DEF Calling, Beside, Procs, Overtaken
  <1>12. Spared => Spared'
    BY <1>1, <1>11 DEF Spared, Barred, RunBegun
  <1>13. Onward
    BY <1>1, <1>12 DEF Onward, Verified
  <1>14. RunInv' /\ JobInv' /\ NoWaveInv' /\ MessageInv'
    BY <1>0, <1>1, <1>6, <1>11, <1>12 DEF StoreInv, RunInv, JobInv, NoWaveInv,
       MessageInv,
       RecordSound, RunBegun, Ended, Verified
  <1>15. InboxInv'
    <2>1. DOMAIN inbox' = 1..Len(inbox') /\ DOMAIN inbox = 1..Len(inbox)
      BY <1>3, <1>4
    <2> QED
      BY <1>0, <1>1, <1>4, <2>1 DEF StoreInv, InboxInv, Verified
  <1>16. ProcInv(p)'
    <2>1. pc'[p] \in Labels \ SeenUsed /\ pc'[p] \notin {"handoff", "project", "append",
            "complete"} /\ pc'[p] \notin Held
      BY <1>10, <1>8 DEF SeenUsed, Held
    <2>2. LockInv(p)' /\ WayInv(p)'
      BY <1>10, <2>1 DEF LockInv, WayInv, Afters, Backs
    <2>3. SeenInv(p)'
      BY <1>10, <2>1, NoRunSound DEF SeenInv, Overtaken, RecordSound, Ended, SeenUsed
    <2>4. ResultInv(p)'
      <3>1. label = "ingest" => Verified(run)
        <4>1. event = Event("completed") => inbox[1].kind = "completed" /\ inbox[1].phase = phase
          BY <1>5 DEF Event
        <4> QED
          BY <1>0, <1>2, <1>5, <4>1 DEF StoreInv, InboxInv
      <3> QED
        BY <1>1, <1>10, <2>1, <3>1 DEF ResultInv, Verified
    <2>5. PumpInv(p)'
      BY DEF PumpInv
    <2> QED
      BY <2>2, <2>3, <2>4, <2>5 DEF ProcInv
  <1>17. \A q \in Procs \ {p} : ProcInv(q)'
    BY <1>0, <1>1, <1>9, <1>13, OthersKeep
  <1> QED
    BY <1>7, <1>9, <1>14, <1>15, <1>16, <1>17, TypeParts DEF IInv, StoreInv

-----------------------------------------------------------------------------
(* The pump: the lease, and the dispatch of the wave and of the job.       *)

PumpLabels == {"check", "rejectJob", "dispatch", "dispatchWave", "dispatchJob", "start",
               "calling", "settleRefused", "started", "ack", "startRecovery", "startFailed"}

LEMMA PumpPlain ==
  /\ {"idle", "lease", "check", "dispatch", "cancelRun", "raise", "reconcile", "finish",
      "stopCheck", "started", "settleRefused", "ack", "markWave", "lockRecover",
      "ending"} \subseteq Plain \ Held
  /\ PumpLabels \subseteq Labels
  /\ PumpLabels \cap (Early \cup Recovering \cup Held) = {}
  /\ {"idle", "lease", "lockRecover", "ending"} \subseteq Early
  /\ "idle" \in Afters /\ "idle" \in Backs \ {"release", "requeue"}
  /\ {"finish", "raise", "lockAdvance"} \subseteq Afters \cap Backs
  /\ {"rejectJob", "stopWave"} \subseteq Backs
  /\ Afters \subseteq Backs \ {"release", "requeue"}
  BY DEF Plain, Labels, Blind, Special, SeenUsed, Early, Recovering, PumpLabels,
     Backs, Held,
     Afters

LEMMA PumpWork ==
  ASSUME IInv, pc["pump"] \in PumpLabels
  PROVE  /\ "pump" \in Procs /\ wave # "none" /\ pc["pump"] \notin Recovering
         /\ after["pump"] \in Afters /\ after["pump"] \in Plain
         /\ after["pump"] \in Held \/ after["pump"] = "advance" => lock = "pump"
  BY AtWork, PumpPlain DEF Procs

\* The pump at a label where the record it will write has just been read.
LEMMA PumpSaw ==
  ASSUME TypeOK, IInv, NEW label \in PumpLabels, NEW a \in Afters, NEW b \in Afters \cup Backs,
         b \notin {"release", "requeue"}, b = "advance" \/ a = "advance" => lock = "pump",
         Saw("pump", label, a, b), RecordSound(run),
         label = "startRecovery" => /\ run.status = "RECOVERY_REQUIRED"
                                    /\ run.delivery = "NOT_DELIVERED" => Spared',
         label = "startFailed" => Spared',
         label = "start" => job'.delivery # "NOT_SENT"
  PROVE  ProcInv("pump")'
  <1>1. /\ pc'["pump"] = label /\ stale'["pump"] = {} /\ lock' = lock
        /\ seen'["pump"] = IF label \in UsesRun THEN run ELSE NoRun
        /\ after'["pump"] = a /\ back'["pump"] = b
    BY DEF Saw
  <1>2. /\ label \notin Held /\ b \in Backs /\ label # "handoff"
        /\ label \in UsesRun => label = "startRecovery"
        /\ label \in SeenUsed => label = "startRecovery"
        /\ label \notin {"ingest", "project", "append", "complete", "rRequired", "rStarting"}
    BY PumpPlain DEF PumpLabels, UsesRun, SeenUsed
  <1>3. LockInv("pump")' /\ WayInv("pump")'
    BY <1>1, <1>2 DEF LockInv, WayInv
  <1>4. SeenInv("pump")'
    <2>1. CASE label = "startRecovery"
      <3>1. seen'["pump"] = run
        BY <1>1, <2>1 DEF UsesRun
      <3> QED
        BY <1>1, <2>1, <3>1 DEF SeenInv, Overtaken, RecordSound, Ended, Verified
    <2>2. CASE label # "startRecovery"
      <3>1. seen'["pump"] = NoRun /\ label \notin SeenUsed
        BY <1>1, <1>2, <2>2
      <3> QED
        BY <1>1, <1>2, <2>2, <3>1, NoRunSound DEF SeenInv, Overtaken, RecordSound, Ended
    <2> QED
      BY <2>1, <2>2
  <1>5. ResultInv("pump")' /\ PumpInv("pump")'
    BY <1>1, <1>2 DEF ResultInv, PumpInv, Overtaken
  <1> QED
    BY <1>3, <1>4, <1>5 DEF ProcInv

LEMMA PumpEndsStep ==
  ASSUME TypeOK, IInv, PumpEnds
  PROVE  TypeOK' /\ IInv'
  <1> DEFINE p == "pump"
  <1>0. DataOK /\ ControlOK /\ p \in Procs
    BY TypeParts DEF Procs
  <1>1. /\ pc' = [pc EXCEPT ![p] = "idle"] /\ seen' = [seen EXCEPT ![p] = NoRun]
        /\ stale' = [stale EXCEPT ![p] = {}] /\ after' = [after EXCEPT ![p] = "idle"]
        /\ back' = [back EXCEPT ![p] = "idle"] /\ UNCHANGED <<lock, handling>> /\ Reads
    BY DEF PumpEnds, Goto, Rest
  <1>2. /\ Beside(p) /\ pc'[p] = "idle" /\ seen'[p] = NoRun /\ stale'[p] = {}
        /\ after'[p] = "idle" /\ back'[p] = "idle"
    BY <1>0, <1>1 DEF ControlOK, Beside, Procs
  <1>3. ControlOK'
    <2>1. "idle" \in Labels /\ {} \in SUBSET {"job", "wave", "entry", "phase"}
      BY PumpPlain DEF Plain
    <2> QED
      BY <1>0, <1>1, <2>1, NoRunType, Zenon DEF ControlOK
  <1>4. Landed(p)
    BY <1>2 DEF Landed, Plain, Labels, Blind, Special, SeenUsed, Afters, Backs,
       LockInv, Held
  <1> QED
    <2>1. /\ DataOK'
          /\ UNCHANGED <<wave, phase, job, message, run, entry, released, provider, inbox,
                         wake, up, crashes, faults, stops>>
      BY <1>1, ReadsNothing
    <2>2. TypeOK'
      BY <1>3, <2>1, TypeParts
    <2>3. pc'[p] \in Early
      BY <1>2, PumpPlain
    <2> HIDE DEF p
    <2>4. IInv'
      BY <1>0, <1>2, <1>4, <2>1, <2>3, QuietLands
    <2> QED
      BY <2>2, <2>4

LEMMA LeaseSteps ==
  ASSUME TypeOK, IInv,
         \/ Wake \/ RetryTimer \/ LeaseAvailable \/ PumpEnds \/ CheckContext
         \/ RejectJob
  PROVE  TypeOK' /\ IInv'
  <1> DEFINE p == "pump"
  <1>0. DataOK /\ ControlOK /\ StoreInv /\ p \in Procs
    BY TypeParts DEF IInv, Procs
  <1>1. job.delivery \in Delivery
    BY <1>0 DEF DataOK
  <1>2. CASE Wake
    <2>1. /\ Move(p, "lease") /\ pc[p] = "idle" /\ wake' = FALSE
          /\ UNCHANGED <<wave, phase, job, message, run, entry, released, provider, inbox, up,
                         crashes, faults, stops>>
      BY <1>2 DEF Wake, Pump, At, discourse, runtime
    <2>2. DataOK' /\ pc[p] \notin Recovering
      BY <1>0, <2>1 DEF DataOK, Recovering
    <2> QED
      BY <1>0, <2>1, <2>2, MoveStep, PumpPlain
  <1>3. CASE RetryTimer
    <2>1. Move(p, "lease") /\ Reads /\ pc[p] \notin Recovering
      BY <1>3 DEF RetryTimer, Pump, At, Recovering
    <2> QED
      BY <1>0, <2>1, ReadsNothing, MoveStep, PumpPlain
  <1>4. CASE LeaseAvailable
    <2>0. pc[p] \notin Recovering
      BY <1>4 DEF LeaseAvailable, Pump, At, Recovering
    <2>1. CASE entry = "QUEUED" /\ SetEntry(p, "LEASED", "check")
      <3>1. wave # "none"
        BY <1>0, <2>1 DEF StoreInv, NoWaveInv
      <3> QED
        BY <1>0, <2>0, <2>1, <3>1, EntryStep, PumpPlain DEF EntryStatus
    <2>2. CASE Look(p, "ending", "idle", "idle") /\ Reads
      BY <1>0, <2>2, ReadsNothing, LookStep, PumpPlain
    <2> QED
      BY <1>4, <2>1, <2>2 DEF LeaseAvailable
  <1>5. CASE CheckContext
    <2>0. pc[p] \in PumpLabels
      BY <1>5 DEF CheckContext, Pump, At, PumpLabels
    <2>1. wave # "none" /\ pc[p] \notin Recovering
      BY <2>0, PumpWork
    <2>2. UNCHANGED <<wave, phase, job, message, run, entry, released, provider, inbox, wake, up,
                      crashes, stops>>
      BY <1>5 DEF CheckContext, discourse, runtime
    <2>3. faults' \in 0..MaxFaults
      BY <1>0, <1>5, WaveAssumption DEF DataOK, CheckContext
    <2>4. DataOK'
      BY <1>0, <2>2, <2>3 DEF DataOK
    <2>5. CASE Move(p, "dispatch")
      BY <1>0, <2>1, <2>2, <2>4, <2>5, MoveStep, PumpPlain
    <2>6. CASE Throw(p)
      BY <1>0, <2>1, <2>2, <2>4, <2>6, ThrowStep
    <2>7. ASSUME NEW label \in {"cancelRun", "raise"}, Look(p, label, "lockAdvance", "rejectJob")
          PROVE  TypeOK' /\ IInv'
      BY <1>0, <2>1, <2>2, <2>4, <2>7, LookStep, PumpPlain
    <2> QED
      BY <1>5, <2>5, <2>6, <2>7 DEF CheckContext
  <1>6. CASE RejectJob
    <2>0. pc[p] \in PumpLabels /\ TryJob(p, "CONTEXT_STALE", job.delivery, "reconcile")
      BY <1>6 DEF RejectJob, Pump, At, PumpLabels
    <2>1. wave # "none" /\ pc[p] \notin Recovering
      BY <2>0, PumpWork
    <2> QED
      BY <1>0, <1>1, <2>0, <2>1, JobStep, PumpPlain DEF JobWrite, JobStatus, JobEnded
  <1>7. CASE PumpEnds
    BY <1>7, PumpEndsStep
  <1> QED
    BY <1>2, <1>3, <1>4, <1>5, <1>6, <1>7

LEMMA DispatchSteps ==
  ASSUME TypeOK, IInv, DispatchLeasedJob \/ DispatchWave \/ DispatchJob
  PROVE  TypeOK' /\ IInv'
  <1> DEFINE p == "pump"
  <1>0. DataOK /\ ControlOK /\ StoreInv /\ p \in Procs
        /\ LockInv(p) /\ WayInv(p) /\ SeenInv(p) /\ PumpInv(p)
    BY TypeParts DEF IInv, Procs, ProcInv
  <1>1. pc[p] \in PumpLabels
    BY DEF DispatchLeasedJob, DispatchWave, DispatchJob, Pump, At, PumpLabels
  <1>2. wave # "none" /\ pc[p] \notin Recovering
    BY <1>1, PumpWork
  <1>3. wave \in WaveStatus /\ run \in RunRecord /\ RecordSound(run)
    BY <1>0 DEF DataOK, StoreInv, RunInv
  <1>4. CASE DispatchLeasedJob
    <2>1. PICK label \in {"raise", "stopCheck", "dispatchWave", "dispatchJob"} :
            Look(p, label, "finish", "stopWave")
      BY <1>4, Zenon DEF DispatchLeasedJob
    <2>2. Reads
      BY <1>4 DEF DispatchLeasedJob
    <2>3. CASE label \in {"raise", "stopCheck"}
      BY <1>0, <1>2, <2>1, <2>2, <2>3, ReadsNothing, LookStep, PumpPlain
    <2>4. CASE label \in {"dispatchWave", "dispatchJob"}
      <3>1. label \in PumpLabels /\ label \in Labels /\ "finish" \in Labels
            /\ "stopWave" \in Labels /\ label # "raise"
        BY <2>4, PumpPlain, Ways DEF PumpLabels
      <3>2. ControlOK' /\ Beside(p) /\ Saw(p, label, "finish", "stopWave")
        BY <1>0, <1>3, <2>1, <3>1, Looked
      <3>3. ProcInv(p)'
        BY <1>3, <2>4, <3>1, <3>2, PumpSaw, PumpPlain
      <3>4. DataOK' /\ UNCHANGED <<wave, phase, job, message, run, entry, provider, inbox>>
        BY <2>2, ReadsNothing
      <3>5. pc'[p] # "calling"
        BY <2>4, <3>2 DEF Saw
      <3> QED
        BY <1>0, <1>2, <3>2, <3>3, <3>4, <3>5, QuietKeeps, TypeParts
    <2> QED
      BY <2>3, <2>4
  <1>5. CASE DispatchWave
    <2>1. TryWave(p, "RUNNING", "dispatchJob") /\ pc[p] = "dispatchWave"
      BY <1>5 DEF DispatchWave, Pump, At
    <2>2. "dispatchJob" \in Labels /\ "RUNNING" \in WaveStatus
      BY DEF Labels, WaveStatus
    <2>3. /\ TypeOK' /\ Beside(p) /\ WaveMoves(p, "RUNNING", "dispatchJob")
          /\ UNCHANGED <<phase, job, message, run, entry, provider, inbox>>
      BY <1>0, <2>1, <2>2, WaveTried
    <2>4. wave' # "none"
      BY <1>2, <1>3, <2>3, Transitions DEF WaveMoves
    <2>5. CASE Threw(p)
      BY <1>0, <2>3, <2>4, <2>5, ThrewLands, QuietLands
    <2>6. CASE Arrived(p, "dispatchJob")
      <3>1. pc'[p] = "dispatchJob" /\ pc'[p] \notin Held \cup SeenUsed
        BY <2>6 DEF Arrived, Held, SeenUsed
      <3>2. LockInv(p)' /\ WayInv(p)'
        BY <1>0, <1>2, <2>6, <3>1 DEF Arrived, LockInv, WayInv
      <3>3. SeenInv(p)'
        BY <1>0, <2>6, <3>1 DEF Arrived, SeenInv, Overtaken, RecordSound, Ended
      <3>4. ResultInv(p)' /\ PumpInv(p)'
        BY <1>0, <2>1, <2>3, <2>6, <3>1 DEF Arrived, ResultInv, PumpInv, Overtaken
      <3>5. ProcInv(p)' /\ pc'[p] # "calling"
        BY <3>1, <3>2, <3>3, <3>4 DEF ProcInv
      <3> QED
        BY <1>0, <2>3, <2>4, <3>5, QuietKeeps
    <2> QED
      BY <2>3, <2>5, <2>6 DEF WaveMoves
  <1>6. CASE DispatchJob
    <2>1. TryJob(p, "STARTING", "SENDING", "start")
      BY <1>6 DEF DispatchJob
    <2>2. "STARTING" \in JobStatus /\ "SENDING" \in Delivery /\ "start" \in Labels \ {"calling"}
          /\ JobWrite(p, "STARTING", "SENDING")
      BY DEF JobStatus, Delivery, Labels, JobWrite
    <2>3. /\ TypeOK' /\ StoreInv' /\ Onward
          /\ \A q \in Procs \ {p} : ProcInv(q)'
          /\ \/ Threw(p) /\ ProcInv(p)'
             \/ /\ "job" \notin stale[p] /\ Arrived(p, "start")
                /\ job' = [status |-> "STARTING", delivery |-> "SENDING"]
      BY <1>0, <1>2, <2>1, <2>2, JobKeeps
    <2>4. CASE /\ "job" \notin stale[p] /\ Arrived(p, "start")
               /\ job' = [status |-> "STARTING", delivery |-> "SENDING"]
      <3>1. pc'[p] = "start" /\ pc'[p] \notin Held \cup SeenUsed
        BY <2>4 DEF Arrived, Held, SeenUsed
      <3>2. LockInv(p)' /\ WayInv(p)'
        BY <1>0, <1>2, <2>4, <3>1 DEF Arrived, LockInv, WayInv
      <3>3. SeenInv(p)'
        BY <1>0, <2>4, <3>1 DEF Arrived, SeenInv, Overtaken, RecordSound, Ended
      <3>4. ~Overtaken(p)'
        BY <1>0, <2>4 DEF Arrived, SeenInv, Overtaken
      <3>5. ResultInv(p)' /\ PumpInv(p)'
        BY <2>4, <3>1, <3>4 DEF ResultInv, PumpInv
      <3> QED
        BY <2>3, <3>2, <3>3, <3>5 DEF ProcInv, IInv
    <2> QED
      BY <2>3, <2>4 DEF IInv
  <1> QED
    BY <1>4, <1>5, <1>6

-----------------------------------------------------------------------------
(* The pump: the start of the run, its call of the provider and what it    *)
(* returns.                                                                *)

\* A step of the pump that decides on the run, and then reads.
LEMMA PumpRuns ==
  ASSUME TypeOK, IInv, NEW label \in {"calling", "settleRefused"}, NEW a \in Afters,
         Look("pump", label, a, "finish"), a # "advance",
         run' \in RunRecord, faults' \in 0..MaxFaults, wave # "none",
         UNCHANGED <<discourse, entry, released, provider, inbox, wake, up, crashes, stops>>,
         RecordSound(run'), run'.delivery # "NOT_SENT",
         ~Verified(run),
         Spared => run'.intact = "CHANGED" \/ (~provider.sent /\ label = "settleRefused"),
         job.delivery = "NOT_DELIVERED" => Spared,
         provider.owed => run'.intact # "CHANGED",
         run'.delivery = "NOT_DELIVERED" => /\ run'.intact = "CHANGED" \/ ~provider.sent
                                            /\ label = "settleRefused",
         label = "calling" => job.delivery # "NOT_SENT"
  PROVE  TypeOK' /\ IInv'
  <1> DEFINE p == "pump"
  <1>0. DataOK /\ ControlOK /\ StoreInv /\ p \in Procs
    BY TypeParts DEF IInv, Procs
  <1>1. UNCHANGED <<wave, phase, job, message, entry, released, provider, inbox, wake, up,
                    crashes, stops>>
    BY DEF discourse
  <1>2. DataOK'
    BY <1>0, <1>1 DEF DataOK
  <1>3. label \in PumpLabels /\ label \in Labels /\ a \in Labels /\ "finish" \in Labels
        /\ label # "raise"
    BY PumpPlain, Ways DEF PumpLabels
  <1>4. ControlOK' /\ Beside(p) /\ Saw(p, label, a, "finish")
    BY <1>0, <1>3, Looked DEF DataOK
  <1>5. pc'[p] = label /\ Calling' = (label = "calling")
    BY <1>4 DEF Saw, Calling, Overtaken
  <1>6. RunBegun' /\ RecordSound(run)
    BY <1>0 DEF RecordSound, RunBegun, StoreInv, RunInv
  <1>7. Spared => Spared'
    BY <1>1, <1>5, <1>6 DEF Spared, Barred
  <1>8. Onward
    BY <1>1, <1>7 DEF Onward
  <1>9. RunInv'
    <2>1. run'.delivery = "NOT_DELIVERED" => Spared'
      BY <1>1, <1>5, <1>6 DEF Spared, Barred
    <2> QED
      BY <1>0, <1>1, <1>6, <2>1 DEF RunInv, StoreInv
  <1>10. JobInv'
    BY <1>0, <1>1, <1>5, <1>7 DEF JobInv, StoreInv
  <1>11. NoWaveInv' /\ MessageInv' /\ InboxInv'
    BY <1>0, <1>1 DEF StoreInv, NoWaveInv, MessageInv, InboxInv
  <1>12. ProcInv(p)'
    <2>1. label \notin {"startRecovery", "startFailed", "start"}
      OBVIOUS
    <2> QED
      BY <1>3, <1>4, <1>6, <2>1, PumpSaw, PumpPlain
  <1>13. \A q \in Procs \ {p} : ProcInv(q)'
    BY <1>0, <1>1, <1>4, <1>8, OthersKeep
  <1> QED
    BY <1>2, <1>4, <1>9, <1>10, <1>11, <1>12, <1>13, TypeParts DEF IInv, StoreInv

LEMMA StartStep ==
  ASSUME TypeOK, IInv, StartPreparedTurn
  PROVE  TypeOK' /\ IInv'
  <1> DEFINE p == "pump"
  <1>0. DataOK /\ ControlOK /\ StoreInv /\ p \in Procs /\ PumpInv(p)
    BY TypeParts DEF IInv, Procs, ProcInv
  <1>1. pc[p] = "start" /\ pc[p] \in PumpLabels
    BY DEF StartPreparedTurn, Pump, At, PumpLabels
  <1>2. wave # "none" /\ pc[p] \notin Recovering
    BY <1>1, PumpWork
  <1>3. run \in RunRecord /\ faults \in 0..MaxFaults
    BY <1>0 DEF DataOK
  <1>4. UNCHANGED <<discourse, entry, released, provider, inbox, wake, up, crashes, stops>>
    BY DEF StartPreparedTurn
  <1>5. faults' \in 0..MaxFaults
    BY <1>3, WaveAssumption DEF StartPreparedTurn
  <1>6. UNCHANGED <<wave, phase, job, message, entry, released, provider, inbox, wake, up, crashes,
                    stops>>
    BY <1>4 DEF discourse
  <1>7. Unsent(run) => /\ ~Spared /\ ~Verified(run) /\ ~provider.owed
                       /\ job.delivery # "NOT_DELIVERED"
    BY <1>0 DEF Unsent, Spared, Barred, RunBegun, Verified, StoreInv, RunInv, JobInv,
       RecordSound, Ended, RunEnded
  <1>8. CASE /\ entry = "LEASED" /\ Unsent(run)
             /\ run' = [run EXCEPT !.status = "STARTING", !.delivery = "SENDING",
                                   !.intact = "PENDING"]
             /\ Look(p, "calling", "finish", "finish")
    <2>1. run' \in RunRecord
      BY <1>3, <1>8 DEF RunRecord, Delivery
    <2>2. RecordSound(run') /\ run'.delivery = "SENDING"
      BY <1>3, <1>8 DEF RecordSound, RunRecord
    <2>3. job.delivery # "NOT_SENT"
      BY <1>0, <1>1, <1>8 DEF PumpInv
    <2> QED
      BY <1>2, <1>4, <1>5, <1>7, <1>8, <2>1, <2>2, <2>3, PumpRuns, PumpPlain
  <1>9. CASE Look(p, "started", "raise", "finish") /\ run' = run
    <2>1. DataOK'
      BY <1>0, <1>5, <1>6, <1>9 DEF DataOK
    <2> QED
      BY <1>0, <1>2, <1>6, <1>9, <2>1, LookStep, PumpPlain
  <1>10. CASE /\ entry = "LEASED" /\ Unsent(run)
              /\ run' = [run EXCEPT !.status = "FAILED", !.delivery = "NOT_DELIVERED",
                                    !.intact = "CHANGED"]
              /\ Look(p, "settleRefused", "raise", "finish")
    <2>1. run' \in RunRecord
      BY <1>3, <1>10 DEF RunRecord, Delivery, RunEnded
    <2>2. RecordSound(run') /\ run'.delivery = "NOT_DELIVERED" /\ run'.intact = "CHANGED"
      BY <1>3, <1>10 DEF RecordSound, RunRecord, Ended, RunEnded
    <2> QED
      BY <1>2, <1>4, <1>5, <1>7, <1>10, <2>1, <2>2, PumpRuns, PumpPlain
  <1> QED
    BY <1>8, <1>9, <1>10 DEF StartPreparedTurn

LEMMA ReturnSteps ==
  ASSUME TypeOK, IInv, StartReturns \/ StartRefused \/ StartUnclear
  PROVE  TypeOK' /\ IInv'
  <1> DEFINE p == "pump"
  <1>0. DataOK /\ ControlOK /\ StoreInv /\ p \in Procs
    BY TypeParts DEF IInv, Procs
  <1>1. pc[p] \in PumpLabels
    BY DEF StartReturns, StartRefused, StartUnclear, Pump, At, PumpLabels
  <1>2. wave # "none" /\ pc[p] \notin Recovering
    BY <1>1, PumpWork
  <1>3. run \in RunRecord /\ RecordSound(run) /\ faults \in 0..MaxFaults
    BY <1>0 DEF DataOK, StoreInv, RunInv
  <1>4. UNCHANGED <<discourse, entry, released, provider, app>>
    BY DEF StartReturns, StartRefused, StartUnclear
  <1>5. PICK label \in {"started", "settleRefused"}, a \in {"finish", "raise"} :
          Look(p, label, a, "finish")
    BY DEF StartReturns, StartRefused, StartUnclear
  <1>l. ASSUME Follows(run'), run' \in RunRecord
        PROVE  TypeOK' /\ IInv'
    BY <1>0, <1>2, <1>4, <1>5, <1>l, RunLooks, PumpPlain
  <1>6. ASSUME run' = run
        PROVE  TypeOK' /\ IInv'
    <2>1. Follows(run')
      BY <1>3, <1>6, <1>0 DEF Follows, RunBegun, StoreInv, RunInv
    <2> QED
      BY <1>3, <1>6, <2>1, <1>l
  <1>7. ASSUME run' = Lost(run), run.status \in {"STARTING", "INTERRUPTING"}
        PROVE  TypeOK' /\ IInv'
    <2>1. run' \in RunRecord
      BY <1>3, <1>7, RunUpdates
    <2>2. Follows(run')
      BY <1>3, <1>7 DEF Lost, Follows, RecordSound, RunBegun, Verified, Ended, RunEnded,
         RunRecord
    <2> QED
      BY <2>1, <2>2, <1>l
  <1>8. CASE StartReturns
    <2>1. \/ run' = run
          \/ /\ run.status \in {"STARTING", "RUNNING", "RECOVERY_REQUIRED"} \cup RunEnded
             /\ ~Ended(run)
             /\ run' = [run EXCEPT !.status = "RUNNING", !.delivery = "ACKNOWLEDGED",
                                   !.turn = TRUE]
          \/ run.status = "INTERRUPTING" /\ run' = Lost(run)
      BY <1>8 DEF StartReturns
    <2>2. ASSUME run.status \in {"STARTING", "RUNNING", "RECOVERY_REQUIRED"} \cup RunEnded,
                 ~Ended(run),
                 run' = [run EXCEPT !.status = "RUNNING", !.delivery = "ACKNOWLEDGED",
                                    !.turn = TRUE]
          PROVE  TypeOK' /\ IInv'
      <3>1. run' \in RunRecord
        BY <1>3, <2>2 DEF RunRecord, Delivery
      <3>2. Follows(run')
        BY <1>3, <2>2 DEF Follows, RecordSound, RunBegun, Verified, Ended, RunEnded,
           RunRecord
      <3> QED
        BY <3>1, <3>2, <1>l
    <2> QED
      BY <2>1, <2>2, <1>6, <1>7
  <1>9. CASE StartRefused
    <2>1. CASE run.status = "STARTING"
      <3>1. /\ ~provider.sent /\ Look(p, "settleRefused", "raise", "finish")
            /\ run' = [run EXCEPT !.status = "FAILED", !.delivery = "NOT_DELIVERED",
                                  !.intact = "UNCHANGED"]
        BY <1>9, <2>1 DEF StartRefused
      <3>2. run' \in RunRecord
        BY <1>3, <3>1 DEF RunRecord, Delivery, RunEnded
      <3>3. RecordSound(run') /\ run'.delivery = "NOT_DELIVERED" /\ run'.intact # "CHANGED"
        BY <1>3, <3>1 DEF RecordSound, RunRecord
      <3>4. ~Verified(run) /\ (job.delivery = "NOT_DELIVERED" => Spared)
        BY <1>0, <2>1 DEF Verified, StoreInv, JobInv
      <3> QED
        BY <1>2, <1>3, <1>4, <3>1, <3>2, <3>3, <3>4, PumpRuns, PumpPlain DEF app
    <2>2. CASE run.status # "STARTING"
      BY <1>9, <2>2, <1>6 DEF StartRefused
    <2> QED
      BY <2>1, <2>2
  <1>10. CASE StartUnclear
    BY <1>10, <1>6, <1>7 DEF StartUnclear
  <1> QED
    BY <1>8, <1>9, <1>10

LEMMA StartedSteps ==
  ASSUME TypeOK, IInv,
         SettleRefused \/ Started \/ Acknowledge \/ StartRecovery \/ StartFailed \/ Raise
  PROVE  TypeOK' /\ IInv'
  <1> DEFINE p == "pump"
  <1>0. DataOK /\ ControlOK /\ StoreInv /\ p \in Procs /\ SeenInv(p) /\ PumpInv(p)
    BY TypeParts DEF IInv, Procs, ProcInv
  <1>1. ASSUME pc[p] \in PumpLabels
        PROVE  /\ wave # "none" /\ pc[p] \notin Recovering
               /\ after[p] \in Afters /\ after[p] \in Plain
               /\ after[p] \in Held \/ after[p] = "advance" => lock = p
    BY <1>1, PumpWork
  <1>3. run \in RunRecord /\ RecordSound(run) /\ entry \in EntryStatus
        /\ job.delivery \in Delivery /\ seen[p] \in RunRecord
    BY <1>0 DEF DataOK, ControlOK, StoreInv, RunInv
  <1>4. CASE SettleRefused
    <2>1. pc[p] \in PumpLabels /\ SetEntry(p, Closing(entry, entry = "LEASED"), "started")
      BY <1>4 DEF SettleRefused, Pump, At, PumpLabels
    <2>2. Closing(entry, entry = "LEASED") \in EntryStatus
      BY <1>3 DEF Closing, EntryStatus
    <2> QED
      BY <1>0, <1>1, <2>1, <2>2, EntryStep, PumpPlain
  <1>5. CASE Started
    <2>1. pc[p] \in PumpLabels /\ Reads
      BY <1>5 DEF Started, Pump, At, PumpLabels
    <2>2. PICK label \in {"ack", "finish", "raise", after[p], "startRecovery", "startFailed"} :
            /\ Look(p, label, after[p], after[p])
            /\ label = "startRecovery" => run.status = "RECOVERY_REQUIRED" \/ label = after[p]
            /\ label = "startFailed" => run.delivery = "NOT_DELIVERED" \/ label = after[p]
      BY <1>5, Zenon DEF Started
    <2>3. CASE label \in {"ack", "finish", "raise", after[p]}
      BY <1>0, <1>1, <2>1, <2>2, <2>3, ReadsNothing, LookStep, PumpPlain
    <2>4. CASE label \in {"startRecovery", "startFailed"}
      <3>1. label \in PumpLabels /\ label \in Labels /\ after[p] \in Labels /\ label # "raise"
            /\ label # after[p]
        BY <1>1, <2>1, <2>4, PumpPlain, Ways DEF PumpLabels, Afters
      <3>2. ControlOK' /\ Beside(p) /\ Saw(p, label, after[p], after[p])
        BY <1>0, <1>3, <2>2, <3>1, Looked
      <3>3. DataOK' /\ UNCHANGED <<wave, phase, job, message, run, entry, provider, inbox>>
        BY <2>1, ReadsNothing
      <3>4. pc'[p] # "calling" /\ wave' # "none"
        BY <1>1, <2>1, <2>4, <3>2, <3>3 DEF Saw
      <3>5. run.delivery = "NOT_DELIVERED" => Spared'
        <4>1. Spared => Spared'
          BY <1>0, <3>2, <3>3, <3>4, StoreKeeps DEF Onward
        <4> QED
          BY <1>0, <4>1 DEF StoreInv, RunInv
      <3>6. ProcInv(p)'
        BY <1>1, <1>3, <2>1, <2>2, <2>4, <3>1, <3>2, <3>5, PumpSaw, PumpPlain
      <3> QED
        BY <1>0, <3>2, <3>3, <3>4, <3>6, QuietKeeps, TypeParts
    <2> QED
      BY <2>2, <2>3, <2>4
  <1>6. CASE Acknowledge
    <2>1. pc[p] \in PumpLabels /\ TryJob(p, "RUNNING", "ACKNOWLEDGED", "finish")
      BY <1>6 DEF Acknowledge, Pump, At, PumpLabels
    <2> QED
      BY <1>0, <1>1, <2>1, JobStep, PumpPlain DEF JobWrite, JobStatus, Delivery
  <1>7. CASE StartRecovery
    <2>1. /\ pc[p] \in PumpLabels /\ pc[p] = "startRecovery"
          /\ TryJob(p, "RECOVERY_REQUIRED", seen[p].delivery, "markWave")
      BY <1>7 DEF StartRecovery, Pump, At, PumpLabels
    <2>2. JobWrite(p, "RECOVERY_REQUIRED", seen[p].delivery)
      BY <1>0, <2>1 DEF JobWrite, SeenInv, SeenUsed
    <2>3. seen[p].delivery \in Delivery
      BY <1>3 DEF RunRecord
    <2> QED
      BY <1>0, <1>1, <2>1, <2>2, <2>3, JobStep, PumpPlain DEF JobStatus
  <1>8. CASE StartFailed
    <2>1. /\ pc[p] \in PumpLabels /\ pc[p] = "startFailed"
          /\ TryJob(p, "FAILED", "NOT_DELIVERED", "reconcile")
      BY <1>8 DEF StartFailed, Pump, At, PumpLabels
    <2>2. JobWrite(p, "FAILED", "NOT_DELIVERED")
      BY <1>0, <2>1 DEF JobWrite, PumpInv
    <2> QED
      BY <1>0, <1>1, <2>1, <2>2, JobStep, PumpPlain DEF JobStatus, JobEnded, Delivery
  <1>9. CASE Raise
    <2>1. pc[p] \in StopLabels /\ Throw(p) /\ Reads
      BY <1>9 DEF Raise, Pump, At, StopLabels
    <2>2. wave # "none"
      BY <1>0, <2>1, AtWork, StopPlain
    <2> QED
      BY <1>0, <2>1, <2>2, ReadsNothing, ThrowStep
  <1> QED
    BY <1>4, <1>5, <1>6, <1>7, <1>8, <1>9

-----------------------------------------------------------------------------
(* What happens outside: the provider takes a turn, works and ends it.     *)

\* A step outside the processes.
LEMMA OutsideKeeps ==
  ASSUME TypeOK, IInv, Outside, Onward,
         UNCHANGED <<wake, up, crashes, faults, stops>>, run' \in RunRecord, StoreInv',
         provider' \in [state : {"idle", "working", "done", "lost"}, sent : BOOLEAN,
                        owed : BOOLEAN, answer : Answers],
         inbox' \in Seq([kind : {"completed", "ended", "recovery"}, phase : 1..Agents])
  PROVE  TypeOK' /\ IInv'
  <1>0. DataOK /\ ControlOK
    BY TypeParts
  <1>1. UNCHANGED <<wave, phase, job, message, entry, released, lock, pc, handling, seen, stale,
                    after, back>>
    BY DEF Outside, discourse, control, locals
  <1>2. DataOK'
    BY <1>0, <1>1 DEF DataOK
  <1>3. ControlOK'
    BY <1>0, <1>1 DEF ControlOK
  <1>4. \A q \in Procs : ProcInv(q)'
    <2>1. Beside("pump") /\ Beside("user") /\ "pump" \in Procs /\ "user" \in Procs
      BY <1>1 DEF Beside, Procs
    <2>2. \A q \in Procs \ {"pump"} : ProcInv(q)'
      BY <1>1, <2>1, OthersKeep
    <2>3. \A q \in Procs \ {"user"} : ProcInv(q)'
      BY <1>1, <2>1, OthersKeep
    <2> QED
      BY <2>2, <2>3
  <1> QED
    BY <1>2, <1>3, <1>4, TypeParts DEF IInv

LEMMA SubmitStep ==
  ASSUME TypeOK, IInv, Submit
  PROVE  TypeOK' /\ IInv'
  <1>0. DataOK /\ StoreInv
    BY TypeParts DEF IInv
  <1>1. /\ Calling /\ provider' = [provider EXCEPT !.state = "working", !.sent = TRUE]
        /\ Outside /\ UNCHANGED <<run, inbox, wake, up, crashes, faults, stops>>
        /\ UNCHANGED <<wave, phase, job, message, entry, pc, stale>>
        /\ provider = NoTurn
    BY DEF Submit, Outside, discourse, control, locals, app
  <1>2. Calling' /\ (Spared <=> run.intact = "CHANGED") /\ (Spared' <=> run.intact = "CHANGED")
    BY <1>1 DEF Calling, Overtaken, Spared, Barred
  <1>3. /\ provider' \in [state : {"idle", "working", "done", "lost"}, sent : BOOLEAN,
                          owed : BOOLEAN, answer : Answers]
        /\ provider'.sent /\ ~provider'.owed
    BY <1>0, <1>1 DEF DataOK, NoTurn
  <1>4. Onward
    BY <1>1, <1>2 DEF Onward, Verified
  <1>5. RunInv' /\ JobInv'
    BY <1>0, <1>1, <1>2, <1>3 DEF StoreInv, RunInv, JobInv, RecordSound, Ended
  <1>6. NoWaveInv' /\ MessageInv' /\ InboxInv'
    BY <1>0, <1>1 DEF StoreInv, NoWaveInv, MessageInv, InboxInv, Verified
  <1> QED
    BY <1>0, <1>1, <1>3, <1>4, <1>5, <1>6, OutsideKeeps DEF StoreInv, DataOK

\* A run that the provider has: it is neither new nor refused.
LEMMA SentRun ==
  ASSUME IInv, provider.sent \/ Calling \/ provider.owed
  PROVE  /\ RunBegun /\ wave # "none" /\ run # NoRun /\ RecordSound(run)
         /\ provider.sent \/ Calling =>
              /\ Spared <=> run.intact = "CHANGED"
              /\ job.delivery # "NOT_SENT"
              /\ job.delivery = "NOT_DELIVERED" => run.intact = "CHANGED"
              /\ run.delivery = "NOT_DELIVERED" => run.intact = "CHANGED"
  <1>0. StoreInv
    BY DEF IInv
  <1>1. RunBegun
    BY <1>0 DEF StoreInv, RunInv, RecordSound, RunBegun
  <1>2. run # NoRun /\ wave # "none"
    BY <1>0, <1>1 DEF StoreInv, NoWaveInv, RunBegun, NoRun
  <1> QED
    BY <1>0, <1>1, <1>2 DEF StoreInv, RunInv, JobInv, Spared, Barred

LEMMA AcceptStep ==
  ASSUME TypeOK, IInv, Accept
  PROVE  TypeOK' /\ IInv'
  <1>0. DataOK /\ StoreInv
    BY TypeParts DEF IInv
  <1>1. /\ Calling /\ provider.state = "working" /\ run.status = "STARTING"
        /\ run' = [run EXCEPT !.status = "RUNNING", !.delivery = "ACKNOWLEDGED",
                              !.turn = TRUE]
        /\ Outside /\ UNCHANGED <<provider, inbox, wake, up, crashes, faults, stops>>
        /\ UNCHANGED <<wave, phase, job, message, entry, pc, stale>>
    BY DEF Accept, Outside, discourse, control, locals, app
  <1>2. Calling'
    BY <1>1 DEF Calling, Overtaken
  <1>3. run.intact # "CHANGED" /\ ~Spared /\ ~Verified(run) /\ wave # "none"
    BY <1>1, SentRun DEF RecordSound, Ended, RunEnded, Verified
  <1>4. run \in RunRecord /\ run' \in RunRecord
    BY <1>0, <1>1 DEF DataOK, RunRecord, Delivery
  <1>5. RecordSound(run') /\ RunBegun' /\ run'.delivery = "ACKNOWLEDGED"
        /\ run'.intact = run.intact
    BY <1>1, <1>3, <1>4 DEF RecordSound, RunBegun, RunRecord
  <1>6. Onward
    BY <1>1, <1>3 DEF Onward
  <1>7. RunInv' /\ JobInv'
    BY <1>0, <1>1, <1>2, <1>3, <1>5, SentRun DEF StoreInv, RunInv, JobInv
  <1>8. NoWaveInv' /\ MessageInv' /\ InboxInv'
    BY <1>0, <1>1, <1>3 DEF StoreInv, NoWaveInv, MessageInv, InboxInv
  <1> QED
    BY <1>0, <1>1, <1>4, <1>6, <1>7, <1>8, OutsideKeeps DEF StoreInv, DataOK

\* The turn is over or lost, and its run with it.
LEMMA TurnOver ==
  ASSUME TypeOK, IInv, Outside, UNCHANGED app, provider.state = "working",
         run' \in RunRecord, RecordSound(run'), RunBegun',
         provider' \in [state : {"done", "lost"}, sent : BOOLEAN, owed : BOOLEAN,
                        answer : Answers],
         provider'.sent, provider'.owed => run'.intact # "CHANGED",
         run'.intact = run.intact, Verified(run) => Verified(run'),
         run'.delivery = "NOT_DELIVERED" => run.delivery = "NOT_DELIVERED"
  PROVE  TypeOK' /\ IInv'
  <1>0. DataOK /\ StoreInv /\ provider.sent
    BY TypeParts DEF IInv, StoreInv, RunInv
  <1>1. UNCHANGED <<wave, phase, job, message, entry, pc, stale, inbox, wake, up, crashes, faults,
                    stops>>
    BY DEF Outside, discourse, control, locals, app
  <1>2. /\ wave # "none" /\ job.delivery # "NOT_SENT"
        /\ Spared <=> run.intact = "CHANGED"
        /\ job.delivery = "NOT_DELIVERED" => run.intact = "CHANGED"
        /\ run.delivery = "NOT_DELIVERED" => run.intact = "CHANGED"
    BY <1>0, SentRun
  <1>3. Spared' <=> run'.intact = "CHANGED"
    BY DEF Spared, Barred
  <1>4. Onward
    BY <1>1, <1>2, <1>3 DEF Onward
  <1>5. RunInv' /\ JobInv'
    BY <1>1, <1>2, <1>3 DEF RunInv, JobInv, RecordSound, RunBegun
  <1>6. NoWaveInv' /\ MessageInv' /\ InboxInv'
    BY <1>0, <1>1, <1>2 DEF StoreInv, NoWaveInv, MessageInv, InboxInv
  <1>7. provider' \in [state : {"idle", "working", "done", "lost"}, sent : BOOLEAN,
                       owed : BOOLEAN, answer : Answers]
    OBVIOUS
  <1> QED
    BY <1>0, <1>1, <1>4, <1>5, <1>6, <1>7, OutsideKeeps DEF StoreInv, DataOK

LEMMA EndSteps ==
  ASSUME TypeOK, IInv, ProviderEnds \/ ServerLost
  PROVE  TypeOK' /\ IInv'
  <1>0. DataOK /\ StoreInv /\ provider.state = "working" /\ provider.sent
    BY TypeParts DEF IInv, StoreInv, RunInv, ProviderEnds, ServerLost
  <1>1. run \in RunRecord /\ RecordSound(run) /\ RunBegun
    BY <1>0, SentRun DEF DataOK
  <1>2. provider \in [state : {"idle", "working", "done", "lost"}, sent : BOOLEAN,
                      owed : BOOLEAN, answer : Answers]
    BY <1>0 DEF DataOK
  <1>3. Outside /\ UNCHANGED app
    BY DEF ProviderEnds, ServerLost
  <1>4. CASE ProviderEnds
    <2>1. PICK end \in RunEnded, answer \in Answers :
            /\ provider' = [state |-> "done", sent |-> TRUE, owed |-> run.turn /\ ~Ended(run),
                            answer |-> answer]
            /\ run' = IF run.turn /\ ~Ended(run)
                      THEN [run EXCEPT !.status = end, !.delivery = "TERMINAL",
                                       !.interrupt = Closed(run)]
                      ELSE run
      BY <1>4 DEF ProviderEnds, RunEnded
    <2>2. CASE run.turn /\ ~Ended(run)
      <3>1. run.intact # "CHANGED"
        BY <1>1, <2>2 DEF RecordSound
      <3>2. /\ run' = [run EXCEPT !.status = end, !.delivery = "TERMINAL",
                                  !.interrupt = Closed(run)]
            /\ Closed(run) \in {"none", "TERMINAL"}
        BY <2>1, <2>2 DEF Closed
      <3>3. run' \in RunRecord
        BY <1>1, <3>2 DEF RunRecord, RunEnded, Delivery
      <3>4. RecordSound(run') /\ RunBegun' /\ run'.intact = run.intact
            /\ run'.delivery = "TERMINAL"
        BY <1>1, <3>1, <3>2 DEF RunRecord, RecordSound, RunEnded, RunBegun
      <3>5. ~Verified(run)
        BY <2>2 DEF Verified, Ended, RunEnded
      <3>6. provider' = [state |-> "done", sent |-> TRUE, owed |-> TRUE, answer |-> answer]
        BY <2>1, <2>2, Zenon
      <3>7. provider' \in [state : {"done", "lost"}, sent : BOOLEAN, owed : BOOLEAN,
                          answer : Answers] /\ provider'.sent
        BY <3>6
      <3> QED
        BY <1>0, <1>3, <3>1, <3>3, <3>4, <3>5, <3>7, TurnOver
    <2>3. CASE ~(run.turn /\ ~Ended(run))
      <3>1. run' = run
        BY <2>1, <2>3
      <3>2. provider' = [state |-> "done", sent |-> TRUE, owed |-> FALSE, answer |-> answer]
        BY <2>1, <2>3, Zenon
      <3>3. provider' \in [state : {"done", "lost"}, sent : BOOLEAN, owed : BOOLEAN,
                          answer : Answers] /\ provider'.sent /\ ~provider'.owed
        BY <3>2
      <3> QED
        BY <1>0, <1>1, <1>3, <3>1, <3>3, TurnOver DEF RunBegun, RecordSound, Ended,
           Verified
    <2> QED
      BY <2>2, <2>3
  <1>5. CASE ServerLost
    <2>1. /\ provider' = [provider EXCEPT !.state = "lost", !.owed = Owned(run)]
          /\ run' = IF Owned(run) THEN Abandoned(run) ELSE run
      BY <1>5 DEF ServerLost
    <2>2. ASSUME NEW o \in BOOLEAN,
                 provider' = [provider EXCEPT !.state = "lost", !.owed = o]
          PROVE  /\ provider' \in [state : {"done", "lost"}, sent : BOOLEAN, owed : BOOLEAN,
                                   answer : Answers]
                 /\ provider'.sent /\ provider'.owed = o
      BY <1>0, <1>2, <2>2
    <2>3. Owned(run) => run.intact # "CHANGED" /\ ~Verified(run)
      BY <1>1 DEF Owned, RecordSound, Ended, RunEnded, Verified
    <2>4. CASE Owned(run)
      <3>1. run' \in RunRecord
        BY <1>1, <2>1, <2>4, RunUpdates
      <3>2. RecordSound(run') /\ RunBegun' /\ run'.intact = run.intact
            /\ run'.delivery # "NOT_DELIVERED"
        BY <1>1, <2>1, <2>3, <2>4 DEF Abandoned, Lost, RunRecord, RecordSound, RunBegun
      <3>3. provider' = [provider EXCEPT !.state = "lost", !.owed = TRUE]
        <4>1. Owned(run) = TRUE
          BY <2>4 DEF Owned
        <4> QED
          BY <2>1, <4>1, Zenon
      <3> QED
        BY <1>0, <1>3, <2>2, <2>3, <2>4, <3>1, <3>2, <3>3, TurnOver
    <2>5. CASE ~Owned(run)
      <3>1. run' = run
        BY <2>1, <2>5
      <3>2. provider' = [provider EXCEPT !.state = "lost", !.owed = FALSE]
        <4>1. Owned(run) = FALSE
          BY <2>5 DEF Owned
        <4> QED
          BY <2>1, <4>1, Zenon
      <3>3. provider' \in [state : {"done", "lost"}, sent : BOOLEAN, owed : BOOLEAN,
                           answer : Answers] /\ provider'.sent /\ ~provider'.owed
        BY <2>2, <3>2
      <3> QED
        BY <1>0, <1>1, <1>3, <3>1, <3>3, TurnOver
           DEF RunBegun, RecordSound, Ended, Verified
    <2> QED
      BY <2>4, <2>5
  <1> QED
    BY <1>4, <1>5

-----------------------------------------------------------------------------
(* The boundary of the turn, a crash and a restart; then every step        *)
(* together.                                                               *)

\* The boundary of the ended turn is read, and its event enters the
\* coordinator's queue.
LEMMA VerifyStep ==
  ASSUME TypeOK, IInv, VerifyBoundary
  PROVE  TypeOK' /\ IInv'
  <1> DEFINE kind == CASE run'.status = "COMPLETED" -> "completed"
                       [] run'.status = "RECOVERY_REQUIRED" -> "recovery"
                       [] OTHER -> "ended"
  <1>0. DataOK /\ StoreInv
    BY TypeParts DEF IInv
  <1>1. /\ provider.owed /\ provider' = [provider EXCEPT !.owed = FALSE]
        /\ inbox' = Append(inbox, Event(kind))
        /\ Outside /\ UNCHANGED <<wake, up, crashes, faults, stops>>
        /\ UNCHANGED <<wave, phase, job, message, entry, pc, stale>>
    BY DEF VerifyBoundary, Outside, discourse, control, locals
  <1>2. RunBegun /\ wave # "none" /\ run.intact # "CHANGED" /\ run \in RunRecord
        /\ RecordSound(run)
    BY <1>0, <1>1, SentRun DEF StoreInv, RunInv, DataOK
  <1>3. /\ provider' \in [state : {"idle", "working", "done", "lost"}, sent : BOOLEAN,
                          owed : BOOLEAN, answer : Answers]
        /\ ~provider'.owed /\ provider'.sent = provider.sent
        /\ provider'.state = provider.state
    BY <1>0, <1>1 DEF DataOK
  <1>4. \/ run' = [run EXCEPT !.intact = "UNCHANGED"]
        \/ \E d \in {"TERMINAL", "NOT_DELIVERED"} :
             /\ run.intact # "UNCHANGED"
             /\ run' = [run EXCEPT !.intact = "CHANGED", !.status = "FAILED", !.delivery = d]
    BY DEF VerifyBoundary
  <1>5. run' \in RunRecord
    BY <1>2, <1>4 DEF RunRecord, RunEnded, Delivery
  <1>6. /\ RecordSound(run') /\ RunBegun'
        /\ run'.status = "COMPLETED" => run'.intact = "UNCHANGED"
        /\ Verified(run) => Verified(run')
        /\ run'.intact = "CHANGED" \/ run'.delivery = run.delivery
        /\ run'.delivery # "NOT_SENT"
    BY <1>2, <1>4 DEF RunRecord, RecordSound, Ended, RunEnded, RunBegun, Verified
  <1>7. Calling' <=> Calling
    BY <1>1 DEF Calling, Overtaken
  <1>8. Spared => Spared'
    BY <1>2, <1>3, <1>6, <1>7 DEF Spared, Barred
  <1>9. Onward
    BY <1>1, <1>6, <1>8 DEF Onward
  <1>10. RunInv'
    <2>1. run'.delivery = "NOT_DELIVERED" => Spared'
      BY <1>0, <1>6, <1>8 DEF StoreInv, RunInv, Spared
    <2> QED
      BY <1>0, <1>3, <1>6, <2>1 DEF StoreInv, RunInv
  <1>11. JobInv' /\ NoWaveInv' /\ MessageInv'
    BY <1>0, <1>1, <1>2, <1>3, <1>6, <1>7, <1>8
       DEF StoreInv, JobInv, NoWaveInv, MessageInv
  <1>12. kind \in {"completed", "ended", "recovery"}
         /\ (kind = "completed" => run'.status = "COMPLETED")
    OBVIOUS
  <1> HIDE DEF kind
  <1>13. phase \in 1..Agents /\ inbox \in Seq([kind : {"completed", "ended", "recovery"},
                                              phase : 1..Agents])
    BY <1>0 DEF DataOK
  <1>14. Event(kind) \in [kind : {"completed", "ended", "recovery"}, phase : 1..Agents]
         /\ Event(kind).kind = kind /\ Event(kind).phase = phase
    BY <1>12, <1>13 DEF Event
  <1>15. inbox' \in Seq([kind : {"completed", "ended", "recovery"}, phase : 1..Agents])
    <2> HIDE DEF kind
    <2>1. ASSUME NEW S, NEW s \in Seq(S), NEW e \in S
          PROVE  Append(s, e) \in Seq(S)
      OBVIOUS
    <2> QED
      BY <1>1, <1>13, <1>14, <2>1
  <1>16. InboxInv'
    <2>1. ASSUME NEW i \in DOMAIN inbox'
          PROVE  \/ i \in DOMAIN inbox /\ inbox'[i] = inbox[i]
                 \/ inbox'[i] = Event(kind)
      BY <1>1, <1>13
    <2>2. phase' <= phase'
      BY <1>1, <1>13, WaveAssumption
    <2>3. ASSUME NEW i \in DOMAIN inbox'
          PROVE  /\ inbox'[i].phase <= phase'
                 /\ inbox'[i].kind = "completed" /\ inbox'[i].phase = phase' => Verified(run')
      <3>1. CASE i \in DOMAIN inbox /\ inbox'[i] = inbox[i]
        BY <1>0, <1>1, <1>6, <3>1 DEF StoreInv, InboxInv
      <3>2. CASE inbox'[i] = Event(kind)
        BY <1>1, <1>6, <1>12, <1>14, <2>2, <3>2 DEF Verified
      <3> QED
        BY <2>1, <3>1, <3>2
    <2> QED
      BY <2>3 DEF InboxInv
  <1> QED
    BY <1>1, <1>3, <1>5, <1>9, <1>10, <1>11, <1>15, <1>16, OutsideKeeps DEF StoreInv

\* The application dies: nothing is left of the processes.
\* The application dies, or its start fails: nothing is held any more, and no
\* call of it can send.
LEMMA ForgetStep ==
  ASSUME TypeOK, IInv, Forget, crashes' \in 0..MaxCrashes
  PROVE  TypeOK' /\ IInv'
  <1>0. DataOK /\ ControlOK /\ StoreInv
    BY TypeParts DEF IInv
  <1>1. UNCHANGED <<wave, phase, job, message, run, entry, released, faults, stops>>
    BY DEF Forget, discourse, runtime
  <1>2. /\ pc' = Stopped /\ lock' = "free" /\ handling' = [p \in Procs |-> FALSE]
        /\ seen' = [p \in Procs |-> NoRun] /\ stale' = [p \in Procs |-> {}]
        /\ after' = Stopped /\ back' = Stopped
        /\ inbox' = <<>> /\ wake' = FALSE /\ up' = "down"
        /\ \E s \in {"lost", provider.state} :
             /\ provider' = [provider EXCEPT !.state = s, !.owed = FALSE]
             /\ s # "working"
    BY DEF Forget
  <1>3. /\ provider' \in [state : {"idle", "working", "done", "lost"}, sent : BOOLEAN,
                          owed : BOOLEAN, answer : Answers]
        /\ ~provider'.owed /\ provider'.sent = provider.sent /\ provider'.state # "working"
    BY <1>0, <1>2 DEF DataOK
  <1>4. DataOK'
    <2>1. wake' \in BOOLEAN
      BY <1>2, Zenon
    <2>2. inbox' \in Seq([kind : {"completed", "ended", "recovery"}, phase : 1..Agents])
      BY <1>1, <1>2
    <2> QED
      BY <1>0, <1>1, <1>2, <1>3, <2>1, <2>2 DEF DataOK
  <1>5. ControlOK'
    BY <1>2, NoRunType, ProcLabels DEF ControlOK, Stopped
  <1>6. ~Calling'
    BY <1>2 DEF Calling, Stopped, Procs
  <1>7. Spared => Spared'
    BY <1>1, <1>3, <1>6 DEF Spared, Barred, RunBegun
  <1>8. RunInv' /\ JobInv'
    BY <1>0, <1>1, <1>3, <1>6, <1>7 DEF StoreInv, RunInv, JobInv, RecordSound,
       RunBegun, Ended
  <1>9. NoWaveInv' /\ MessageInv' /\ InboxInv'
    BY <1>0, <1>1, <1>2 DEF StoreInv, NoWaveInv, MessageInv, InboxInv, Verified,
       Stopped, Early
  <1>10. ASSUME NEW p \in Procs
         PROVE  ProcInv(p)'
    <2>1. pc'[p] = "idle" /\ seen'[p] = NoRun /\ stale'[p] = {} /\ after'[p] = "idle"
          /\ back'[p] = "idle"
      BY <1>2 DEF Stopped
    <2>2. Landed(p)
      BY <2>1 DEF Landed, LockInv, Held, Plain, Labels, Blind, Special, SeenUsed,
         Afters, Backs
    <2> QED
      BY <2>2, PlainInv
  <1> QED
    BY <1>4, <1>5, <1>8, <1>9, <1>10, TypeParts DEF IInv, StoreInv

LEMMA CrashSteps ==
  ASSUME TypeOK, IInv, Crash \/ BootFails
  PROVE  TypeOK' /\ IInv'
  <1>1. crashes \in 0..MaxCrashes
    BY TypeParts DEF DataOK
  <1>2. crashes' \in 0..MaxCrashes /\ Forget
    BY <1>1, WaveAssumption DEF Crash, BootFails
  <1> QED
    BY <1>2, ForgetStep

LEMMA RestartStep ==
  ASSUME TypeOK, IInv, Restart
  PROVE  TypeOK' /\ IInv'
  <1> DEFINE p == "boot"
  <1>0. DataOK /\ ControlOK /\ StoreInv /\ p \in Procs /\ WayInv(p) /\ LockInv(p)
    BY TypeParts DEF IInv, ProcInv, Procs
  <1>1. /\ up' = "starting" /\ Move(p, "settling")
        /\ UNCHANGED <<wave, phase, job, message, entry, released, inbox, wake, crashes, faults,
                       stops>>
        /\ (run' = run \/ (run' = Lost(run) /\ Owned(run)))
    BY Zenon DEF Restart, Move, discourse
  <1>2. run \in RunRecord /\ RecordSound(run)
    BY <1>0 DEF DataOK, StoreInv, RunInv
  <1>3. PICK o \in BOOLEAN : /\ provider' = [provider EXCEPT !.owed = o]
                             /\ o => run.intact = "PENDING"
                                       /\ (Ended(run') \/ run'.status = "RECOVERY_REQUIRED")
    BY Zenon DEF Restart
  <1>4. /\ provider' \in [state : {"idle", "working", "done", "lost"}, sent : BOOLEAN,
                          owed : BOOLEAN, answer : Answers]
        /\ provider'.owed = o /\ provider'.sent = provider.sent
        /\ provider'.state = provider.state
    BY <1>0, <1>3 DEF DataOK
  <1>5. run' \in RunRecord
    BY <1>1, <1>2, RunUpdates
  <1>6. Follows(run') /\ run'.intact = run.intact
    BY <1>1, <1>2 DEF Lost, Owned, Follows, RecordSound, RunBegun, Verified, Ended,
       RunEnded,
       RunRecord
  <1>7. DataOK'
    BY <1>0, <1>1, <1>4, <1>5 DEF DataOK
  <1>8. "settling" \in Labels /\ "settling" \in Plain /\ "settling" \in Recovering
        /\ "settling" \notin Held
    BY DEF Labels, Blind, Plain, Special, SeenUsed, Recovering, Held
  <1>9. ControlOK' /\ Beside(p) /\ Arrived(p, "settling")
    BY <1>0, <1>1, <1>8, Moved
  <1>10. Landed(p)
    BY <1>0, <1>8, <1>9, ArrivedLands
  <1>11. Calling' => Calling
    BY <1>9 DEF Calling, Beside, Procs, Overtaken
  <1>12. Spared => Spared'
    BY <1>4, <1>6, <1>11 DEF Spared, Barred, RunBegun, Follows
  <1>13. Onward
    BY <1>1, <1>6, <1>12 DEF Onward, Follows
  <1>14. RunInv'
    <2>1. run'.delivery = "NOT_DELIVERED" => run.delivery = "NOT_DELIVERED"
      BY <1>1, <1>2 DEF Lost, RunRecord
    <2>2. o => RunBegun' /\ run'.intact # "CHANGED"
      BY <1>3, <1>6 DEF RunBegun, Ended, RunEnded
    <2>3. run'.delivery = "NOT_SENT" => run.delivery = "NOT_SENT"
      BY <1>1, <1>2 DEF Lost, RunRecord
    <2> QED
      BY <1>0, <1>4, <1>6, <1>11, <1>12, <2>1, <2>2, <2>3 DEF StoreInv, RunInv, Follows
  <1>15. JobInv' /\ InboxInv' /\ MessageInv'
    BY <1>0, <1>1, <1>4, <1>6, <1>11, <1>12
       DEF StoreInv, JobInv, InboxInv, MessageInv, Follows
  <1>16. NoWaveInv'
    <2>1. run = NoRun => run' = run
      BY <1>1 DEF NoRun, Owned
    <2>2. "settling" \in Early
      BY DEF Early
    <2> QED
      BY <1>0, <1>1, <1>9, <2>1, <2>2 DEF StoreInv, NoWaveInv, Beside, Arrived
  <1>17. \A q \in Procs \ {p} : ProcInv(q)'
    BY <1>0, <1>1, <1>9, <1>13, OthersKeep
  <1>18. ProcInv(p)'
    BY <1>0, <1>10, PlainInv
  <1> QED
    BY <1>7, <1>9, <1>14, <1>15, <1>16, <1>17, <1>18, TypeParts DEF IInv, StoreInv

LEMMA BootStep ==
  ASSUME TypeOK, IInv, BootSettles
  PROVE  TypeOK' /\ IInv'
  <1>0. DataOK /\ StoreInv /\ "boot" \in Procs
    BY TypeParts DEF IInv, Procs
  <1>1. SetEntry("boot", Closing(entry, Ended(run)), "lockRecover")
    BY DEF BootSettles
  <1>2. /\ Closing(entry, Ended(run)) \in EntryStatus
        /\ Closing(entry, Ended(run)) = "LEASED" => entry = "LEASED"
        /\ entry = "none" => Closing(entry, Ended(run)) = entry
    BY <1>0 DEF Closing, DataOK, EntryStatus
  <1>3. wave # "none" \/ entry = "none"
    BY <1>0 DEF StoreInv, NoWaveInv
  <1>4. "lockRecover" \in Recovering
    BY DEF Recovering
  <1> QED
    BY <1>0, <1>1, <1>2, <1>3, <1>4, EntryStep, PumpPlain

-----------------------------------------------------------------------------
(* The invariant holds at first and is kept by every step.                 *)

\* Every step of a process.
LEMMA ProcessSteps ==
  ASSUME TypeOK, IInv, NEW p \in Procs, Process(p)
  PROVE  TypeOK' /\ IInv'
  <1>1. CASE \/ Finish(p) \/ ActivateNextWave(p) \/ PrepareJob(p) \/ PrepareRun(p)
             \/ LinkJob(p) \/ QueueWave(p) \/ Notify(p)
    BY <1>1, FinishStep, PrepareSteps
  <1>2. CASE \/ CancelQueuedWave(p) \/ CancelIntent(p) \/ CancelUnsubmittedJob(p)
             \/ CancelRun(p) \/ CancelEntry(p) \/ CancelDone(p)
    BY <1>2, CancelSteps
  <1>3. CASE \/ StopActiveWave(p) \/ StopIntent(p) \/ RequestCancel(p) \/ StopRun(p)
             \/ InterruptTurn(p) \/ InterruptReturns(p) \/ InterruptedJob(p)
             \/ StopRecovery(p) \/ StopRecovered(p) \/ InterruptedRecovered(p)
             \/ RecoveredPending(p) \/ RecoveredDone(p) \/ FinishStop(p)
    BY <1>3, StopSteps
  <1>4. CASE MarkRun(p) \/ MarkEntry(p) \/ MarkJob(p) \/ MarkWave(p)
    BY <1>4, MarkSteps
  <1>5. CASE \/ Ingest(p) \/ Project(p) \/ ProjectedPeer(p) \/ FailResult(p)
             \/ AppendMessage(p) \/ Complete(p) \/ IngestFailure(p) \/ CloseFailedJob(p)
             \/ SettleRuntime(p)
    BY <1>5, ResultSteps
  <1>6. CASE \/ LockRecover(p) \/ LockAdvance(p) \/ Recover(p) \/ Relink(p) \/ ReleaseEntry(p)
             \/ Requeue(p) \/ Decide(p)
    BY <1>6, RecoverReads, RequeueSteps, DecideStep
  <1>7. CASE \/ RecoverCancelRun(p) \/ RecoverCancelEntry(p) \/ RecoverCancelJob(p)
             \/ RecoverInterrupted(p) \/ RecoverInterruptedJob(p) \/ RecoverRequired(p)
             \/ RecoverRunning(p) \/ RecoverRunningJob(p) \/ RecoverStarting(p)
             \/ RecoverStartingJob(p) \/ RecoverStartingWave(p)
    BY <1>7, RecoverSteps
  <1>8. CASE Reconcile(p) \/ AdvanceWave(p) \/ AddAuthorJob(p)
    BY <1>8, ReconcileStep, AdvanceStep, AuthorStep
  <1> QED
    BY <1>1, <1>2, <1>3, <1>4, <1>5, <1>6, <1>7, <1>8 DEF Process

\* The invariant is inductive.
LEMMA Inductive ==
  ASSUME TypeOK, IInv, [Next]_vars
  PROVE  TypeOK' /\ IInv'
  <1>1. CASE Send \/ StopWave \/ TakeEvent
    BY <1>1, SendStep, StopStep, TakeStep
  <1>2. CASE StartCall
    BY <1>2, ReturnSteps DEF StartCall
  <1>3. CASE PumpStep
    BY <1>3, LeaseSteps, DispatchSteps, StartStep, StartedSteps DEF PumpStep
  <1>4. CASE Environment
    BY <1>4, SubmitStep, AcceptStep, EndSteps, VerifyStep, CrashSteps, RestartStep,
       BootStep
       DEF Environment
  <1>5. CASE \E p \in Procs : Process(p)
    BY <1>5, ProcessSteps
  <1>6. CASE UNCHANGED vars
    <2>1. UNCHANGED <<wave, phase, job, message, run, entry, released, provider, inbox, wake, lock,
                      up, crashes, faults, stops, pc, handling, seen, stale, after, back>>
      BY <1>6 DEF vars, discourse, runtime, app, control, locals
    <2>2. TypeOK'
      BY <2>1 DEF TypeOK
    <2>3. StoreInv'
      BY <2>1 DEF IInv, StoreInv, RunInv, JobInv, NoWaveInv, MessageInv, InboxInv,
         RecordSound,
         RunBegun, Spared, Barred, Calling, Overtaken, Verified, Ended
    <2>4. ASSUME NEW p \in Procs
          PROVE  ProcInv(p)'
      BY <2>1 DEF IInv, ProcInv, LockInv, WayInv, SeenInv, ResultInv, PumpInv,
         RecordSound,
         RunBegun, Spared, Barred, Calling, Overtaken, Verified, Ended
    <2> QED
      BY <2>2, <2>3, <2>4 DEF IInv
  <1> QED
    BY <1>1, <1>2, <1>3, <1>4, <1>5, <1>6 DEF Next

LEMMA Initial == Init => TypeOK /\ IInv
  <1> SUFFICES ASSUME Init PROVE TypeOK /\ IInv
    OBVIOUS
  <1>1. TypeOK
    <2>1. DataOK
      <3>1. NewJob \in [status : JobStatus, delivery : Delivery]
        BY DEF NewJob, JobStatus, Delivery
      <3>2. NoTurn \in [state : {"idle", "working", "done", "lost"}, sent : BOOLEAN,
                        owed : BOOLEAN, answer : Answers]
        BY DEF NoTurn, Answers
      <3>3. released \in BOOLEAN /\ wake \in BOOLEAN
        BY Zenon DEF Init
      <3>4. inbox \in Seq([kind : {"completed", "ended", "recovery"}, phase : 1..Agents])
        BY DEF Init
      <3>5. 1 \in 1..Agents /\ 0 \in 0..MaxCrashes /\ 0 \in 0..MaxFaults /\ 0 \in 0..MaxStops
        BY WaveAssumption
      <3> QED
        BY <3>1, <3>2, <3>3, <3>4, <3>5, NoRunType DEF Init, DataOK, WaveStatus,
           EntryStatus
    <2>2. ControlOK
      BY NoRunType, ProcLabels DEF Init, ControlOK
    <2> QED
      BY <2>1, <2>2, TypeParts
  <1>2. ~Calling
    BY DEF Init, Calling, Procs
  <1>3. StoreInv
    <2>1. RecordSound(run) /\ run.delivery = "NOT_SENT" /\ job.delivery = "NOT_SENT"
          /\ job.status = "QUEUED"
      BY NoRunSound DEF Init, NoRun, NewJob
    <2>2. ~provider.sent /\ ~provider.owed /\ provider.state = "idle"
      BY DEF Init, NoTurn
    <2>3. RunInv /\ JobInv
      BY <1>2, <2>1, <2>2 DEF RunInv, JobInv
    <2>4. MessageInv /\ InboxInv /\ NoWaveInv
      BY <2>1 DEF Init, MessageInv, InboxInv, NoWaveInv, Early
    <2> QED
      BY <2>3, <2>4 DEF StoreInv
  <1>4. ASSUME NEW p \in Procs
        PROVE  ProcInv(p)
    <2>1. pc[p] = "idle" /\ seen[p] = NoRun /\ stale[p] = {} /\ after[p] = "idle"
          /\ back[p] = "idle"
      BY DEF Init
    <2>2. LockInv(p) /\ WayInv(p) /\ ResultInv(p) /\ PumpInv(p)
      BY <2>1 DEF LockInv, WayInv, ResultInv, PumpInv, Held, Afters, Backs
    <2>3. SeenInv(p)
      BY <2>1, NoRunSound DEF SeenInv, Overtaken, SeenUsed
    <2> QED
      BY <2>2, <2>3 DEF ProcInv
  <1> QED
    BY <1>1, <1>3, <1>4 DEF IInv

\* The records of the two stores, the queue of events and what the processes of
\* DiscourseRuntimeHost and DiscourseService hold have their types.
THEOREM TypeTheorem == Spec => []TypeOK
  <1>1. TypeOK /\ IInv /\ [Next]_vars => TypeOK' /\ IInv'
    BY Inductive
  <1> QED
    BY Initial, <1>1, PTL DEF Spec

\* The invariant: what DiscourseRuntimeCoordinator holds of a run between two
\* of its steps still says what it relies on, and a run or a job that counts as
\* not delivered is one no call can send any more, unless its repository
\* changed.
THEOREM InvariantTheorem == Spec => []IInv
  <1>1. TypeOK /\ IInv /\ [Next]_vars => TypeOK' /\ IInv'
    BY Inductive
  <1> QED
    BY Initial, <1>1, PTL DEF Spec

\* A message that ingestContribution or ingestReview publishes is the answer of
\* a completed turn whose repository was found unchanged, and no job counts as
\* completed without its message, whatever crashes, stops or recoveries came
\* between the turn, the append and the update of the job.
THEOREM PublishedTheorem == Spec => []PublishedIsVerified
  <1>1. IInv => PublishedIsVerified
    BY DEF IInv, StoreInv, MessageInv, PublishedIsVerified, Verified
  <1> QED
    BY InvariantTheorem, <1>1, PTL

\* A job that a cancel, a stop or recovery closed as one the provider never got
\* was never sent to it, unless the repository changed: no start that was under
\* way at the close sends it afterwards.
THEOREM NeverSentTheorem == Spec => []CanceledNeverSent
  <1>1. IInv => CanceledNeverSent
    BY DEF IInv, StoreInv, JobInv, Spared, Barred, CanceledNeverSent
  <1> QED
    BY InvariantTheorem, <1>1, PTL

-----------------------------------------------------------------------------
(* A settled wave is over.  What is settled is decided on records read long *)
(* before, so the invariant says where the records of the wave, the job and *)
(* the run may disagree, and of each process at the labels that lead to the *)
(* end of a job, why the turn is over by then.                              *)

\* A wave that is stopped or settled stays so; a run that will do no more; and
\* one that ended without an answer.
Final == Stopping \cup {"SETTLED"}
RunOver == run = NoRun \/ Ended(run)
Failed(r) == r.status \in {"FAILED", "INTERRUPTED"}

\* Whoever prepares a job that was not linked to its run yet, or will find it.
BootLinks == {"settling", "lockRecover", "recover", "relink", "failed"}
Linking ==
  \/ \E p \in Procs : lock = p /\ pc[p] = "link"
  \/ up = "down"
  \/ up = "starting" /\ pc["boot"] \in BootLinks

\* A settled wave has no job to do, and a job that ended no run.
OverInv ==
  /\ wave = "SETTLED" => job.status \in JobEnded
  /\ job.status \in JobEnded => RunOver

\* A job is queued without a run, but while it is linked to it.
NewInv ==
  /\ run.status = "none" => run = NoRun
  /\ run.status = "QUEUED" => run = NewRun
  /\ job.status = "QUEUED" => job.delivery = "NOT_SENT"
  /\ job.status = "QUEUED" /\ run # NoRun => run = NewRun /\ Linking

\* What the run says of the turn: none works for a run that ended; a call that
\* may still send is that of a run on its way; what is owed of a turn is the
\* verification of one that ended or was lost.
TurnInv ==
  /\ Ended(run) => provider.state # "working"
  /\ run.status = "COMPLETED" => provider.sent
  /\ provider.state # "idle" => provider.sent
  /\ Calling /\ ~provider.sent =>
       /\ run.status \in {"STARTING", "RECOVERY_REQUIRED"}
       /\ run.delivery \in {"SENDING", "AMBIGUOUS"} /\ ~run.turn
       /\ ~provider.owed
  /\ pc["pump"] = "calling" /\ Overtaken("pump") => ~provider.sent
  /\ provider.owed =>
       /\ provider.state # "working"
       /\ \/ Ended(run)
          \/ /\ run.status = "RECOVERY_REQUIRED" /\ run.delivery = "AMBIGUOUS"
             /\ Calling => provider.state = "lost"

\* The event of a turn that ended without an answer.
EventInv ==
  \A i \in DOMAIN inbox :
    inbox[i].kind = "ended" /\ inbox[i].phase = phase => Failed(run)

\* Nothing runs while the application is down; the user's request and the
\* recovery at a start hold the lock of the conversation.
LifeInv ==
  /\ up = "down" => provider.state # "working" /\ \A p \in Procs : pc[p] = "idle"
  /\ pc["user"] # "idle" => lock = "user" /\ up = "up"
  /\ pc["boot"] \notin {"idle", "failed", "settling", "lockRecover"} => lock = "boot"

\* The labels at which a job is prepared, a stop is carried out, a recovery is
\* marked, a turn is withdrawn; and those at which the turn is over.
Preparing == {"activate", "prepare", "prepareRun", "link", "queueWave", "notify"}
Stops == {"cancelCheck", "cancelIntent", "cancelJob", "cancelDone", "stopCheck",
  "stopIntent", "requestCancel", "stopRun", "interrupt", "interrupting",
  "interruptedJob", "stopRecovered", "stopRecovery", "interruptedRecovered",
  "recoveredPending", "recoveredDone", "stopWave"}
Marks == {"markRun", "markEntry", "markJob", "markWave"}
Withdrawing == {"cancelRun", "cancelEntry"}
RejectWay == {"cancelRun", "cancelEntry", "rejectJob", "reconcile", "lockAdvance"}
Over == {"rejectJob", "cancelEntry", "cancelDone", "ingest", "project", "append",
  "complete", "failResult", "fail", "failCanceled", "failFailed", "startFailed",
  "rCancelEntry", "rCancelJob"}
Begun == {"dispatchWave", "dispatchJob", "startRecovery", "ack"}
Marking == {"startRecovery", "rInterrupted", "rInterruptedJob", "rRequired"}

\* Who may stop a job: the user, or the pump that finds its wave stopped; and
\* what the pump knows of a turn whose context is stale.
Stoppable(p) ==
  \/ p = "user"
  \/ p = "pump" /\ wave \in Final /\ run # NoRun /\ job.status # "QUEUED"
Rejectable(p) == p = "pump" /\ run # NoRun /\ (Unsent(run) \/ Spared)

HoldInv(p) ==
  /\ pc[p] \in Preparing => lock = p
  /\ pc[p] \in Preparing \ {"activate"} => back[p] \in {"finish", "reconcile"}
  /\ pc[p] \in {"prepare", "prepareRun"} /\ run = NoRun => job.status = "QUEUED"
  /\ lock = p => ~Overtaken(p)
  /\ pc[p] = "handoff" => AwaitsAuthor /\ wave # "SETTLED"
  /\ pc[p] \in {"prepareRun", "link"} /\ job.status = "QUEUED" => "job" \notin stale[p]

StopInv(p) ==
  /\ \/ pc[p] \in Stops
     \/ pc[p] \in Marks /\ back[p] \in Stops
     \/ pc[p] \in Withdrawing /\ back[p] # "rejectJob"
     => ~Overtaken(p) /\ Stoppable(p)
  /\ \/ pc[p] = "rejectJob"
     \/ pc[p] \in Withdrawing /\ back[p] = "rejectJob"
     => ~Overtaken(p) /\ Rejectable(p)
  /\ pc[p] \in Withdrawing \cup {"rejectJob", "rCancelRun"} => job.status # "QUEUED"
  /\ pc[p] \in {"markRun", "markEntry", "markJob"} => lock = p \/ back[p] \in Stops
  /\ pc[p] = "markRun" => RunBegun /\ ~Overtaken(p)
  /\ pc[p] = "stopIntent" => back[p] \in Stops
  /\ back[p] = "rejectJob" => pc[p] \in RejectWay /\ after[p] = "lockAdvance"

EndsInv(p) ==
  /\ pc[p] \in Over /\ ~Overtaken(p) => Ended(run)
  /\ pc[p] \in SeenUsed /\ ~Overtaken(p) /\ Ended(seen[p]) => Ended(run)
  /\ pc[p] = "rCancelRun" => NeverSent(seen[p])
  /\ pc[p] = "recoveredDone" =>
       RunOver \/ "job" \in stale[p] \/ job.status \notin {"QUEUED", "RECOVERY_REQUIRED"}
  /\ pc[p] = "fail" /\ lock # p /\ ~Overtaken(p) => Verified(run) \/ Failed(run)
  /\ pc[p] \in Begun /\ ~Overtaken(p) => run # NoRun
  /\ pc[p] = "relink" => back[p] \in {"release", "requeue"}
  /\ pc[p] \in Marking => back[p] \notin Stops

ActInv(p) == HoldInv(p) /\ StopInv(p) /\ EndsInv(p)

SInv == /\ OverInv /\ NewInv /\ TurnInv /\ EventInv /\ LifeInv
        /\ \A p \in Procs : ActInv(p)

\* What the steps start from: the invariants hold, and those proved above go on
\* to hold.
Sound == TypeOK /\ IInv /\ SInv /\ TypeOK' /\ IInv'

-----------------------------------------------------------------------------
(* What a step keeps of what the other processes claim.                    *)

\* What every step but the hand-off does to the records.
Going(p) ==
  /\ phase' = phase
  /\ RunBegun => RunBegun'
  /\ Ended(run) => Ended(run')
  /\ Failed(run) => Failed(run')
  /\ Verified(run) => Verified(run')
  /\ Spared => Spared'
  /\ run # NoRun => run' # NoRun
  /\ job.status # "QUEUED" => job'.status # "QUEUED"
  /\ wave \in Final => wave' \in Final
  /\ p # "pump" /\ Unsent(run) => Unsent(run') \/ Spared'
  /\ run = NoRun /\ run' # NoRun => lock = p
  /\ job' # job => run # NoRun \/ lock = p
  /\ job' = job \/ JobNews(p)
  /\ AwaitsAuthor /\ wave # "SETTLED" /\ lock # p => AwaitsAuthor' /\ wave' # "SETTLED"

\* The steps of the processes, and those of nobody's.
Actors == Procs \cup {"provider"}

LEMMA OtherActs ==
  ASSUME Sound, NEW p \in Actors, Beside(p), Going(p), NEW q \in Procs \ {p}
  PROVE  ActInv(q)'
  <1>0. ActInv(q) /\ LifeInv /\ LockInv(q) /\ SeenInv(q)
    BY DEF Sound, SInv, IInv, ProcInv
  <1>1. /\ pc'[q] = pc[q] /\ seen'[q] = seen[q]
        /\ after'[q] = after[q] /\ back'[q] = back[q]
        /\ stale[q] \subseteq stale'[q]
        /\ Overtaken(q)' <=> Overtaken(q)
        /\ "job" \in stale'[q] => "job" \in stale[q] \/ job'.status # "QUEUED"
        /\ lock = q <=> lock' = q
    BY DEF Beside, Overtaken
  <1>2. lock = q => lock # p
    OBVIOUS
  <1>3. HoldInv(q)'
    <2>1. pc[q] = "handoff" => lock = q
      BY <1>0 DEF LockInv, Held
    <2>2. pc[q] \in {"prepare", "prepareRun"} => lock = q
      BY <1>0 DEF ActInv, HoldInv, Preparing
    <2>3. (pc[q] \in Preparing => lock = q)'
          /\ (pc[q] \in Preparing \ {"activate"} => back[q] \in {"finish", "reconcile"})'
          /\ (lock = q => ~Overtaken(q))'
      BY <1>0, <1>1 DEF ActInv, HoldInv
    <2>4. (pc[q] \in {"prepare", "prepareRun"} /\ run = NoRun => job.status = "QUEUED")'
      BY <1>0, <1>1, <1>2, <2>2 DEF ActInv, HoldInv, Going
    <2>5. (pc[q] = "handoff" => AwaitsAuthor /\ wave # "SETTLED")'
      BY <1>0, <1>1, <1>2, <2>1 DEF ActInv, HoldInv, Going
    <2>6. (pc[q] \in {"prepareRun", "link"} /\ job.status = "QUEUED"
             => "job" \notin stale[q])'
      BY <1>0, <1>1 DEF ActInv, HoldInv, Going
    <2> QED
      BY <2>3, <2>4, <2>5, <2>6 DEF HoldInv
  <1>4. Stoppable(q) => Stoppable(q)'
    BY DEF Stoppable, Going
  <1>5. Rejectable(q) => Rejectable(q)'
    BY DEF Rejectable, Going
  <1>6. StopInv(q)'
    BY <1>0, <1>1, <1>4, <1>5 DEF ActInv, StopInv, Going
  <1>7. EndsInv(q)'
    <2>1. (pc[q] \in Over /\ ~Overtaken(q) => Ended(run))'
          /\ (pc[q] \in SeenUsed /\ ~Overtaken(q) /\ Ended(seen[q]) => Ended(run))'
          /\ (pc[q] \in Begun /\ ~Overtaken(q) => run # NoRun)'
          /\ (pc[q] = "relink" => back[q] \in {"release", "requeue"})'
          /\ (pc[q] \in Marking => back[q] \notin Stops)'
      BY <1>0, <1>1 DEF ActInv, EndsInv, Going, Ended
    <2>2. (pc[q] = "rCancelRun" => NeverSent(seen[q]))'
      BY <1>0, <1>1 DEF ActInv, EndsInv, NeverSent, Unsent
    <2>3. (pc[q] = "fail" /\ lock # q /\ ~Overtaken(q) => Verified(run) \/ Failed(run))'
      BY <1>0, <1>1 DEF ActInv, EndsInv, Going
    <2>4. ASSUME pc[q] = "recoveredDone"
          PROVE  \/ RunOver' \/ "job" \in stale'[q]
                 \/ job'.status \notin {"QUEUED", "RECOVERY_REQUIRED"}
      <3>1. RunOver \/ "job" \in stale[q] \/ job.status \notin {"QUEUED", "RECOVERY_REQUIRED"}
        BY <1>0, <2>4 DEF ActInv, EndsInv
      <3>2. Stoppable(q)
        BY <1>0, <2>4 DEF ActInv, StopInv, Stops
      <3>3. run = NoRun => lock = q
        BY <1>0, <2>4, <3>2 DEF Stoppable, LifeInv
      <3>4. RunOver => RunOver'
        BY <1>2, <3>3 DEF RunOver, Going
      <3>5. job' = job \/ "job" \in stale'[q]
        BY <2>4 DEF Going, JobNews, Blind
      <3> QED
        BY <1>1, <3>1, <3>4, <3>5
    <2> QED
      BY <1>1, <2>1, <2>2, <2>3, <2>4 DEF EndsInv
  <1> QED
    BY <1>3, <1>6, <1>7 DEF ActInv

-----------------------------------------------------------------------------
(* What a process claims where it arrives.                                 *)

Claimed == Preparing \cup Stops \cup Marks \cup Withdrawing \cup Over \cup SeenUsed
             \cup Begun \cup Marking \cup {"handoff"}

LEMMA FreeActs ==
  ASSUME NEW p \in Procs, pc'[p] \notin Claimed, lock' = p => ~Overtaken(p)',
         back'[p] = "rejectJob" => pc'[p] \in RejectWay /\ after'[p] = "lockAdvance"
  PROVE  ActInv(p)'
  <1>1. HoldInv(p)'
    BY DEF HoldInv, Claimed, Preparing
  <1>2. StopInv(p)'
    BY DEF StopInv, Claimed, Stops, Marks, Withdrawing, Over, SeenUsed
  <1>3. EndsInv(p)'
    BY DEF EndsInv, Claimed, Stops, Over, SeenUsed
  <1> QED
    BY <1>1, <1>2, <1>3 DEF ActInv

LEMMA StopActs ==
  ASSUME NEW p \in Procs, pc'[p] \in Stops, ~Overtaken(p)', Stoppable(p)',
         back'[p] # "rejectJob", pc'[p] = "stopIntent" => back'[p] \in Stops,
         pc'[p] = "cancelDone" => Ended(run)',
         pc'[p] = "recoveredDone" =>
           \/ RunOver' \/ "job" \in stale'[p]
           \/ job'.status \notin {"QUEUED", "RECOVERY_REQUIRED"}
  PROVE  ActInv(p)'
  <1>1. HoldInv(p)'
    BY DEF HoldInv, Stops, Preparing
  <1>2. StopInv(p)'
    BY DEF StopInv, Stops, Marks, Withdrawing
  <1>3. EndsInv(p)'
    BY DEF EndsInv, Stops, Over, SeenUsed, Begun, Marking
  <1> QED
    BY <1>1, <1>2, <1>3 DEF ActInv

LEMMA MarkActs ==
  ASSUME NEW p \in Procs, pc'[p] \in Marks, lock' = p => ~Overtaken(p)',
         back'[p] # "rejectJob", back'[p] \in Stops => ~Overtaken(p)' /\ Stoppable(p)',
         pc'[p] # "markWave" => lock' = p \/ back'[p] \in Stops,
         pc'[p] = "markRun" => RunBegun' /\ ~Overtaken(p)'
  PROVE  ActInv(p)'
  <1>1. HoldInv(p)'
    BY DEF HoldInv, Marks, Preparing
  <1>2. StopInv(p)'
    <2>1. pc'[p] \notin Stops \cup Withdrawing \cup {"rejectJob", "rCancelRun", "stopIntent"}
      BY DEF Stops, Marks, Withdrawing
    <2> QED
      BY <2>1 DEF StopInv, Marks
  <1>3. EndsInv(p)'
    BY DEF EndsInv, Marks, Over, SeenUsed, Begun, Marking
  <1> QED
    BY <1>1, <1>2, <1>3 DEF ActInv

LEMMA OverActs ==
  ASSUME NEW p \in Procs, pc'[p] \in Over \ {"rejectJob", "cancelEntry", "cancelDone"},
         lock' = p => ~Overtaken(p)', back'[p] # "rejectJob",
         ~Overtaken(p)' => Ended(run)',
         pc'[p] = "fail" /\ lock' # p /\ ~Overtaken(p)' => (Verified(run) \/ Failed(run))'
  PROVE  ActInv(p)'
  <1>1. HoldInv(p)'
    BY DEF HoldInv, Over, Preparing
  <1>2. StopInv(p)'
    BY DEF StopInv, Over, Stops, Marks, Withdrawing
  <1>3. EndsInv(p)'
    BY DEF EndsInv, Over, SeenUsed, Begun, Marking
  <1> QED
    BY <1>1, <1>2, <1>3 DEF ActInv

LEMMA SeenActs ==
  ASSUME NEW p \in Procs, pc'[p] \in SeenUsed \cup Begun \cup Marking, lock' = p => ~Overtaken(p)',
         back'[p] # "rejectJob",
         pc'[p] \in SeenUsed /\ ~Overtaken(p)' /\ Ended(seen'[p]) => Ended(run)',
         pc'[p] = "rCancelRun" => NeverSent(seen'[p]) /\ job'.status # "QUEUED",
         pc'[p] \in Begun /\ ~Overtaken(p)' => run' # NoRun,
         pc'[p] = "relink" => back'[p] \in {"release", "requeue"},
         pc'[p] \in Marking => back'[p] \notin Stops
  PROVE  ActInv(p)'
  <1>1. HoldInv(p)'
    BY DEF HoldInv, SeenUsed, Begun, Marking, Preparing
  <1>2. StopInv(p)'
    BY DEF StopInv, SeenUsed, Begun, Marking, Stops, Marks, Withdrawing
  <1>3. EndsInv(p)'
    BY DEF EndsInv, SeenUsed, Begun, Over, Marking
  <1> QED
    BY <1>1, <1>2, <1>3 DEF ActInv

LEMMA PrepareActs ==
  ASSUME NEW p \in Procs, pc'[p] \in Preparing, lock' = p, ~Overtaken(p)',
         back'[p] # "rejectJob",
         pc'[p] # "activate" => back'[p] \in {"finish", "reconcile"},
         pc'[p] \in {"prepare", "prepareRun"} /\ run' = NoRun => job'.status = "QUEUED",
         pc'[p] \in {"prepareRun", "link"} /\ job'.status = "QUEUED" => "job" \notin stale'[p]
  PROVE  ActInv(p)'
  <1>1. HoldInv(p)'
    BY DEF HoldInv, Preparing
  <1>2. StopInv(p)'
    BY DEF StopInv, Preparing, Stops, Marks, Withdrawing
  <1>3. EndsInv(p)'
    BY DEF EndsInv, Preparing, SeenUsed, Begun, Over, Marking
  <1> QED
    BY <1>1, <1>2, <1>3 DEF ActInv

LEMMA ThrewActs ==
  ASSUME NEW p \in Procs, Threw(p)
  PROVE  ActInv(p)'
  <1>1. pc'[p] \notin Claimed
    BY DEF Threw, Claimed, Preparing, Stops, Marks, Withdrawing, Over, SeenUsed,
       Begun, Marking
  <1> QED
    BY <1>1, FreeActs DEF Threw, Overtaken

\* What the process that arrives held until now.
LEMMA Holding ==
  ASSUME Sound, NEW p \in Procs
  PROVE  /\ ActInv(p) /\ LockInv(p) /\ WayInv(p) /\ SeenInv(p) /\ ResultInv(p)
         /\ PumpInv(p)
         /\ pc[p] \notin RejectWay => back[p] # "rejectJob"
         /\ lock = p => ~Overtaken(p)
  BY DEF Sound, SInv, IInv, ProcInv, ActInv, StopInv, HoldInv

-----------------------------------------------------------------------------
(* Steps that write neither the job nor the run.                           *)

WaveGoes(p) ==
  /\ wave \in Final => wave' \in Final
  /\ wave' = "SETTLED" => wave = "SETTLED" \/ job.status \in JobEnded
  /\ AwaitsAuthor /\ wave # "SETTLED" /\ lock # p => AwaitsAuthor' /\ wave' # "SETTLED"

LifeGoes(p) ==
  /\ up # "down"
  /\ p = "user" /\ pc'[p] # "idle" => lock' = p /\ up = "up"
  /\ p = "boot" /\ pc'[p] \notin {"idle", "failed", "settling", "lockRecover"} => lock' = p

LinkGoes(p) ==
  job'.status = "QUEUED" /\ run # NoRun =>
    /\ pc[p] # "link"
    /\ p = "boot" /\ pc[p] \in BootLinks => pc'[p] \in BootLinks

UpGoes(p) == up' = up \/ (p = "boot" /\ pc[p] = "finish" /\ up' = "up")

LEMMA LinkKeeps ==
  ASSUME Sound, NEW p \in Procs, Beside(p), LinkGoes(p), UpGoes(p),
         job'.status = "QUEUED", run # NoRun, Linking
  PROVE  Linking'
  <1>0. LifeInv
    BY DEF Sound, SInv
  <1>1. ASSUME NEW q \in Procs, lock = q, pc[q] = "link"
        PROVE  Linking'
    <2>1. q # p
      BY <1>1 DEF LinkGoes
    <2> QED
      BY <1>1, <2>1 DEF Beside, Linking
  <1>2. ASSUME up = "down"
        PROVE  Linking'
    <2>1. up' = up
      BY <1>0, <1>2 DEF LifeInv, UpGoes
    <2> QED
      BY <1>2, <2>1 DEF Linking
  <1>3. ASSUME up = "starting", pc["boot"] \in BootLinks
        PROVE  Linking'
    <2>1. up' = up
      BY <1>3 DEF UpGoes, BootLinks
    <2>2. pc'["boot"] \in BootLinks
      BY <1>3 DEF LinkGoes, Beside, Procs
    <2> QED
      BY <1>3, <2>1, <2>2 DEF Linking
  <1> QED
    BY <1>1, <1>2, <1>3 DEF Linking

LEMMA LifeKeeps ==
  ASSUME Sound, NEW p \in Procs, Beside(p), LifeGoes(p), UpGoes(p)
  PROVE  LifeInv'
  <1>0. LifeInv
    BY DEF Sound, SInv
  <1>1. up' # "down" /\ (up = "up" => up' = "up")
    BY DEF LifeGoes, UpGoes
  <1>2. (pc["user"] # "idle" => lock = "user" /\ up = "up")'
    BY <1>0, <1>1 DEF LifeInv, LifeGoes, Beside, Procs
  <1>3. (pc["boot"] \notin {"idle", "failed", "settling", "lockRecover"} => lock = "boot")'
    BY <1>0 DEF LifeInv, LifeGoes, Beside, Procs
  <1> QED
    BY <1>1, <1>2, <1>3 DEF LifeInv

LEMMA CalmHolds ==
  ASSUME Sound, NEW p \in Procs, Beside(p), ActInv(p)', pc'[p] # "calling",
         UNCHANGED <<phase, job, run, provider>>, EventInv',
         UpGoes(p), WaveGoes(p), LifeGoes(p), LinkGoes(p)
  PROVE  SInv'
  <1>0. OverInv /\ NewInv /\ TurnInv /\ EventInv
    BY DEF Sound, SInv
  <1>1. Calling' => Calling
    BY DEF Calling, Beside, Procs, Overtaken
  <1>2. Spared => Spared'
    BY <1>1 DEF Spared, Barred, RunBegun
  <1>3. Going(p)
    BY <1>2 DEF Going, WaveGoes, RunBegun, Ended, Failed, Verified, Unsent
  <1>4. \A q \in Procs \ {p} : ActInv(q)'
    BY <1>3, OtherActs DEF Actors
  <1>5. OverInv'
    BY <1>0 DEF OverInv, WaveGoes, RunOver, Ended
  <1>6. NewInv'
    BY <1>0, LinkKeeps DEF NewInv
  <1>7. TurnInv'
    <2>1. pc'["pump"] = "calling" => pc["pump"] = "calling" /\ Overtaken("pump")' = Overtaken("pump")
      BY DEF Beside, Procs, Overtaken
    <2> QED
      BY <1>0, <1>1, <2>1 DEF TurnInv, Ended
  <1> QED
    BY <1>4, <1>5, <1>6, <1>7, LifeKeeps DEF SInv

LEMMA QuietHolds ==
  ASSUME Sound, NEW p \in Procs, Beside(p), ActInv(p)', pc'[p] # "calling",
         UNCHANGED <<phase, job, run, provider, inbox>>,
         UpGoes(p), WaveGoes(p), LifeGoes(p), LinkGoes(p)
  PROVE  SInv'
  <1>1. EventInv'
    BY DEF Sound, SInv, EventInv, Failed
  <1> QED
    BY <1>1, CalmHolds

\* Where a process is at work, under the lock of the conversation if it needs it.
Outer == {"idle", "failed", "settling", "lockRecover", "recover", "link", "relink"}

LEMMA InnerGoes ==
  ASSUME Sound, NEW p \in Procs, pc[p] \notin Outer \/ (pc[p] = "relink" /\ Threw(p)),
         lock' = lock \/ Threw(p)
  PROVE  LifeGoes(p) /\ LinkGoes(p)
  <1>0. LifeInv
    BY DEF Sound, SInv
  <1>1. pc[p] \notin {"idle", "failed", "settling", "lockRecover", "link"}
    BY DEF Outer
  <1>2. LifeGoes(p)
    BY <1>0, <1>1 DEF LifeInv, LifeGoes, Threw
  <1>3. LinkGoes(p)
    BY <1>1 DEF LinkGoes, Outer, BootLinks, Threw
  <1> QED
    BY <1>2, <1>3

\* What a process holds that moved on, where nothing is claimed of it.
LEMMA ArrivedFree ==
  ASSUME Sound, NEW p \in Procs, NEW next, next \notin Claimed, Arrived(p, next),
         pc[p] \notin RejectWay
  PROVE  ActInv(p)'
  <1>1. back[p] # "rejectJob" /\ (lock = p => ~Overtaken(p))
    BY Holding
  <1> QED
    BY <1>1, FreeActs DEF Arrived, Overtaken

LEMMA SawFree ==
  ASSUME NEW p \in Procs, NEW label, NEW a, NEW b, label \notin Claimed,
         Saw(p, label, a, b), b # "rejectJob"
  PROVE  ActInv(p)'
  BY FreeActs DEF Saw, Overtaken

LEMMA SameWave ==
  ASSUME NEW p \in Procs, UNCHANGED <<wave, phase, job, provider>>
  PROVE  WaveGoes(p)
  BY DEF WaveGoes, AwaitsAuthor

LEMMA LookHolds ==
  ASSUME Sound, NEW p \in Procs, NEW label \in Labels \ {"calling"}, NEW a \in Labels,
         NEW b \in Labels, Look(p, label, a, b),
         UNCHANGED <<phase, job, run, provider, inbox, up>>, WaveGoes(p),
         pc[p] \notin Outer,
         label # "raise" /\ Saw(p, label, a, b) => ActInv(p)'
  PROVE  SInv'
  <1>1. ControlOK /\ run \in RunRecord
    BY TypeParts DEF Sound, DataOK
  <1>2. /\ Beside(p)
        /\ IF label = "raise" THEN Threw(p) ELSE Saw(p, label, a, b)
    BY <1>1, Looked
  <1>3. ActInv(p)'
    BY <1>2, ThrewActs
  <1>4. LifeGoes(p) /\ LinkGoes(p)
    BY <1>2, InnerGoes DEF Saw
  <1>5. pc'[p] # "calling"
    BY <1>2 DEF Saw, Threw
  <1> QED
    BY <1>2, <1>3, <1>4, <1>5, QuietHolds DEF UpGoes

LEMMA MoveHolds ==
  ASSUME Sound, NEW p \in Procs, NEW next \in Labels \ {"calling"}, Move(p, next),
         UNCHANGED <<phase, job, run, provider, inbox, up>>, WaveGoes(p),
         pc[p] \notin Outer, Arrived(p, next) => ActInv(p)'
  PROVE  SInv'
  <1>1. ControlOK
    BY TypeParts DEF Sound
  <1>2. Beside(p) /\ Arrived(p, next)
    BY <1>1, Moved
  <1>3. LifeGoes(p) /\ LinkGoes(p)
    BY <1>2, InnerGoes DEF Arrived
  <1>4. pc'[p] # "calling"
    BY <1>2 DEF Arrived
  <1> QED
    BY <1>2, <1>3, <1>4, QuietHolds DEF UpGoes

LEMMA ThrowHolds ==
  ASSUME Sound, NEW p \in Procs, Throw(p),
         UNCHANGED <<phase, job, run, provider, inbox, up>>, WaveGoes(p),
         pc[p] \notin Outer
  PROVE  SInv'
  <1>1. ControlOK
    BY TypeParts DEF Sound
  <1>2. Beside(p) /\ Threw(p)
    BY <1>1, Thrown
  <1>3. LifeGoes(p) /\ LinkGoes(p)
    BY <1>2, InnerGoes
  <1>4. pc'[p] # "calling"
    BY <1>2 DEF Threw
  <1> QED
    BY <1>2, <1>3, <1>4, ThrewActs, QuietHolds DEF UpGoes

\* A wave that is stopped by whoever holds the lock, or settled after its job.
LEMMA WaveHolds ==
  ASSUME Sound, NEW p \in Procs, NEW status \in WaveStatus,
         NEW next \in Labels \ {"calling"},
         TryWave(p, status, next) \/ SetWave(p, status, next),
         wave \in Final => status \in Final \/ status \notin {wave} \cup WaveTransitions[wave],
         status = "SETTLED" /\ wave # "SETTLED" => job.status \in JobEnded /\ ~AwaitsAuthor,
         status \in Stopping => wave \in Final \/ lock = p,
         pc[p] \notin Outer,
         Arrived(p, next) /\ (wave \in Final => wave' \in Final) => ActInv(p)'
  PROVE  SInv'
  <1>1. TypeOK
    BY DEF Sound
  <1>2. /\ Beside(p) /\ WaveMoves(p, status, next)
        /\ UNCHANGED <<phase, job, run, provider, inbox, up>>
    BY <1>1, WaveTried
  <1>3. WaveGoes(p)
    BY <1>2 DEF WaveMoves, WaveGoes, AwaitsAuthor, Final
  <1>4. ActInv(p)'
    BY <1>2, <1>3, ThrewActs DEF WaveMoves, WaveGoes
  <1>5. LifeGoes(p) /\ LinkGoes(p)
    BY <1>2, InnerGoes DEF WaveMoves, Arrived
  <1>6. pc'[p] # "calling"
    BY <1>2 DEF WaveMoves, Threw, Arrived
  <1> QED
    BY <1>2, <1>3, <1>4, <1>5, <1>6, QuietHolds DEF UpGoes

LEMMA EntryHolds ==
  ASSUME Sound, NEW p \in Procs, NEW status \in EntryStatus,
         NEW next \in Labels \ {"calling"}, SetEntry(p, status, next),
         pc[p] \notin Outer, Arrived(p, next) => ActInv(p)'
  PROVE  SInv'
  <1>1. TypeOK
    BY DEF Sound
  <1>2. /\ Beside(p) /\ Arrived(p, next)
        /\ UNCHANGED <<wave, phase, job, run, provider, inbox, up>>
    BY <1>1, EntrySet
  <1>3. LifeGoes(p) /\ LinkGoes(p)
    BY <1>2, InnerGoes DEF Arrived
  <1>4. pc'[p] # "calling"
    BY <1>2 DEF Arrived
  <1> QED
    BY <1>2, <1>3, <1>4, SameWave, QuietHolds DEF UpGoes

-----------------------------------------------------------------------------
(* Steps that write the job, and steps that write the run.                 *)

LEMMA JobEndsOnce ==
  ASSUME TypeOK
  PROVE  job.status \in JobEnded => JobTransitions[job.status] = {}
  <1>1. job.status \in JobStatus
    BY DEF TypeOK
  <1> QED
    BY <1>1 DEF JobTransitions, JobEnded

LEMMA JobHolds ==
  ASSUME Sound, NEW p \in Procs, NEW status \in JobStatus \ {"QUEUED"},
         NEW delivery \in Delivery, NEW next \in Labels \ {"calling"},
         TryJob(p, status, delivery, next),
         pc[p] \notin Outer \ {"link", "relink"},
         pc[p] = "link" => job'.status # "QUEUED",
         "job" \notin stale[p] => run # NoRun \/ lock = p,
         "job" \notin stale[p] /\ status \in JobEnded
           /\ status \in {job.status} \cup JobTransitions[job.status] => RunOver,
         Arrived(p, next) /\ "job" \notin stale[p] /\ job'.status = status => ActInv(p)'
  PROVE  SInv'
  <1>0. TypeOK /\ OverInv /\ NewInv /\ TurnInv /\ EventInv /\ LifeInv
    BY DEF Sound, SInv
  <1>1. /\ Beside(p)
        /\ UNCHANGED <<wave, phase, run, provider, inbox, up>>
        /\ \/ job' = job /\ Threw(p)
           \/ /\ "job" \notin stale[p] /\ job'.status = status
              /\ status \in {job.status} \cup JobTransitions[job.status]
              /\ Arrived(p, next) /\ JobNews(p)
    BY <1>0, JobTried
  <1>2. pc'[p] # "calling"
    BY <1>1 DEF Threw, Arrived
  <1>3. ActInv(p)'
    BY <1>1, ThrewActs
  <1>4. LifeGoes(p)
    <2>1. pc[p] \notin {"idle", "failed", "settling", "lockRecover"}
      BY DEF Outer
    <2> QED
      BY <1>0, <1>1, <2>1 DEF LifeGoes, LifeInv, Threw, Arrived
  <1>5. LinkGoes(p)
    BY <1>1 DEF LinkGoes, Outer, BootLinks, Threw
  <1>6. CASE job' = job /\ Threw(p)
    BY <1>1, <1>2, <1>3, <1>4, <1>5, <1>6, SameWave, QuietHolds DEF UpGoes
  <1>7. CASE /\ "job" \notin stale[p] /\ job'.status = status
             /\ status \in {job.status} \cup JobTransitions[job.status]
             /\ Arrived(p, next) /\ JobNews(p)
    <2>1. Calling' => Calling
      BY <1>1, <1>2 DEF Calling, Beside, Procs, Overtaken
    <2>2. Spared => Spared'
      BY <1>1, <2>1 DEF Spared, Barred, RunBegun
    <2>3. job.status \in JobEnded => job'.status = job.status
      BY <1>0, <1>7, JobEndsOnce
    <2>4. AwaitsAuthor => AwaitsAuthor'
      BY <1>1, <2>3 DEF AwaitsAuthor, JobEnded
    <2>5. Going(p)
      BY <1>1, <1>7, <2>2, <2>4 DEF Going, RunBegun, Ended, Failed, Verified, Unsent
    <2>6. \A q \in Procs \ {p} : ActInv(q)'
      BY <1>1, <2>5, OtherActs DEF Actors
    <2>7. OverInv'
      BY <1>0, <1>1, <1>7, <2>3 DEF OverInv, RunOver, Ended
    <2>8. NewInv'
      BY <1>0, <1>1, <1>7 DEF NewInv
    <2>9. TurnInv'
      <3>1. pc'["pump"] = "calling" =>
              pc["pump"] = "calling" /\ Overtaken("pump")' = Overtaken("pump")
        BY <1>1, <1>2 DEF Beside, Procs, Overtaken
      <3> QED
        BY <1>0, <1>1, <2>1, <3>1 DEF TurnInv, Ended
    <2>10. EventInv'
      BY <1>0, <1>1 DEF EventInv, Failed
    <2> QED
      BY <1>1, <1>3, <1>4, <2>6, <2>7, <2>8, <2>9, <2>10, LifeKeeps DEF SInv, UpGoes
  <1> QED
    BY <1>1, <1>6, <1>7

\* An update of a run that goes on from what it was.
Steady(p) ==
  /\ run' # run => run.status # "none" /\ run'.status \notin {"none", "QUEUED"}
  /\ run' # run /\ run.status = "QUEUED" => job.status # "QUEUED"
  /\ Ended(run) => Ended(run')
  /\ Failed(run) => Failed(run')
  /\ Verified(run) => Verified(run')
  /\ run.intact = "CHANGED" => run'.intact = "CHANGED"
  /\ p # "pump" /\ Unsent(run) => Unsent(run') \/ Spared'

LEMMA SteadyGoes ==
  ASSUME Sound, NEW p \in Actors, Beside(p), Steady(p), Calling' => Calling \/ ~Spared,
         UNCHANGED <<wave, phase, job>>,
         provider'.sent = provider.sent \/ Calling \/ provider.sent,
         AwaitsAuthor => provider'.answer = provider.answer
  PROVE  /\ Going(p) /\ OverInv'
         /\ \A q \in Procs \ {p} : ActInv(q)'
         /\ job.status = "QUEUED" => run' = run
  <1>0. TypeOK /\ OverInv /\ NewInv
    BY DEF Sound, SInv
  <1>1. run # NoRun => run' # NoRun
    BY <1>0 DEF Steady, NoRun
  <1>2. RunBegun => RunBegun'
    BY DEF Steady, RunBegun
  <1>3. Spared => Spared'
    BY <1>2 DEF Spared, Barred, Steady
  <1>4. run = NoRun => run' = NoRun
    BY DEF Steady, NoRun
  <1>5. AwaitsAuthor => AwaitsAuthor'
    BY DEF AwaitsAuthor
  <1>6. Going(p)
    BY <1>1, <1>2, <1>3, <1>4, <1>5 DEF Going, Steady
  <1>7. OverInv'
    BY <1>0, <1>4 DEF OverInv, RunOver, Steady
  <1>8. job.status = "QUEUED" => run' = run
    BY <1>0 DEF Steady, NewInv, NewRun, NoRun
  <1> QED
    BY <1>6, <1>7, <1>8, OtherActs

LEMMA RunHolds ==
  ASSUME Sound, NEW p \in Procs, Beside(p), ActInv(p)', Steady(p), TurnInv',
         pc'[p] # "calling", UNCHANGED <<wave, phase, job, provider, inbox, up>>,
         pc[p] \notin Outer, lock' = lock \/ Threw(p)
  PROVE  SInv'
  <1>0. NewInv /\ EventInv
    BY DEF Sound, SInv
  <1>1. Calling' => Calling
    BY DEF Calling, Beside, Procs, Overtaken
  <1>2. /\ Going(p) /\ OverInv' /\ \A q \in Procs \ {p} : ActInv(q)'
        /\ job.status = "QUEUED" => run' = run
    BY <1>1, SteadyGoes DEF Actors
  <1>3. LifeGoes(p) /\ LinkGoes(p)
    BY InnerGoes
  <1>4. NewInv'
    BY <1>0, <1>2, <1>3, LinkKeeps DEF NewInv, Steady, UpGoes
  <1>5. EventInv'
    BY <1>0 DEF EventInv, Steady
  <1> QED
    BY <1>2, <1>3, <1>4, <1>5, LifeKeeps DEF SInv, UpGoes

Places == Labels \ {"calling"}

LEMMA PlacesOf ==
  /\ Claimed \subseteq Places /\ Backs \subseteq Places /\ Afters \subseteq Places
  /\ {"lease", "check", "retry", "idle", "finish", "reconcile", "raise", "advance",
      "lockRecover", "lockAdvance", "dispatch", "start", "started", "settleRefused",
      "settle", "settleOnly", "recover", "rRunning", "rRunningJob",
      "rStartingJob", "rStartingWave", "ending"}
       \subseteq Places \ Claimed
  /\ Afters \cap Claimed = {}
  /\ Claimed \cap Outer = {"link", "relink"}
  <1>1. Claimed \subseteq Places
    BY DEF Claimed, Preparing, Stops, Marks, Withdrawing, Over, SeenUsed, Begun,
       Marking, Places,
       Labels, Blind
  <1>2. Backs \subseteq Places /\ Afters \subseteq Places
    BY DEF Backs, Afters, Places, Labels, Blind
  <1>3. {"lease", "check", "retry", "idle", "finish", "reconcile", "raise", "advance",
         "lockRecover", "lockAdvance", "dispatch", "start", "started", "settleRefused",
         "settle", "settleOnly", "recover", "rRunning", "rRunningJob",
         "rStartingJob", "rStartingWave", "ending"} \subseteq Places
    BY DEF Places, Labels, Blind
  <1>4. {"lease", "check", "retry", "idle", "finish", "reconcile", "raise", "advance",
         "lockRecover", "lockAdvance", "dispatch", "start", "started", "settleRefused",
         "settle", "settleOnly", "recover", "rRunning", "rRunningJob",
         "rStartingJob", "rStartingWave", "ending"} \cap Claimed = {}
    BY DEF Claimed, Preparing, Stops, Marks, Withdrawing, Over, SeenUsed, Begun, Marking
  <1>5. Afters \cap Claimed = {}
    BY DEF Claimed, Preparing, Stops, Marks, Withdrawing, Over, SeenUsed, Begun,
       Marking, Afters
  <1>6. Claimed \cap Outer = {"link", "relink"}
    BY DEF Claimed, Preparing, Stops, Marks, Withdrawing, Over, SeenUsed, Begun,
       Marking, Outer
  <1> QED
    BY <1>1, <1>2, <1>3, <1>4, <1>5, <1>6

\* What a read leaves, and where it leads.
LEMMA ReadsKeep ==
  ASSUME NEW p \in Procs, Reads
  PROVE  WaveGoes(p) /\ UNCHANGED <<wave, phase, job, run, provider, inbox, up>>
  BY SameWave DEF Reads, discourse, runtime, app

LEMMA PrepareHolds ==
  ASSUME Sound, NEW p \in Procs,
         \/ ActivateNextWave(p) \/ PrepareJob(p) \/ PrepareRun(p) \/ LinkJob(p)
         \/ QueueWave(p) \/ Notify(p)
  PROVE  SInv'
  <1>0. /\ TypeOK /\ IInv /\ DataOK /\ ControlOK
        /\ OverInv /\ NewInv /\ TurnInv /\ EventInv /\ LifeInv
    BY TypeParts DEF Sound, SInv
  <1>1. pc[p] \in Preparing
    BY DEF ActivateNextWave, PrepareJob, PrepareRun, LinkJob, QueueWave, Notify, At,
       Preparing
  <1>2. /\ lock = p /\ ~Overtaken(p) /\ pc[p] \notin RejectWay /\ back[p] # "rejectJob"
        /\ pc[p] # "activate" => back[p] \in {"finish", "reconcile"}
        /\ pc[p] \in {"prepare", "prepareRun"} /\ run = NoRun => job.status = "QUEUED"
        /\ pc[p] \in {"prepareRun", "link"} /\ job.status = "QUEUED" => "job" \notin stale[p]
    <2>1. pc[p] \notin RejectWay
      BY <1>1 DEF Preparing, RejectWay
    <2> QED
      BY <1>1, <2>1, Holding DEF ActInv, HoldInv
  <1>3. pc[p] \notin Outer \/ pc[p] = "link"
    BY <1>1 DEF Preparing, Outer
  <1>4. after[p] \in Places /\ back[p] \in Places
    BY <1>0, WaysOf, PlacesOf
  <1>5. Preparing \subseteq Places
    BY PlacesOf DEF Claimed
  <1>6. CASE ActivateNextWave(p)
    <2> DEFINE label == IF wave \notin Unsubmitted THEN "finish"
                        ELSE IF job.status = "QUEUED" THEN "prepare" ELSE "reconcile"
    <2>1. label \in {"finish", "reconcile"} \/ (label = "prepare" /\ job.status = "QUEUED")
      OBVIOUS
    <2>2. Look(p, label, "finish", "finish") /\ Reads /\ pc[p] = "activate"
      BY <1>6 DEF ActivateNextWave, At
    <2>3. label \in Places /\ "finish" \in Places
      BY <1>5, PlacesOf DEF Preparing
    <2> HIDE DEF label
    <2>4. Saw(p, label, "finish", "finish") => ActInv(p)'
      <3>1. CASE label \in {"finish", "reconcile"}
        BY <3>1, SawFree, PlacesOf
      <3>2. CASE label = "prepare" /\ job.status = "QUEUED"
        BY <1>2, <2>2, <3>2, PrepareActs, ReadsKeep DEF Saw, Preparing, Overtaken
      <3> QED
        BY <2>1, <3>1, <3>2
    <2> QED
      BY <1>3, <2>2, <2>3, <2>4, LookHolds, ReadsKeep DEF Places
  <1>7. CASE PrepareJob(p)
    <2>1. UNCHANGED <<phase, job, run, provider, inbox, up>> /\ pc[p] = "prepare"
      BY <1>7 DEF PrepareJob, runtime, app, At
    <2>2. wave' \in {wave, "SNAPSHOTTING"} /\ (wave' # wave => wave = "PLANNED")
      BY <1>7 DEF PrepareJob
    <2>3. WaveGoes(p)
      BY <2>1, <2>2 DEF WaveGoes, AwaitsAuthor, Final, Stopping
    <2>4. Throw(p) \/ Look(p, "prepareRun", after[p], back[p])
      BY <1>7 DEF PrepareJob
    <2>5. CASE Throw(p)
      BY <1>3, <2>1, <2>3, <2>5, ThrowHolds
    <2>6. CASE Look(p, "prepareRun", after[p], back[p])
      <3>1. Saw(p, "prepareRun", after[p], back[p]) => ActInv(p)'
        BY <1>2, <2>1, PrepareActs DEF Saw, Preparing, Overtaken
      <3> QED
        BY <1>3, <1>4, <1>5, <2>1, <2>3, <2>6, <3>1, LookHolds DEF Places, Preparing
    <2> QED
      BY <2>4, <2>5, <2>6
  <1>8. CASE PrepareRun(p)
    <2>1. UNCHANGED <<wave, phase, job, provider, inbox, up>> /\ pc[p] = "prepareRun"
      BY <1>8 DEF PrepareRun, discourse, app, At
    <2>2. /\ Goto(p, "link") /\ UNCHANGED <<seen, after, back>>
          /\ \/ run = NoRun /\ run' = NewRun /\ Touch(p, {"entry"})
             \/ UNCHANGED <<run, stale>>
      BY <1>8 DEF PrepareRun
    <2>3. Beside(p) /\ Arrived(p, "link")
      <3>0. "link" \in Labels
        BY <1>5 DEF Places, Preparing
      <3>1. CASE Touch(p, {"entry"})
        BY <1>0, <2>2, <3>0, <3>1, Touched
      <3>2. CASE UNCHANGED stale
        BY <1>0, <2>2, <3>0, <3>2, Moved DEF Move, locals
      <3> QED
        BY <2>2, <3>1, <3>2
    <2>4. ActInv(p)'
      BY <1>2, <2>1, <2>3, PrepareActs DEF Arrived, Preparing, Overtaken
    <2>5. LifeGoes(p) /\ LinkGoes(p) /\ pc'[p] # "calling"
      BY <2>1, <2>3, InnerGoes DEF Arrived, Outer
    <2>6. CASE run' = run
      BY <2>1, <2>3, <2>4, <2>5, <2>6, SameWave, QuietHolds DEF UpGoes
    <2>7. CASE run = NoRun /\ run' = NewRun
      <3>1. job.status = "QUEUED" /\ ~provider.owed /\ ~RunBegun /\ ~Unsent(run)
            /\ ~Ended(run) /\ ~Failed(run) /\ ~Verified(run) /\ ~Spared
        <4>1. provider.owed => RunBegun
          BY <1>0 DEF IInv, StoreInv, RunInv
        <4> QED
          BY <1>2, <2>1, <2>7, <4>1 DEF RunBegun, NoRun, Unsent, Ended, RunEnded,
             Failed,
             Verified, Spared, Barred
      <3>2. Calling' => Calling
        BY <2>3, <2>5 DEF Calling, Beside, Procs, Overtaken
      <3>3. Going(p)
        BY <1>2, <2>1, <2>7, <3>1 DEF Going, NoRun, NewRun, AwaitsAuthor
      <3>4. \A q \in Procs \ {p} : ActInv(q)'
        BY <2>3, <3>3, OtherActs DEF Actors
      <3>5. OverInv'
        BY <1>0, <2>1, <3>1 DEF OverInv, JobEnded
      <3>6. NewInv'
        BY <1>0, <1>2, <2>1, <2>3, <2>7 DEF NewInv, NewRun, NoRun, Linking, Arrived
      <3>7. TurnInv'
        <4>1. ~provider.sent /\ ~Calling
          BY <1>0, <2>7 DEF IInv, StoreInv, RunInv, NoRun
        <4>2. ~Ended(run') /\ run'.status # "COMPLETED"
          BY <2>7 DEF NewRun, NoRun, Ended, RunEnded
        <4> QED
          BY <1>0, <2>1, <3>1, <3>2, <4>1, <4>2 DEF TurnInv
      <3>8. EventInv'
        BY <1>0, <2>1, <3>1 DEF EventInv
      <3> QED
        BY <2>1, <2>3, <2>4, <2>5, <3>4, <3>5, <3>6, <3>7, <3>8, LifeKeeps DEF SInv,
           UpGoes
    <2> QED
      BY <2>2, <2>6, <2>7
  <1>9. CASE LinkJob(p)
    <2>1. pc[p] = "link" /\ "queueWave" \in Places
      BY <1>5, <1>9 DEF LinkJob, At, Preparing
    <2>2. Arrived(p, "queueWave") => ActInv(p)'
      BY <1>2, <2>1, PrepareActs DEF Arrived, Preparing, Overtaken
    <2>3. CASE job.status = "QUEUED"
      <3>1. TryJob(p, "RESOLVING_CONTEXT", "NOT_SENT", "queueWave")
        BY <1>9, <2>3 DEF LinkJob
      <3>2. job' = [status |-> "RESOLVING_CONTEXT", delivery |-> "NOT_SENT"]
        <4>1. "job" \notin stale[p] /\ job.delivery = "NOT_SENT"
          BY <1>0, <1>2, <2>1, <2>3 DEF NewInv
        <4>2. "RESOLVING_CONTEXT" \in JobTransitions["QUEUED"]
          <5>1. "QUEUED" \in JobStatus /\ "QUEUED" \notin JobEnded
            BY DEF JobStatus, JobEnded
          <5> QED
            BY <5>1 DEF JobTransitions
        <4> QED
          BY <2>3, <3>1, <4>1, <4>2 DEF TryJob, JobAccepted
      <3> QED
        BY <1>2, <2>1, <2>2, <3>1, <3>2, JobHolds DEF Outer, JobEnded, JobStatus,
           Delivery,
           Places
    <2>4. CASE job.status # "QUEUED"
      <3>1. Move(p, "queueWave") /\ Reads
        BY <1>9, <2>4 DEF LinkJob
      <3>2. UNCHANGED <<wave, phase, job, run, provider, inbox, up>> /\ WaveGoes(p)
        BY <3>1, ReadsKeep
      <3>3. Beside(p) /\ Arrived(p, "queueWave")
        BY <1>0, <2>1, <3>1, Moved DEF Places
      <3>4. LifeGoes(p) /\ LinkGoes(p)
        BY <1>0, <1>2, <2>1, <2>4, <3>2, <3>3 DEF LifeGoes, LinkGoes, LifeInv, Arrived
      <3> QED
        BY <2>2, <3>2, <3>3, <3>4, QuietHolds DEF UpGoes, Arrived
    <2> QED
      BY <2>3, <2>4
  <1>10. CASE QueueWave(p)
    <2>1. pc[p] = "queueWave" /\ "notify" \in Places
      BY <1>5, <1>10 DEF QueueWave, At, Preparing
    <2>2. Arrived(p, "notify") => ActInv(p)'
      BY <1>2, <2>1, PrepareActs DEF Arrived, Preparing, Overtaken
    <2>3. CASE wave = "SNAPSHOTTING" /\ TryWave(p, "QUEUED", "notify")
      BY <1>3, <2>1, <2>2, <2>3, WaveHolds DEF WaveStatus, Unsubmitted, Final, Stopping,
         Places
    <2>4. CASE Move(p, "notify") /\ Reads
      BY <1>3, <2>1, <2>2, <2>4, ReadsKeep, MoveHolds DEF Places
    <2> QED
      BY <1>10, <2>3, <2>4 DEF QueueWave
  <1>11. CASE Notify(p)
    <2>1. pc[p] = "notify" /\ UNCHANGED <<wave, phase, job, run, provider, inbox, up>>
          /\ Move(p, back[p])
      BY <1>11 DEF Notify, At, discourse, runtime
    <2>2. Arrived(p, back[p]) => ActInv(p)'
      BY <1>2, <2>1, ArrivedFree, PlacesOf
    <2> QED
      BY <1>3, <1>4, <2>1, <2>2, SameWave, MoveHolds DEF Places
  <1> QED
    BY <1>6, <1>7, <1>8, <1>9, <1>10, <1>11

-----------------------------------------------------------------------------
(* Stopping.                                                               *)

LEMMA WithdrawActs ==
  ASSUME NEW p \in Procs, pc'[p] \in Withdrawing \cup {"rejectJob"}, ~Overtaken(p)',
         job'.status # "QUEUED",
         back'[p] = "rejectJob" => Rejectable(p)' /\ after'[p] = "lockAdvance",
         back'[p] # "rejectJob" => Stoppable(p)' /\ pc'[p] # "rejectJob",
         pc'[p] # "cancelRun" => Ended(run)'
  PROVE  ActInv(p)'
  <1>1. HoldInv(p)'
    BY DEF HoldInv, Withdrawing, Preparing
  <1>2. StopInv(p)'
    <2>1. pc'[p] \in RejectWay
          /\ pc'[p] \notin Stops \cup Marks \cup {"rCancelRun"}
      BY DEF Stops, Marks, Withdrawing, RejectWay
    <2> QED
      BY <2>1 DEF StopInv, Marks, Stops
  <1>3. EndsInv(p)'
    BY DEF EndsInv, Withdrawing, Over, SeenUsed, Begun, Marking
  <1> QED
    BY <1>1, <1>2, <1>3 DEF ActInv

\* Whoever stops a job holds the lock, or found the wave stopped.
LEMMA Stopper ==
  ASSUME Sound, NEW p \in Procs, Stoppable(p), pc[p] # "idle"
  PROVE  /\ wave \in Final \/ lock = p
         /\ run # NoRun \/ lock = p
         /\ job.status = "QUEUED" => run = NoRun \/ pc[p] = "link"
  <1>0. LifeInv /\ NewInv
    BY DEF Sound, SInv
  <1>1. CASE p = "pump"
    BY <1>1 DEF Stoppable
  <1>2. CASE p = "user"
    <2>1. lock = "user" /\ up = "up"
      BY <1>0, <1>2 DEF LifeInv
    <2>2. Linking => pc["user"] = "link"
      BY <2>1 DEF Linking
    <2> QED
      BY <1>0, <1>2, <2>1, <2>2 DEF NewInv
  <1> QED
    BY <1>1, <1>2 DEF Stoppable

\* A stop goes on where the one before it has come from.
LEMMA BackActs ==
  ASSUME Sound, NEW p \in Procs,
         NEW next \in Backs \ {"release", "requeue", "rejectJob"},
         pc'[p] = next, lock' = p => ~Overtaken(p)', back'[p] # "rejectJob",
         next \in Stops => ~Overtaken(p)' /\ Stoppable(p)'
  PROVE  ActInv(p)'
  <1>1. CASE next \in Stops
    <2>1. next \notin {"stopIntent", "cancelDone", "recoveredDone"}
      BY DEF Backs
    <2> QED
      BY <1>1, <2>1, StopActs
  <1>2. CASE next \notin Stops
    <2>1. next \notin Claimed
      BY <1>2 DEF Backs, Claimed, Preparing, Stops, Marks, Withdrawing, Over,
         SeenUsed, Begun, Marking
    <2> QED
      BY <2>1, FreeActs
  <1> QED
    BY <1>1, <1>2

LEMMA CancelHolds ==
  ASSUME Sound, NEW p \in Procs,
         \/ CancelQueuedWave(p) \/ CancelIntent(p) \/ CancelUnsubmittedJob(p)
         \/ CancelRun(p) \/ CancelEntry(p) \/ CancelDone(p)
  PROVE  SInv'
  <1>0. /\ TypeOK /\ IInv /\ DataOK /\ ControlOK
        /\ OverInv /\ NewInv /\ TurnInv /\ EventInv /\ LifeInv
    BY TypeParts DEF Sound, SInv
  <1>1. pc[p] \in {"cancelCheck", "cancelIntent", "cancelJob", "cancelDone"} \cup Withdrawing
    BY DEF CancelQueuedWave, CancelIntent, CancelUnsubmittedJob, CancelRun, CancelEntry,
       CancelDone, At, Withdrawing
  <1>2. /\ ~Overtaken(p) /\ pc[p] # "idle" /\ pc[p] # "link" /\ pc[p] \notin Outer
        /\ IF back[p] = "rejectJob"
           THEN pc[p] \in Withdrawing /\ Rejectable(p) /\ after[p] = "lockAdvance"
           ELSE Stoppable(p)
        /\ pc[p] \in Withdrawing => job.status # "QUEUED"
        /\ pc[p] \in {"cancelEntry", "cancelDone"} => Ended(run)
    <2>1. pc[p] \notin Outer /\ pc[p] # "idle" /\ pc[p] # "link"
          /\ (pc[p] \in RejectWay => pc[p] \in Withdrawing)
          /\ pc[p] \in Stops \cup Withdrawing
      BY <1>1 DEF Withdrawing, Outer, RejectWay, Stops
    <2>2. StopInv(p) /\ EndsInv(p)
      BY Holding DEF ActInv
    <2>3. /\ ~Overtaken(p)
          /\ IF back[p] = "rejectJob"
             THEN pc[p] \in Withdrawing /\ Rejectable(p) /\ after[p] = "lockAdvance"
             ELSE Stoppable(p)
          /\ pc[p] \in Withdrawing => job.status # "QUEUED"
      BY <2>1, <2>2 DEF StopInv
    <2> QED
      BY <2>1, <2>2, <2>3 DEF EndsInv, Over
  <1>3. /\ after[p] \in Places /\ back[p] \in Places
        /\ back[p] \in Backs \ {"release", "requeue"}
    <2>1. pc[p] \notin Early \cup Recovering
      BY <1>1 DEF Withdrawing, Early, Recovering
    <2> QED
      BY <1>0, <2>1, AtWork, PlacesOf
  <1>4. /\ pc[p] \notin Withdrawing =>
             /\ Stoppable(p) /\ back[p] # "rejectJob"
             /\ Canceled(p) \in Backs \ {"release", "requeue", "rejectJob"}
        /\ Canceled(p) \in Places /\ Closer(p) \in Places
        /\ {"cancelIntent", "cancelJob", "cancelRun", "cancelDone", "cancelEntry"} \subseteq Places
        /\ job.delivery \in Delivery /\ job.status \in JobStatus
    <2>1. "stopWave" \in Backs \ {"release", "requeue", "rejectJob"}
      BY DEF Backs
    <2>2. {"cancelIntent", "cancelJob", "cancelRun", "cancelDone", "cancelEntry", "rejectJob",
           "stopWave"} \subseteq Places
      BY PlacesOf DEF Claimed, Stops, Withdrawing, Over
    <2> QED
      BY <1>0, <1>2, <1>3, <2>1, <2>2 DEF Canceled, Closer, DataOK
  <1>c. ASSUME Arrived(p, Canceled(p)), pc[p] \notin Withdrawing,
               UNCHANGED run, wave \in Final => wave' \in Final,
               job.status # "QUEUED" => job'.status # "QUEUED"
        PROVE  ActInv(p)'
    <2>1. Stoppable(p)'
      BY <1>4, <1>c DEF Stoppable
    <2> QED
      BY <1>2, <1>4, <1>c, <2>1, BackActs DEF Arrived, Overtaken
  <1>5. CASE CancelQueuedWave(p)
    <2>1. PICK label \in {"finish", "cancelIntent", "raise"} :
            Look(p, label, after[p], "reconcile")
      BY <1>5, Zenon DEF CancelQueuedWave
    <2>2. Reads /\ pc[p] = "cancelCheck"
      BY <1>5 DEF CancelQueuedWave, At
    <2>3. label # "raise" /\ Saw(p, label, after[p], "reconcile") => ActInv(p)'
      <3>1. CASE label = "finish"
        BY <3>1, SawFree, PlacesOf
      <3>2. CASE label = "cancelIntent"
        <4>1. Stoppable(p)'
          BY <1>4, <2>2, ReadsKeep DEF Stoppable, Withdrawing
        <4> QED
          BY <3>2, <4>1, StopActs DEF Saw, Stops, Overtaken
      <3> QED
        BY <3>1, <3>2
    <2>4. label \in Places /\ "reconcile" \in Places
      BY <1>4, PlacesOf
    <2> QED
      BY <1>2, <1>3, <2>1, <2>2, <2>3, <2>4, ReadsKeep, LookHolds DEF Places
  <1>6. CASE CancelIntent(p)
    <2>1. TryWave(p, "STOP_REQUESTED", "cancelJob") /\ pc[p] = "cancelIntent"
      BY <1>6 DEF CancelIntent, At
    <2>2. Stoppable(p) /\ back[p] # "rejectJob"
      BY <1>4, <2>1 DEF Withdrawing
    <2>3. UNCHANGED <<job, run>>
      BY <2>1 DEF TryWave, runtime
    <2>4. Arrived(p, "cancelJob") /\ (wave \in Final => wave' \in Final) => ActInv(p)'
      BY <1>2, <2>2, <2>3, StopActs DEF Arrived, Stops, Stoppable, Overtaken
    <2> QED
      BY <1>2, <1>4, <2>1, <2>2, <2>4, Stopper, WaveHolds DEF WaveStatus, Stopping,
         Final, Places
  <1>7. CASE CancelUnsubmittedJob(p)
    <2>0. pc[p] = "cancelJob" /\ pc[p] \notin Withdrawing
      BY <1>7 DEF CancelUnsubmittedJob, At, Withdrawing
    <2>1. PICK next \in {"cancelRun", "cancelDone"} :
            /\ next = (IF Unsent(run) THEN "cancelRun" ELSE "cancelDone")
            /\ \/ Throw(p) /\ Reads
               \/ Move(p, Canceled(p)) /\ Reads
               \/ job.status = "QUEUED" /\ TryJob(p, "CANCELED", job.delivery, Canceled(p))
               \/ /\ job.status = "RESOLVING_CONTEXT" /\ NeverSent(run)
                  /\ TryJob(p, "CANCEL_REQUESTED", job.delivery, next)
               \/ /\ job.status = "CANCEL_REQUESTED" /\ NeverSent(run)
                  /\ Move(p, next) /\ Reads
      BY <1>7, Zenon DEF CancelUnsubmittedJob
    <2>2. CASE Throw(p) /\ Reads
      BY <1>2, <2>2, ReadsKeep, ThrowHolds
    <2>3. CASE Move(p, Canceled(p)) /\ Reads
      BY <1>2, <1>4, <1>c, <2>0, <2>3, ReadsKeep, MoveHolds DEF Places
    <2>4. CASE job.status = "QUEUED" /\ TryJob(p, "CANCELED", job.delivery, Canceled(p))
      <3>1. RunOver /\ (run # NoRun \/ lock = p)
        BY <1>2, <1>4, <2>0, <2>4, Stopper DEF RunOver
      <3>2. UNCHANGED <<run, wave>>
        BY <2>4 DEF TryJob, runtime
      <3>3. Arrived(p, Canceled(p)) /\ job'.status = "CANCELED" => ActInv(p)'
        BY <1>c, <2>0, <3>2
      <3> QED
        BY <1>2, <1>4, <2>4, <3>1, <3>3, JobHolds DEF JobStatus, JobEnded, Places, Outer
    <2>n. ASSUME Arrived(p, next), UNCHANGED <<run, wave>>, NeverSent(run),
                 job'.status = "CANCEL_REQUESTED", job.status # "QUEUED"
          PROVE  ActInv(p)'
      <3>1. Stoppable(p)'
        BY <1>4, <2>0, <2>n DEF Stoppable
      <3>2. CASE next = "cancelRun"
        BY <1>2, <1>4, <2>0, <2>n, <3>1, <3>2, WithdrawActs DEF Arrived, Withdrawing,
           Overtaken
      <3>3. CASE next = "cancelDone"
        <4>1. Ended(run)'
          BY <2>1, <2>n, <3>3 DEF NeverSent, Ended, RunEnded
        <4> QED
          BY <1>2, <1>4, <2>0, <2>n, <3>1, <3>3, <4>1, StopActs DEF Arrived, Stops,
             Overtaken
      <3> QED
        BY <3>2, <3>3
    <2>5. CASE /\ job.status = "RESOLVING_CONTEXT" /\ NeverSent(run)
               /\ TryJob(p, "CANCEL_REQUESTED", job.delivery, next)
      <3>1. UNCHANGED <<run, wave>>
        BY <2>5 DEF TryJob, runtime
      <3>2. run # NoRun \/ lock = p
        BY <1>2, <1>4, <2>0, Stopper
      <3> QED
        BY <1>2, <1>4, <2>n, <2>5, <3>1, <3>2, JobHolds DEF JobStatus, JobEnded,
           Places, Outer
    <2>6. CASE job.status = "CANCEL_REQUESTED" /\ NeverSent(run) /\ Move(p, next) /\ Reads
      <3>1. Arrived(p, next) => ActInv(p)'
        BY <2>n, <2>6, ReadsKeep
      <3> QED
        BY <1>2, <1>4, <2>6, <3>1, ReadsKeep, MoveHolds DEF Places
    <2> QED
      BY <2>1, <2>2, <2>3, <2>4, <2>5, <2>6
  <1>w. ASSUME NEW next \in {"cancelEntry", Closer(p)}, Arrived(p, next),
               pc[p] \in Withdrawing, UNCHANGED <<wave, job>>, Ended(run'), run' # NoRun,
               run' = run \/ Spared', Spared => Spared'
        PROVE  ActInv(p)'
    <2>1. back[p] = "rejectJob" => Rejectable(p)'
      BY <1>2, <1>w DEF Rejectable
    <2>2. back[p] # "rejectJob" => Stoppable(p)'
      BY <1>2, <1>w DEF Stoppable
    <2>3. CASE next = "cancelDone"
      <3>1. back[p] # "rejectJob"
        BY <1>w, <2>3 DEF Closer
      <3> QED
        BY <1>2, <1>w, <2>2, <2>3, <3>1, StopActs DEF Arrived, Stops, Overtaken
    <2>4. CASE next \in {"cancelEntry", "rejectJob"}
      <3>1. next = "rejectJob" => back[p] = "rejectJob"
        BY <1>w DEF Closer
      <3> QED
        BY <1>2, <1>w, <2>1, <2>2, <2>4, <3>1, WithdrawActs DEF Arrived, Withdrawing,
           Overtaken
    <2> QED
      BY <1>w, <2>3, <2>4 DEF Closer
  <1>8. CASE CancelRun(p)
    <2>0. UNCHANGED <<wave, phase, job, provider, inbox, up>> /\ pc[p] = "cancelRun"
          /\ pc[p] \in Withdrawing
      BY <1>8 DEF CancelRun, discourse, app, At, Withdrawing
    <2>1. CASE Unsent(run)
      <3>1. run' = Withdrawn(run) /\ Move(p, "cancelEntry")
        BY <1>8, <2>1 DEF CancelRun
      <3>2. Beside(p) /\ Arrived(p, "cancelEntry") /\ pc'[p] # "calling"
        BY <1>0, <1>4, <3>1, Moved DEF Places, Arrived
      <3>3. /\ run'.status = "INTERRUPTED" /\ run'.intact = "UNCHANGED"
            /\ Ended(run') /\ ~Ended(run) /\ ~Failed(run) /\ ~Verified(run)
            /\ run.intact # "CHANGED" /\ ~provider.sent /\ ~Calling
        BY <1>0, <2>1, <3>1 DEF Withdrawn, Unsent, DataOK, RunRecord, Ended,
           RunEnded, Failed,
           Verified, IInv, StoreInv, RunInv, RecordSound
      <3>4. ~Calling'
        BY <3>2, <3>3 DEF Calling, Beside, Procs, Overtaken
      <3>5. Spared'
        BY <2>0, <3>3, <3>4 DEF Spared, Barred, RunBegun
      <3>6. ActInv(p)'
        BY <1>w, <2>0, <3>2, <3>3, <3>5 DEF NoRun
      <3>7. Steady(p)
        BY <1>2, <2>0, <2>1, <3>3, <3>5 DEF Steady, Unsent
      <3>8. TurnInv'
        <4>1. pc'["pump"] = "calling" =>
                pc["pump"] = "calling" /\ Overtaken("pump")' = Overtaken("pump")
          BY <3>2 DEF Beside, Procs, Overtaken
        <4> QED
          BY <1>0, <2>0, <3>3, <3>4, <4>1 DEF TurnInv
      <3> QED
        BY <1>2, <2>0, <3>2, <3>6, <3>7, <3>8, RunHolds DEF Arrived
    <2>2. CASE ~Unsent(run)
      <3>1. run' = run
        BY <1>8, <2>2 DEF CancelRun
      <3>2. WaveGoes(p)
        BY <2>0, SameWave
      <3>3. CASE Throw(p)
        BY <1>2, <2>0, <3>1, <3>2, <3>3, ThrowHolds
      <3>4. CASE Ended(run) /\ Move(p, Closer(p))
        <4>1. Beside(p) /\ Arrived(p, Closer(p)) /\ pc'[p] # "calling"
          BY <1>0, <1>4, <3>4, Moved DEF Places, Arrived
        <4>2. Spared => Spared'
          <5>1. Calling' => Calling
            BY <4>1 DEF Calling, Beside, Procs, Overtaken
          <5> QED
            BY <2>0, <3>1, <5>1 DEF Spared, Barred, RunBegun
        <4>3. run # NoRun
          BY <3>4 DEF Ended, RunEnded, NoRun
        <4>4. ActInv(p)'
          BY <1>w, <2>0, <3>1, <3>4, <4>1, <4>2, <4>3
        <4> QED
          BY <1>2, <1>4, <2>0, <3>1, <3>2, <3>4, <4>4, MoveHolds DEF Places
      <3> QED
        BY <1>8, <2>2, <3>3, <3>4 DEF CancelRun
    <2> QED
      BY <2>1, <2>2
  <1>9. CASE CancelEntry(p)
    <2>1. SetEntry(p, Closing(entry, TRUE), Closer(p)) /\ pc[p] = "cancelEntry"
      BY <1>9 DEF CancelEntry, At
    <2>2. Closing(entry, TRUE) \in EntryStatus
      BY <1>0 DEF Closing, DataOK, EntryStatus
    <2>3. UNCHANGED <<wave, job, run, provider>>
      BY <2>1 DEF SetEntry, discourse
    <2>4. ASSUME Arrived(p, Closer(p))
          PROVE  ActInv(p)'
      <3>1. Beside(p)
        BY <1>0, <1>4, <2>1, <2>2, EntrySet DEF Places
      <3>2. Calling' => Calling
        BY <1>4, <2>4, <3>1 DEF Calling, Beside, Procs, Overtaken, Arrived, Places
      <3>3. Spared => Spared'
        BY <2>3, <3>2 DEF Spared, Barred, RunBegun
      <3>4. Ended(run) /\ run # NoRun
        BY <1>2, <2>1 DEF Ended, RunEnded, NoRun
      <3> QED
        BY <1>w, <2>1, <2>3, <2>4, <3>3, <3>4 DEF Withdrawing
    <2> QED
      BY <1>2, <1>4, <2>1, <2>2, <2>4, EntryHolds DEF Places
  <1>10. CASE CancelDone(p)
    <2>1. TryJob(p, "CANCELED", job.delivery, Canceled(p)) /\ pc[p] = "cancelDone"
          /\ pc[p] \notin Withdrawing
      BY <1>10 DEF CancelDone, At, Withdrawing
    <2>2. RunOver /\ (run # NoRun \/ lock = p)
      BY <1>2, <1>4, <2>1, Stopper DEF RunOver
    <2>3. UNCHANGED <<run, wave>>
      BY <2>1 DEF TryJob, runtime
    <2>4. Arrived(p, Canceled(p)) /\ job'.status = "CANCELED" => ActInv(p)'
      BY <1>c, <2>1, <2>3
    <2> QED
      BY <1>2, <1>4, <2>1, <2>2, <2>4, JobHolds DEF JobStatus, JobEnded, Places, Outer
  <1> QED
    BY <1>5, <1>6, <1>7, <1>8, <1>9, <1>10

LEMMA CanceledFrom ==
  ASSUME NEW s \in JobStatus, "CANCELED" \in {s} \cup JobTransitions[s]
  PROVE  s \in {"QUEUED", "CANCEL_REQUESTED", "RECOVERY_REQUIRED", "CANCELED"}
  <1>1. \A t \in {"RESOLVING_CONTEXT", "STARTING", "RUNNING"} : t \in JobStatus \ JobEnded
    BY DEF JobStatus, JobEnded
  <1>2. "CANCELED" \notin JobTransitions["RESOLVING_CONTEXT"]
    BY <1>1 DEF JobTransitions
  <1>3. "CANCELED" \notin JobTransitions["STARTING"]
    BY <1>1 DEF JobTransitions
  <1>4. "CANCELED" \notin JobTransitions["RUNNING"]
    BY <1>1 DEF JobTransitions
  <1>5. s \in JobEnded => JobTransitions[s] = {}
    BY DEF JobTransitions, JobEnded
  <1> QED
    BY <1>2, <1>3, <1>4, <1>5 DEF JobStatus, JobEnded

\* The claims on the turn, of an update of the run.
LEMMA TurnKeeps ==
  ASSUME Sound, NEW p \in Procs, Beside(p), pc'[p] # "calling",
         UNCHANGED provider,
         Ended(run') /\ ~Ended(run) => provider.state # "working",
         run'.status = "COMPLETED" => run.status = "COMPLETED",
         Calling /\ Calling' /\ ~provider.sent => /\ run'.status \in {"STARTING", "RECOVERY_REQUIRED"}
                                      /\ run'.delivery \in {"SENDING", "AMBIGUOUS"}
                                      /\ run'.turn = run.turn,
         provider.owed => \/ Ended(run')
                          \/ run'.status = run.status /\ run'.delivery = run.delivery
  PROVE  TurnInv'
  <1>0. TurnInv
    BY DEF Sound, SInv
  <1>1. Calling' => Calling
    BY DEF Calling, Beside, Procs, Overtaken
  <1>2. pc'["pump"] = "calling" =>
          pc["pump"] = "calling" /\ Overtaken("pump")' = Overtaken("pump")
    BY DEF Beside, Procs, Overtaken
  <1> QED
    BY <1>0, <1>1, <1>2 DEF TurnInv, Ended

LEMMA StopHolds ==
  ASSUME Sound, NEW p \in Procs,
         \/ StopActiveWave(p) \/ StopIntent(p) \/ RequestCancel(p) \/ StopRun(p)
         \/ InterruptTurn(p) \/ InterruptReturns(p) \/ InterruptedJob(p)
         \/ StopRecovery(p) \/ StopRecovered(p) \/ InterruptedRecovered(p)
         \/ RecoveredPending(p) \/ RecoveredDone(p) \/ FinishStop(p)
  PROVE  SInv'
  <1>0. /\ TypeOK /\ IInv /\ DataOK /\ ControlOK /\ RunInv
        /\ OverInv /\ NewInv /\ TurnInv /\ EventInv /\ LifeInv
    BY TypeParts DEF Sound, SInv, IInv, StoreInv
  <1>1. pc[p] \in Stops
    BY DEF StopActiveWave, StopIntent, RequestCancel, StopRun, InterruptTurn,
       InterruptReturns, InterruptedJob, StopRecovery, StopRecovered, InterruptedRecovered,
       RecoveredPending, RecoveredDone, FinishStop, At, Stops
  <1>2. /\ ~Overtaken(p) /\ Stoppable(p) /\ back[p] # "rejectJob"
        /\ pc[p] # "idle" /\ pc[p] # "link" /\ pc[p] \notin Outer
        /\ pc[p] = "stopIntent" => back[p] \in Stops
    <2>1. pc[p] \notin Outer /\ pc[p] # "idle" /\ pc[p] # "link" /\ pc[p] \notin RejectWay
      BY <1>1 DEF Stops, Outer, RejectWay
    <2> QED
      BY <1>1, <2>1, Holding DEF ActInv, StopInv
  <1>3. /\ after[p] \in Places /\ back[p] \in Places
        /\ back[p] \in Backs \ {"release", "requeue", "rejectJob"}
        /\ Stops \subseteq Places /\ Marks \subseteq Places
        /\ "finish" \in Places \ Claimed /\ "raise" \in Places
        /\ "reconcile" \in Places \ Claimed
        /\ job.delivery \in Delivery /\ job.status \in JobStatus /\ wave \in WaveStatus
        /\ run \in RunRecord
    <2>1. pc[p] \notin Early \cup Recovering
      BY <1>1 DEF Stops, Early, Recovering
    <2>2. back[p] \in Backs \ {"release", "requeue"} /\ after[p] \in Afters
      BY <1>0, <2>1, AtWork
    <2> QED
      BY <1>0, <1>2, <2>2, PlacesOf DEF DataOK, Claimed
  <1>4. /\ wave \in Final \/ lock = p
        /\ run # NoRun \/ lock = p
        /\ job.status = "QUEUED" => run = NoRun
    BY <1>2, Stopper
  <1>s. ASSUME run' = run \/ run' # NoRun, wave \in Final => wave' \in Final,
               job' = job \/ job'.status # "QUEUED"
        PROVE  Stoppable(p)'
    BY <1>2, <1>s DEF Stoppable
  <1>l. ASSUME NEW label \in Stops, NEW b \in Backs \ {"rejectJob"},
               Look(p, label, after[p], b), Reads,
               label = "stopIntent" => b \in Stops,
               label = "cancelDone" => Ended(run),
               label = "recoveredDone" =>
                 RunOver \/ job.status \notin {"QUEUED", "RECOVERY_REQUIRED"}
        PROVE  SInv'
    <2>1. Stoppable(p)' /\ UNCHANGED <<job, run>>
      BY <1>l, <1>s, ReadsKeep
    <2>2. Saw(p, label, after[p], b) => ActInv(p)'
      BY <1>l, <2>1, StopActs DEF Saw, Overtaken, RunOver, Ended
    <2>3. label \in Places /\ b \in Places
      BY <1>3, PlacesOf
    <2> QED
      BY <1>2, <1>3, <1>l, <2>2, <2>3, ReadsKeep, LookHolds DEF Places
  <1>f. ASSUME NEW label \in {"finish", "raise"}, NEW b \in Backs \ {"rejectJob"},
               Look(p, label, after[p], b), Reads
        PROVE  SInv'
    <2>1. label # "raise" /\ Saw(p, label, after[p], b) => ActInv(p)'
      BY <1>3, SawFree
    <2>2. label \in Places /\ b \in Places
      BY <1>3, PlacesOf
    <2> QED
      BY <1>2, <1>3, <1>f, <2>1, <2>2, ReadsKeep, LookHolds DEF Places
  <1>m. ASSUME NEW b \in Backs \cap Stops, Look(p, "markRun", after[p], b), Reads, RunBegun
        PROVE  SInv'
    <2>1. Stoppable(p)' /\ UNCHANGED run
      BY <1>m, <1>s, ReadsKeep
    <2>2. b # "rejectJob"
      BY DEF Stops
    <2>3. Saw(p, "markRun", after[p], b) => ActInv(p)'
      BY <1>m, <2>1, <2>2, MarkActs DEF Saw, Overtaken, Marks, RunBegun
    <2>4. "markRun" \in Places /\ b \in Places
      BY <1>3 DEF Marks
    <2> QED
      BY <1>2, <1>3, <1>m, <2>3, <2>4, ReadsKeep, LookHolds DEF Places
  <1>b. ASSUME Arrived(p, back[p]), run' = run \/ run' # NoRun,
               wave \in Final => wave' \in Final, UNCHANGED job
        PROVE  ActInv(p)'
    BY <1>2, <1>3, <1>b, <1>s, BackActs DEF Arrived, Overtaken
  <1>a. ASSUME NEW next \in Stops \ {"stopIntent", "cancelDone", "recoveredDone"},
               Arrived(p, next), run' = run \/ run' # NoRun,
               wave \in Final => wave' \in Final, job' = job \/ job'.status # "QUEUED"
        PROVE  ActInv(p)'
    BY <1>2, <1>a, <1>s, StopActs DEF Arrived, Overtaken
  <1>j. ASSUME NEW status \in {"CANCEL_REQUESTED", "RECOVERY_REQUIRED"},
               NEW next \in {"stopRun", "stopWave"}, TryJob(p, status, job.delivery, next)
        PROVE  SInv'
    <2>1. UNCHANGED <<run, wave>> /\ next \in Places
      BY <1>3, <1>j DEF TryJob, runtime, Stops
    <2>2. Arrived(p, next) /\ job'.status = status => ActInv(p)'
      BY <1>a, <2>1 DEF Stops
    <2>3. status \in JobStatus \ {"QUEUED"} /\ status \notin JobEnded
      BY DEF JobStatus, JobEnded
    <2> QED
      BY <1>2, <1>3, <1>4, <1>j, <2>1, <2>2, <2>3, JobHolds DEF Places, Outer
  <1>5. CASE StopActiveWave(p)
    <2> DEFINE lost == /\ job.status \in {"RUNNING", "CANCEL_REQUESTED"}
                       /\ run.status = "RECOVERY_REQUIRED"
               nexts == {"stopWave", "cancelJob", "stopRecovered", "requestCancel", "stopRun"}
    <2>1. PICK label \in {"finish", "raise", "markRun", "stopIntent"},
               b \in nexts \cup {"raise", "stopCheck"} :
            /\ Look(p, label, after[p], b)
            /\ label = "markRun" => lost /\ b = "stopCheck"
            /\ label = "stopIntent" => b \in nexts
      <3> DEFINE next ==
            CASE job.status \in JobEnded -> "stopWave"
              [] job.status = "QUEUED" -> "cancelJob"
              [] job.status = "RESOLVING_CONTEXT" /\ Unsent(run) -> "cancelJob"
              [] job.status = "RECOVERY_REQUIRED"
                   /\ (run = NoRun \/ Ended(run) \/ run.status = "RECOVERY_REQUIRED") ->
                   "stopRecovered"
              [] job.status = "RUNNING" /\ run.turn /\ Acknowledged(run) -> "requestCancel"
              [] job.status = "CANCEL_REQUESTED" /\ run.turn
                   /\ (\/ Acknowledged(run)
                       \/ run.status = "INTERRUPTING"
                            /\ run.interrupt \in {"SENDING", "ACKNOWLEDGED"}) -> "stopRun"
              [] job.status = "RUNNING" /\ run.turn /\ run.status = "INTERRUPTING"
                   /\ run.interrupt \in {"SENDING", "ACKNOWLEDGED"} -> "requestCancel"
              [] OTHER -> "raise"
      <3>1. next \in nexts \cup {"raise"}
        OBVIOUS
      <3>2. Look(p, IF wave = "SETTLED" THEN "finish"
                    ELSE IF wave \in Unsubmitted THEN "raise"
                    ELSE IF lost THEN "markRun"
                    ELSE IF next = "raise" THEN "raise" ELSE "stopIntent",
                 after[p], IF lost THEN "stopCheck" ELSE next)
        BY <1>5 DEF StopActiveWave
      <3> HIDE DEF next, lost, nexts
      <3>3. lost \/ ~lost
        OBVIOUS
      <3>4. CASE wave = "SETTLED"
        BY <3>1, <3>2, <3>4
      <3>5. CASE wave # "SETTLED" /\ wave \in Unsubmitted
        BY <3>1, <3>2, <3>5
      <3>6. CASE wave # "SETTLED" /\ wave \notin Unsubmitted /\ lost
        <4>1. Look(p, "markRun", after[p], "stopCheck")
          BY <3>2, <3>6
        <4> QED
          BY <3>6, <4>1
      <3>7. CASE wave # "SETTLED" /\ wave \notin Unsubmitted /\ ~lost
        <4>1. Look(p, IF next = "raise" THEN "raise" ELSE "stopIntent", after[p], next)
          BY <3>2, <3>7
        <4> QED
          BY <3>1, <4>1
      <3> QED
        BY <3>3, <3>4, <3>5, <3>6, <3>7
    <2>2. Reads
      BY <1>5 DEF StopActiveWave
    <2>3. nexts \cup {"raise", "stopCheck"} \subseteq Backs \ {"rejectJob"}
          /\ nexts \cup {"stopCheck"} \subseteq Stops
      BY DEF Backs, Stops
    <2>4. CASE label \in {"finish", "raise"}
      BY <1>f, <2>1, <2>2, <2>3, <2>4
    <2>5. CASE label = "markRun"
      <3>1. lost /\ b = "stopCheck"
        BY <2>1, <2>5
      <3>2. RunBegun
        BY <3>1 DEF RunBegun
      <3> QED
        BY <1>m, <2>1, <2>2, <2>3, <2>5, <3>1, <3>2
    <2>6. CASE label = "stopIntent"
      BY <1>l, <2>1, <2>2, <2>3, <2>6 DEF Stops
    <2> QED
      BY <2>1, <2>4, <2>5, <2>6
  <1>6. CASE StopIntent(p)
    <2>1. PICK to \in {"STOPPING", "STOP_REQUESTED"} :
            (Move(p, back[p]) /\ Reads) \/ TryWave(p, to, back[p])
      BY <1>6, Zenon DEF StopIntent
    <2>2. CASE Move(p, back[p]) /\ Reads
      BY <1>2, <1>3, <1>b, <2>2, ReadsKeep, MoveHolds DEF Places
    <2>3. CASE TryWave(p, to, back[p])
      <3>1. UNCHANGED <<job, run>>
        BY <2>3 DEF TryWave, runtime
      <3>2. Arrived(p, back[p]) /\ (wave \in Final => wave' \in Final) => ActInv(p)'
        BY <1>b, <3>1
      <3> QED
        BY <1>2, <1>3, <1>4, <2>3, <3>2, WaveHolds DEF WaveStatus, Stopping, Final,
           Places
    <2> QED
      BY <2>1, <2>2, <2>3
  <1>7. CASE RequestCancel(p)
    BY <1>7, <1>j DEF RequestCancel
  <1>8. CASE StopRun(p)
    <2>1. \/ Look(p, "markRun", after[p], "stopRecovered") /\ run.status = "RECOVERY_REQUIRED"
          \/ Look(p, "interrupt", after[p], "interruptedJob")
      BY <1>8 DEF StopRun
    <2>2. Reads
      BY <1>8 DEF StopRun
    <2>3. CASE Look(p, "markRun", after[p], "stopRecovered") /\ run.status = "RECOVERY_REQUIRED"
      BY <1>m, <2>2, <2>3 DEF RunBegun, Backs, Stops
    <2>4. CASE Look(p, "interrupt", after[p], "interruptedJob")
      BY <1>l, <2>2, <2>4 DEF Backs, Stops
    <2> QED
      BY <2>1, <2>3, <2>4
  <1>r. ASSUME NEW next \in Places, Move(p, next),
               UNCHANGED <<discourse, entry, released, provider, app>>,
               Steady(p), Arrived(p, next) => ActInv(p)',
               Ended(run') /\ ~Ended(run) => provider.state # "working",
               run'.status = "COMPLETED" => run.status = "COMPLETED",
               Calling /\ ~provider.sent => run' = run,
               provider.owed => run' = run
        PROVE  SInv'
    <2>1. Beside(p) /\ Arrived(p, next) /\ pc'[p] # "calling"
      BY <1>0, <1>r, Moved DEF Places, Arrived
    <2>2. UNCHANGED <<wave, phase, job, provider, inbox, up>>
      BY <1>r DEF discourse, app
    <2>3. TurnInv'
      BY <1>0, <1>r, <2>1, TurnKeeps DEF TurnInv
    <2> QED
      BY <1>2, <1>r, <2>1, <2>2, <2>3, RunHolds DEF Arrived
  <1>9. CASE InterruptTurn(p)
    <2>0. UNCHANGED <<discourse, entry, released, provider, app>> /\ UNCHANGED <<wave, job>>
      BY <1>9 DEF InterruptTurn, discourse
    <2>1. \/ /\ run.status \in {"RUNNING", "RECOVERY_REQUIRED"}
             /\ run.delivery = "ACKNOWLEDGED" /\ run.turn
             /\ run' = [run EXCEPT !.status = "INTERRUPTING", !.interrupt = "SENDING"]
             /\ Move(p, "interrupting")
          \/ /\ run.status = "RECOVERY_REQUIRED" /\ run.delivery = "NOT_DELIVERED"
             /\ run' = [run EXCEPT !.status = "INTERRUPTED"] /\ Move(p, back[p])
          \/ run' = run /\ Move(p, back[p])
      BY <1>9 DEF InterruptTurn, Acknowledged
    <2>2. CASE run' = run /\ Move(p, back[p])
      <3>1. Reads
        BY <2>0, <2>2 DEF Reads, runtime
      <3> QED
        BY <1>2, <1>3, <1>b, <2>2, <3>1, ReadsKeep, MoveHolds DEF Places
    <2>3. CASE /\ run.status \in {"RUNNING", "RECOVERY_REQUIRED"}
               /\ run.delivery = "ACKNOWLEDGED" /\ run.turn
               /\ run' = [run EXCEPT !.status = "INTERRUPTING", !.interrupt = "SENDING"]
               /\ Move(p, "interrupting")
      <3>1. run'.status = "INTERRUPTING" /\ run'.intact = run.intact
        BY <1>3, <2>3 DEF RunRecord
      <3>2. ~Ended(run) /\ ~Ended(run') /\ run' # NoRun
        BY <2>3, <3>1 DEF Ended, RunEnded, NoRun
      <3>3. Steady(p)
        BY <2>3, <3>1, <3>2 DEF Steady, Ended, RunEnded, Failed, Verified, Unsent
      <3>4. Arrived(p, "interrupting") => ActInv(p)'
        BY <1>a, <2>0, <3>2 DEF Stops
      <3>5. ~(Calling /\ ~provider.sent) /\ ~provider.owed
        BY <1>0, <2>3, <3>2 DEF TurnInv
      <3>6. "interrupting" \in Places
        BY <1>3 DEF Stops
      <3> QED
        BY <1>r, <2>0, <2>3, <3>1, <3>2, <3>3, <3>4, <3>5, <3>6
    <2>4. CASE /\ run.status = "RECOVERY_REQUIRED" /\ run.delivery = "NOT_DELIVERED"
               /\ run' = [run EXCEPT !.status = "INTERRUPTED"] /\ Move(p, back[p])
      <3>1. run'.status = "INTERRUPTED" /\ run'.intact = run.intact
        BY <1>3, <2>4 DEF RunRecord
      <3>2. ~Ended(run) /\ run' # NoRun
        BY <2>4, <3>1 DEF Ended, RunEnded, NoRun
      <3>3. ~provider.sent /\ ~Calling
        BY <1>0, <2>4, <3>2 DEF RunInv, RecordSound, Spared, Barred
      <3>4. ~provider.owed /\ provider.state # "working"
        BY <1>0, <2>4, <3>2, <3>3 DEF TurnInv
      <3>5. Steady(p)
        BY <2>4, <3>1, <3>2 DEF Steady, Ended, RunEnded, Failed, Verified, Unsent
      <3>6. Arrived(p, back[p]) => ActInv(p)'
        BY <1>b, <2>0, <3>2
      <3> QED
        BY <1>3, <1>r, <2>0, <2>4, <3>1, <3>3, <3>4, <3>5, <3>6
    <2> QED
      BY <2>1, <2>2, <2>3, <2>4
  <1>10. CASE InterruptReturns(p)
    <2>0. UNCHANGED <<discourse, entry, released, provider, app>> /\ Move(p, back[p])
          /\ UNCHANGED <<wave, job>>
      BY <1>10 DEF InterruptReturns, discourse
    <2>1. \/ run' = run
          \/ /\ run.status = "INTERRUPTING"
             /\ run' \in {[run EXCEPT !.interrupt = "ACKNOWLEDGED"],
                          [run EXCEPT !.interrupt = "AMBIGUOUS"],
                          [run EXCEPT !.status = "RECOVERY_REQUIRED",
                                      !.interrupt = "NOT_DELIVERED"]}
      BY <1>10, Zenon DEF InterruptReturns
    <2>2. CASE run' = run
      <3>1. Reads
        BY <2>0, <2>2 DEF Reads, runtime
      <3> QED
        BY <1>2, <1>3, <1>b, <2>0, <2>2, <3>1, ReadsKeep, MoveHolds DEF Places
    <2>3. CASE run' # run
      <3>1. /\ run.status = "INTERRUPTING" /\ run'.intact = run.intact
            /\ run'.status \in {"INTERRUPTING", "RECOVERY_REQUIRED"}
        BY <1>3, <2>1, <2>3 DEF RunRecord
      <3>2. ~Ended(run) /\ ~Ended(run') /\ run' # NoRun
        BY <3>1 DEF Ended, RunEnded, NoRun
      <3>3. Steady(p)
        BY <3>1, <3>2 DEF Steady, Ended, RunEnded, Failed, Verified, Unsent
      <3>4. Arrived(p, back[p]) => ActInv(p)'
        BY <1>b, <2>0, <3>2
      <3>5. ~(Calling /\ ~provider.sent) /\ ~provider.owed
        BY <1>0, <3>1, <3>2 DEF TurnInv
      <3> QED
        BY <1>3, <1>r, <2>0, <3>1, <3>2, <3>3, <3>4, <3>5
    <2> QED
      BY <2>2, <2>3
  <1>11. CASE InterruptedJob(p)
    <2>1. PICK label \in {"stopRecovery", "stopWave", "raise"} :
            Look(p, label, after[p], "stopWave")
      BY <1>11, Zenon DEF InterruptedJob
    <2>2. Reads
      BY <1>11 DEF InterruptedJob
    <2> QED
      BY <1>f, <1>l, <2>1, <2>2 DEF Backs, Stops
  <1>12. CASE StopRecovery(p)
    BY <1>12, <1>j DEF StopRecovery
  <1>13. CASE StopRecovered(p)
    <2>1. PICK label \in {"recoveredDone", "interrupt", "raise"} :
            /\ Look(p, label, after[p], "interruptedRecovered")
            /\ label = "recoveredDone" => RunOver
      <3> DEFINE label == CASE run = NoRun \/ Ended(run) -> "recoveredDone"
                            [] run.status = "RECOVERY_REQUIRED" -> "interrupt"
                            [] OTHER -> "raise"
      <3>1. label \in {"recoveredDone", "interrupt", "raise"}
            /\ (label = "recoveredDone" => RunOver)
        BY DEF RunOver
      <3>2. Look(p, label, after[p], "interruptedRecovered")
        BY <1>13 DEF StopRecovered
      <3> HIDE DEF label
      <3> QED
        BY <3>1, <3>2
    <2>2. Reads
      BY <1>13 DEF StopRecovered
    <2> QED
      BY <1>f, <1>l, <2>1, <2>2 DEF Backs, Stops
  <1>14. CASE InterruptedRecovered(p)
    <2>1. PICK label \in {"stopWave", "recoveredDone", "recoveredPending", "raise"} :
            /\ Look(p, label, after[p], "stopWave")
            /\ label = "recoveredDone" =>
                 RunOver \/ (run.status = "INTERRUPTING" /\ job.status # "RECOVERY_REQUIRED")
      <3> DEFINE label == CASE run.status = "RECOVERY_REQUIRED" -> "stopWave"
                            [] Ended(run) -> "recoveredDone"
                            [] run.status = "INTERRUPTING" /\ run.interrupt = "ACKNOWLEDGED" ->
                                 IF job.status = "RECOVERY_REQUIRED" THEN "recoveredPending"
                                                                     ELSE "recoveredDone"
                            [] OTHER -> "raise"
      <3>1. label \in {"stopWave", "recoveredDone", "recoveredPending", "raise"}
            /\ (label = "recoveredDone" =>
                  RunOver \/ (run.status = "INTERRUPTING" /\ job.status # "RECOVERY_REQUIRED"))
        BY DEF RunOver
      <3>2. Look(p, label, after[p], "stopWave")
        BY <1>14 DEF InterruptedRecovered
      <3> HIDE DEF label
      <3> QED
        BY <3>1, <3>2
    <2>2. Reads
      BY <1>14 DEF InterruptedRecovered
    <2>3. label = "recoveredDone" =>
            RunOver \/ job.status \notin {"QUEUED", "RECOVERY_REQUIRED"}
      BY <1>4, <2>1 DEF RunOver
    <2> QED
      BY <1>f, <1>l, <2>1, <2>2, <2>3 DEF Backs, Stops
  <1>15. CASE RecoveredPending(p)
    BY <1>15, <1>j DEF RecoveredPending
  <1>16. CASE RecoveredDone(p)
    <2>0. pc[p] = "recoveredDone" /\ "stopWave" \in Places
      BY <1>3, <1>16 DEF RecoveredDone, At, Stops
    <2>1. CASE Move(p, "stopWave") /\ Reads
      <3>1. Arrived(p, "stopWave") => ActInv(p)'
        BY <1>a, <2>1, ReadsKeep DEF Stops
      <3> QED
        BY <1>2, <1>3, <2>0, <2>1, <3>1, ReadsKeep, MoveHolds DEF Places
    <2>2. CASE /\ job.status \notin {"CANCELED", "CANCEL_REQUESTED"}
               /\ TryJob(p, "CANCELED", job.delivery, "stopWave")
      <3>1. UNCHANGED <<run, wave>>
        BY <2>2 DEF TryJob, runtime
      <3>2. Arrived(p, "stopWave") /\ job'.status = "CANCELED" => ActInv(p)'
        BY <1>a, <3>1 DEF Stops
      <3>3. RunOver \/ "job" \in stale[p] \/ job.status \notin {"QUEUED", "RECOVERY_REQUIRED"}
        BY <2>0, Holding DEF ActInv, EndsInv
      <3>4. "job" \notin stale[p] /\ "CANCELED" \in {job.status} \cup JobTransitions[job.status]
              => RunOver
        BY <1>3, <2>2, <3>3, CanceledFrom
      <3>5. "CANCELED" \in JobStatus \ {"QUEUED"}
        BY DEF JobStatus, JobEnded
      <3> QED
        BY <1>2, <1>3, <1>4, <2>0, <2>2, <3>2, <3>4, <3>5, JobHolds DEF Places, Outer
    <2> QED
      BY <1>16, <2>1, <2>2 DEF RecoveredDone
  <1>17. CASE FinishStop(p)
    <2>1. PICK to : SetWave(p, to, "reconcile")
                    /\ (to = wave \/ (to = "STOPPING" /\ wave = "STOP_REQUESTED"))
      BY <1>17 DEF FinishStop
    <2>2. to \in WaveStatus /\ (wave \in Final => to \in Final)
          /\ (to = "SETTLED" => wave = "SETTLED") /\ (to \in Stopping => wave \in Final)
      BY <1>3, <2>1 DEF WaveStatus, Stopping, Final
    <2>3. Arrived(p, "reconcile") => ActInv(p)'
      BY <1>1, <1>3, ArrivedFree DEF Stops, RejectWay
    <2> QED
      BY <1>2, <1>3, <2>1, <2>2, <2>3, WaveHolds DEF Places
  <1> QED
    BY <1>5, <1>6, <1>7, <1>8, <1>9, <1>10, <1>11, <1>12, <1>13, <1>14, <1>15, <1>16,
       <1>17

LEMMA MarkHolds ==
  ASSUME Sound, NEW p \in Procs,
         MarkRun(p) \/ MarkEntry(p) \/ MarkJob(p) \/ MarkWave(p)
  PROVE  SInv'
  <1>0. /\ TypeOK /\ IInv /\ DataOK /\ ControlOK /\ RunInv
        /\ OverInv /\ NewInv /\ TurnInv /\ EventInv /\ LifeInv
    BY TypeParts DEF Sound, SInv, IInv, StoreInv
  <1>1. pc[p] \in Marks
    BY DEF MarkRun, MarkEntry, MarkJob, MarkWave, At, Marks
  <1>2. /\ lock = p => ~Overtaken(p)
        /\ back[p] \in Stops => ~Overtaken(p) /\ Stoppable(p)
        /\ back[p] # "rejectJob" /\ pc[p] # "idle" /\ pc[p] # "link" /\ pc[p] \notin Outer
        /\ pc[p] # "markWave" => lock = p \/ back[p] \in Stops
        /\ pc[p] = "markRun" => RunBegun /\ ~Overtaken(p)
    <2>1. pc[p] \notin Outer /\ pc[p] # "idle" /\ pc[p] # "link" /\ pc[p] \notin RejectWay
      BY <1>1 DEF Marks, Outer, RejectWay
    <2>2. StopInv(p)
      BY Holding DEF ActInv
    <2> QED
      BY <1>1, <2>1, <2>2, Holding DEF StopInv, Marks
  <1>3. /\ after[p] \in Places /\ back[p] \in Places
        /\ back[p] \in Backs \ {"release", "requeue", "rejectJob"}
        /\ Marks \subseteq Places
        /\ job.delivery \in Delivery /\ wave \in WaveStatus /\ run \in RunRecord
    <2>1. pc[p] \notin Early \cup Recovering
      BY <1>1 DEF Marks, Early, Recovering
    <2>2. back[p] \in Backs \ {"release", "requeue"} /\ after[p] \in Afters
      BY <1>0, <2>1, AtWork
    <2> QED
      BY <1>0, <1>2, <2>2, PlacesOf DEF DataOK, Claimed
  <1>s. ASSUME back[p] \in Stops, run' = run \/ run' # NoRun,
               wave \in Final => wave' \in Final, job' = job \/ job'.status # "QUEUED"
        PROVE  Stoppable(p)'
    BY <1>2, <1>s DEF Stoppable
  <1>b. ASSUME Arrived(p, back[p]), UNCHANGED <<run, job>>, wave \in Final => wave' \in Final
        PROVE  ActInv(p)'
    BY <1>2, <1>3, <1>b, <1>s, BackActs DEF Arrived, Overtaken
  <1>m. ASSUME NEW next \in Marks \ {"markRun"}, pc'[p] = next, lock' = lock,
               stale'[p] \in {{}, stale[p]}, back'[p] = back[p],
               next # "markWave" => pc[p] # "markWave",
               run' = run \/ run' # NoRun, UNCHANGED wave, job' = job \/ job'.status # "QUEUED"
        PROVE  ActInv(p)'
    <2>1. Overtaken(p)' => Overtaken(p)
      BY <1>m DEF Overtaken
    <2>2. back[p] \in Stops => Stoppable(p)'
      BY <1>m, <1>s
    <2> QED
      BY <1>2, <1>m, <2>1, <2>2, MarkActs
  <1>4. CASE MarkRun(p)
    <2>0. UNCHANGED <<wave, phase, job, provider, inbox, up>> /\ pc[p] = "markRun"
      BY <1>4 DEF MarkRun, discourse, app, At
    <2>1. \/ run' = run /\ Move(p, back[p])
          \/ /\ run' = run \/ (/\ run' = Fenced(run) /\ ~Ended(run)
                               /\ run.status \notin {"none", "RECOVERY_REQUIRED"})
             /\ Look(p, "markEntry", after[p], back[p])
      BY <1>4, Zenon DEF MarkRun
    <2>2. CASE run' = run /\ Move(p, back[p])
      BY <1>2, <1>3, <1>b, <2>0, <2>2, SameWave, MoveHolds DEF Places
    <2>3. CASE Look(p, "markEntry", after[p], back[p])
      <3>1. "markEntry" \in Places
        BY <1>3 DEF Marks
      <3>2. Beside(p) /\ Saw(p, "markEntry", after[p], back[p])
        BY <1>0, <1>3, <2>3, <3>1, Looked DEF Places
      <3>3. /\ run.status \in {"STARTING", "RUNNING", "INTERRUPTING"} \/ run' = run
            /\ run' # run => run'.status = "RECOVERY_REQUIRED" /\ run'.intact = run.intact
                             /\ run'.turn = run.turn /\ ~Ended(run) /\ ~Ended(run')
            /\ run' # run /\ run.delivery \in {"SENDING", "AMBIGUOUS"} =>
                 run'.delivery = "AMBIGUOUS"
        <4>1. CASE run' = run
          BY <4>1
        <4>2. CASE run' # run
          <5>1. run' = Fenced(run) /\ ~Ended(run) /\ run.status # "RECOVERY_REQUIRED"
            BY <2>1, <2>3, <4>2, <3>2 DEF Move, Goto, Saw
          <5>2. RunBegun
            BY <1>2, <2>0
          <5>3. run.status \in {"STARTING", "RUNNING", "INTERRUPTING"}
            BY <1>3, <5>1, <5>2 DEF RunBegun, RunRecord, Ended, RunEnded
          <5>4. run'.status = "RECOVERY_REQUIRED" /\ run'.intact = run.intact
                /\ run'.turn = run.turn
            BY <1>3, <5>1 DEF Fenced, RunRecord
          <5>5. run.delivery \in {"SENDING", "AMBIGUOUS"} => run'.delivery = "AMBIGUOUS"
            BY <1>3, <5>1 DEF Fenced, RunRecord
          <5> QED
            BY <5>1, <5>3, <5>4, <5>5 DEF Ended, RunEnded
        <4> QED
          BY <4>1, <4>2
      <3>4. run' = run \/ run' # NoRun
        BY <3>3 DEF NoRun
      <3>5. ActInv(p)'
        BY <1>m, <2>0, <3>2, <3>4 DEF Saw, Marks
      <3>6. Steady(p)
        BY <3>3 DEF Steady, Ended, RunEnded, Failed, Verified, Unsent
      <3>7. TurnInv'
        <4>1. provider.owed => run' = run
          BY <1>0, <3>3 DEF TurnInv
        <4>2. Calling /\ ~provider.sent =>
                /\ run'.status \in {"STARTING", "RECOVERY_REQUIRED"}
                /\ run'.delivery \in {"SENDING", "AMBIGUOUS"}
                /\ run'.turn = run.turn
          BY <1>0, <3>3 DEF TurnInv
        <4>3. pc'[p] # "calling"
          BY <3>2 DEF Saw
        <4>4. /\ Ended(run') => Ended(run)
              /\ run'.status = "COMPLETED" => run.status = "COMPLETED"
          BY <3>3
        <4> QED
          BY <2>0, <3>2, <4>1, <4>2, <4>3, <4>4, TurnKeeps
      <3> QED
        BY <1>2, <2>0, <3>2, <3>5, <3>6, <3>7, RunHolds DEF Saw
    <2> QED
      BY <2>1, <2>2, <2>3
  <1>5. CASE MarkEntry(p)
    <2>1. SetEntry(p, Closing(entry, Ended(run)), "markJob") /\ pc[p] = "markEntry"
      BY <1>5 DEF MarkEntry, At
    <2>2. Closing(entry, Ended(run)) \in EntryStatus /\ "markJob" \in Places
      BY <1>0, <1>3 DEF Closing, DataOK, EntryStatus, Marks
    <2>3. UNCHANGED <<wave, job, run>>
      BY <2>1 DEF SetEntry, discourse
    <2>4. Arrived(p, "markJob") => ActInv(p)'
      BY <1>m, <2>1, <2>3 DEF Arrived, Marks
    <2> QED
      BY <1>2, <2>1, <2>2, <2>4, EntryHolds DEF Places
  <1>6. CASE MarkJob(p)
    <2>1. TryJob(p, "RECOVERY_REQUIRED", job.delivery, "markWave") /\ pc[p] = "markJob"
          /\ "markWave" \in Places
      BY <1>3, <1>6 DEF MarkJob, At, Marks
    <2>2. UNCHANGED <<wave, run>>
      BY <2>1 DEF TryJob, runtime
    <2>3. Arrived(p, "markWave") /\ job'.status = "RECOVERY_REQUIRED" => ActInv(p)'
      BY <1>m, <2>1, <2>2 DEF Arrived, Marks
    <2>4. run # NoRun \/ lock = p
      BY <1>2, <2>1, Stopper
    <2> QED
      BY <1>2, <1>3, <2>1, <2>3, <2>4, JobHolds DEF JobStatus, JobEnded, Places, Outer
  <1>7. CASE MarkWave(p)
    <2>1. PICK to : SetWave(p, to, back[p])
                    /\ (to = wave \/ (to = "RECOVERY_REQUIRED" /\ wave \notin Final))
      BY <1>7 DEF MarkWave, Final
    <2>2. to \in WaveStatus /\ (wave \in Final => to \in Final)
          /\ (to = "SETTLED" => wave = "SETTLED") /\ (to \in Stopping => wave \in Final)
      BY <1>3, <2>1 DEF WaveStatus, Stopping, Final
    <2>3. UNCHANGED <<run, job>>
      BY <2>1 DEF SetWave, runtime
    <2> QED
      BY <1>2, <1>3, <1>b, <2>1, <2>2, <2>3, WaveHolds DEF Places
  <1> QED
    BY <1>4, <1>5, <1>6, <1>7

-----------------------------------------------------------------------------
(* The end of a turn.                                                      *)

\* A run that ended is only filled in.
LEMMA EndedHolds ==
  ASSUME Sound, NEW p \in Procs, NEW next \in Places, NEW a, NEW b, Ended(run),
         Beside(p), Saw(p, next, a, b), ActInv(p)', pc[p] \notin Outer,
         run'.status = run.status, run'.intact = run.intact,
         UNCHANGED <<wave, phase, job, provider, inbox, up>>
  PROVE  SInv'
  <1>1. Ended(run') /\ (Failed(run) => Failed(run')) /\ (Verified(run) => Verified(run'))
    BY DEF Ended, Failed, Verified
  <1>2. run.status \notin {"none", "QUEUED", "STARTING", "RECOVERY_REQUIRED"}
    BY DEF Ended, RunEnded
  <1>3. Steady(p)
    BY <1>1, <1>2 DEF Steady, Unsent
  <1>4. pc'[p] # "calling"
    BY DEF Saw, Places
  <1>5. ~(Calling /\ ~provider.sent)
    BY <1>2 DEF Sound, SInv, TurnInv
  <1>6. TurnInv'
    BY <1>1, <1>4, <1>5, TurnKeeps
  <1> QED
    BY <1>3, <1>4, <1>6, RunHolds DEF Saw

LEMMA ResultHolds ==
  ASSUME Sound, NEW p \in Procs,
         \/ Ingest(p) \/ Project(p) \/ ProjectedPeer(p) \/ FailResult(p)
         \/ AppendMessage(p) \/ Complete(p) \/ IngestFailure(p) \/ CloseFailedJob(p)
         \/ SettleRuntime(p)
  PROVE  SInv'
  <1>0. /\ TypeOK /\ IInv /\ DataOK /\ ControlOK
    BY TypeParts DEF Sound
  <1>1. pc[p] \in ResultLabels
    BY DEF Ingest, Project, ProjectedPeer, FailResult, AppendMessage, Complete,
       IngestFailure, CloseFailedJob, SettleRuntime, At, ResultLabels
  <1>2. /\ lock = p => ~Overtaken(p)
        /\ back[p] # "rejectJob" /\ pc[p] \notin Outer /\ pc[p] \notin RejectWay
        /\ pc[p] \in Over /\ ~Overtaken(p) => Ended(run)
        /\ pc[p] = "fail" /\ lock # p /\ ~Overtaken(p) => Verified(run) \/ Failed(run)
        /\ pc[p] \in {"ingest", "project", "append"} /\ ~Overtaken(p) => Verified(run)
        /\ Overtaken(p) => "job" \in stale[p]
    <2>1. pc[p] \notin Outer /\ pc[p] \notin RejectWay
      BY <1>1 DEF ResultLabels, Outer, RejectWay
    <2> QED
      BY <2>1, Holding DEF ActInv, EndsInv, SeenInv, ResultInv
  <1>3. /\ after[p] \in Places /\ back[p] \in Places /\ after[p] \notin Claimed
        /\ run \in RunRecord /\ entry \in EntryStatus
        /\ ResultLabels \subseteq Places /\ "markRun" \in Places
        /\ {"settle", "settleOnly", "reconcile"} \subseteq Places \ Claimed
    <2>1. pc[p] \notin Early \cup Recovering
      BY <1>1 DEF ResultLabels, Early, Recovering
    <2>2. after[p] \in Afters /\ back[p] \in Backs
      BY <1>0, <2>1, AtWork
    <2>3. ResultLabels \subseteq Places
      BY ResultPlain DEF Places
    <2>4. "markRun" \in Places
      BY PlacesOf DEF Claimed, Marks
    <2> QED
      BY <1>0, <2>2, <2>3, <2>4, PlacesOf DEF DataOK
  <1>o. ASSUME NEW next \in (ResultLabels \cap Over) \ {"fail"}, pc'[p] = next,
               stale'[p] \in {{}, stale[p]}, lock' = lock, back'[p] # "rejectJob",
               ~Overtaken(p) => Ended(run)', ~Overtaken(p)
        PROVE  ActInv(p)'
    <2>1. next \in Over \ {"rejectJob", "cancelEntry", "cancelDone"}
      BY DEF ResultLabels
    <2>2. ~Overtaken(p)'
      BY <1>o DEF Overtaken
    <2> QED
      BY <1>o, <2>1, <2>2, OverActs
  <1>l. ASSUME NEW label \in ResultLabels \ {"fail", "ingest"}, Look(p, label, after[p], "settleOnly"),
               Reads, ~Overtaken(p), Ended(run)
        PROVE  SInv'
    <2>1. "settleOnly" \in Places
      BY <1>3
    <2>2. Saw(p, label, after[p], "settleOnly") => ActInv(p)'
      <3>1. CASE label \in Over
        BY <1>l, <1>o, <3>1, ReadsKeep DEF Saw, Ended
      <3>2. CASE label \notin Over
        <4>1. label \in {"settle", "settleOnly"}
          BY <3>2 DEF ResultLabels, Over
        <4> QED
          BY <1>3, <4>1, SawFree
      <3> QED
        BY <3>1, <3>2
    <2> QED
      BY <1>2, <1>3, <1>l, <2>1, <2>2, ReadsKeep, LookHolds DEF Places
  <1>j. ASSUME NEW status \in {"FAILED", "CANCELED", "COMPLETED"},
               TryJob(p, status, "TERMINAL", "settle"), pc[p] \in Over
        PROVE  SInv'
    <2>1. "job" \notin stale[p] => Ended(run)
      BY <1>2, <1>j
    <2>2. "job" \notin stale[p] => run # NoRun /\ RunOver
      BY <2>1 DEF Ended, RunEnded, NoRun, RunOver
    <2>3. Arrived(p, "settle") => ActInv(p)'
      BY <1>2, <1>3, ArrivedFree
    <2>4. status \in JobStatus \ {"QUEUED"} /\ "TERMINAL" \in Delivery
      BY DEF JobStatus, JobEnded, Delivery
    <2>5. pc[p] # "link"
      BY <1>2 DEF Outer
    <2> QED
      BY <1>2, <1>3, <1>j, <2>2, <2>3, <2>4, <2>5, JobHolds DEF Places
  <1>m. ASSUME Move(p, "settle"), Reads
        PROVE  SInv'
    <2>1. Arrived(p, "settle") => ActInv(p)'
      BY <1>2, <1>3, ArrivedFree
    <2> QED
      BY <1>2, <1>3, <1>m, <2>1, ReadsKeep, MoveHolds DEF Places
  <1>4. CASE Ingest(p)
    <2>0. UNCHANGED <<discourse, entry, released, provider, app>> /\ pc[p] = "ingest"
      BY <1>4 DEF Ingest, At
    <2>1. CASE Overtaken(p)
      BY <1>4, <1>m, <2>0, <2>1 DEF Ingest, Reads, runtime
    <2>2. CASE ~Overtaken(p)
      <3>1. run' = [run EXCEPT !.dated = TRUE] /\ Look(p, "project", after[p], back[p])
        BY <1>4, <2>2 DEF Ingest
      <3>2. run'.status = run.status /\ run'.intact = run.intact
        BY <1>3, <3>1 DEF RunRecord
      <3>3. Ended(run) /\ Ended(run')
        BY <1>2, <2>0, <2>2, <3>2 DEF Over, Ended
      <3>4. "project" \in ResultLabels \cap Over
        BY DEF ResultLabels, Over
      <3>5. Beside(p) /\ Saw(p, "project", after[p], back[p])
        BY <1>0, <1>3, <3>1, <3>4, Looked DEF Places
      <3>6. ActInv(p)'
        BY <1>2, <1>o, <2>2, <3>3, <3>4, <3>5 DEF Saw
      <3>7. UNCHANGED <<wave, phase, job, provider, inbox, up>>
        BY <2>0 DEF discourse, app
      <3> QED
        BY <1>2, <1>3, <3>2, <3>3, <3>4, <3>5, <3>6, <3>7, EndedHolds
    <2> QED
      BY <2>1, <2>2
  <1>5. CASE Project(p)
    <2>1. Reads /\ pc[p] = "project" /\ ~Overtaken(p)
      BY <1>5 DEF Project, At
    <2>2. Verified(run) /\ Ended(run)
      BY <1>2, <2>1 DEF Over
    <2>3. PICK label \in {"settleOnly", "failResult", "settle", "append"} :
            Look(p, label, after[p], "settleOnly")
      BY <1>5, <2>2 DEF Project, Verified
    <2>4. label \in ResultLabels \ {"fail", "ingest"}
      BY DEF ResultLabels
    <2> QED
      BY <1>l, <2>1, <2>2, <2>3, <2>4
  <1>6. CASE ProjectedPeer(p)
    BY <1>6, <1>m DEF ProjectedPeer
  <1>7. CASE FailResult(p)
    BY <1>7, <1>j DEF FailResult, At, Over
  <1>8. CASE AppendMessage(p)
    <2>1. UNCHANGED <<wave, phase, job, run, provider, inbox, up>> /\ pc[p] = "append"
      BY <1>8 DEF AppendMessage, runtime, app, At
    <2>2. (~Overtaken(p) /\ Move(p, "complete")) \/ Throw(p)
      BY <1>8 DEF AppendMessage
    <2>3. CASE Throw(p)
      BY <1>2, <2>1, <2>3, SameWave, ThrowHolds
    <2>4. CASE ~Overtaken(p) /\ Move(p, "complete")
      <3>1. Ended(run)'
        BY <1>2, <2>1, <2>4 DEF Over, Ended
      <3>2. "complete" \in (ResultLabels \cap Over) \ {"fail"}
        BY DEF ResultLabels, Over
      <3>3. Arrived(p, "complete") => ActInv(p)'
        BY <1>2, <1>o, <2>4, <3>1, <3>2 DEF Arrived
      <3> QED
        BY <1>2, <1>3, <2>1, <2>4, <3>2, <3>3, SameWave, MoveHolds DEF Places
    <2> QED
      BY <2>2, <2>3, <2>4
  <1>9. CASE Complete(p)
    BY <1>9, <1>j DEF Complete, At, Over
  <1>10. CASE IngestFailure(p)
    <2>0. /\ UNCHANGED <<discourse, entry, released, provider, app>> /\ pc[p] = "fail"
          /\ ~Overtaken(p) /\ run' = [run EXCEPT !.interrupt = Closed(run)]
      BY <1>10 DEF IngestFailure, At
    <2>1. PICK label \in {"markRun", "settle", "failCanceled", "failFailed"} :
            /\ Look(p, label, after[p], "settleOnly")
            /\ label = "markRun" => run.status = "COMPLETED" /\ run.intact # "UNCHANGED"
      BY <1>10, Zenon DEF IngestFailure
    <2>2. run'.status = run.status /\ run'.intact = run.intact
      BY <1>3, <2>0 DEF RunRecord
    <2>3. Ended(run) /\ Ended(run')
      BY <1>2, <2>0, <2>2 DEF Over, Ended
    <2>4. label \in Places
      BY <1>3 DEF ResultLabels
    <2>5. Beside(p) /\ Saw(p, label, after[p], "settleOnly")
      <3>1. label # "raise"
        BY <2>1
      <3> QED
        BY <1>0, <1>3, <2>1, <2>4, <3>1, Looked DEF Places
    <2>6. ActInv(p)'
      <3>1. CASE label = "markRun"
        <4>1. lock = p
          BY <1>2, <2>0, <2>1, <3>1 DEF Verified, Failed
        <4>2. RunBegun'
          BY <2>3 DEF RunBegun, Ended, RunEnded
        <4>3. "settleOnly" \notin Stops
          BY DEF Stops
        <4> QED
          BY <2>5, <3>1, <4>1, <4>2, <4>3, MarkActs DEF Saw, Marks, Overtaken
      <3>2. CASE label = "settle"
        BY <1>3, <2>5, <3>2, SawFree
      <3>3. CASE label \in {"failCanceled", "failFailed"}
        <4>1. label \in (ResultLabels \cap Over) \ {"fail"}
          BY <3>3 DEF ResultLabels, Over
        <4> QED
          BY <1>o, <2>0, <2>3, <2>5, <4>1 DEF Saw
      <3> QED
        BY <2>1, <3>1, <3>2, <3>3
    <2>7. UNCHANGED <<wave, phase, job, provider, inbox, up>>
      BY <2>0 DEF discourse, app
    <2> QED
      BY <1>2, <2>2, <2>3, <2>4, <2>5, <2>6, <2>7, EndedHolds
  <1>11. CASE CloseFailedJob(p)
    BY <1>11, <1>j DEF CloseFailedJob, At, Over
  <1>12. CASE SettleRuntime(p)
    <2>1. PICK e \in {entry, Closing(entry, entry = "LEASED")}, next \in {"reconcile", after[p]} :
            SetEntry(p, e, next)
      BY <1>12, Zenon DEF SettleRuntime
    <2>2. e \in EntryStatus
      BY <1>3 DEF Closing, EntryStatus
    <2>3. Arrived(p, next) => ActInv(p)'
      BY <1>2, <1>3, ArrivedFree
    <2> QED
      BY <1>2, <1>3, <2>1, <2>2, <2>3, EntryHolds DEF Places
  <1> QED
    BY <1>4, <1>5, <1>6, <1>7, <1>8, <1>9, <1>10, <1>11, <1>12

-----------------------------------------------------------------------------
(* Recovery, under the lock of the conversation.                           *)

\* The lock of the conversation is taken by a process that is not the user's.
LEMMA EnterHolds ==
  ASSUME Sound, NEW p \in Procs, NEW label \in Places, NEW a \in Labels, NEW b \in Labels,
         Enter(p, label, a, b), lock = "free", Reads, pc[p] # "idle",
         pc[p] \notin {"link", "relink", "recover"},
         pc[p] \in {"settling", "failed", "lockRecover"} => label \in BootLinks,
         label \notin Claimed, b # "rejectJob"
  PROVE  SInv'
  <1>0. ControlOK /\ LifeInv
    BY TypeParts DEF Sound, SInv
  <1>1. /\ Beside(p) /\ lock' = p /\ pc'[p] = label /\ stale'[p] = {}
        /\ after'[p] = a /\ back'[p] = b
    BY <1>0, Entered DEF Places
  <1>2. ActInv(p)'
    BY <1>1, FreeActs DEF Overtaken
  <1>3. p # "user"
    BY <1>0 DEF LifeInv
  <1>4. LifeGoes(p)
    BY <1>0, <1>1, <1>3 DEF LifeInv, LifeGoes
  <1>5. LinkGoes(p)
    BY <1>1 DEF LinkGoes, BootLinks
  <1> QED
    BY <1>1, <1>2, <1>4, <1>5, ReadsKeep, QuietHolds DEF Places, UpGoes

\* A run that was updated as it was read.
LEMMA TriedHolds ==
  ASSUME Sound, NEW p \in Procs, NEW new \in RunRecord, NEW next \in Places,
         TryRun(p, new, next), pc[p] \notin Outer,
         run = seen[p] /\ run' = new /\ pc'[p] = next /\ UNCHANGED <<job, provider>>
           /\ Beside(p) /\ stale'[p] = stale[p] /\ back'[p] = back[p] /\ lock' = lock =>
             ActInv(p)' /\ Steady(p) /\ TurnInv'
  PROVE  SInv'
  <1>0. TypeOK
    BY DEF Sound
  <1>1. /\ Beside(p)
        /\ UNCHANGED <<wave, phase, job, provider, inbox, up>>
        /\ \/ run' = run /\ Threw(p)
           \/ /\ run = seen[p] /\ run' = new
              /\ pc'[p] = next /\ lock' = lock
              /\ seen'[p] = new /\ stale'[p] = stale[p]
              /\ after'[p] = after[p] /\ back'[p] = back[p]
    BY <1>0, RunTried DEF Places
  <1>2. CASE run' = run /\ Threw(p)
    <2>1. LifeGoes(p) /\ LinkGoes(p)
      BY <1>2, InnerGoes
    <2>2. pc'[p] # "calling"
      BY <1>2 DEF Threw
    <2> QED
      BY <1>1, <1>2, <2>1, <2>2, ThrewActs, SameWave, QuietHolds DEF UpGoes
  <1>3. CASE ~(run' = run /\ Threw(p))
    BY <1>1, <1>3, RunHolds DEF Places
  <1> QED
    BY <1>2, <1>3

\* A write of the wave that is not refused.
LEMMA WaveSetHolds ==
  ASSUME Sound, NEW p \in Procs, NEW next \in Places, Goto(p, next),
         Touch(p, {"wave"}) \/ Touch(p, {}),
         UNCHANGED <<phase, job, message, runtime, provider, app, seen, after, back>>,
         WaveGoes(p), pc[p] \notin Outer, Arrived(p, next) => ActInv(p)'
  PROVE  SInv'
  <1>0. ControlOK
    BY TypeParts DEF Sound
  <1>1. Beside(p) /\ Arrived(p, next)
    BY <1>0, Touched DEF Places
  <1>2. LifeGoes(p) /\ LinkGoes(p)
    BY <1>1, InnerGoes DEF Arrived
  <1>3. UNCHANGED <<phase, job, run, provider, inbox, up>> /\ pc'[p] # "calling"
    BY <1>1 DEF runtime, app, Arrived, Places
  <1> QED
    BY <1>1, <1>2, <1>3, QuietHolds DEF UpGoes

LEMMA ReadHolds ==
  ASSUME Sound, NEW p \in Procs,
         LockRecover(p) \/ Recover(p) \/ Relink(p) \/ ReleaseEntry(p) \/ Requeue(p)
  PROVE  SInv'
  <1>0. /\ TypeOK /\ IInv /\ DataOK /\ ControlOK /\ NewInv /\ LifeInv
    BY TypeParts DEF Sound, SInv
  <1>1. /\ {"recover", "advance", "idle"} \subseteq Places
        /\ {"relink", "release", "requeue", "decide"} \subseteq Places
        /\ {"recover", "advance", "idle"} \cap Claimed = {}
    BY PlacesOf DEF Claimed, SeenUsed
  <1>2. pc[p] # "lockRecover" => /\ lock = p /\ ~Overtaken(p) /\ pc[p] \in RecoverLabels
                                 /\ pc[p] \notin RejectWay /\ back[p] # "rejectJob"
    <2>1. pc[p] # "lockRecover" => pc[p] \in RecoverLabels /\ pc[p] \notin RejectWay
      BY DEF LockRecover, Recover, Relink, ReleaseEntry, Requeue, At, RecoverLabels,
         RejectWay
    <2> QED
      BY <2>1, Holding, RecoverPlain DEF LockInv
  <1>h. ASSUME NEW next \in {"release", "requeue", "decide"}, Arrived(p, next),
               pc[p] \in SeenUsed, ~Overtaken(p), UNCHANGED run
        PROVE  ActInv(p)'
    <2>1. Ended(seen[p]) => Ended(run)
      BY <1>h, Holding DEF ActInv, EndsInv
    <2>2. pc'[p] \in SeenUsed \ (Begun \cup Marking) /\ back'[p] # "rejectJob"
      <3>1. pc[p] \notin RejectWay
        BY <1>h DEF SeenUsed, RejectWay
      <3> QED
        BY <1>h, <3>1, Holding DEF Arrived, SeenUsed, Begun, Marking
    <2> QED
      BY <1>h, <2>1, <2>2, SeenActs DEF Arrived, Overtaken, Ended
  <1>3. CASE LockRecover(p)
    <2>1. Enter(p, "recover", "advance", "idle") /\ lock = "free" /\ Reads
          /\ pc[p] = "lockRecover"
      BY <1>3 DEF LockRecover, At
    <2> QED
      BY <1>1, <2>1, EnterHolds DEF BootLinks, Places
  <1>4. CASE Recover(p)
    <2>0. pc[p] = "recover" /\ Reads /\ lock = p
      BY <1>2, <1>4 DEF Recover, At
    <2>1. PICK label \in {"advance", "relink", "release", "requeue"},
               b \in {"release", "requeue"} :
            /\ Look(p, label, "advance", b)
            /\ label = "advance" => run = NoRun
            /\ label \in {"release", "requeue"} => job.status # "QUEUED"
      BY <1>4, Zenon DEF Recover
    <2>2. label \in Places /\ b \in Places /\ label # "raise"
      BY <1>1
    <2>3. Beside(p) /\ Saw(p, label, "advance", b)
      BY <1>0, <1>1, <2>1, <2>2, Looked DEF Places, DataOK
    <2>4. ActInv(p)'
      <3>1. CASE label = "advance"
        BY <1>1, <2>3, <3>1, SawFree
      <3>2. CASE label # "advance"
        <4>1. label \in SeenUsed \ (Begun \cup Marking) /\ label \in UsesRun
          BY <3>2 DEF SeenUsed, Begun, Marking, UsesRun
        <4>2. b \notin Stops
          BY DEF Stops
        <4> QED
          BY <2>0, <2>3, <4>1, <4>2, SeenActs, ReadsKeep DEF Saw, Overtaken
      <3> QED
        BY <3>1, <3>2
    <2>5. LifeGoes(p)
      BY <1>0, <2>0, <2>3 DEF LifeInv, LifeGoes, Saw
    <2>6. LinkGoes(p)
      BY <2>0, <2>1, <2>3, ReadsKeep DEF LinkGoes, BootLinks, Saw
    <2>7. pc'[p] # "calling"
      BY <2>2, <2>3 DEF Saw, Places
    <2> QED
      BY <2>0, <2>3, <2>4, <2>5, <2>6, <2>7, ReadsKeep, QuietHolds DEF UpGoes
  <1>5. CASE Relink(p)
    <2>1. TryJob(p, "RESOLVING_CONTEXT", job.delivery, back[p]) /\ pc[p] = "relink"
      BY <1>5 DEF Relink, At
    <2>2. back[p] \in {"release", "requeue"}
      BY <2>1, Holding DEF ActInv, EndsInv
    <2>3. job.delivery \in Delivery /\ "RESOLVING_CONTEXT" \in JobStatus \ {"QUEUED"}
          /\ "RESOLVING_CONTEXT" \notin JobEnded /\ pc[p] \in SeenUsed
      BY <1>0, <2>1 DEF DataOK, JobStatus, JobEnded, SeenUsed
    <2>4. Arrived(p, back[p]) => ActInv(p)'
      BY <1>2, <1>h, <2>1, <2>2, <2>3 DEF TryJob, runtime
    <2> QED
      BY <1>1, <1>2, <2>1, <2>2, <2>3, <2>4, JobHolds DEF Places, Outer
  <1>6. CASE ReleaseEntry(p)
    <2>0. UNCHANGED <<wave, phase, job, run, provider, inbox, up>> /\ pc[p] = "release"
      BY <1>6 DEF ReleaseEntry, discourse, app, At
    <2>1. \/ Move(p, "requeue")
          \/ Touch(p, {"entry"}) /\ Goto(p, "requeue") /\ UNCHANGED <<seen, after, back>>
          \/ Throw(p)
      BY <1>6 DEF ReleaseEntry
    <2>2. pc[p] \notin Outer /\ pc[p] \in SeenUsed
      BY <2>0 DEF Outer, SeenUsed
    <2>3. CASE Throw(p)
      BY <2>0, <2>2, <2>3, SameWave, ThrowHolds
    <2>4. CASE \/ Move(p, "requeue")
               \/ Touch(p, {"entry"}) /\ Goto(p, "requeue") /\ UNCHANGED <<seen, after, back>>
      <3>1. Beside(p) /\ Arrived(p, "requeue")
        BY <1>0, <1>1, <2>4, Moved, Touched DEF Places
      <3>2. ActInv(p)'
        BY <1>2, <1>h, <2>0, <2>2, <3>1
      <3>3. LifeGoes(p) /\ LinkGoes(p) /\ pc'[p] # "calling"
        BY <2>2, <3>1, InnerGoes DEF Arrived
      <3> QED
        BY <2>0, <3>1, <3>2, <3>3, SameWave, QuietHolds DEF UpGoes
    <2> QED
      BY <2>1, <2>3, <2>4
  <1>7. CASE Requeue(p)
    <2>1. PICK to : SetWave(p, to, "decide")
                    /\ (to = wave \/ (to = "QUEUED" /\ wave \in {"PLANNED", "SNAPSHOTTING"}))
      BY <1>7 DEF Requeue
    <2>2. to \in WaveStatus /\ (wave \in Final => to \in Final)
          /\ (to = "SETTLED" => wave = "SETTLED") /\ (to \in Stopping => wave \in Final)
      BY <1>0, <2>1 DEF DataOK, WaveStatus, Unsubmitted, Stopping, Final
    <2>3. pc[p] \notin Outer /\ pc[p] \in SeenUsed /\ pc[p] = "requeue"
      BY <1>7 DEF Requeue, At, Outer, SeenUsed
    <2>4. Arrived(p, "decide") => ActInv(p)'
      BY <1>2, <1>h, <2>1, <2>3 DEF SetWave, runtime
    <2> QED
      BY <1>1, <2>1, <2>2, <2>3, <2>4, WaveHolds DEF Places
  <1> QED
    BY <1>3, <1>4, <1>5, <1>6, <1>7

\* The run that is acted on is the one that was read: if it ended, so did the
\* run there is.
LEMMA DecideHolds ==
  ASSUME Sound, NEW p \in Procs, Decide(p)
  PROVE  SInv'
  <1>0. DataOK /\ ControlOK
    BY TypeParts DEF Sound
  <1>1. pc[p] = "decide" /\ Reads /\ UNCHANGED <<lock, handling, seen, stale, after>>
    BY DEF Decide, At
  <1>2. lock = p /\ ~Overtaken(p) /\ (Ended(seen[p]) => Ended(run))
    BY <1>1, Holding, RecoverPlain DEF LockInv, RecoverLabels, ActInv, EndsInv, SeenUsed
  <1> DEFINE labels == {"rCancelRun", "rInterrupted", "rRequired", "markRun", "settle", "fail",
                        "ingest", "rRunning", "rStarting", "advance"}
  <1> DEFINE r == seen[p]
             jobEnded == job.status \in JobEnded
             interrupted == job.status = "CANCEL_REQUESTED" /\ r.interrupt # "none"
             completed == CASE job.status = "COMPLETED" -> "settle"
                            [] job.status # "COMPLETED" /\ ~r.dated -> "markRun"
                            [] OTHER -> IF provider.answer = "blank" THEN "fail" ELSE "ingest"
             failed == IF jobEnded THEN "settle" ELSE IF r.turn THEN "fail" ELSE "markRun"
             next ==
        CASE job.status = "CANCEL_REQUESTED" /\ NeverSent(r) -> "rCancelRun"
          [] job.status = "CANCEL_REQUESTED" /\ r.interrupt # "none"
               /\ r.status \in {"INTERRUPTING", "RECOVERY_REQUIRED"} -> "rInterrupted"
          [] r.status = "RECOVERY_REQUIRED" /\ ~jobEnded /\ ~interrupted -> "rRequired"
          [] r.status = "COMPLETED" /\ r.intact # "UNCHANGED" -> "markRun"
          [] r.status = "COMPLETED" /\ r.intact = "UNCHANGED" -> completed
          [] r.status \in {"FAILED", "INTERRUPTED"}
               /\ ~(job.status = "CANCEL_REQUESTED" /\ NeverSent(r)) -> failed
          [] Acknowledged(r) -> "rRunning"
          [] r.status = "STARTING" -> "rStarting"
          [] OTHER -> "advance"
             b == IF r.status = "COMPLETED" /\ r.intact # "UNCHANGED"
                  THEN "settleOnly" ELSE "advance"
  <1>3. pc' = [pc EXCEPT ![p] = next] /\ back' = [back EXCEPT ![p] = b]
    BY DEF Decide
  <1>a. completed \in {"settle", "markRun", "fail", "ingest"} /\ failed \in {"settle", "fail", "markRun"}
    OBVIOUS
  <1> HIDE DEF completed, failed
  <1>b. /\ next \in labels
        /\ next = "rCancelRun" => NeverSent(r) /\ job.status # "QUEUED"
        /\ next \in {"markRun", "fail", "ingest"} => Ended(r)
    BY <1>a DEF Ended, RunEnded
  <1>c. b \notin Stops \cup {"rejectJob"}
    BY DEF Stops
  <1> HIDE DEF next, b
  <1>4. Beside(p) /\ pc'[p] = next /\ back'[p] = b /\ lock' = lock /\ ~Overtaken(p)'
        /\ seen'[p] = seen[p]
    BY <1>0, <1>1, <1>2, <1>3 DEF ControlOK, Beside, Overtaken
  <1>5. UNCHANGED <<wave, phase, job, run, provider, inbox, up>> /\ WaveGoes(p)
    BY <1>1, ReadsKeep
  <1>6. ActInv(p)'
    <2>1. CASE next = "markRun"
      <3>1. RunBegun'
        BY <1>2, <1>5, <1>b, <2>1 DEF RunBegun, Ended, RunEnded
      <3> QED
        BY <1>2, <1>4, <1>c, <2>1, <3>1, MarkActs DEF Marks
    <2>2. CASE next \in {"fail", "ingest"}
      <3>1. Ended(run)'
        BY <1>2, <1>5, <1>b, <2>2 DEF Ended
      <3> QED
        BY <1>2, <1>4, <1>c, <2>2, <3>1, OverActs DEF Over
    <2>3. CASE next \in {"rCancelRun", "rInterrupted", "rRequired", "rStarting"}
      <3>1. next \in SeenUsed \ Begun /\ next # "relink"
        BY <2>3 DEF SeenUsed, Begun
      <3>2. Ended(seen'[p]) => Ended(run)'
        BY <1>2, <1>4, <1>5 DEF Ended
      <3> QED
        BY <1>4, <1>5, <1>b, <1>c, <3>1, <3>2, SeenActs
    <2>4. CASE next \in {"settle", "rRunning", "advance"}
      <3>1. next \notin Claimed
        BY <2>4, PlacesOf
      <3> QED
        BY <1>4, <1>c, <3>1, FreeActs
    <2> QED
      BY <1>b, <2>1, <2>2, <2>3, <2>4
  <1>7. LifeGoes(p) /\ LinkGoes(p)
    BY <1>1, <1>4, InnerGoes DEF Outer
  <1>8. pc'[p] # "calling"
    BY <1>4, <1>b
  <1> QED
    BY <1>4, <1>5, <1>6, <1>7, <1>8, QuietHolds DEF UpGoes

LEMMA RecoverHolds ==
  ASSUME Sound, NEW p \in Procs,
         \/ RecoverCancelRun(p) \/ RecoverCancelEntry(p) \/ RecoverCancelJob(p)
         \/ RecoverInterrupted(p) \/ RecoverInterruptedJob(p) \/ RecoverRequired(p)
         \/ RecoverRunning(p) \/ RecoverRunningJob(p) \/ RecoverStarting(p)
         \/ RecoverStartingJob(p) \/ RecoverStartingWave(p)
  PROVE  SInv'
  <1>0. /\ TypeOK /\ IInv /\ DataOK /\ ControlOK /\ RunInv /\ TurnInv /\ SeenInv(p)
        /\ ActInv(p)
    BY TypeParts, Holding DEF Sound, SInv, IInv, StoreInv
  <1>1. pc[p] \in {"rCancelRun", "rCancelEntry", "rCancelJob", "rInterrupted",
                   "rInterruptedJob", "rRequired", "rRunning", "rRunningJob", "rStarting",
                   "rStartingJob", "rStartingWave"}
    BY DEF RecoverCancelRun, RecoverCancelEntry, RecoverCancelJob, RecoverInterrupted,
       RecoverInterruptedJob, RecoverRequired, RecoverRunning, RecoverRunningJob,
       RecoverStarting, RecoverStartingJob, RecoverStartingWave, At
  <1>2. /\ lock = p /\ ~Overtaken(p) /\ pc[p] \notin Outer /\ pc[p] \notin RejectWay
        /\ back[p] # "rejectJob"
    <2>1. pc[p] \in RecoverLabels /\ pc[p] \notin Outer /\ pc[p] \notin RejectWay
      BY <1>1 DEF RecoverLabels, Outer, RejectWay
    <2> QED
      BY <2>1, Holding, RecoverPlain DEF LockInv
  <1>3. /\ job.delivery \in Delivery /\ wave \in WaveStatus /\ run \in RunRecord
        /\ seen[p] \in RunRecord /\ RecordSound(run)
        /\ {"rRunningJob", "rInterruptedJob", "rStartingJob", "rStartingWave", "rCancelEntry",
            "rCancelJob", "advance", "reconcile", "markWave"} \subseteq Places
        /\ {"rRunningJob", "rStartingJob", "rStartingWave", "advance", "reconcile"}
             \cap Claimed = {}
    BY <1>0, PlacesOf DEF DataOK, ControlOK, RunInv, Claimed, Over, Marking, Marks
  <1>o. ASSUME NEW next \in {"rCancelEntry", "rCancelJob"}, pc'[p] = next, lock' = lock,
               stale'[p] = stale[p], back'[p] = back[p], Ended(run)'
        PROVE  ActInv(p)'
    <2>1. next \in Over \ {"rejectJob", "cancelEntry", "cancelDone"} /\ next # "fail"
      BY DEF Over
    <2> QED
      BY <1>2, <1>o, <2>1, OverActs DEF Overtaken
  <1>f. ASSUME NEW next \in {"rRunningJob", "rStartingJob", "rStartingWave", "advance",
                             "reconcile"},
               pc'[p] = next, lock' = lock, stale'[p] = stale[p], back'[p] = back[p]
        PROVE  ActInv(p)'
    BY <1>2, <1>3, <1>f, FreeActs DEF Overtaken
  <1>k. ASSUME pc[p] \in Marking, Arrived(p, "markWave")
        PROVE  ActInv(p)'
    <2>1. back[p] \notin Stops
      BY <1>0, <1>k DEF ActInv, EndsInv
    <2> QED
      BY <1>2, <1>k, <2>1, MarkActs DEF Arrived, Marks, Overtaken
  <1>m. ASSUME NEW next \in Places, Move(p, next), Reads, Arrived(p, next) => ActInv(p)'
        PROVE  SInv'
    BY <1>2, <1>m, ReadsKeep, MoveHolds DEF Places
  <1>j. ASSUME NEW status \in {"RECOVERY_REQUIRED", "RUNNING", "CANCELED"},
               NEW delivery \in Delivery, NEW next \in Places,
               TryJob(p, status, delivery, next), status = "CANCELED" => RunOver,
               Arrived(p, next) => ActInv(p)'
        PROVE  SInv'
    <2>1. status \in JobStatus \ {"QUEUED"} /\ (status \in JobEnded => status = "CANCELED")
      BY DEF JobStatus, JobEnded
    <2>2. pc[p] # "link"
      BY <1>1
    <2> QED
      BY <1>2, <1>j, <2>1, <2>2, JobHolds DEF Places
  <1>4. CASE RecoverCancelRun(p)
    <2>0. pc[p] = "rCancelRun"
      BY <1>4 DEF RecoverCancelRun, At
    <2>1. CASE Unsent(seen[p])
      <3> DEFINE new == [seen[p] EXCEPT !.status = "INTERRUPTED", !.delivery = "NOT_DELIVERED"]
      <3>1. TryRun(p, new, "rCancelEntry")
        BY <1>4, <2>1 DEF RecoverCancelRun
      <3>a. new.status = "INTERRUPTED" /\ new.intact = seen[p].intact
        BY <1>3 DEF RunRecord
      <3>2. new \in RunRecord /\ new.status = "INTERRUPTED" /\ new.intact = seen[p].intact
        BY <1>3, <3>a, RunUpdates
      <3> HIDE DEF new
      <3>3. ASSUME run = seen[p], run' = new, pc'[p] = "rCancelEntry",
                   UNCHANGED <<job, provider>>, Beside(p), stale'[p] = stale[p],
                   back'[p] = back[p], lock' = lock
            PROVE  ActInv(p)' /\ Steady(p) /\ TurnInv'
        <4>1. ~provider.sent /\ ~Calling /\ provider.state # "working"
          BY <1>0, <2>1, <3>3 DEF RunInv, Unsent
        <4>2. Ended(run)' /\ Ended(run')
          BY <3>2, <3>3 DEF Ended, RunEnded
        <4>3. ActInv(p)'
          BY <1>o, <3>3, <4>2
        <4>4. Spared'
          <5>1. Calling' => Calling
            BY <3>3 DEF Calling, Beside, Procs, Overtaken
          <5> QED
            BY <3>2, <3>3, <4>1, <5>1 DEF Spared, Barred, RunBegun
        <4>5. job.status # "QUEUED"
          BY <1>0, <2>0 DEF ActInv, StopInv
        <4>6. Steady(p)
          BY <2>1, <3>2, <3>3, <4>4, <4>5 DEF Steady, Ended, RunEnded, Failed,
             Verified, Unsent
        <4>7. TurnInv'
          BY <3>2, <3>3, <4>1, <4>2, TurnKeeps
        <4> QED
          BY <4>3, <4>6, <4>7
      <3> QED
        BY <1>2, <1>3, <3>1, <3>2, <3>3, TriedHolds
    <2>2. CASE ~Unsent(seen[p])
      <3>1. Move(p, "rCancelEntry") /\ Reads
        BY <1>4, <2>2 DEF RecoverCancelRun
      <3>2. NeverSent(seen[p])
        BY <1>0, <2>0 DEF ActInv, EndsInv
      <3>3. Ended(run)
        BY <1>0, <1>2, <2>0, <2>2, <3>2 DEF ActInv, EndsInv, NeverSent, Ended,
           RunEnded, SeenUsed
      <3>4. Arrived(p, "rCancelEntry") => ActInv(p)'
        BY <1>o, <3>1, <3>3, ReadsKeep DEF Arrived, Ended
      <3> QED
        BY <1>3, <1>m, <3>1, <3>4
    <2> QED
      BY <2>1, <2>2
  <1>5. CASE RecoverCancelEntry(p)
    <2>0. Ended(run)
      BY <1>0, <1>2, <1>5 DEF RecoverCancelEntry, At, ActInv, EndsInv, Over
    <2>1. CASE SetEntry(p, "CANCELED", "rCancelJob")
      <3>1. Ended(run)'
        BY <2>0, <2>1 DEF SetEntry, Ended
      <3>2. Arrived(p, "rCancelJob") => ActInv(p)'
        BY <1>o, <3>1 DEF Arrived
      <3> QED
        BY <1>2, <1>3, <2>1, <3>2, EntryHolds DEF EntryStatus, Places
    <2>2. CASE Move(p, "advance") /\ Reads
      BY <1>3, <1>f, <1>m, <2>2 DEF Arrived
    <2> QED
      BY <1>5, <2>1, <2>2 DEF RecoverCancelEntry
  <1>6. CASE RecoverCancelJob(p)
    <2>1. Ended(run) /\ TryJob(p, "CANCELED", job.delivery, "reconcile")
      BY <1>0, <1>2, <1>6 DEF RecoverCancelJob, At, ActInv, EndsInv, Over
    <2> QED
      BY <1>3, <1>f, <1>j, <2>1 DEF RunOver, Arrived
  <1>7. CASE RecoverInterrupted(p)
    <2>1. pc[p] = "rInterrupted" /\ pc[p] \in Marking
      BY <1>7 DEF RecoverInterrupted, At, Marking
    <2>2. ASSUME pc'[p] = "rInterruptedJob", lock' = lock, stale'[p] = stale[p],
                 back'[p] = back[p]
          PROVE  ActInv(p)'
      <3>1. back[p] \notin Stops
        BY <1>0, <2>1 DEF ActInv, EndsInv
      <3>2. "rInterruptedJob" \in Marking \ (SeenUsed \cup Begun)
        BY DEF Marking, SeenUsed, Begun
      <3> QED
        BY <1>2, <2>2, <3>1, <3>2, SeenActs DEF Overtaken
    <2>3. CASE seen[p].status = "INTERRUPTING"
      <3>1. PICK i \in {"AMBIGUOUS", seen[p].interrupt} :
              TryRun(p, [seen[p] EXCEPT !.status = "RECOVERY_REQUIRED", !.interrupt = i],
                     "rInterruptedJob")
        BY <1>7, <2>3 DEF RecoverInterrupted
      <3> DEFINE new == [seen[p] EXCEPT !.status = "RECOVERY_REQUIRED", !.interrupt = i]
      <3>a. new.status = "RECOVERY_REQUIRED" /\ new.intact = seen[p].intact
        BY <1>3 DEF RunRecord
      <3>2. new \in RunRecord /\ new.status = "RECOVERY_REQUIRED" /\ new.intact = seen[p].intact
        BY <1>3, <3>a, RunUpdates
      <3>3. TryRun(p, new, "rInterruptedJob")
        BY <3>1
      <3> HIDE DEF new
      <3>4. ASSUME run = seen[p], run' = new, pc'[p] = "rInterruptedJob",
                   UNCHANGED <<job, provider>>, Beside(p), stale'[p] = stale[p],
                   back'[p] = back[p], lock' = lock
            PROVE  ActInv(p)' /\ Steady(p) /\ TurnInv'
        <4>1. ~Ended(run) /\ ~Ended(run') /\ run'.status # "COMPLETED"
          BY <2>3, <3>2, <3>4 DEF Ended, RunEnded
        <4>2. ~(Calling /\ ~provider.sent) /\ ~provider.owed
          BY <1>0, <2>3, <3>4, <4>1 DEF TurnInv
        <4>3. Steady(p)
          BY <2>3, <3>2, <3>4, <4>1 DEF Steady, Ended, RunEnded, Failed, Verified,
             Unsent
        <4>4. TurnInv'
          BY <3>4, <4>1, <4>2, TurnKeeps
        <4> QED
          BY <2>2, <3>4, <4>3, <4>4
      <3> QED
        BY <1>2, <1>3, <3>2, <3>3, <3>4, TriedHolds
    <2>4. CASE seen[p].status # "INTERRUPTING"
      <3>1. Move(p, "rInterruptedJob") /\ Reads
        BY <1>7, <2>4 DEF RecoverInterrupted
      <3> QED
        BY <1>3, <1>m, <2>2, <3>1 DEF Arrived
    <2> QED
      BY <2>3, <2>4
  <1>8. CASE RecoverInterruptedJob(p)
    BY <1>3, <1>8, <1>j, <1>k DEF RecoverInterruptedJob, At, Marking
  <1>9. CASE RecoverRequired(p)
    <2>1. PICK sent \in {"ACKNOWLEDGED", "AMBIGUOUS", seen[p].delivery} :
            \/ Move(p, "markWave") /\ Reads
            \/ TryJob(p, "RECOVERY_REQUIRED", sent, "markWave")
      BY <1>9, Zenon DEF RecoverRequired
    <2>2. sent \in Delivery
      BY <1>3, <2>1 DEF Delivery, RunRecord
    <2>3. pc[p] \in Marking
      BY <1>9 DEF RecoverRequired, At, Marking
    <2>4. CASE Move(p, "markWave") /\ Reads
      BY <1>3, <1>k, <1>m, <2>3, <2>4
    <2>5. CASE TryJob(p, "RECOVERY_REQUIRED", sent, "markWave")
      BY <1>3, <1>j, <1>k, <2>2, <2>3, <2>5
    <2> QED
      BY <2>1, <2>4, <2>5
  <1>10. CASE RecoverRunning(p)
    <2>1. PICK next \in {"rRunningJob", "advance"} : Goto(p, next)
      BY <1>10 DEF RecoverRunning
    <2>2. /\ wave' = RunningWave
          /\ Touch(p, {"wave"}) \/ Touch(p, {})
          /\ UNCHANGED <<phase, job, message, runtime, provider, app, seen, after, back>>
      BY <1>10 DEF RecoverRunning
    <2>3. WaveGoes(p)
      BY <1>2, <2>2 DEF WaveGoes, RunningWave, Final, Stopping, Unsubmitted
    <2>4. Arrived(p, next) => ActInv(p)'
      BY <1>f DEF Arrived
    <2>5. next \in Places
      BY <1>3
    <2> QED
      BY <1>2, <2>1, <2>2, <2>3, <2>4, <2>5, WaveSetHolds
  <1>11. CASE RecoverRunningJob(p)
    BY <1>3, <1>11, <1>f, <1>j DEF RecoverRunningJob, Arrived, Delivery
  <1>12. CASE RecoverStarting(p)
    <2>1. PICK next \in {"rStartingJob", "rStartingWave"} : TryRun(p, Lost(seen[p]), next)
      BY <1>12 DEF RecoverStarting
    <2>2. seen[p].status = "STARTING"
      BY <1>0, <1>12 DEF SeenInv, RecoverStarting, At
    <2>3. /\ Lost(seen[p]) \in RunRecord /\ Lost(seen[p]).status = "RECOVERY_REQUIRED"
          /\ Lost(seen[p]).delivery = "AMBIGUOUS" /\ Lost(seen[p]).intact = seen[p].intact
          /\ Lost(seen[p]).turn = seen[p].turn
      <3>1. /\ Lost(seen[p]).status = "RECOVERY_REQUIRED"
            /\ Lost(seen[p]).delivery = "AMBIGUOUS" /\ Lost(seen[p]).intact = seen[p].intact
            /\ Lost(seen[p]).turn = seen[p].turn
        BY <1>3 DEF RunRecord, Lost
      <3> QED
        BY <1>3, <3>1, RunUpdates
    <2>4. ASSUME run = seen[p], run' = Lost(seen[p]), pc'[p] = next,
                 UNCHANGED <<job, provider>>, Beside(p), stale'[p] = stale[p],
                 back'[p] = back[p], lock' = lock
          PROVE  ActInv(p)' /\ Steady(p) /\ TurnInv'
      <3>1. ~Ended(run) /\ ~Ended(run') /\ run'.status # "COMPLETED"
        BY <2>2, <2>3, <2>4 DEF Ended, RunEnded
      <3>2. ~provider.owed
        BY <1>0, <2>2, <2>4, <3>1 DEF TurnInv
      <3>3. Steady(p)
        BY <2>2, <2>3, <2>4, <3>1 DEF Steady, Ended, RunEnded, Failed, Verified, Unsent
      <3>4. TurnInv'
        BY <2>3, <2>4, <3>1, <3>2, TurnKeeps
      <3> QED
        BY <1>f, <2>4, <3>3, <3>4
    <2>5. next \in Places
      BY <1>3
    <2> QED
      BY <1>2, <2>1, <2>3, <2>4, <2>5, TriedHolds
  <1>13. CASE RecoverStartingJob(p)
    BY <1>3, <1>13, <1>f, <1>j DEF RecoverStartingJob, Arrived, Delivery
  <1>14. CASE RecoverStartingWave(p)
    <2>1. /\ wave' = (IF wave \in Stopping \cup {"SETTLED"} THEN wave ELSE "RECOVERY_REQUIRED")
          /\ Goto(p, "advance") /\ (Touch(p, {"wave"}) \/ Touch(p, {}))
          /\ UNCHANGED <<phase, job, message, runtime, provider, app, seen, after, back>>
      BY <1>14 DEF RecoverStartingWave
    <2>2. WaveGoes(p)
      BY <1>2, <2>1 DEF WaveGoes, Final, Stopping
    <2>3. Arrived(p, "advance") => ActInv(p)'
      BY <1>f DEF Arrived
    <2>4. Goto(p, "advance")
      BY <1>14 DEF RecoverStartingWave
    <2> QED
      BY <1>2, <1>3, <2>1, <2>2, <2>3, <2>4, WaveSetHolds
  <1> QED
    BY <1>4, <1>5, <1>6, <1>7, <1>8, <1>9, <1>10, <1>11, <1>12, <1>13, <1>14

-----------------------------------------------------------------------------
(* The wave that follows its jobs, the user and the events.                *)

LEMMA ReconcileHolds ==
  ASSUME Sound, NEW p \in Procs, Reconcile(p) \/ LockAdvance(p)
  PROVE  SInv'
  <1>0. /\ DataOK /\ ControlOK /\ WayInv(p) /\ ActInv(p) /\ (lock = p => ~Overtaken(p))
        /\ after[p] \in Places /\ after[p] \notin Claimed
    <2>1. DataOK /\ ControlOK /\ WayInv(p) /\ ActInv(p) /\ (lock = p => ~Overtaken(p))
      BY TypeParts, Holding DEF Sound
    <2> QED
      BY <2>1, PlacesOf DEF WayInv
  <1>1. CASE Reconcile(p)
    <2> DEFINE to == IF wave = "SETTLED" THEN wave ELSE Derived
    <2>1. pc[p] = "reconcile" /\ SetWave(p, to, after[p])
      BY <1>1 DEF Reconcile, At
    <2>2. wave \in WaveStatus
      BY <1>0 DEF DataOK
    <2>3. to \in WaveStatus
      BY <2>2, Zenon DEF Derived, WaveStatus
    <2>4. /\ wave \in Final => to \in Final
          /\ to = "SETTLED" /\ wave # "SETTLED" => job.status \in JobEnded /\ ~AwaitsAuthor
          /\ to \in Stopping => wave \in Final
      BY DEF Derived, Final, Stopping, JobEnded
    <2>5. Arrived(p, after[p]) => ActInv(p)'
      <3>1. back[p] = "rejectJob" => after[p] = "lockAdvance"
        BY <1>0 DEF ActInv, StopInv
      <3> QED
        BY <1>0, <3>1, FreeActs DEF Arrived, Overtaken, RejectWay
    <2>6. pc[p] \notin Outer
      BY <2>1 DEF Outer
    <2> HIDE DEF to
    <2> QED
      BY <1>0, <2>1, <2>3, <2>4, <2>5, <2>6, WaveHolds DEF Places
  <1>2. CASE LockAdvance(p)
    <2>1. /\ pc[p] = "lockAdvance" /\ lock = "free" /\ Reads
          /\ Enter(p, "advance", after[p], "idle")
      BY <1>2 DEF LockAdvance, At
    <2>2. "advance" \in Places /\ "advance" \notin Claimed /\ "idle" \in Labels
          /\ after[p] \in Labels
      BY <1>0, PlacesOf DEF Places
    <2> QED
      BY <2>1, <2>2, EnterHolds
  <1> QED
    BY <1>1, <1>2

LEMMA AdvanceHolds ==
  ASSUME Sound, NEW p \in Procs, AdvanceWave(p)
  PROVE  SInv'
  <1>0. /\ DataOK /\ ControlOK /\ pc[p] = "advance" /\ lock = p /\ ~Overtaken(p)
        /\ back[p] # "rejectJob" /\ pc[p] \notin Outer
    <2>1. pc[p] = "advance" /\ pc[p] \in Held /\ pc[p] \notin RejectWay /\ pc[p] \notin Outer
      BY DEF AdvanceWave, At, Held, RejectWay, Outer
    <2> QED
      BY <2>1, TypeParts, Holding DEF Sound, LockInv
  <1>1. UNCHANGED <<phase, job, run, provider, inbox, up>>
    BY DEF AdvanceWave, runtime
  <1>2. PICK on \in {"activate", "finish"} :
          \/ /\ AwaitsAuthor /\ wave # "SETTLED"
             /\ Move(p, "handoff") /\ UNCHANGED <<wave, faults>>
          \/ /\ AwaitsAuthor /\ wave' = "SETTLED"
             /\ Touch(p, {"wave"}) /\ Goto(p, on)
             /\ UNCHANGED <<seen, after, back>>
          \/ Move(p, on) /\ UNCHANGED <<wave, faults>>
    BY Zenon DEF AdvanceWave
  <1>3. on \in Places /\ "handoff" \in Places
    BY DEF Places, Labels, Blind
  <1>4. Arrived(p, on) => ActInv(p)'
    <2>1. CASE on = "activate"
      BY <1>0, <2>1, PrepareActs DEF Arrived, Overtaken, Preparing
    <2>2. CASE on = "finish"
      BY <1>0, <2>2, PlacesOf, FreeActs DEF Arrived, Overtaken
    <2> QED
      BY <2>1, <2>2
  <1>5. CASE /\ AwaitsAuthor /\ wave # "SETTLED"
             /\ Move(p, "handoff") /\ UNCHANGED <<wave, faults>>
    <2>1. ASSUME Arrived(p, "handoff")
          PROVE  ActInv(p)'
      <3>1. AwaitsAuthor' /\ wave' # "SETTLED"
        BY <1>1, <1>5 DEF AwaitsAuthor
      <3>2. HoldInv(p)'
        BY <1>0, <2>1, <3>1 DEF Arrived, HoldInv, Preparing, Overtaken
      <3>3. StopInv(p)'
        BY <1>0, <2>1 DEF Arrived, StopInv, Stops, Marks, Withdrawing
      <3>4. EndsInv(p)'
        BY <2>1 DEF Arrived, EndsInv, Over, SeenUsed, Begun, Marking
      <3> QED
        BY <3>2, <3>3, <3>4 DEF ActInv
    <2> QED
      BY <1>0, <1>1, <1>3, <1>5, <2>1, SameWave, MoveHolds DEF Places
  <1>6. CASE /\ AwaitsAuthor /\ wave' = "SETTLED"
             /\ Touch(p, {"wave"}) /\ Goto(p, on)
             /\ UNCHANGED <<seen, after, back>>
    <2>1. Beside(p) /\ Arrived(p, on)
      BY <1>0, <1>3, <1>6, Touched DEF Places
    <2>2. WaveGoes(p)
      BY <1>0, <1>6 DEF WaveGoes, Final, AwaitsAuthor, JobEnded
    <2>3. LifeGoes(p) /\ LinkGoes(p)
      BY <1>0, <2>1, InnerGoes DEF Arrived
    <2> QED
      BY <1>1, <1>3, <1>4, <2>1, <2>2, <2>3, QuietHolds DEF UpGoes, Arrived, Places
  <1>7. CASE Move(p, on) /\ UNCHANGED <<wave, faults>>
    BY <1>0, <1>1, <1>3, <1>4, <1>7, SameWave, MoveHolds DEF Places
  <1> QED
    BY <1>2, <1>5, <1>6, <1>7

\* The hand-off: whoever was at the peer's job is overtaken, and nobody else is
\* where the author's job is prepared or stopped.
LEMMA AuthorHolds ==
  ASSUME Sound, NEW p \in Procs, AddAuthorJob(p)
  PROVE  SInv'
  <1>0. /\ DataOK /\ ControlOK /\ StoreInv /\ LockInv(p) /\ WayInv(p) /\ ActInv(p)
        /\ TurnInv /\ LifeInv
    BY TypeParts, Holding DEF Sound, IInv, SInv
  <1>1. /\ pc[p] = "handoff" /\ lock = p /\ phase = 1
        /\ AwaitsAuthor /\ wave # "SETTLED"
    BY <1>0 DEF AddAuthorJob, At, LockInv, Held, WayInv, ActInv, HoldInv
  <1>2. /\ phase' = 2 /\ job' = NewJob /\ run' = NoRun /\ provider' = NoTurn
        /\ UNCHANGED <<wave, inbox, up, lock>>
    BY DEF AddAuthorJob, app
  <1>3. \A q \in Procs \ {p} :
          /\ pc'[q] = pc[q] /\ seen'[q] = seen[q]
          /\ after'[q] = after[q] /\ back'[q] = back[q]
          /\ pc[q] \notin Blind => Overtaken(q)'
    BY <1>0 DEF AddAuthorJob, ControlOK, Overtaken
  <1>4. /\ pc'[p] = "prepare" /\ stale'[p] = {}
        /\ after'[p] = "finish" /\ back'[p] = "reconcile"
    BY <1>0 DEF AddAuthorJob, ControlOK
  <1>5. ~Calling'
    BY <1>3, <1>4 DEF Calling, Blind, Procs
  <1>6. OverInv' /\ NewInv' /\ TurnInv'
    <2>1. /\ job'.status = "QUEUED" /\ job'.delivery = "NOT_SENT" /\ ~Ended(run')
          /\ run'.status = "none" /\ provider'.state = "idle" /\ ~provider'.sent
          /\ ~provider'.owed /\ job'.status \notin JobEnded
      BY <1>2 DEF NewJob, NoRun, NoTurn, Ended, RunEnded, JobEnded
    <2> QED
      BY <1>1, <1>2, <1>5, <2>1 DEF OverInv, NewInv, TurnInv, Ended
  <1>7. EventInv'
    BY <1>0, <1>1, <1>2 DEF StoreInv, InboxInv, EventInv
  <1>8. LifeInv'
    BY <1>0, <1>1, <1>2, <1>3 DEF LifeInv, Procs
  <1>9. ActInv(p)'
    BY <1>1, <1>2, <1>4, PrepareActs DEF Preparing, NewJob, Overtaken
  <1>10. wave \notin Final /\ ~Rejectable("pump")
    <2>1. wave \notin Final /\ job.status = "COMPLETED"
      BY <1>1 DEF AwaitsAuthor, Final
    <2>2. Verified(run)
      BY <1>0, <2>1 DEF StoreInv, MessageInv
    <2> QED
      BY <1>0, <2>1, <2>2 DEF TurnInv, Verified, Rejectable, Spared, Barred, Unsent
  <1>11. ASSUME NEW q \in Procs \ {p}
         PROVE  ActInv(q)'
    <2>0. LockInv(q) /\ ActInv(q) /\ lock # q
      BY <1>1, Holding
    <2>1. (~Stoppable(q) /\ ~Rejectable(q)) \/ pc[q] = "idle"
      BY <1>0, <1>10, <2>0 DEF Stoppable, Rejectable, LifeInv
    <2>2. /\ pc[q] \notin Stops \cup Withdrawing \cup {"rejectJob"}
          /\ ~(pc[q] \in Marks /\ back[q] \in Stops)
      <3>1. "idle" \notin Stops \cup Withdrawing \cup {"rejectJob"} \cup Marks
        BY DEF Stops, Withdrawing, Marks
      <3> QED
        BY <2>0, <2>1, <3>1 DEF ActInv, StopInv
    <2>3. pc[q] \notin Preparing \cup {"handoff", "rCancelRun", "markRun", "markEntry", "markJob"}
      BY <2>0, <2>2 DEF ActInv, HoldInv, StopInv, LockInv, Held, Marks
    <2>4. HoldInv(q)'
      BY <1>2, <1>3, <2>0, <2>3 DEF HoldInv, Preparing
    <2>5. StopInv(q)'
      BY <1>3, <2>0, <2>2, <2>3 DEF ActInv, StopInv, Stops
    <2>6. EndsInv(q)'
      <3>1. pc[q] \in Over \cup SeenUsed \cup Begun => pc[q] \notin Blind
        BY DEF Over, SeenUsed, Begun, Blind
      <3>2. "fail" \in Over /\ "recoveredDone" \in Stops
        BY DEF Over, Stops
      <3> QED
        BY <1>3, <2>0, <2>2, <2>3, <3>1, <3>2 DEF ActInv, EndsInv
    <2> QED
      BY <2>4, <2>5, <2>6 DEF ActInv
  <1> QED
    BY <1>6, <1>7, <1>8, <1>9, <1>11 DEF SInv

LEMMA FinishHolds ==
  ASSUME Sound, NEW p \in Procs, Finish(p)
  PROVE  SInv'
  <1>0. ControlOK /\ LifeInv /\ pc[p] = "finish"
    BY TypeParts DEF Sound, SInv, Finish, At
  <1>1. /\ pc'[p] \in {"idle", "retry", "lease"} /\ (p \in {"user", "boot"} => pc'[p] = "idle")
        /\ pc'[p] # "calling"
    BY <1>0 DEF Finish, ControlOK
  <1>2. Beside(p) /\ stale'[p] = {} /\ back'[p] = "idle"
    BY <1>0 DEF Finish, ControlOK, Rest, Beside, Procs
  <1>3. UNCHANGED <<wave, phase, job, run, provider, inbox>> /\ UpGoes(p)
    BY <1>0 DEF Finish, discourse, runtime, UpGoes
  <1>4. ActInv(p)'
    BY <1>1, <1>2, PlacesOf, FreeActs DEF Overtaken
  <1>5. LifeGoes(p) /\ LinkGoes(p)
    BY <1>0, <1>1 DEF LifeInv, LifeGoes, LinkGoes, BootLinks
  <1> QED
    BY <1>1, <1>2, <1>3, <1>4, <1>5, SameWave, QuietHolds

LEMMA UserHolds ==
  ASSUME Sound, Send \/ StopWave
  PROVE  SInv'
  <1> DEFINE p == "user"
  <1>0. /\ p \in Procs /\ ControlOK /\ StoreInv /\ up = "up" /\ lock = "free"
        /\ pc[p] = "idle" /\ {"activate", "finish", "reconcile", "stopWave", "cancelCheck",
                              "stopCheck"} \subseteq Places
    BY TypeParts DEF Procs, Sound, IInv, Send, StopWave, Requests, Places, Labels, Blind
  <1>1. PICK l \in {"activate", "cancelCheck", "stopCheck"},
             b \in {"finish", "reconcile", "stopWave"} : Enter(p, l, "finish", b)
                /\ (l = "activate" <=> Send) /\ (l = "activate" => b = "finish")
    <2>1. CASE Send
      BY <2>1 DEF Send
    <2>2. CASE StopWave
      BY <2>2 DEF StopWave, Send
    <2> QED
      BY <2>1, <2>2
  <1>2. /\ Beside(p) /\ lock' = p /\ pc'[p] = l /\ stale'[p] = {} /\ back'[p] = b
    BY <1>0, <1>1, Entered DEF Places
  <1>3. UNCHANGED <<phase, job, run, provider, inbox, up>> /\ WaveGoes(p)
    <2>1. CASE Send
      <3>1. wave = "none" /\ job' = job /\ wave' = "PLANNED"
            /\ UNCHANGED <<phase, run, provider, inbox, up>>
        BY <1>0, <2>1 DEF Send, runtime, app, StoreInv, NoWaveInv
      <3>2. job.status = "QUEUED"
        BY <1>0, <3>1 DEF StoreInv, NoWaveInv, NewJob
      <3> QED
        BY <3>1, <3>2 DEF WaveGoes, Final, Stopping, AwaitsAuthor
    <2>2. CASE StopWave
      <3>1. UNCHANGED <<wave, phase, job, run, provider, inbox, up>>
        BY <2>2 DEF StopWave, discourse, runtime
      <3> QED
        BY <1>0, <3>1, SameWave
    <2> QED
      BY <2>1, <2>2
  <1>4. LifeGoes(p) /\ LinkGoes(p)
    BY <1>0, <1>2 DEF LifeGoes, LinkGoes
  <1>5. ActInv(p)'
    <2>1. CASE l = "activate"
      BY <1>0, <1>1, <1>2, <2>1, PrepareActs DEF Preparing, Overtaken
    <2>2. CASE l \in {"cancelCheck", "stopCheck"}
      <3>1. l \in Stops /\ Stoppable(p)'
        BY <2>2 DEF Stops, Stoppable
      <3> QED
        BY <1>0, <1>2, <2>2, <3>1, StopActs DEF Overtaken
    <2> QED
      BY <2>1, <2>2
  <1> QED
    BY <1>0, <1>2, <1>3, <1>4, <1>5, QuietHolds DEF Places, UpGoes

LEMMA TakeHolds ==
  ASSUME Sound, TakeEvent
  PROVE  SInv'
  <1> DEFINE p == "events"
             event == Head(inbox)
  <1>0. DataOK /\ ControlOK /\ StoreInv /\ EventInv /\ p \in Procs /\ pc[p] = "idle"
        /\ up # "down"
    BY TypeParts DEF Sound, IInv, SInv, Procs, TakeEvent, At
  <1>1. inbox # <<>> /\ inbox' = Tail(inbox)
        /\ UNCHANGED <<wave, phase, job, run, provider, up>>
    BY DEF TakeEvent, discourse, runtime
  <1>2. PICK label \in {"lockRecover", "reconcile", "ingest", "fail"} :
          /\ Look(p, label, "lockAdvance", "idle")
          /\ label = "ingest" => event = Event("completed")
          /\ label = "fail" => event.kind # "recovery" /\ event.phase = phase
    BY Zenon DEF TakeEvent
  <1>3. inbox \in Seq([kind : {"completed", "ended", "recovery"}, phase : 1..Agents])
    BY <1>0 DEF DataOK
  <1>4. /\ inbox' \in Seq([kind : {"completed", "ended", "recovery"}, phase : 1..Agents])
        /\ Len(inbox') = Len(inbox) - 1
        /\ \A i \in 1..Len(inbox') : inbox'[i] = inbox[i + 1] /\ i + 1 \in 1..Len(inbox)
    BY <1>1, <1>3
  <1>5. event = inbox[1] /\ 1 \in DOMAIN inbox
        /\ event.kind \in {"completed", "ended", "recovery"}
    <2>1. event = inbox[1] /\ 1 \in DOMAIN inbox
      BY <1>1, <1>3
    <2>2. inbox[1] \in [kind : {"completed", "ended", "recovery"}, phase : 1..Agents]
      BY <1>3, <2>1, SeqElement
    <2> QED
      BY <2>1, <2>2
  <1>6. label \in Places /\ "lockAdvance" \in Labels /\ "idle" \in Labels /\ label # "raise"
    BY DEF Places, Labels, Blind
  <1>7. Beside(p) /\ Saw(p, label, "lockAdvance", "idle")
    BY <1>0, <1>2, <1>6, Looked DEF DataOK, Places
  <1>8. EventInv'
    <2>1. DOMAIN inbox' = 1..Len(inbox') /\ DOMAIN inbox = 1..Len(inbox)
      BY <1>3, <1>4
    <2> QED
      BY <1>0, <1>1, <1>4, <2>1 DEF EventInv, Failed
  <1>9. ActInv(p)'
    <2>1. CASE label \in {"lockRecover", "reconcile"}
      <3>1. label \notin Claimed
        BY <2>1, PlacesOf
      <3> QED
        BY <1>0, <1>7, <3>1, SawFree
    <2>2. CASE label \in {"ingest", "fail"}
      <3>1. Verified(run) \/ Failed(run)
        <4>1. label = "ingest" => inbox[1].kind = "completed" /\ inbox[1].phase = phase
          BY <1>2, <1>5 DEF Event
        <4>2. label = "fail" => inbox[1].kind \in {"completed", "ended"} /\ inbox[1].phase = phase
          BY <1>2, <1>5
        <4> QED
          BY <1>0, <1>5, <2>2, <4>1, <4>2 DEF StoreInv, InboxInv, EventInv
      <3>2. Ended(run)' /\ (Verified(run) \/ Failed(run))'
        BY <1>1, <3>1 DEF Verified, Failed, Ended, RunEnded
      <3>3. label \in Over \ {"rejectJob", "cancelEntry", "cancelDone"}
        BY <2>2 DEF Over
      <3> QED
        BY <1>0, <1>7, <3>2, <3>3, OverActs DEF Saw, Overtaken
    <2> QED
      BY <2>1, <2>2
  <1>10. pc'[p] # "calling" /\ LifeGoes(p) /\ LinkGoes(p)
    BY <1>0, <1>6, <1>7 DEF Saw, Places, LifeGoes, LinkGoes
  <1> QED
    BY <1>0, <1>1, <1>7, <1>8, <1>9, <1>10, SameWave, CalmHolds DEF UpGoes

-----------------------------------------------------------------------------
(* The pump.                                                               *)

LEMMA LeaseHolds ==
  ASSUME Sound,
         \/ Wake \/ RetryTimer \/ LeaseAvailable \/ PumpEnds \/ CheckContext
         \/ RejectJob
  PROVE  SInv'
  <1> DEFINE p == "pump"
  <1>0. /\ DataOK /\ ControlOK /\ p \in Procs /\ ActInv(p) /\ SeenInv(p)
        /\ job.delivery \in Delivery /\ up # "down"
        /\ {"lease", "check", "idle", "dispatch", "reconcile", "ending"} \subseteq Places
        /\ {"lease", "check", "idle", "dispatch", "reconcile", "ending"} \cap Claimed = {}
    <2>1. p \in Procs /\ DataOK /\ ControlOK
      BY TypeParts DEF Procs, Sound
    <2>2. up # "down"
      BY DEF Wake, RetryTimer, LeaseAvailable, PumpEnds, CheckContext, RejectJob, Pump
    <2> QED
      BY <2>1, <2>2, PlacesOf, Holding DEF DataOK
  <1>m. ASSUME NEW next \in {"lease", "idle", "dispatch"}, Move(p, next),
               UNCHANGED <<wave, phase, job, run, provider, inbox, up>>,
               pc[p] \notin Outer, pc[p] \notin RejectWay
        PROVE  SInv'
    <2>1. Arrived(p, next) => ActInv(p)'
      BY <1>0, <1>m, ArrivedFree
    <2> QED
      BY <1>0, <1>m, <2>1, SameWave, MoveHolds DEF Places
  <1>1. CASE Wake
    <2>1. /\ Move(p, "lease") /\ pc[p] = "idle"
          /\ UNCHANGED <<wave, phase, job, run, provider, inbox, up>>
      BY <1>1 DEF Wake, Pump, At, discourse, runtime
    <2>2. Beside(p) /\ Arrived(p, "lease")
      BY <1>0, <2>1, Moved DEF Places
    <2>3. ActInv(p)'
      BY <1>0, <2>1, <2>2, ArrivedFree DEF RejectWay
    <2>4. LifeGoes(p) /\ LinkGoes(p)
      BY <1>0, <2>1 DEF LifeGoes, LinkGoes
    <2> QED
      BY <1>0, <2>1, <2>2, <2>3, <2>4, SameWave, QuietHolds DEF UpGoes, Arrived
  <1>2. CASE RetryTimer
    <2>1. Move(p, "lease") /\ Reads /\ pc[p] \notin Outer \cup RejectWay
      BY <1>2 DEF RetryTimer, Pump, At, Outer, RejectWay
    <2> QED
      BY <1>0, <1>m, <2>1, ReadsKeep
  <1>3. CASE LeaseAvailable
    <2>0. pc[p] \notin Outer \cup RejectWay
      BY <1>3 DEF LeaseAvailable, Pump, At, Outer, RejectWay
    <2>1. CASE SetEntry(p, "LEASED", "check")
      BY <1>0, <2>0, <2>1, ArrivedFree, EntryHolds DEF EntryStatus, Places
    <2>2. CASE Look(p, "ending", "idle", "idle") /\ Reads
      <3>1. "ending" \in Labels \ {"calling"} /\ "idle" \in Labels /\ "ending" \notin Claimed
        BY <1>0 DEF Places
      <3> QED
        BY <1>0, <2>0, <2>2, <3>1, ReadsKeep, SameWave, SawFree, LookHolds
    <2> QED
      BY <1>3, <2>1, <2>2 DEF LeaseAvailable
  <1>4. CASE CheckContext
    <2>0. pc[p] \notin Outer \cup RejectWay
      BY <1>4 DEF CheckContext, Pump, At, Outer, RejectWay
    <2>1. UNCHANGED <<wave, phase, job, run, provider, inbox, up>>
      BY <1>4 DEF CheckContext, discourse, runtime
    <2>2. CASE Move(p, "dispatch")
      BY <1>m, <2>0, <2>1, <2>2
    <2>3. CASE Throw(p)
      BY <1>0, <2>0, <2>1, <2>3, SameWave, ThrowHolds
    <2>4. ASSUME NEW label \in {"cancelRun", "raise"},
                 Look(p, label, "lockAdvance", "rejectJob"),
                 label = "cancelRun" => Unsent(run) /\ job.status = "RESOLVING_CONTEXT"
          PROVE  SInv'
      <3>1. label \in Labels \ {"calling"} /\ "lockAdvance" \in Labels /\ "rejectJob" \in Labels
        BY DEF Labels, Blind
      <3>2. ASSUME label # "raise", Saw(p, label, "lockAdvance", "rejectJob")
            PROVE  ActInv(p)'
        <4>1. Unsent(run) /\ job.status = "RESOLVING_CONTEXT" /\ label = "cancelRun"
          BY <2>4, <3>2
        <4>2. Rejectable(p)'
          BY <2>1, <4>1 DEF Rejectable, Unsent, NoRun
        <4> QED
          BY <1>0, <2>1, <3>2, <4>1, <4>2, WithdrawActs DEF Saw, Overtaken, Withdrawing
      <3> QED
        BY <1>0, <2>0, <2>1, <2>4, <3>1, <3>2, SameWave, LookHolds
    <2>5. \/ Move(p, "dispatch") \/ Throw(p)
          \/ \E label \in {"cancelRun", "raise"} :
               /\ Look(p, label, "lockAdvance", "rejectJob")
               /\ label = "cancelRun" => Unsent(run) /\ job.status = "RESOLVING_CONTEXT"
      BY <1>4, Zenon DEF CheckContext
    <2> QED
      BY <2>2, <2>3, <2>4, <2>5
  <1>5. CASE RejectJob
    <2>1. pc[p] = "rejectJob" /\ TryJob(p, "CONTEXT_STALE", job.delivery, "reconcile")
      BY <1>5 DEF RejectJob, Pump, At
    <2>2. /\ pc[p] \notin Outer /\ pc[p] \in Over
          /\ "CONTEXT_STALE" \in JobStatus \ {"QUEUED"}
      BY <2>1 DEF Outer, Over, JobStatus, JobEnded
    <2>3. run # NoRun /\ Ended(run) /\ ~Overtaken(p)
          /\ (back[p] = "rejectJob" => after[p] = "lockAdvance")
      BY <1>0, <2>1, <2>2 DEF ActInv, StopInv, EndsInv, Rejectable
    <2>4. Arrived(p, "reconcile") => ActInv(p)'
      BY <1>0, <2>3, FreeActs DEF Arrived, Overtaken, RejectWay
    <2> QED
      BY <1>0, <2>1, <2>2, <2>3, <2>4, JobHolds DEF RunOver, Places, Outer
  <1>6. CASE PumpEnds
    <2>1. /\ pc' = [pc EXCEPT ![p] = "idle"] /\ seen' = [seen EXCEPT ![p] = NoRun]
          /\ stale' = [stale EXCEPT ![p] = {}] /\ after' = [after EXCEPT ![p] = "idle"]
          /\ back' = [back EXCEPT ![p] = "idle"] /\ UNCHANGED <<lock, handling>>
          /\ Reads /\ pc[p] = "ending"
      BY <1>6 DEF PumpEnds, Pump, At, Goto, Rest
    <2>2. /\ Beside(p) /\ pc'[p] = "idle" /\ stale'[p] = {} /\ back'[p] = "idle"
      BY <1>0, <2>1 DEF ControlOK, Beside, Procs
    <2>3. UNCHANGED <<wave, phase, job, run, provider, inbox, up>> /\ UpGoes(p)
      <3>1. UNCHANGED <<wave, phase, job, run, provider, inbox, up>>
        BY <1>0, <2>1, ReadsKeep
      <3> QED
        BY <3>1 DEF UpGoes
    <2>4. ActInv(p)'
      BY <1>0, <2>2, FreeActs DEF Overtaken
    <2>5. LifeGoes(p) /\ LinkGoes(p)
      <3>1. p # "user" /\ p # "boot" /\ up # "down" /\ pc[p] # "link"
        BY <1>0, <2>1
      <3> QED
        BY <3>1 DEF LifeGoes, LinkGoes
    <2>6. pc'[p] # "calling"
      BY <2>2
    <2> HIDE DEF p
    <2> QED
      BY <1>0, <2>2, <2>3, <2>4, <2>5, <2>6, SameWave, QuietHolds
  <1> QED
    BY <1>1, <1>2, <1>3, <1>4, <1>5, <1>6

LEMMA DispatchHolds ==
  ASSUME Sound, DispatchLeasedJob \/ DispatchWave \/ DispatchJob
  PROVE  SInv'
  <1> DEFINE p == "pump"
  <1>0. /\ DataOK /\ ControlOK /\ p \in Procs /\ ActInv(p) /\ SeenInv(p)
        /\ (lock = p => ~Overtaken(p)) /\ wave \in WaveStatus
    <2>1. p \in Procs /\ DataOK /\ ControlOK
      BY TypeParts DEF Procs, Sound
    <2> QED
      BY <2>1, Holding DEF DataOK
  <1>1. pc[p] \notin Outer /\ pc[p] \notin RejectWay /\ back[p] # "rejectJob"
    <2>1. pc[p] \notin Outer /\ pc[p] \notin RejectWay
      BY DEF DispatchLeasedJob, DispatchWave, DispatchJob, Pump, At, Outer, RejectWay
    <2> QED
      BY <1>0, <2>1, Holding
  <1>2. CASE DispatchLeasedJob
    <2>1. PICK label \in {"raise", "stopCheck", "dispatchWave", "dispatchJob"} :
            /\ Look(p, label, "finish", "stopWave")
            /\ label # "raise" => run.status = "QUEUED" /\ job.status = "RESOLVING_CONTEXT"
            /\ label = "stopCheck" => wave \in Final
      BY <1>2, Zenon DEF DispatchLeasedJob, Final
    <2>2. UNCHANGED <<wave, phase, job, run, provider, inbox, up>> /\ WaveGoes(p)
      BY <1>0, <1>2, ReadsKeep DEF DispatchLeasedJob
    <2>3. ASSUME label # "raise", Saw(p, label, "finish", "stopWave")
          PROVE  ActInv(p)'
      <3>1. run' # NoRun /\ job'.status # "QUEUED"
        BY <2>1, <2>2, <2>3 DEF NoRun
      <3>2. CASE label = "stopCheck"
        <4>1. Stoppable(p)'
          BY <2>1, <2>2, <3>1, <3>2 DEF Stoppable
        <4> QED
          BY <1>0, <2>3, <3>2, <4>1, StopActs DEF Saw, Overtaken, Stops
      <3>3. CASE label \in {"dispatchWave", "dispatchJob"}
        <4>1. label \in Begun /\ label \notin SeenUsed /\ label \notin Marking
              /\ label # "rCancelRun" /\ label # "relink"
          BY <3>3 DEF Begun, SeenUsed, Marking
        <4> QED
          BY <1>0, <2>3, <3>1, <4>1, SeenActs DEF Saw, Overtaken
      <3> QED
        BY <2>3, <3>2, <3>3
    <2>4. label \in Labels \ {"calling"} /\ "finish" \in Labels /\ "stopWave" \in Labels
      BY DEF Labels, Blind
    <2> QED
      BY <1>0, <1>1, <2>1, <2>2, <2>3, <2>4, LookHolds
  <1>3. CASE DispatchWave
    <2>1. TryWave(p, "RUNNING", "dispatchJob") /\ pc[p] = "dispatchWave"
      BY <1>3 DEF DispatchWave, Pump, At
    <2>2. /\ "dispatchJob" \in Labels \ {"calling"} /\ "RUNNING" \in WaveStatus
          /\ "RUNNING" \notin Stopping \cup {"SETTLED"}
          /\ pc[p] \in Begun /\ "dispatchJob" \in Begun
          /\ "dispatchJob" \notin SeenUsed \cup Marking
      BY <2>1 DEF Labels, WaveStatus, Stopping, Begun, SeenUsed, Marking
    <2>3. wave \in Final => "RUNNING" \notin {wave} \cup WaveTransitions[wave]
      BY <1>0 DEF Final, Stopping, WaveTransitions, WaveStatus
    <2>4. run' = run /\ (~Overtaken(p) => run # NoRun)
      BY <1>0, <2>1, <2>2 DEF TryWave, runtime, ActInv, EndsInv
    <2>5. Arrived(p, "dispatchJob") => ActInv(p)'
      BY <1>0, <1>1, <2>2, <2>4, SeenActs DEF Arrived, Overtaken
    <2> QED
      BY <1>0, <1>1, <2>1, <2>2, <2>3, <2>5, WaveHolds
  <1>4. CASE DispatchJob
    <2>1. TryJob(p, "STARTING", "SENDING", "start") /\ pc[p] = "dispatchJob"
      BY <1>4 DEF DispatchJob, Pump, At
    <2>2. /\ "STARTING" \in JobStatus \ {"QUEUED"} /\ "STARTING" \notin JobEnded
          /\ "SENDING" \in Delivery
          /\ "start" \in Labels \ {"calling"} /\ "start" \notin Claimed /\ pc[p] \in Begun
      BY <2>1, PlacesOf DEF JobStatus, JobEnded, Delivery, Labels, Begun
    <2>3. "job" \notin stale[p] => run # NoRun
      BY <1>0, <2>2 DEF SeenInv, ActInv, EndsInv
    <2>4. Arrived(p, "start") => ActInv(p)'
      BY <1>0, <1>1, <2>2, ArrivedFree
    <2>5. pc[p] # "link" /\ pc[p] \notin Outer \ {"link", "relink"}
      BY <1>1, <2>1
    <2> QED
      BY <1>0, <2>1, <2>2, <2>3, <2>4, <2>5, JobHolds
  <1> QED
    BY <1>2, <1>3, <1>4

\* A step of the pump that decides on the run, and then reads.
LEMMA PumpHolds ==
  ASSUME Sound, NEW label \in {"started", "settleRefused"},
         NEW a \in {"finish", "raise"}, Look("pump", label, a, "finish"),
         pc["pump"] \notin Outer,
         UNCHANGED <<wave, phase, job, provider, inbox, up>>,
         run' = run \/ Steady("pump"),
         run' = run \/ ~provider.owed,
         Ended(run') /\ ~Ended(run) => provider.state # "working",
         run'.status = "COMPLETED" => run.status = "COMPLETED"
  PROVE  SInv'
  <1> DEFINE p == "pump"
  <1>0. DataOK /\ ControlOK /\ p \in Procs
    BY TypeParts DEF Sound, Procs
  <1>1. label \in Labels /\ label # "raise" /\ label # "calling" /\ a \in Labels
        /\ "finish" \in Labels /\ label \notin Claimed
    BY PlacesOf DEF Labels, Blind
  <1>2. Beside(p) /\ Saw(p, label, a, "finish")
    BY <1>0, <1>1, Looked DEF DataOK
  <1>3. ActInv(p)'
    BY <1>0, <1>1, <1>2, SawFree
  <1>4. pc'[p] # "calling" /\ lock' = lock /\ ~Calling'
    BY <1>1, <1>2 DEF Saw, Calling
  <1>5. CASE run' = run
    BY <1>0, <1>1, <1>3, <1>5, SameWave, LookHolds
  <1>6. CASE run' # run
    <2>1. TurnInv'
      BY <1>0, <1>2, <1>4, <1>6, TurnKeeps
    <2> QED
      BY <1>0, <1>2, <1>3, <1>4, <1>6, <2>1, RunHolds
  <1> QED
    BY <1>5, <1>6

LEMMA StartHolds ==
  ASSUME Sound, StartPreparedTurn
  PROVE  SInv'
  <1> DEFINE p == "pump"
  <1>0. /\ DataOK /\ ControlOK /\ RunInv /\ p \in Procs /\ PumpInv(p)
        /\ NewInv /\ TurnInv /\ EventInv /\ up # "down" /\ run \in RunRecord
    <2>1. p \in Procs /\ DataOK /\ ControlOK
      BY TypeParts DEF Procs, Sound
    <2> QED
      BY <2>1, Holding DEF Sound, SInv, IInv, StoreInv, DataOK, StartPreparedTurn, Pump
  <1>1. pc[p] = "start" /\ pc[p] \notin Outer
    BY DEF StartPreparedTurn, Pump, At, Outer
  <1>2. UNCHANGED <<wave, phase, job, provider, inbox, up>>
    BY DEF StartPreparedTurn, discourse
  <1>3. ASSUME Unsent(run), entry = "LEASED"
        PROVE  /\ job.status # "QUEUED" /\ ~provider.sent /\ ~Calling /\ ~provider.owed
               /\ provider.state = "idle" /\ ~run.turn /\ run.intact # "CHANGED"
               /\ ~Spared /\ ~Ended(run) /\ ~Failed(run) /\ ~Verified(run)
    <2>1. ~Overtaken(p) /\ job.delivery # "NOT_SENT"
      BY <1>0, <1>1, <1>3 DEF PumpInv
    <2>2. job.status # "QUEUED" /\ ~run.turn
      BY <1>0, <1>3, <2>1 DEF NewInv, Unsent, NewRun, NoRun
    <2>3. ~provider.sent /\ ~Calling /\ ~provider.owed
      BY <1>0, <1>3 DEF RunInv, Unsent, RunBegun
    <2>4. ~Ended(run) /\ ~Failed(run) /\ ~Verified(run) /\ run.intact # "CHANGED"
      BY <1>0, <1>3 DEF RunInv, RecordSound, Unsent, Ended, RunEnded, Failed, Verified
    <2> QED
      BY <1>0, <1>3, <2>2, <2>3, <2>4 DEF TurnInv, Spared, Barred, RunBegun, Unsent
  <1>4. CASE /\ entry = "LEASED" /\ Unsent(run)
             /\ run' = [run EXCEPT !.status = "STARTING", !.delivery = "SENDING",
                                   !.intact = "PENDING"]
             /\ Look(p, "calling", "finish", "finish")
    <2>1. /\ run'.status = "STARTING" /\ run'.delivery = "SENDING" /\ ~run'.turn
          /\ ~Ended(run')
      BY <1>0, <1>3, <1>4 DEF RunRecord, Ended, RunEnded
    <2>2. "calling" \in Labels /\ "finish" \in Labels /\ "calling" \notin Claimed
      BY PlacesOf DEF Labels, Blind, Places
    <2>3. Beside(p) /\ Saw(p, "calling", "finish", "finish")
      BY <1>0, <1>4, <2>2, Looked
    <2>4. ActInv(p)'
      BY <1>0, <2>2, <2>3, SawFree
    <2>5. Steady(p)
      BY <1>3, <1>4, <2>1 DEF Steady, Unsent
    <2>6. /\ Going(p) /\ OverInv' /\ \A q \in Procs \ {p} : ActInv(q)'
      BY <1>0, <1>2, <1>3, <1>4, <2>3, <2>5, SteadyGoes DEF Actors
    <2>7. NewInv'
      BY <1>0, <1>2, <1>3, <1>4, <2>1 DEF NewInv
    <2>8. TurnInv'
      BY <1>2, <1>3, <1>4, <2>1, <2>3 DEF TurnInv, Saw, Overtaken
    <2>9. EventInv'
      BY <1>0, <1>2, <1>3, <1>4 DEF EventInv
    <2>10. LifeInv'
      BY <1>0, <1>2, <2>3, LifeKeeps DEF LifeGoes, UpGoes
    <2> QED
      BY <2>4, <2>6, <2>7, <2>8, <2>9, <2>10 DEF SInv
  <1>5. CASE Look(p, "started", "raise", "finish") /\ run' = run
    BY <1>1, <1>2, <1>5, PumpHolds
  <1>6. CASE /\ entry = "LEASED" /\ Unsent(run)
             /\ run' = [run EXCEPT !.status = "FAILED", !.delivery = "NOT_DELIVERED",
                                   !.intact = "CHANGED"]
             /\ Look(p, "settleRefused", "raise", "finish")
    <2>1. run'.status = "FAILED" /\ run'.intact = "CHANGED"
      BY <1>0, <1>6 DEF RunRecord
    <2>2. Steady(p)
      BY <1>3, <1>6, <2>1 DEF Steady, Unsent
    <2> QED
      BY <1>1, <1>2, <1>3, <1>6, <2>1, <2>2, PumpHolds
  <1> QED
    BY <1>4, <1>5, <1>6 DEF StartPreparedTurn

\* The request returns: a call whose turn was sent is that of the present job.
LEMMA ReturnHolds ==
  ASSUME Sound, StartReturns \/ StartRefused \/ StartUnclear
  PROVE  SInv'
  <1> DEFINE p == "pump"
  <1>0. /\ RunInv /\ TurnInv /\ p \in Procs /\ run \in RunRecord
        /\ pc[p] = "calling" /\ pc[p] \notin Outer
    <2>1. p \in Procs /\ run \in RunRecord
      BY TypeParts DEF Procs, Sound, DataOK
    <2>2. pc[p] = "calling" /\ pc[p] \notin Outer
      BY DEF StartReturns, StartRefused, StartUnclear, Pump, At, Outer
    <2> QED
      BY <2>1, <2>2 DEF Sound, SInv, IInv, StoreInv
  <1>1. UNCHANGED <<wave, phase, job, provider, inbox, up>>
    BY DEF StartReturns, StartRefused, StartUnclear, discourse, app
  <1>2. run.intact = "CHANGED" => Ended(run)
    BY <1>0 DEF RunInv, RecordSound
  <1>3. ASSUME NEW a \in {"finish", "raise"}, Look(p, "started", a, "finish"), run' = run
        PROVE  SInv'
    BY <1>0, <1>1, <1>3, PumpHolds
  <1>4. ASSUME Look(p, "started", "raise", "finish"), run' = Lost(run),
               run.status \in {"STARTING", "INTERRUPTING"}
        PROVE  SInv'
    <2>1. run'.status = "RECOVERY_REQUIRED"
      BY <1>0, <1>4 DEF Lost, RunRecord
    <2>2. ~Ended(run) /\ ~Ended(run') /\ ~provider.owed
      BY <1>0, <1>4, <2>1 DEF TurnInv, Ended, RunEnded
    <2>3. Steady(p)
      BY <1>2, <1>4, <2>1, <2>2 DEF Steady, Ended, RunEnded, Failed, Verified
    <2> QED
      BY <1>0, <1>1, <1>4, <2>1, <2>2, <2>3, PumpHolds
  <1>5. CASE StartReturns
    <2>1. provider.sent /\ provider.state # "lost"
      BY <1>5 DEF StartReturns
    <2>2. ASSUME run.status \in {"STARTING", "RUNNING", "RECOVERY_REQUIRED"}, ~Ended(run),
                 run' = [run EXCEPT !.status = "RUNNING", !.delivery = "ACKNOWLEDGED",
                                    !.turn = TRUE],
                 Look(p, "started", "finish", "finish")
          PROVE  SInv'
      <3>1. run'.status = "RUNNING"
        BY <1>0, <2>2 DEF RunRecord
      <3>2. Calling /\ ~provider.owed
        BY <1>0, <2>1, <2>2 DEF TurnInv, Calling
      <3>3. Steady(p)
        BY <1>2, <2>2, <3>1 DEF Steady, Ended, RunEnded, Failed, Verified
      <3>4. ~Ended(run')
        BY <3>1 DEF Ended, RunEnded
      <3> QED
        BY <1>0, <1>1, <2>2, <3>1, <3>2, <3>3, <3>4, PumpHolds
    <2>3. \/ run' = run /\ Look(p, "started", "finish", "finish")
          \/ /\ run.status \in {"STARTING", "RUNNING", "RECOVERY_REQUIRED"} /\ ~Ended(run)
             /\ run' = [run EXCEPT !.status = "RUNNING", !.delivery = "ACKNOWLEDGED",
                                   !.turn = TRUE]
             /\ Look(p, "started", "finish", "finish")
          \/ /\ run.status = "INTERRUPTING" /\ run' = Lost(run)
             /\ Look(p, "started", "raise", "finish")
      BY <1>5 DEF StartReturns, Ended
    <2> QED
      BY <1>3, <1>4, <2>2, <2>3
  <1>6. CASE StartRefused
    <2>1. CASE run.status = "STARTING"
      <3>1. /\ ~provider.sent /\ Look(p, "settleRefused", "raise", "finish")
            /\ run' = [run EXCEPT !.status = "FAILED", !.delivery = "NOT_DELIVERED",
                                  !.intact = "UNCHANGED"]
        BY <1>6, <2>1 DEF StartRefused
      <3>2. run'.status = "FAILED"
        BY <1>0, <3>1 DEF RunRecord
      <3>3. ~Ended(run) /\ ~provider.owed /\ provider.state # "working"
        BY <1>0, <2>1, <3>1 DEF TurnInv, RunInv, Ended, RunEnded
      <3>4. Steady(p)
        BY <1>2, <2>1, <3>2, <3>3 DEF Steady, Failed, Verified
      <3> QED
        BY <1>0, <1>1, <3>1, <3>2, <3>3, <3>4, PumpHolds
    <2>2. CASE run.status # "STARTING"
      BY <1>3, <1>6, <2>2 DEF StartRefused
    <2> QED
      BY <2>1, <2>2
  <1>7. CASE StartUnclear
    BY <1>3, <1>4, <1>7 DEF StartUnclear
  <1> QED
    BY <1>5, <1>6, <1>7

LEMMA StartedHolds ==
  ASSUME Sound,
         SettleRefused \/ Started \/ Acknowledge \/ StartRecovery \/ StartFailed \/ Raise
  PROVE  SInv'
  <1> DEFINE p == "pump"
  <1>0. /\ DataOK /\ ControlOK /\ p \in Procs /\ ActInv(p) /\ SeenInv(p)
        /\ (lock = p => ~Overtaken(p)) /\ after[p] \in Afters
        /\ entry \in EntryStatus /\ seen[p] \in RunRecord
    <2>1. p \in Procs /\ DataOK /\ ControlOK
      BY TypeParts DEF Procs, Sound
    <2> QED
      BY <2>1, Holding DEF DataOK, ControlOK, WayInv
  <1>1. pc[p] \notin Outer /\ pc[p] \notin RejectWay /\ back[p] # "rejectJob"
    <2>1. pc[p] \notin Outer /\ pc[p] \notin RejectWay
      BY DEF SettleRefused, Started, Acknowledge, StartRecovery, StartFailed, Raise,
         Pump,
         At, Outer, RejectWay
    <2> QED
      BY <1>0, <2>1, Holding
  <1>2. /\ after[p] \in Labels \ {"calling"} /\ after[p] \notin Claimed
        /\ after[p] # "rejectJob" /\ after[p] \notin Stops
        /\ {"started", "finish", "reconcile"} \subseteq Labels \ {"calling"}
        /\ {"started", "finish", "reconcile"} \cap Claimed = {}
    BY <1>0, PlacesOf DEF Places, Afters, Stops
  <1>3. CASE SettleRefused
    <2>1. SetEntry(p, Closing(entry, entry = "LEASED"), "started")
      BY <1>3 DEF SettleRefused
    <2>2. Closing(entry, entry = "LEASED") \in EntryStatus
      BY <1>0 DEF Closing, EntryStatus
    <2>3. Arrived(p, "started") => ActInv(p)'
      BY <1>0, <1>1, <1>2, ArrivedFree
    <2> QED
      BY <1>0, <1>1, <1>2, <2>1, <2>2, <2>3, EntryHolds
  <1>4. CASE Started
    <2>1. PICK label \in {"ack", "finish", "raise", after[p], "startRecovery", "startFailed"} :
            /\ Look(p, label, after[p], after[p])
            /\ label = "ack" => run.status = "RUNNING"
            /\ label = "startRecovery" => run.status = "RECOVERY_REQUIRED" \/ label = after[p]
            /\ label = "startFailed" => run.status = "FAILED" \/ label = after[p]
      BY <1>0, <1>4, Zenon DEF Started, Acknowledged, Afters
    <2>2. UNCHANGED <<wave, phase, job, run, provider, inbox, up>> /\ WaveGoes(p)
      BY <1>0, <1>4, ReadsKeep DEF Started
    <2>3. after[p] \notin {"ack", "startRecovery", "startFailed"}
      BY <1>0 DEF Afters
    <2>4. ASSUME label # "raise", Saw(p, label, after[p], after[p])
          PROVE  ActInv(p)'
      <3>1. CASE label \in {"finish", after[p]}
        BY <1>0, <1>2, <2>4, <3>1, SawFree
      <3>2. CASE label \in {"ack", "startRecovery"}
        <4>1. run' # NoRun
          BY <2>1, <2>2, <2>3, <3>2 DEF NoRun
        <4>2. /\ label \in SeenUsed \cup Begun \cup Marking
              /\ label # "rCancelRun" /\ label # "relink"
          BY <3>2 DEF SeenUsed, Begun, Marking
        <4>3. label \in SeenUsed => seen'[p] = run
          BY <2>4, <3>2 DEF Saw, SeenUsed, UsesRun
        <4> QED
          BY <1>0, <1>2, <2>2, <2>4, <4>1, <4>2, <4>3, SeenActs DEF Saw, Overtaken
      <3>3. CASE label = "startFailed"
        <4>1. Ended(run)' /\ label \in Over \ {"rejectJob", "cancelEntry", "cancelDone"}
          BY <2>1, <2>2, <2>3, <3>3 DEF Ended, RunEnded, Over
        <4> QED
          BY <1>0, <1>2, <2>4, <3>3, <4>1, OverActs DEF Saw, Overtaken
      <3> QED
        BY <2>4, <3>1, <3>2, <3>3
    <2>5. label \in Labels \ {"calling"}
      BY <1>2 DEF Labels, Blind
    <2> QED
      BY <1>0, <1>1, <1>2, <2>1, <2>2, <2>4, <2>5, LookHolds
  <1>5. ASSUME NEW status \in JobStatus \ {"QUEUED"}, NEW delivery \in Delivery,
               NEW next \in Labels \ {"calling"}, TryJob(p, status, delivery, next),
               "job" \notin stale[p] => run # NoRun,
               "job" \notin stale[p] /\ status \in JobEnded => RunOver,
               Arrived(p, next) => ActInv(p)'
        PROVE  SInv'
    <2>1. pc[p] # "link" /\ pc[p] \notin Outer \ {"link", "relink"}
      BY <1>1 DEF Outer
    <2> QED
      BY <1>0, <1>5, <2>1, JobHolds
  <1>6. CASE Acknowledge
    <2>1. TryJob(p, "RUNNING", "ACKNOWLEDGED", "finish") /\ pc[p] \in Begun
      BY <1>6 DEF Acknowledge, Pump, At, Begun
    <2>2. /\ "RUNNING" \in JobStatus \ {"QUEUED"} /\ "RUNNING" \notin JobEnded
          /\ "ACKNOWLEDGED" \in Delivery
      BY DEF JobStatus, JobEnded, Delivery
    <2>3. "job" \notin stale[p] => run # NoRun
      BY <1>0, <2>1 DEF SeenInv, ActInv, EndsInv
    <2>4. Arrived(p, "finish") => ActInv(p)'
      BY <1>0, <1>1, <1>2, ArrivedFree
    <2> QED
      BY <1>2, <1>5, <2>1, <2>2, <2>3, <2>4
  <1>7. CASE StartRecovery
    <2>1. /\ TryJob(p, "RECOVERY_REQUIRED", seen[p].delivery, "markWave")
          /\ pc[p] \in Begun /\ pc[p] \in Marking
      BY <1>7 DEF StartRecovery, Pump, At, Begun, Marking
    <2>2. /\ "RECOVERY_REQUIRED" \in JobStatus \ {"QUEUED"}
          /\ "RECOVERY_REQUIRED" \notin JobEnded
          /\ seen[p].delivery \in Delivery /\ "markWave" \in Labels \ {"calling"}
          /\ "markWave" \in Marks
      BY <1>0 DEF JobStatus, JobEnded, RunRecord, Labels, Marks
    <2>3. "job" \notin stale[p] => run # NoRun
      BY <1>0, <2>1 DEF SeenInv, ActInv, EndsInv
    <2>4. back[p] \notin Stops
      BY <1>0, <2>1 DEF ActInv, EndsInv
    <2>5. Arrived(p, "markWave") => ActInv(p)'
      BY <1>0, <1>1, <2>2, <2>4, MarkActs DEF Arrived, Overtaken
    <2> QED
      BY <1>5, <2>1, <2>2, <2>3, <2>5
  <1>8. CASE StartFailed
    <2>1. TryJob(p, "FAILED", "NOT_DELIVERED", "reconcile") /\ pc[p] \in Over
      BY <1>8 DEF StartFailed, Pump, At, Over
    <2>2. "FAILED" \in JobStatus \ {"QUEUED"} /\ "NOT_DELIVERED" \in Delivery
      BY DEF JobStatus, JobEnded, Delivery
    <2>3. "job" \notin stale[p] => Ended(run)
      BY <1>0, <2>1 DEF SeenInv, ActInv, EndsInv
    <2>4. Ended(run) => run # NoRun /\ RunOver
      BY DEF Ended, RunEnded, NoRun, RunOver
    <2>5. Arrived(p, "reconcile") => ActInv(p)'
      BY <1>0, <1>1, <1>2, ArrivedFree
    <2> QED
      BY <1>2, <1>5, <2>1, <2>2, <2>3, <2>4, <2>5
  <1>9. CASE Raise
    <2>1. Throw(p) /\ Reads
      BY <1>9 DEF Raise
    <2> QED
      BY <1>0, <1>1, <2>1, ReadsKeep, ThrowHolds
  <1> QED
    BY <1>3, <1>4, <1>6, <1>7, <1>8, <1>9

-----------------------------------------------------------------------------
(* The provider, the boundary of the turn, a crash and a restart.          *)

\* What a step outside the processes needs.
LEMMA OutsideHolds ==
  ASSUME Sound, Outside, up' = up, up # "down", Steady("provider"), TurnInv', EventInv',
         provider.sent => provider'.sent, provider'.sent => provider.sent \/ Calling,
         provider'.answer = provider.answer \/ ~AwaitsAuthor
  PROVE  SInv'
  <1>0. NewInv /\ LifeInv
    BY DEF Sound, SInv
  <1>1. UNCHANGED <<wave, phase, job, lock, pc, handling, seen, stale, after, back>>
    BY DEF Outside, discourse, control, locals
  <1>2. Beside("provider") /\ "provider" \in Actors /\ "provider" \notin Procs
        /\ (Calling' <=> Calling)
    BY <1>1 DEF Beside, Actors, Procs, Calling, Overtaken
  <1>3. provider.sent \in BOOLEAN /\ provider'.sent \in BOOLEAN
    BY TypeParts DEF Sound, DataOK
  <1>4. /\ OverInv' /\ \A q \in Procs : ActInv(q)'
        /\ job.status = "QUEUED" => run' = run
    BY <1>1, <1>2, <1>3, SteadyGoes
  <1>5. NewInv'
    <2>1. Linking' <=> Linking
      BY <1>1 DEF Linking
    <2> QED
      BY <1>0, <1>1, <1>4, <2>1 DEF NewInv, Steady
  <1>6. LifeInv'
    BY <1>0, <1>1 DEF LifeInv
  <1> QED
    BY <1>4, <1>5, <1>6 DEF SInv

LEMMA TurnHolds ==
  ASSUME Sound, Submit \/ Accept
  PROVE  SInv'
  <1>0. /\ RunInv /\ TurnInv /\ EventInv /\ Outside /\ Calling /\ UNCHANGED app
        /\ up # "down" /\ run \in RunRecord
    BY TypeParts DEF Sound, SInv, IInv, StoreInv, Submit, Accept, Alive, DataOK
  <1>1. UNCHANGED <<phase, inbox, up>> /\ ~Overtaken("pump") /\ pc["pump"] = "calling"
        /\ pc' = pc /\ stale' = stale /\ Calling'
    BY <1>0 DEF Outside, discourse, control, locals, app, Calling, Overtaken
  <1>2. CASE Submit
    <2>1. /\ run' = run /\ provider = NoTurn
          /\ provider' = [provider EXCEPT !.state = "working", !.sent = TRUE]
      BY <1>2 DEF Submit
    <2>2. /\ provider'.sent /\ ~provider'.owed /\ provider'.state = "working"
          /\ provider'.answer = provider.answer /\ ~provider.sent
      BY <2>1 DEF NoTurn
    <2>3. ~Ended(run)
      BY <1>0, <2>2 DEF TurnInv, Ended, RunEnded
    <2>4. TurnInv'
      BY <1>1, <2>1, <2>2, <2>3 DEF TurnInv, Ended, Overtaken
    <2>5. Steady("provider") /\ EventInv'
      BY <1>0, <1>1, <2>1 DEF Steady, EventInv, Unsent, Ended, Failed, Verified
    <2> QED
      BY <1>0, <1>1, <2>2, <2>4, <2>5, OutsideHolds
  <1>3. CASE Accept
    <2>1. /\ provider' = provider /\ provider.state = "working" /\ run.status = "STARTING"
          /\ run' = [run EXCEPT !.status = "RUNNING", !.delivery = "ACKNOWLEDGED",
                                !.turn = TRUE]
      BY <1>3 DEF Accept
    <2>2. run'.status = "RUNNING" /\ run'.intact = run.intact
      BY <1>0, <2>1 DEF RunRecord
    <2>3. ~Ended(run) /\ ~Ended(run') /\ ~Failed(run) /\ provider.sent /\ ~provider.owed
      BY <1>0, <2>1, <2>2 DEF Ended, RunEnded, Failed, RunInv, TurnInv
    <2>4. TurnInv'
      BY <1>1, <2>1, <2>2, <2>3 DEF TurnInv, Overtaken
    <2>5. Steady("provider")
      BY <2>1, <2>2, <2>3 DEF Steady, Unsent, Verified
    <2>6. EventInv'
      BY <1>0, <1>1, <2>3 DEF EventInv
    <2> QED
      BY <1>0, <1>1, <2>1, <2>4, <2>5, <2>6, OutsideHolds
  <1> QED
    BY <1>2, <1>3

LEMMA EndHolds ==
  ASSUME Sound, ProviderEnds \/ ServerLost
  PROVE  SInv'
  <1>0. /\ DataOK /\ RunInv /\ TurnInv /\ EventInv /\ MessageInv /\ Outside /\ UNCHANGED app
        /\ up # "down" /\ run \in RunRecord /\ provider.state = "working"
    BY TypeParts DEF Sound, SInv, IInv, StoreInv, ProviderEnds, ServerLost, Alive,
       DataOK
  <1>1. UNCHANGED <<phase, inbox, up, pc, stale>>
    BY <1>0 DEF Outside, discourse, control, locals, app
  <1>2. provider.sent /\ ~Ended(run) /\ ~Failed(run) /\ ~Verified(run)
    BY <1>0 DEF RunInv, TurnInv, Ended, RunEnded, Failed, Verified
  <1>3. RunBegun /\ ~AwaitsAuthor /\ ~(pc["pump"] = "calling" /\ Overtaken("pump"))
    <2>1. IInv
      BY DEF Sound
    <2>2. RunBegun
      BY <1>2, <2>1, SentRun
    <2> QED
      BY <1>0, <1>2, <2>2 DEF MessageInv, AwaitsAuthor, TurnInv
  <1>4. EventInv'
    BY <1>0, <1>1, <1>2 DEF EventInv
  <1>5. ASSUME provider'.sent, provider'.state \in {"done", "lost"},
               provider'.owed => \/ Ended(run')
                                 \/ /\ run'.status = "RECOVERY_REQUIRED"
                                    /\ run'.delivery = "AMBIGUOUS"
                                    /\ provider'.state = "lost",
               run'.intact = run.intact, run' = run \/ run'.status \notin {"none", "QUEUED"}
        PROVE  SInv'
    <2>1. TurnInv'
      BY <1>1, <1>3, <1>5 DEF TurnInv, Overtaken
    <2>2. Steady("provider")
      BY <1>2, <1>3, <1>5 DEF Steady, Unsent, RunBegun
    <2> QED
      BY <1>0, <1>1, <1>2, <1>3, <1>4, <1>5, <2>1, <2>2, OutsideHolds
  <1>6. CASE ProviderEnds
    <2>1. PICK end \in RunEnded, answer \in Answers :
            /\ provider' = [state |-> "done", sent |-> TRUE, owed |-> run.turn /\ ~Ended(run),
                            answer |-> answer]
            /\ run' = IF run.turn /\ ~Ended(run)
                      THEN [run EXCEPT !.status = end, !.delivery = "TERMINAL",
                                       !.interrupt = Closed(run)]
                      ELSE run
      BY <1>6 DEF ProviderEnds, RunEnded
    <2>2. CASE run.turn
      <3>1. run' = [run EXCEPT !.status = end, !.delivery = "TERMINAL",
                               !.interrupt = Closed(run)]
        BY <1>2, <2>1, <2>2
      <3>2. run'.status = end /\ run'.intact = run.intact
        BY <1>0, <3>1 DEF RunRecord
      <3>3. Ended(run') /\ run'.status \notin {"none", "QUEUED"}
        BY <3>2 DEF Ended, RunEnded
      <3>4. provider'.sent /\ provider'.state = "done"
        BY <2>1
      <3> QED
        BY <1>5, <3>2, <3>3, <3>4
    <2>3. CASE ~run.turn
      <3>1. run' = run
        BY <2>1, <2>3
      <3>2. provider' = [state |-> "done", sent |-> TRUE, owed |-> FALSE, answer |-> answer]
        BY <2>1, <2>3, Zenon
      <3>3. provider'.sent /\ provider'.state = "done" /\ ~provider'.owed
        BY <3>2
      <3> QED
        BY <1>5, <3>1, <3>3
    <2> QED
      BY <2>2, <2>3
  <1>7. CASE ServerLost
    <2>1. /\ provider' = [provider EXCEPT !.state = "lost", !.owed = Owned(run)]
          /\ run' = IF Owned(run) THEN Abandoned(run) ELSE run
      BY <1>7 DEF ServerLost
    <2>2. /\ provider'.state = "lost" /\ provider'.sent = provider.sent
          /\ provider'.owed <=> Owned(run)
      <3>1. ASSUME NEW o, provider' = [provider EXCEPT !.state = "lost", !.owed = o]
            PROVE  /\ provider'.state = "lost" /\ provider'.sent = provider.sent
                   /\ provider'.owed = o
        BY <1>0, <3>1 DEF DataOK
      <3> QED
        BY <2>1, <3>1
    <2>3. CASE Owned(run)
      <3>1. /\ run'.intact = run.intact
            /\ \/ run'.status = "INTERRUPTED"
               \/ run'.status = "RECOVERY_REQUIRED" /\ run'.delivery = "AMBIGUOUS"
        BY <1>0, <2>1, <2>3 DEF Abandoned, Lost, RunRecord
      <3>2. run'.status = "INTERRUPTED" => Ended(run')
        BY DEF Ended, RunEnded
      <3> QED
        BY <1>2, <1>5, <2>2, <3>1, <3>2
    <2>4. CASE ~Owned(run)
      BY <1>2, <1>5, <2>1, <2>2, <2>4
    <2> QED
      BY <2>3, <2>4
  <1> QED
    BY <1>6, <1>7

LEMMA VerifyHolds ==
  ASSUME Sound, VerifyBoundary
  PROVE  SInv'
  <1> DEFINE kind == CASE run'.status = "COMPLETED" -> "completed"
                       [] run'.status = "RECOVERY_REQUIRED" -> "recovery"
                       [] OTHER -> "ended"
  <1>0. /\ DataOK /\ RunInv /\ TurnInv /\ EventInv /\ up # "down" /\ run \in RunRecord
    BY TypeParts DEF Sound, SInv, IInv, StoreInv, VerifyBoundary, Alive, DataOK
  <1>1. /\ provider.owed /\ provider' = [provider EXCEPT !.owed = FALSE]
        /\ inbox' = Append(inbox, Event(kind)) /\ Outside
        /\ UNCHANGED <<phase, up, pc, stale>>
    BY DEF VerifyBoundary, Outside, discourse, control, locals
  <1>2. RunBegun /\ run.intact # "CHANGED"
    BY <1>0, <1>1 DEF RunInv
  <1>3. /\ ~provider'.owed /\ provider'.sent = provider.sent
        /\ provider'.state = provider.state /\ provider'.answer = provider.answer
    BY <1>0, <1>1 DEF DataOK
  <1>4. \/ run' = [run EXCEPT !.intact = "UNCHANGED"]
        \/ \E d \in {"TERMINAL", "NOT_DELIVERED"} :
             /\ run.intact # "UNCHANGED"
             /\ run' = [run EXCEPT !.intact = "CHANGED", !.status = "FAILED", !.delivery = d]
    BY DEF VerifyBoundary
  <1>5. \/ run'.status = run.status /\ run'.intact = "UNCHANGED"
        \/ run.intact # "UNCHANGED" /\ run'.status = "FAILED"
    BY <1>0, <1>4 DEF RunRecord
  <1>6. /\ provider.state # "working" /\ ~(Calling /\ ~provider.sent)
        /\ Ended(run) \/ run.status = "RECOVERY_REQUIRED"
    BY <1>0, <1>1 DEF TurnInv
  <1>7. Steady("provider")
    BY <1>2, <1>5, <1>6 DEF Steady, RunBegun, Ended, RunEnded, Failed, Verified, Unsent
  <1>8. TurnInv'
    <2>1. Calling' <=> Calling
      BY <1>1 DEF Calling, Overtaken
    <2>2. run'.status = "COMPLETED" => run.status = "COMPLETED"
      BY <1>5
    <2> QED
      BY <1>0, <1>1, <1>3, <1>6, <2>1, <2>2 DEF TurnInv, Overtaken
  <1>9. EventInv'
    <2>1. kind = "ended" => Failed(run')
      BY <1>5, <1>6 DEF Ended, RunEnded, Failed
    <2> HIDE DEF kind
    <2>2. inbox \in Seq([kind : {"completed", "ended", "recovery"}, phase : 1..Agents])
      BY <1>0 DEF DataOK
    <2>3. ASSUME NEW i \in DOMAIN inbox'
          PROVE  \/ i \in DOMAIN inbox /\ inbox'[i] = inbox[i]
                 \/ inbox'[i] = Event(kind)
      BY <1>1, <2>2
    <2>4. Event(kind).kind = kind
      BY DEF Event
    <2> QED
      BY <1>0, <1>1, <1>7, <2>1, <2>3, <2>4 DEF EventInv, Steady
  <1> QED
    BY <1>0, <1>1, <1>3, <1>7, <1>8, <1>9, OutsideHolds

LEMMA ForgetHolds ==
  ASSUME Sound, Crash \/ BootFails
  PROVE  SInv'
  <1>0. DataOK /\ RunInv /\ OverInv /\ NewInv /\ TurnInv
    BY TypeParts DEF Sound, SInv, IInv, StoreInv
  <1>1. Forget
    BY DEF Crash, BootFails
  <1>2. UNCHANGED <<wave, phase, job, run>>
    BY <1>1 DEF Forget, discourse, runtime
  <1>3. /\ pc' = Stopped /\ lock' = "free" /\ stale' = [p \in Procs |-> {}]
        /\ back' = Stopped /\ inbox' = <<>> /\ up' = "down"
        /\ \E s \in {"lost", provider.state} :
             /\ provider' = [provider EXCEPT !.state = s, !.owed = FALSE]
             /\ s # "working"
             /\ s = "lost" /\ s # provider.state => provider.state = "working"
    BY <1>1 DEF Forget
  <1>4. /\ ~provider'.owed /\ provider'.sent = provider.sent
        /\ provider'.state # "working"
        /\ provider'.state = "lost" \/ provider'.state = provider.state
        /\ provider'.state # provider.state => provider.state = "working"
    BY <1>0, <1>3 DEF DataOK
  <1>5. \A p \in Procs : pc'[p] = "idle" /\ back'[p] = "idle" /\ stale'[p] = {}
    BY <1>3 DEF Stopped
  <1>6. ~Calling' /\ pc'["pump"] = "idle" /\ Linking'
    BY <1>3, <1>5 DEF Calling, Procs, Linking
  <1>7. OverInv' /\ NewInv'
    BY <1>0, <1>2, <1>6 DEF OverInv, RunOver, NewInv, Ended
  <1>8. TurnInv'
    BY <1>0, <1>2, <1>4, <1>6 DEF TurnInv, RunInv, Ended
  <1>9. EventInv' /\ LifeInv'
    BY <1>3, <1>4, <1>5 DEF EventInv, LifeInv, Procs
  <1>10. ASSUME NEW p \in Procs
         PROVE  ActInv(p)'
    BY <1>5, PlacesOf, FreeActs DEF Overtaken
  <1> QED
    BY <1>7, <1>8, <1>9, <1>10 DEF SInv

LEMMA RestartHolds ==
  ASSUME Sound, Restart
  PROVE  SInv'
  <1> DEFINE p == "boot"
  <1>0. /\ DataOK /\ ControlOK /\ OverInv /\ NewInv /\ TurnInv /\ EventInv /\ LifeInv
        /\ p \in Procs /\ run \in RunRecord /\ up = "down"
    BY TypeParts DEF Sound, SInv, DataOK, Procs, Restart
  <1>1. /\ up' = "starting" /\ Move(p, "settling")
        /\ UNCHANGED <<wave, phase, job, inbox>>
        /\ \/ run' = run /\ run.status # "RECOVERY_REQUIRED"
           \/ run' = Lost(run) /\ Owned(run)
    BY Zenon DEF Restart, Move, discourse, Owned
  <1>2. PICK o \in BOOLEAN : /\ provider' = [provider EXCEPT !.owed = o]
                             /\ o => Ended(run') \/ run'.status = "RECOVERY_REQUIRED"
    BY Zenon DEF Restart
  <1>3. /\ provider'.owed = o /\ provider'.sent = provider.sent
        /\ provider'.state = provider.state /\ provider'.answer = provider.answer
    BY <1>0, <1>2 DEF DataOK
  <1>4. "settling" \in Labels /\ "settling" \notin Claimed
    <2>1. "settling" \in Outer /\ "settling" \in Labels
      BY DEF Outer, Labels, Blind
    <2> QED
      BY <2>1, PlacesOf
  <1>5. Beside(p) /\ Arrived(p, "settling")
    BY <1>0, <1>1, <1>4, Moved
  <1>6. provider.state # "working" /\ (\A q \in Procs : pc[q] = "idle")
    BY <1>0 DEF LifeInv
  <1>7. ActInv(p)'
    BY <1>0, <1>4, <1>5, <1>6, ArrivedFree DEF RejectWay
  <1>8. /\ pc'["pump"] = "idle" /\ pc'["user"] = "idle" /\ pc'[p] = "settling" /\ ~Calling'
    BY <1>5, <1>6 DEF Beside, Arrived, Procs, Calling
  <1>9. \/ run' = run /\ run.status # "RECOVERY_REQUIRED"
        \/ /\ run'.status = "RECOVERY_REQUIRED" /\ run'.delivery = "AMBIGUOUS"
           /\ run'.intact = run.intact /\ Owned(run)
    BY <1>0, <1>1 DEF Lost, RunRecord
  <1>10. Steady(p)
    <2>1. Owned(run) => ~Ended(run) /\ ~Failed(run) /\ ~Verified(run) /\ ~Unsent(run)
      BY DEF Owned, Ended, RunEnded, Failed, Verified, Unsent
    <2>2. Owned(run) => run.status \notin {"none", "QUEUED"}
      BY DEF Owned
    <2> QED
      BY <1>9, <2>1, <2>2 DEF Steady
  <1>11. /\ OverInv' /\ \A q \in Procs \ {p} : ActInv(q)'
         /\ job.status = "QUEUED" => run' = run
    BY <1>0, <1>1, <1>3, <1>5, <1>8, <1>10, SteadyGoes DEF Actors
  <1>12. NewInv'
    <2>1. Linking'
      BY <1>1, <1>8 DEF Linking, BootLinks
    <2> QED
      BY <1>0, <1>1, <1>10, <1>11, <2>1 DEF NewInv, Steady
  <1>13. TurnInv'
    <2>1. ~(pc'["pump"] = "calling")
      BY <1>8
    <2>2. run'.status = "COMPLETED" => run.status = "COMPLETED"
      BY <1>9
    <2> QED
      BY <1>0, <1>2, <1>3, <1>6, <1>8, <1>9, <2>1, <2>2 DEF TurnInv, Ended
  <1>14. EventInv'
    BY <1>0, <1>1, <1>10 DEF EventInv, Steady
  <1>15. LifeInv'
    BY <1>1, <1>8 DEF LifeInv
  <1> QED
    BY <1>7, <1>11, <1>12, <1>13, <1>14, <1>15 DEF SInv

LEMMA BootHolds ==
  ASSUME Sound, BootSettles
  PROVE  SInv'
  <1> DEFINE p == "boot"
  <1>0. /\ TypeOK /\ LifeInv /\ p \in Procs /\ entry \in EntryStatus /\ pc[p] = "settling"
    BY TypeParts DEF Sound, SInv, DataOK, Procs, BootSettles, At
  <1>1. SetEntry(p, Closing(entry, Ended(run)), "lockRecover")
    BY DEF BootSettles
  <1>2. Closing(entry, Ended(run)) \in EntryStatus
    BY <1>0 DEF Closing, EntryStatus
  <1>3. "lockRecover" \in Labels /\ "lockRecover" \notin Claimed
    BY PlacesOf DEF Places
  <1>4. /\ Beside(p) /\ Arrived(p, "lockRecover")
        /\ UNCHANGED <<wave, phase, job, run, provider, inbox, up>>
    BY <1>0, <1>1, <1>2, <1>3, EntrySet
  <1>5. ActInv(p)'
    BY <1>0, <1>3, <1>4, ArrivedFree DEF RejectWay
  <1>6. pc'[p] = "lockRecover"
    BY <1>4 DEF Arrived
  <1>7. LifeGoes(p) /\ LinkGoes(p)
    BY <1>0, <1>6 DEF LifeInv, LifeGoes, LinkGoes, BootLinks
  <1> QED
    BY <1>0, <1>4, <1>5, <1>6, <1>7, SameWave, QuietHolds DEF UpGoes

-----------------------------------------------------------------------------
(* The invariant of the end holds at first and is kept by every step.      *)

\* Every step of a process.
LEMMA ProcessHolds ==
  ASSUME Sound, NEW p \in Procs, Process(p)
  PROVE  SInv'
  <1>1. CASE \/ Finish(p) \/ ActivateNextWave(p) \/ PrepareJob(p) \/ PrepareRun(p)
             \/ LinkJob(p) \/ QueueWave(p) \/ Notify(p)
    BY <1>1, FinishHolds, PrepareHolds
  <1>2. CASE \/ CancelQueuedWave(p) \/ CancelIntent(p) \/ CancelUnsubmittedJob(p)
             \/ CancelRun(p) \/ CancelEntry(p) \/ CancelDone(p)
    BY <1>2, CancelHolds
  <1>3. CASE \/ StopActiveWave(p) \/ StopIntent(p) \/ RequestCancel(p) \/ StopRun(p)
             \/ InterruptTurn(p) \/ InterruptReturns(p) \/ InterruptedJob(p)
             \/ StopRecovery(p) \/ StopRecovered(p) \/ InterruptedRecovered(p)
             \/ RecoveredPending(p) \/ RecoveredDone(p) \/ FinishStop(p)
    BY <1>3, StopHolds
  <1>4. CASE MarkRun(p) \/ MarkEntry(p) \/ MarkJob(p) \/ MarkWave(p)
    BY <1>4, MarkHolds
  <1>5. CASE \/ Ingest(p) \/ Project(p) \/ ProjectedPeer(p) \/ FailResult(p)
             \/ AppendMessage(p) \/ Complete(p) \/ IngestFailure(p) \/ CloseFailedJob(p)
             \/ SettleRuntime(p)
    BY <1>5, ResultHolds
  <1>6. CASE \/ LockRecover(p) \/ Recover(p) \/ Relink(p) \/ ReleaseEntry(p) \/ Requeue(p)
             \/ Decide(p)
    BY <1>6, ReadHolds, DecideHolds
  <1>7. CASE \/ RecoverCancelRun(p) \/ RecoverCancelEntry(p) \/ RecoverCancelJob(p)
             \/ RecoverInterrupted(p) \/ RecoverInterruptedJob(p) \/ RecoverRequired(p)
             \/ RecoverRunning(p) \/ RecoverRunningJob(p) \/ RecoverStarting(p)
             \/ RecoverStartingJob(p) \/ RecoverStartingWave(p)
    BY <1>7, RecoverHolds
  <1>8. CASE Reconcile(p) \/ LockAdvance(p) \/ AdvanceWave(p) \/ AddAuthorJob(p)
    BY <1>8, ReconcileHolds, AdvanceHolds, AuthorHolds
  <1> QED
    BY <1>1, <1>2, <1>3, <1>4, <1>5, <1>6, <1>7, <1>8 DEF Process

\* A step that changes nothing.
LEMMA StutterHolds ==
  ASSUME SInv, UNCHANGED vars
  PROVE  SInv'
  <1>1. UNCHANGED <<wave, phase, job, run, provider, inbox, lock, up, pc, seen, stale,
                    after, back>>
    BY DEF vars, discourse, runtime, app, control, locals
  <1>2. /\ (Calling' <=> Calling) /\ (RunOver' <=> RunOver) /\ (Linking' <=> Linking)
        /\ (Spared' <=> Spared) /\ (RunBegun' <=> RunBegun) /\ (AwaitsAuthor' <=> AwaitsAuthor)
    <2>1. (Calling' <=> Calling) /\ (RunOver' <=> RunOver)
      BY <1>1 DEF Calling, Overtaken, RunOver, Ended
    <2>2. Linking' <=> Linking
      BY <1>1 DEF Linking
    <2>3. (Spared' <=> Spared) /\ (RunBegun' <=> RunBegun)
      BY <1>1, <2>1 DEF Spared, Barred, RunBegun, Ended
    <2>4. AwaitsAuthor' <=> AwaitsAuthor
      BY <1>1 DEF AwaitsAuthor
    <2> QED
      BY <2>1, <2>2, <2>3, <2>4
  <1>3. OverInv' /\ NewInv' /\ TurnInv' /\ EventInv' /\ LifeInv'
    BY <1>1, <1>2 DEF SInv, OverInv, NewInv, TurnInv, EventInv, LifeInv, Ended, Failed,
       Overtaken
  <1>4. ASSUME NEW p \in Procs
        PROVE  ActInv(p)'
    <2>1. /\ (Stoppable(p)' <=> Stoppable(p)) /\ (Rejectable(p)' <=> Rejectable(p))
          /\ (Overtaken(p)' <=> Overtaken(p))
      BY <1>1, <1>2 DEF Stoppable, Rejectable, Overtaken, Unsent
    <2>2. HoldInv(p)' /\ StopInv(p)'
      BY <1>1, <1>2, <2>1 DEF SInv, ActInv, HoldInv, StopInv
    <2>3. EndsInv(p)'
      BY <1>1, <1>2, <2>1 DEF SInv, ActInv, EndsInv, Ended, NeverSent, Unsent,
         Verified, Failed
    <2> QED
      BY <2>2, <2>3 DEF ActInv
  <1> QED
    BY <1>3, <1>4 DEF SInv

\* Every step.
LEMMA InductiveOver ==
  ASSUME TypeOK, IInv, SInv, [Next]_vars
  PROVE  SInv'
  <1>0. Sound
    BY Inductive DEF Sound
  <1>1. CASE Send \/ StopWave \/ TakeEvent
    BY <1>0, <1>1, UserHolds, TakeHolds
  <1>2. CASE StartCall
    BY <1>0, <1>2, ReturnHolds DEF StartCall
  <1>3. CASE PumpStep
    BY <1>0, <1>3, LeaseHolds, DispatchHolds, StartHolds, StartedHolds DEF PumpStep
  <1>4. CASE Environment
    BY <1>0, <1>4, TurnHolds, EndHolds, VerifyHolds, ForgetHolds, RestartHolds,
       BootHolds
       DEF Environment
  <1>5. CASE \E p \in Procs : Process(p)
    BY <1>0, <1>5, ProcessHolds
  <1>6. CASE UNCHANGED vars
    BY <1>6, StutterHolds
  <1> QED
    BY <1>1, <1>2, <1>3, <1>4, <1>5, <1>6 DEF Next

LEMMA InitialOver == Init => SInv
  <1> SUFFICES ASSUME Init PROVE SInv
    OBVIOUS
  <1>1. /\ run = NoRun /\ run.status = "none" /\ run.delivery = "NOT_SENT"
        /\ job.status = "QUEUED" /\ job.delivery = "NOT_SENT" /\ wave = "none"
        /\ provider.state = "idle" /\ ~provider.sent /\ ~provider.owed
        /\ inbox = <<>> /\ lock = "free" /\ up = "up"
    BY DEF Init, NoRun, NewJob, NoTurn
  <1>2. \A p \in Procs : pc[p] = "idle" /\ back[p] = "idle" /\ stale[p] = {}
    BY DEF Init
  <1>3. ~Ended(run) /\ "QUEUED" \notin JobEnded /\ "boot" \in Procs /\ "user" \in Procs
        /\ "pump" \in Procs
    BY <1>1 DEF Ended, RunEnded, JobEnded, Procs
  <1>4. OverInv /\ NewInv /\ TurnInv
    BY <1>1, <1>2, <1>3 DEF OverInv, NewInv, TurnInv, Calling
  <1>5. EventInv /\ LifeInv
    BY <1>1, <1>2, <1>3 DEF EventInv, LifeInv
  <1>6. ASSUME NEW p \in Procs
        PROVE  ActInv(p)
    <2>1. "idle" \notin Preparing \cup Stops \cup Marks \cup Withdrawing \cup Over
                        \cup SeenUsed \cup Begun \cup Marking
      BY DEF Preparing, Stops, Marks, Withdrawing, Over, SeenUsed, Begun, Marking
    <2>2. p # "free"
      BY DEF Procs
    <2> QED
      BY <1>1, <1>2, <2>1, <2>2 DEF ActInv, HoldInv, StopInv, EndsInv
  <1> QED
    BY <1>4, <1>5, <1>6 DEF SInv

\* The invariant of the end: a job is closed only after its run, a stop only
\* stops what no hand-off replaced meanwhile, and whatever the coordinator read
\* of a run that had ended still holds when it closes the job and the wave.
THEOREM OverTheorem == Spec => []SInv
  <1>1. TypeOK /\ IInv /\ SInv /\ [Next]_vars => TypeOK' /\ IInv' /\ SInv'
    BY Inductive, InductiveOver
  <1>2. Init => TypeOK /\ IInv /\ SInv
    BY Initial, InitialOver
  <1> QED
    BY <1>1, <1>2, PTL DEF Spec

\* When reconcileWaveFromChildren, a stop or recovery settles a wave, its job
\* and its run are over and the provider does not work on its turn, however the
\* turn's end, the stop, a crash and the recovery interleaved.
THEOREM SettledTheorem == Spec => []SettledIsOver
  <1>1. ASSUME IInv, SInv, wave = "SETTLED"
        PROVE  job.status \in JobEnded /\ RunOver /\ provider.state # "working"
    <2>1. job.status \in JobEnded /\ RunOver
      BY <1>1 DEF SInv, OverInv
    <2>2. CASE run = NoRun
      BY <1>1, <2>1, <2>2 DEF IInv, StoreInv, RunInv, NoRun
    <2>3. CASE Ended(run)
      BY <1>1, <2>1, <2>3 DEF SInv, TurnInv
    <2> QED
      BY <2>1, <2>2, <2>3 DEF RunOver
  <1>2. IInv /\ SInv => SettledIsOver
    BY <1>1 DEF SettledIsOver, RunOver
  <1> QED
    BY InvariantTheorem, OverTheorem, <1>2, PTL

==============================================================================
