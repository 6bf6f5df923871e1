----------------------------- MODULE OneShotTurn -----------------------------
(***************************************************************************)
(* What startTransientReadOnlyRuntimeTurn promises whoever calls it,       *)
(* without records, queues, processes or restarts: a prompt is given to    *)
(* the provider at most once and never after the caller was answered; the  *)
(* answer is final; an output is that of a turn that completed and left    *)
(* the repository as it was.  TransientTurn implements this module.        *)
(***************************************************************************)
CONSTANT Runs

VARIABLES
  prompt,  \* what became of the prompt of each run
  answer   \* what its caller was told

turnVars == <<prompt, answer>>

\* "clean": completed, the repository unchanged.  "spoiled": ended otherwise.
Prompts == {"unsent", "running", "clean", "spoiled"}
Answers == {"none", "output", "error"}

Init ==
  /\ prompt = [r \in Runs |-> "unsent"]
  /\ answer = [r \in Runs |-> "none"]

Send(r) ==
  /\ prompt[r] = "unsent" /\ answer[r] = "none"
  /\ prompt' = [prompt EXCEPT ![r] = "running"]
  /\ UNCHANGED answer

\* A turn ends by itself, or several end with the process that ran them.
End(ended) ==
  /\ \A r \in ended : prompt[r] = "running"
  /\ prompt' \in [Runs -> Prompts]
  /\ \A r \in Runs :
       IF r \in ended THEN prompt'[r] \in {"clean", "spoiled"}
                      ELSE prompt'[r] = prompt[r]
  /\ UNCHANGED answer

Answer(r) ==
  /\ answer[r] = "none"
  /\ \E told \in {"output", "error"} :
       /\ told = "output" => prompt[r] = "clean"
       /\ answer' = [answer EXCEPT ![r] = told]
  /\ UNCHANGED prompt

Next ==
  \/ \E r \in Runs : Send(r) \/ Answer(r)
  \/ \E ended \in SUBSET Runs : End(ended)

Spec == Init /\ [][Next]_turnVars

=============================================================================
