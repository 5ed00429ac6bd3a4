----------------------------- MODULE VerdictGate -----------------------------
(***************************************************************************)
(* What a task promises about its verdict, without checkpoints, retries or *)
(* files: the work is judged once (PipelineController), the workspace is   *)
(* kept or discarded as the verdict says (applyRollbackPolicy), and what   *)
(* is published afterwards (TaskRunner) is that verdict or a stricter one, *)
(* never a better.                                                         *)
(***************************************************************************)
CONSTANTS Verdicts, Successes, Unjudged

VARIABLES
  phase,      \* "open", "judged", "closed" or "abandoned"
  verdict,    \* the verdict on the work
  kept,       \* "undecided", "kept" or "discarded"
  published   \* the verdict the caller gets

gateVars == <<phase, verdict, kept, published>>

GateInit ==
  /\ phase = "open"
  /\ verdict = Unjudged
  /\ kept = "undecided"
  /\ published = Unjudged

Judgement ==
  /\ phase = "open"
  /\ phase' = "judged"
  /\ verdict' \in Verdicts
  /\ UNCHANGED <<kept, published>>

Settlement ==
  /\ phase = "judged"
  /\ kept = "undecided"
  /\ kept' = IF verdict \in Successes THEN "kept" ELSE "discarded"
  /\ UNCHANGED <<phase, verdict, published>>

Publication ==
  /\ phase = "judged"
  /\ kept # "undecided"
  /\ phase' = "closed"
  /\ published' \in {verdict, "BLOCK"}
  /\ UNCHANGED <<verdict, kept>>

Abandon ==
  /\ phase \in {"open", "judged"}
  /\ phase' = "abandoned"
  /\ UNCHANGED <<verdict, kept, published>>

GateNext == Judgement \/ Settlement \/ Publication \/ Abandon

GateSpec == GateInit /\ [][GateNext]_gateVars

(***************************************************************************)
(* What a caller may conclude from the gate alone: a success it is given   *)
(* was judged, and the work it stands for has been kept; and work that was *)
(* kept had been judged a success, whatever is published about it.         *)
(***************************************************************************)
GateKept ==
  /\ published \in Successes => published = verdict /\ kept = "kept"
  /\ kept = "kept" => verdict \in Successes

\* With what makes it inductive: how far each phase has come.
GateFlow ==
  /\ phase = "open" => kept = "undecided"
  /\ phase \in {"open", "judged"} => published = Unjudged
  /\ kept # "undecided" => kept = IF verdict \in Successes THEN "kept" ELSE "discarded"

GateInv == GateKept /\ GateFlow
==============================================================================
