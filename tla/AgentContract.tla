---------------------------- MODULE AgentContract ----------------------------
(***************************************************************************)
(* What the loop of attempts relies on in an agent adapter                 *)
(* (AgentAdapter and AgentRunOutcome, src/agent/agent-adapter.ts), without *)
(* processes, pipes, timers or reports: an attempt changes the workspace   *)
(* and gives one outcome, which is final and shows all that was changed    *)
(* unless its code is a silent one; between two attempts nobody works.     *)
(*                                                                         *)
(* TaskRun takes an attempt of this kind in one step.                      *)
(***************************************************************************)
CONSTANTS
  Changeable,   \* what an agent can change in a workspace
  Codes,        \* failure codes of an outcome
  Silent,       \* those whose outcome reports no change
  Final,        \* those after which the task is not tried again
  Claimable,    \* those an outcome that claims success can have
  NeverRan,     \* those that say the agent was not started
  NoOutcome

VARIABLES
  phase,        \* "idle", "working", "answered" or "failed"
  workspace,    \* what differs from the start of the task
  start,        \* the same when the attempt began
  answer        \* the outcome of the last attempt

contractVars == <<phase, workspace, start, answer>>

ContractInit ==
  /\ phase = "idle"
  /\ workspace = {}
  /\ start = {}
  /\ answer = NoOutcome

Begin ==
  /\ \/ phase = "idle"
     \/ phase = "answered" /\ ~answer.claimed /\ answer.code \notin Final
  /\ phase' = "working"
  /\ start' = workspace
  /\ answer' = NoOutcome
  /\ UNCHANGED workspace

Work ==
  /\ phase = "working"
  /\ workspace' \in SUBSET Changeable
  /\ UNCHANGED <<phase, start, answer>>

Made == (workspace \ start) \cup (start \ workspace)

Conclude(code, claimed) ==
  /\ phase = "working"
  /\ claimed => code \in Claimable
  /\ code \in NeverRan => workspace = start
  /\ phase' = "answered"
  /\ answer' = [code |-> code, claimed |-> claimed,
                diff |-> IF code \in Silent THEN {} ELSE Made]
  /\ UNCHANGED <<workspace, start>>

\* run() throws: the loop ends without an outcome.
Fail ==
  /\ phase \in {"idle", "working"}
  /\ phase' = "failed"
  /\ UNCHANGED <<workspace, start, answer>>

ContractNext ==
  \/ Begin \/ Work \/ Fail
  \/ \E code \in Codes, claimed \in BOOLEAN : Conclude(code, claimed)

ContractSpec == ContractInit /\ [][ContractNext]_contractVars
==============================================================================
