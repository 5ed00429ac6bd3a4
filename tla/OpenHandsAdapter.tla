-------------------------- MODULE OpenHandsAdapter --------------------------
(***************************************************************************)
(* OpenHandsAgentAdapter.run, once per attempt of a task, over the process *)
(* runner (src/agent/openhands-adapter.ts, result-parser.ts,               *)
(* change-capture.ts).                                                     *)
(*                                                                         *)
(* The workspace is the set of files that differ from the start of the     *)
(* task.  agent-result.json stands apart from them: it is a control file.  *)
(* A report carries the attempt whose agent wrote it, which the code       *)
(* cannot see.                                                             *)
(***************************************************************************)
EXTENDS ProcessRunner

CONSTANTS
  Files,          \* files of the workspace an agent may change
  Allowed,        \* those on the write allowlist
  MaxAttempts     \* bound on the attempts of a task

ASSUME AdapterAssumption ==
  /\ Allowed \subseteq Files
  /\ MaxAttempts \in Nat

VARIABLES
  pc,
  attempt,
  files,          \* what the agents have changed so far
  before,         \* snapshotWorkspace before the command
  resultFile,     \* agent-result.json
  outcome         \* AgentRunOutcome of the last attempt

adapterVars == <<pc, attempt, files, before, resultFile, outcome>>
vars == <<runnerVars, adapterVars>>

-------------------------------------------------------------------------------
(***************************************************************************)
(* Reports, in the result file or on a line of the output: a claim, a      *)
(* claim that names a path outside the workspace, a report with a verdict  *)
(* in it, and one that does not fit the schema or is no JSON.  A file that *)
(* cannot be read at all makes run() throw.                                *)
(***************************************************************************)
ParsedForms == {"success", "failure", "unsafePath"}
RefusedForms == {"verdict", "malformed"}
Forms == ParsedForms \cup RefusedForms \cup {"unreadable"}
Reports == [form : Forms, attempt : 1 .. MaxAttempts]

\* tryParseOpenHandsJsonl: the last line of the output with a report that can be
\* parsed.  Errors of the parser only move the search to the line before.
LastLine(lines) ==
  LET parsed == {i \in DOMAIN lines : lines[i] \in ParsedForms} IN
  IF parsed = {} THEN Absent
  ELSE LET last == CHOOSE i \in parsed : \A j \in parsed : j <= i
       IN [form |-> lines[last], attempt |-> attempt]

Report == IF resultFile # Absent THEN resultFile ELSE LastLine(Retained(stdout))

\* diffSnapshots
Changes == (files \ before) \cup (before \ files)

-------------------------------------------------------------------------------
(***************************************************************************)
(* What run() answers.                                                     *)
(***************************************************************************)
AnswerCodes == {"OPENHANDS_EXIT_0", "OPENHANDS_EXIT_NONZERO"}
SilentCodes == {"AGENT_TIMEOUT", "OPENHANDS_NOT_AVAILABLE", "MALFORMED_OUTPUT",
                "FORBIDDEN_PIPELINE_VERDICT"}
FailureCodes == AnswerCodes \cup SilentCodes \cup {"PATH_ESCAPE"}

Recoverable(code) == code \notin {"OPENHANDS_NOT_AVAILABLE", "PATH_ESCAPE"}

ExitCode(e) == IF e = "zero" THEN "OPENHANDS_EXIT_0" ELSE "OPENHANDS_EXIT_NONZERO"

Reported(form) == Report # Absent /\ Report.form = form

\* The early returns, in their order.
FailureCode ==
  IF result.timedOut THEN "AGENT_TIMEOUT"
  ELSE IF result.exit = "none" THEN "OPENHANDS_NOT_AVAILABLE"
  ELSE IF Reported("malformed") THEN "MALFORMED_OUTPUT"
  ELSE IF Reported("verdict") THEN "FORBIDDEN_PIPELINE_VERDICT"
  ELSE IF ~ Changes \subseteq Allowed \/ Reported("unsafePath") THEN "PATH_ESCAPE"
  ELSE ExitCode(result.exit)

Outcomes == [code : FailureCodes, claimed : BOOLEAN, diff : SUBSET Files,
             reportOf : 0 .. MaxAttempts]

ASSUME OutcomeAssumption == \A o \in Outcomes : o # Absent

\* Mutant: the claim of the report outlives an early return.
OutcomeClaimKept ==
  LET code == FailureCode
      read == code \notin {"AGENT_TIMEOUT", "OPENHANDS_NOT_AVAILABLE"} /\ Report # Absent
  IN [code |-> code,
      claimed |-> IF read THEN Report.form = "success" ELSE code = "OPENHANDS_EXIT_0",
      diff |-> IF code \in SilentCodes THEN {} ELSE Changes,
      reportOf |-> IF read THEN Report.attempt ELSE 0]

\* The claim is that of the report, whatever the exit code says; without a
\* report the exit code is the claim and reportOf is 0.
Outcome ==
  LET code == FailureCode
      read == code \notin {"AGENT_TIMEOUT", "OPENHANDS_NOT_AVAILABLE"} /\ Report # Absent
  IN [code |-> code,
      claimed |-> /\ code \in AnswerCodes
                  /\ IF read THEN Report.form = "success" ELSE result.exit = "zero",
      diff |-> IF code \in SilentCodes THEN {} ELSE Changes,
      reportOf |-> IF read THEN Report.attempt ELSE 0]

-------------------------------------------------------------------------------
AdapterTypeOK ==
  /\ RunnerTypeOK
  /\ pc \in {"idle", "running", "answered", "threw"}
  /\ attempt \in 0 .. MaxAttempts
  /\ files \in SUBSET Files
  /\ before \in SUBSET Files
  /\ resultFile \in Reports \cup {Absent}
  /\ outcome \in Outcomes \cup {Absent}

AdapterInit ==
  /\ RunnerInit
  /\ pc = "idle"
  /\ attempt = 0
  /\ files = {}
  /\ before = {}
  /\ resultFile = Absent
  /\ outcome = Absent

\* The request is written, the workspace captured, the command started.  The
\* result file of an earlier attempt stays where it is.
BeginAttempt ==
  /\ \/ pc = "idle"
     \/ pc = "answered" /\ ~outcome.claimed /\ Recoverable(outcome.code)
  /\ attempt < MaxAttempts
  /\ attempt' = attempt + 1
  /\ before' = files
  /\ Spawn
  /\ outcome' = Absent
  /\ pc' = "running"
  /\ UNCHANGED <<files, resultFile>>

\* GuardingProcessRunner does not start a command that is not approved.
RefuseCommand ==
  /\ pc = "idle"
  /\ pc' = "threw"
  /\ UNCHANGED <<runnerVars, attempt, files, before, resultFile, outcome>>

\* The agent, or what it left running, works on the workspace.
AgentAlive == child = "running" \/ held

AgentEdits ==
  /\ AgentAlive
  /\ files' \in SUBSET Files
  /\ UNCHANGED <<runnerVars, pc, attempt, before, resultFile, outcome>>

AgentReports ==
  /\ AgentAlive
  /\ \E form \in Forms : resultFile' = [form |-> form, attempt |-> attempt]
  /\ UNCHANGED <<runnerVars, pc, attempt, files, before, outcome>>

\* run() goes on when the promise of the runner is resolved.
CannotRead ==
  /\ ~result.timedOut
  /\ result.exit # "none"
  /\ resultFile # Absent /\ resultFile.form = "unreadable"

Answer ==
  /\ pc = "running"
  /\ result # Absent
  /\ ~CannotRead
  /\ outcome' = Outcome
  /\ pc' = "answered"
  /\ UNCHANGED <<runnerVars, attempt, files, before, resultFile>>

Throw ==
  /\ pc = "running"
  /\ result # Absent
  /\ CannotRead
  /\ pc' = "threw"
  /\ UNCHANGED <<runnerVars, attempt, files, before, resultFile, outcome>>

RunnerSteps == RunnerStep /\ UNCHANGED adapterVars

AdapterNext ==
  \/ BeginAttempt \/ RefuseCommand
  \/ AgentEdits \/ AgentReports
  \/ RunnerSteps
  \/ Answer \/ Throw

AdapterSpec == AdapterInit /\ [][AdapterNext]_vars

\* Timers fire, a killed process ends, its events are delivered, and run() goes
\* on.  Nothing makes a child end by itself, or a descendant of it.
FairAdapterSpec ==
  /\ AdapterSpec
  /\ WF_vars(Timeout /\ UNCHANGED adapterVars)
  /\ WF_vars(killed /\ ChildExits /\ UNCHANGED adapterVars)
  /\ WF_vars(ErrorEvent /\ UNCHANGED adapterVars)
  /\ WF_vars(Close /\ UNCHANGED adapterVars)
  /\ WF_vars(Answer \/ Throw)

-------------------------------------------------------------------------------
(***************************************************************************)
(* Properties                                                              *)
(***************************************************************************)

(***************************************************************************)
(* The promise of the runner is resolved once: whatever of error, close    *)
(* and timer comes after, the result an attempt goes on with is the one it *)
(* has.  Only the next attempt has another.                                *)
(***************************************************************************)
ResultOnce ==
  [][result # Absent => result' = result \/ attempt' = attempt + 1]_vars

(***************************************************************************)
(* An attempt whose child was killed, for its time or for its output, is   *)
(* never taken for a success, nor for an agent that could not be started,  *)
(* which would end the task: the loop may try again.                       *)
(***************************************************************************)
KilledIsTimeout ==
  pc = "answered" /\ killed => outcome.code = "AGENT_TIMEOUT"

(***************************************************************************)
(* What an answer with changes says is what the workspace still shows: the *)
(* captures before and after the attempt leave out nothing, because no     *)
(* process of the attempt writes when the second is taken, and nothing     *)
(* does until the next attempt begins.                                     *)
(***************************************************************************)
AnswerIsComplete ==
  pc = "answered" /\ outcome.code \notin SilentCodes => outcome.diff = Changes

(***************************************************************************)
(* Only an agent that never ran is reported as not available, and the      *)
(* workspace is as it was.                                                 *)
(***************************************************************************)
NotAvailableNeverRan ==
  pc = "answered" /\ outcome.code = "OPENHANDS_NOT_AVAILABLE"
    => files = before /\ exit = "none"

(***************************************************************************)
(* An attempt that never ends is held up by a descendant that keeps the    *)
(* pipes of the child open for ever; timer and kill take care of           *)
(* everything else (src/agent/process-runner.ts).                          *)
(***************************************************************************)
EndsUnlessHeld == <>[](pc = "running") => <>[]held

(***************************************************************************)
(* The adapter keeps the contract of the loop: whatever order exit, close, *)
(* error, timer, output and the agent's own writes come in, an attempt has *)
(* one outcome, it stands until the next attempt, it shows every change or *)
(* has a code that says it shows none, a claim comes only with an exit     *)
(* code of the agent, and nobody touches the workspace between attempts    *)
(* (src/agent/openhands-adapter.ts over src/agent/process-runner.ts).      *)
(***************************************************************************)
Contract == INSTANCE AgentContract WITH
  Changeable <- Files,
  Codes      <- FailureCodes,
  Silent     <- SilentCodes,
  Final      <- {"OPENHANDS_NOT_AVAILABLE", "PATH_ESCAPE"},
  Claimable  <- AnswerCodes,
  NeverRan   <- {"OPENHANDS_NOT_AVAILABLE"},
  NoOutcome  <- Absent,
  phase      <- CASE pc = "running" -> "working"
                  [] pc = "threw"   -> "failed"
                  [] OTHER          -> pc,
  workspace  <- files,
  start      <- before,
  answer     <- IF outcome = Absent THEN Absent
                ELSE [code |-> outcome.code, claimed |-> outcome.claimed,
                      diff |-> outcome.diff]

ImplementsContract == Contract!ContractSpec

(***************************************************************************)
(* src/agent/agent-request.ts: "Commands the adapter/agent recorded for    *)
(* this attempt."  The report an outcome is made from was written in the   *)
(* attempt it is the outcome of.                                           *)
(***************************************************************************)
ReportOfAttempt ==
  pc = "answered" /\ outcome.reportOf # 0 => outcome.reportOf = attempt
==============================================================================
