----------------------- MODULE OpenHandsAdapterProofs -----------------------
(***************************************************************************)
(* Proofs about OpenHandsAdapter, for every write allowlist, every limit   *)
(* of the output and every number of attempts.                             *)
(***************************************************************************)
EXTENDS OpenHandsAdapter, TLAPS

(***************************************************************************)
(* The invariant.  Settled: the promise is resolved only when nothing of   *)
(* the child is left, and with what the flags say.  NeverRan: a command    *)
(* that was not started has changed nothing.  Answered: the outcome can    *)
(* still be read off the state, since nothing moves after the promise is   *)
(* resolved.                                                               *)
(***************************************************************************)
Fresh ==
  /\ child = "none" => result = Absent /\ timer = "cleared" /\ ~held
  /\ child \in {"failed", "running", "exited"} => result = Absent
  /\ killed => timedOut \/ truncated

\* There is no process before the first attempt.
Started == attempt = 0 => child = "none" /\ pc \notin {"running", "answered"}

Settled ==
  /\ child \in {"errored", "closed"} => result # Absent
  /\ result # Absent => /\ ~held
                        /\ timer = "cleared"
                        /\ result.timedOut = (timedOut \/ truncated)

NeverRan ==
  /\ child \in {"failed", "errored"} => exit = "none" /\ files = before /\ ~held
  /\ child \in {"failed", "errored"} => ~killed
  /\ child = "exited" => exit # "none"
  /\ result # Absent /\ result.exit = "none" => exit = "none" /\ files = before

Answered == pc = "answered" => result # Absent /\ outcome = Outcome

AdapterInv == AdapterTypeOK /\ Started /\ Fresh /\ Settled /\ NeverRan /\ Answered

-------------------------------------------------------------------------------
\* What run() answers has the type of an AgentRunOutcome.
LEMMA OutcomeType ==
  ASSUME AdapterTypeOK, pc = "running", result # Absent, attempt # 0
  PROVE  Outcome \in Outcomes
<1>1. FailureCode \in FailureCodes
  BY DEF FailureCode, FailureCodes, AnswerCodes, SilentCodes, ExitCode
<1>2. Changes \in SUBSET Files
  BY DEF Changes, AdapterTypeOK
<1>3. ASSUME Report # Absent
      PROVE  Report.attempt \in 0 .. MaxAttempts
  <2>1. CASE resultFile # Absent
    BY <2>1, AdapterAssumption DEF Report, AdapterTypeOK, Reports
  <2>2. CASE resultFile = Absent
    BY <1>3, <2>2, AdapterAssumption DEF Report, LastLine, AdapterTypeOK
  <2> QED BY <2>1, <2>2
<1>4. 0 \in 0 .. MaxAttempts
  BY AdapterAssumption
<1> QED
  BY <1>1, <1>2, <1>3, <1>4 DEF Outcome, Outcomes

\* The outcome depends on nothing but what is read when the promise is resolved.
LEMMA OutcomeFrozen ==
  ASSUME UNCHANGED <<result, stdout, resultFile, files, before, attempt>>
  PROVE  Outcome' = Outcome
BY DEF Outcome, FailureCode, Reported, Report, LastLine, Changes

LEMMA InitInv == ASSUME AdapterInit PROVE AdapterInv
<1>1. AdapterTypeOK
  <2>0. <<>> \in Seq(Lines)
    OBVIOUS
  <2>1. RunnerTypeOK
    BY <2>0 DEF AdapterInit, RunnerInit, RunnerTypeOK, Exits
  <2> QED
    BY <2>1, AdapterAssumption DEF AdapterInit, AdapterTypeOK
<1>2. result = Absent
  BY DEF AdapterInit, RunnerInit
<1> QED
  BY <1>1, <1>2 DEF AdapterInit, RunnerInit, AdapterInv, Started, Fresh, Settled, NeverRan, Answered

-------------------------------------------------------------------------------
(***************************************************************************)
(* The callbacks of the runner.                                            *)
(***************************************************************************)
LEMMA FinishType ==
  ASSUME RunnerTypeOK, NEW e \in Exits, Finish(e)
  PROVE  /\ timer' \in {"armed", "fired", "cleared"}
         /\ result' \in Results \cup {Absent}
         /\ result' # Absent
BY ResultAssumption DEF RunnerTypeOK, Finish, Results

LEMMA RunnerTypeKept ==
  ASSUME RunnerTypeOK, RunnerStep
  PROVE  RunnerTypeOK'
<1> USE DEF RunnerTypeOK
<1>1. CASE ErrorEvent
  BY <1>1, FinishType DEF ErrorEvent, Exits
<1>2. CASE Timeout
  BY <1>2 DEF Timeout
<1>3. CASE StdoutData
  BY <1>3 DEF StdoutData
<1>4. CASE StderrOverflow
  BY <1>4 DEF StderrOverflow
<1>5. CASE ChildExits
  BY <1>5 DEF ChildExits
<1>6. CASE DescendantEnds
  BY <1>6 DEF DescendantEnds
<1>7. CASE Close
  BY <1>7, FinishType DEF Close, Exits
<1> QED
  BY <1>1, <1>2, <1>3, <1>4, <1>5, <1>6, <1>7 DEF RunnerStep

LEMMA RunnerKeepsInv ==
  ASSUME AdapterInv, RunnerSteps
  PROVE  AdapterInv'
<1> SUFFICES ASSUME RunnerStep, UNCHANGED adapterVars
             PROVE  AdapterInv'
  BY DEF RunnerSteps
<1> USE DEF AdapterInv
<1>1. AdapterTypeOK'
  BY RunnerTypeKept DEF AdapterTypeOK, adapterVars
<1>2. Fresh'
  <2>1. CASE ErrorEvent \/ Close
    BY <2>1 DEF ErrorEvent, Close, Finish, Fresh
  <2>2. CASE StdoutData
    <3>1. killed' => killed \/ truncated'
      BY <2>2 DEF StdoutData
    <3>2. truncated => truncated'
      BY <2>2 DEF StdoutData
    <3> QED
      BY <2>2, <3>1, <3>2 DEF StdoutData, Fresh
  <2>3. CASE ChildExits \/ DescendantEnds \/ Timeout \/ StderrOverflow
    BY <2>3 DEF Timeout, StderrOverflow, ChildExits, DescendantEnds, Fresh
  <2> QED BY <2>1, <2>2, <2>3 DEF RunnerStep
<1>3. Settled'
  <2>1. CASE ErrorEvent
    BY <2>1, FinishType DEF ErrorEvent, Finish, Fresh, Settled, NeverRan, AdapterTypeOK, Exits
  <2>2. CASE Close
    BY <2>2, FinishType DEF Close, Finish, Fresh, Settled, NeverRan, AdapterTypeOK, RunnerTypeOK, Exits
  <2>3. CASE ~ (ErrorEvent \/ Close)
    BY <2>3 DEF RunnerStep, Timeout, StdoutData, StderrOverflow, ChildExits, DescendantEnds, Fresh, Settled
  <2> QED BY <2>1, <2>2, <2>3
<1>4. NeverRan'
  <2>1. CASE ErrorEvent
    BY <2>1 DEF ErrorEvent, Finish, Fresh, NeverRan, adapterVars
  <2>2. CASE Close
    BY <2>2 DEF Close, Finish, Fresh, Settled, NeverRan, adapterVars
  <2>3. CASE ~ (ErrorEvent \/ Close)
    BY <2>3 DEF RunnerStep, Timeout, StdoutData, StderrOverflow, ChildExits, DescendantEnds,
       Fresh, Settled, NeverRan, adapterVars
  <2> QED BY <2>1, <2>2, <2>3
<1>5. Answered'
  <2> SUFFICES ASSUME pc = "answered"
               PROVE  result' # Absent /\ outcome' = Outcome'
    BY DEF Answered, adapterVars
  <2>1. result # Absent /\ outcome = Outcome
    BY DEF Answered
  <2>2. UNCHANGED <<result, stdout>>
    BY <2>1 DEF RunnerStep, ErrorEvent, Timeout, StdoutData, StderrOverflow, ChildExits,
       DescendantEnds, Close, Finish, Fresh
  <2> QED
    BY <2>1, <2>2, OutcomeFrozen DEF adapterVars
<1>6. Started'
  BY DEF RunnerStep, ErrorEvent, Timeout, StdoutData, StderrOverflow, ChildExits,
     DescendantEnds, Close, Started, adapterVars
<1> QED
  BY <1>1, <1>2, <1>3, <1>4, <1>5, <1>6

-------------------------------------------------------------------------------
(***************************************************************************)
(* The steps of the adapter and of the agent.                              *)
(***************************************************************************)
LEMMA AgentKeepsInv ==
  ASSUME AdapterInv, AgentEdits \/ AgentReports
  PROVE  AdapterInv'
<1> USE DEF AdapterInv
<1>1. AgentAlive /\ UNCHANGED <<runnerVars, pc, attempt, before, outcome>>
  BY DEF AgentEdits, AgentReports
<1>2. result = Absent /\ child \notin {"failed", "errored"}
  BY <1>1 DEF AgentAlive, Fresh, Settled, NeverRan
<1>3. AdapterTypeOK'
  <2>1. RunnerTypeOK'
    BY <1>1 DEF AdapterTypeOK, RunnerTypeOK, runnerVars
  <2>2. CASE AgentEdits
    BY <2>1, <2>2 DEF AgentEdits, AdapterTypeOK
  <2>3. CASE AgentReports
    <3>1. attempt # 0
      BY <1>1, <1>2 DEF AgentAlive, Started, Fresh
    <3>2. attempt \in 1 .. MaxAttempts
      BY <3>1, AdapterAssumption DEF AdapterTypeOK
    <3> QED
      BY <2>1, <2>3, <3>2 DEF AgentReports, AdapterTypeOK, Reports
  <2> QED BY <2>2, <2>3
<1> QED
  BY <1>1, <1>2, <1>3 DEF runnerVars, Started, Fresh, Settled, NeverRan, Answered

LEMMA AdapterKeepsInv ==
  ASSUME AdapterInv, BeginAttempt \/ RefuseCommand \/ Answer \/ Throw
  PROVE  AdapterInv'
<1> USE DEF AdapterInv
<1>1. CASE BeginAttempt
  <2>1. RunnerTypeOK'
    <3>1. <<>> \in Seq(Lines)
      OBVIOUS
    <3> QED
      BY <1>1, <3>1 DEF BeginAttempt, Spawn, RunnerTypeOK, Exits
  <2>2. attempt' \in 0 .. MaxAttempts /\ attempt' # 0
    BY <1>1, AdapterAssumption DEF BeginAttempt, AdapterTypeOK
  <2>3. AdapterTypeOK'
    BY <1>1, <2>1, <2>2 DEF BeginAttempt, AdapterTypeOK
  <2> QED
    BY <1>1, <2>2, <2>3 DEF BeginAttempt, Spawn, Started, Fresh, Settled, NeverRan, Answered
<1>2. CASE RefuseCommand \/ Throw
  <2>1. RunnerTypeOK'
    BY <1>2 DEF RefuseCommand, Throw, AdapterTypeOK, RunnerTypeOK, runnerVars
  <2>2. AdapterTypeOK'
    BY <1>2, <2>1 DEF RefuseCommand, Throw, AdapterTypeOK
  <2> QED
    BY <1>2, <2>2 DEF RefuseCommand, Throw, runnerVars, Started, Fresh, Settled, NeverRan, Answered
<1>3. CASE Answer
  <2>1. RunnerTypeOK'
    BY <1>3 DEF Answer, AdapterTypeOK, RunnerTypeOK, runnerVars
  <2>2. Outcome \in Outcomes
    BY <1>3, OutcomeType DEF Answer, Started
  <2>3. AdapterTypeOK'
    BY <1>3, <2>1, <2>2 DEF Answer, AdapterTypeOK
  <2>4. Outcome' = Outcome
    BY <1>3, OutcomeFrozen DEF Answer, runnerVars
  <2> QED
    BY <1>3, <2>3, <2>4 DEF Answer, runnerVars, Started, Fresh, Settled, NeverRan, Answered
<1> QED
  BY <1>1, <1>2, <1>3

LEMMA StepInv ==
  ASSUME AdapterInv, [AdapterNext]_vars
  PROVE  AdapterInv'
<1>1. CASE AdapterNext
  BY <1>1, RunnerKeepsInv, AgentKeepsInv, AdapterKeepsInv DEF AdapterNext
<1>2. CASE UNCHANGED vars
  <2>1. RunnerTypeOK'
    BY <1>2 DEF AdapterInv, AdapterTypeOK, RunnerTypeOK, vars, runnerVars
  <2>2. Outcome' = Outcome
    BY <1>2, OutcomeFrozen DEF vars, runnerVars, adapterVars
  <2> QED
    BY <1>2, <2>1, <2>2 DEF vars, runnerVars, adapterVars, AdapterInv, AdapterTypeOK,
       Started, Fresh, Settled, NeverRan, Answered
<1> QED BY <1>1, <1>2

LEMMA AlwaysInv == AdapterSpec => []AdapterInv
BY InitInv, StepInv, PTL DEF AdapterSpec

-------------------------------------------------------------------------------
(***************************************************************************)
(* Types of the runner and of the adapter.                                 *)
(***************************************************************************)
THEOREM AdapterTypes == AdapterSpec => []AdapterTypeOK
<1>1. AdapterInv => AdapterTypeOK
  BY DEF AdapterInv
<1> QED BY <1>1, AlwaysInv, PTL

(***************************************************************************)
(* An attempt whose child was killed is a timeout, also when the child     *)
(* ended by itself before the signal came (src/agent/process-runner.ts).   *)
(***************************************************************************)
THEOREM KilledTimesOut == AdapterSpec => []KilledIsTimeout
<1>1. ASSUME AdapterInv, pc = "answered", killed
      PROVE  outcome.code = "AGENT_TIMEOUT"
  <2>1. result # Absent /\ outcome = Outcome
    BY <1>1 DEF AdapterInv, Answered
  <2>2. timedOut \/ truncated
    BY <1>1 DEF AdapterInv, Fresh
  <2>3. result.timedOut
    BY <1>1, <2>1, <2>2 DEF AdapterInv, Settled
  <2> QED
    BY <2>1, <2>3 DEF Outcome, FailureCode
<1>2. AdapterInv => KilledIsTimeout
  BY <1>1 DEF KilledIsTimeout
<1> QED BY <1>2, AlwaysInv, PTL

(***************************************************************************)
(* The changes of an answer are those the workspace shows.                 *)
(***************************************************************************)
THEOREM AnswersComplete == AdapterSpec => []AnswerIsComplete
<1>1. AdapterInv => AnswerIsComplete
  BY DEF AdapterInv, AnswerIsComplete, Answered, Outcome
<1> QED BY <1>1, AlwaysInv, PTL

(***************************************************************************)
(* An agent reported as not available has not run.                         *)
(***************************************************************************)
THEOREM NotAvailableSound == AdapterSpec => []NotAvailableNeverRan
<1>1. ASSUME AdapterInv, pc = "answered", outcome.code = "OPENHANDS_NOT_AVAILABLE"
      PROVE  files = before /\ exit = "none"
  <2>1. result # Absent /\ FailureCode = "OPENHANDS_NOT_AVAILABLE"
    BY <1>1 DEF AdapterInv, Answered, Outcome
  <2>2. result.exit = "none"
    BY <2>1 DEF FailureCode, ExitCode
  <2> QED
    BY <1>1, <2>1, <2>2 DEF AdapterInv, NeverRan
<1>2. AdapterInv => NotAvailableNeverRan
  BY <1>1 DEF NotAvailableNeverRan
<1> QED BY <1>2, AlwaysInv, PTL

(***************************************************************************)
(* The promise of a call is resolved once.                                 *)
(***************************************************************************)
THEOREM ResolvedOnce == AdapterSpec => ResultOnce
<1>1. ASSUME AdapterInv, [AdapterNext]_vars, result # Absent
      PROVE  result' = result \/ attempt' = attempt + 1
  <2>1. CASE RunnerSteps
    BY <1>1, <2>1 DEF RunnerSteps, RunnerStep, ErrorEvent, Timeout, StdoutData, StderrOverflow,
       ChildExits, DescendantEnds, Close, Finish
  <2>2. CASE AgentEdits \/ AgentReports \/ RefuseCommand \/ Answer \/ Throw
    BY <2>2 DEF AgentEdits, AgentReports, RefuseCommand, Answer, Throw, runnerVars
  <2>3. CASE BeginAttempt
    BY <2>3 DEF BeginAttempt
  <2>4. CASE UNCHANGED vars
    BY <2>4 DEF vars, runnerVars
  <2> QED
    BY <1>1, <2>1, <2>2, <2>3, <2>4 DEF AdapterNext
<1> QED
  BY <1>1, AlwaysInv, PTL DEF AdapterSpec, ResultOnce

-------------------------------------------------------------------------------
(***************************************************************************)
(* The adapter implements the contract.  Beyond the invariant this needs   *)
(* that the agent, and what it left running, lives within its attempt, and *)
(* that an attempt that was answered has an outcome.                       *)
(***************************************************************************)
Within ==
  /\ AgentAlive => pc = "running"
  /\ pc = "answered" => outcome # Absent
  /\ pc \in {"idle", "running"} => outcome = Absent

LEMMA InitWithin == ASSUME AdapterInit PROVE Within
BY DEF AdapterInit, RunnerInit, Within, AgentAlive

LEMMA StepWithin ==
  ASSUME AdapterInv, Within, [AdapterNext]_vars
  PROVE  Within'
<1> USE DEF Within, AgentAlive
<1>1. CASE BeginAttempt
  BY <1>1 DEF BeginAttempt
<1>2. CASE RefuseCommand
  BY <1>2 DEF RefuseCommand, runnerVars
<1>3. CASE AgentEdits \/ AgentReports
  BY <1>3 DEF AgentEdits, AgentReports, runnerVars
<1>4. CASE RunnerSteps
  <2>1. AgentAlive' => AgentAlive
    BY <1>4 DEF RunnerSteps, RunnerStep, ErrorEvent, Timeout, StdoutData, StderrOverflow,
       ChildExits, DescendantEnds, Close
  <2> QED
    BY <1>4, <2>1 DEF RunnerSteps, adapterVars
<1>5. CASE Answer
  <2>1. ~AgentAlive
    BY <1>5 DEF Answer, AdapterInv, Fresh, Settled
  <2>2. Outcome \in Outcomes
    BY <1>5, OutcomeType DEF Answer, AdapterInv, Started
  <2>3. outcome' # Absent
    BY <1>5, <2>2, OutcomeAssumption DEF Answer
  <2> QED
    BY <1>5, <2>1, <2>3 DEF Answer, runnerVars
<1>6. CASE Throw
  <2>1. ~AgentAlive
    BY <1>6 DEF Throw, AdapterInv, Fresh, Settled
  <2> QED
    BY <1>6, <2>1 DEF Throw, runnerVars
<1>7. CASE UNCHANGED vars
  BY <1>7 DEF vars, runnerVars, adapterVars
<1> QED
  BY <1>1, <1>2, <1>3, <1>4, <1>5, <1>6, <1>7 DEF AdapterNext

\* One step of the adapter is one of the contract, or none.
LEMMA StepContract ==
  ASSUME AdapterInv, Within, [AdapterNext]_vars
  PROVE  [Contract!ContractNext]_(Contract!contractVars)
<1> USE DEF Contract!contractVars
<1>1. CASE BeginAttempt
  <2>1. Contract!Begin
    BY <1>1 DEF BeginAttempt, Recoverable, Contract!Begin, Within
  <2> QED BY <2>1 DEF Contract!ContractNext
<1>2. CASE RefuseCommand
  <2>1. Contract!Fail
    BY <1>2 DEF RefuseCommand, Contract!Fail
  <2> QED BY <2>1 DEF Contract!ContractNext
<1>3. CASE AgentEdits
  <2>1. pc = "running"
    BY <1>3 DEF AgentEdits, Within
  <2>2. Contract!Work
    BY <1>3, <2>1 DEF AgentEdits, Contract!Work
  <2> QED BY <2>2 DEF Contract!ContractNext
<1>4. CASE AgentReports \/ RunnerSteps \/ UNCHANGED vars
  BY <1>4 DEF AgentReports, RunnerSteps, vars, adapterVars
<1>5. CASE Answer
  <2>1. Outcome \in Outcomes
    BY <1>5, OutcomeType DEF Answer, AdapterInv, Started
  <2>2. outcome' # Absent /\ outcome' = Outcome
    BY <1>5, <2>1, OutcomeAssumption DEF Answer
  <2> DEFINE code == Outcome.code
             claimed == Outcome.claimed
  <2>3. code \in FailureCodes /\ claimed \in BOOLEAN
    BY <2>1 DEF Outcomes
  <2>4. claimed => code \in AnswerCodes
    BY DEF Outcome
  <2>5. Outcome.diff = IF code \in SilentCodes THEN {} ELSE Changes
    BY DEF Outcome
  <2>6. code \in {"OPENHANDS_NOT_AVAILABLE"} => files = before
    <3>1. code = FailureCode
      BY DEF Outcome
    <3>2. code = "OPENHANDS_NOT_AVAILABLE" => result.exit = "none"
      BY <3>1 DEF FailureCode, ExitCode
    <3> QED
      BY <1>5, <3>2 DEF Answer, AdapterInv, NeverRan
  <2> HIDE DEF code, claimed
  <2>7. Contract!Conclude(code, claimed)
    BY <1>5, <2>2, <2>4, <2>5, <2>6
       DEF Answer, Contract!Conclude, Contract!Made, Changes, code, claimed
  <2> QED BY <2>3, <2>7 DEF Contract!ContractNext
<1>6. CASE Throw
  <2>1. Contract!Fail
    BY <1>6 DEF Throw, Contract!Fail
  <2> QED BY <2>1 DEF Contract!ContractNext
<1> QED
  BY <1>1, <1>2, <1>3, <1>4, <1>5, <1>6 DEF AdapterNext

(***************************************************************************)
(* Every behaviour of the adapter over the process runner is one of the    *)
(* contract (src/agent/openhands-adapter.ts, src/agent/agent-adapter.ts).  *)
(***************************************************************************)
THEOREM AdapterImplementsContract == AdapterSpec => ImplementsContract
<1>1. AdapterInit => Contract!ContractInit
  BY DEF AdapterInit, Contract!ContractInit
<1> QED
  BY <1>1, AlwaysInv, InitWithin, StepWithin, StepContract, PTL
     DEF AdapterSpec, ImplementsContract, Contract!ContractSpec
==============================================================================
