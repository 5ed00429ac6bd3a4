---------------------------- MODULE TaskRunProofs ----------------------------
(***************************************************************************)
(* Theorems about TaskRun, for every set of failures, every budget and     *)
(* every workspace.                                                        *)
(*                                                                         *)
(* The argument: Flow ties the place in the sequence to the step of the    *)
(* rollback and says which results exist there; Judged says that a success *)
(* is the validator's, on the workspace as it still is, from the moment    *)
(* the controller has a status; Recorded says what the files hold at each  *)
(* place.  With them every action is seen to be one step of the gate, or   *)
(* none.                                                                   *)
(***************************************************************************)
EXTENDS TaskRun, RetryPolicyProofs, WorkspaceRollbackProofs

RunTypeOK ==
  /\ RollbackTypeOK
  /\ pc \in Places
  /\ lastDiff \in {"nothing", "agent", Absent}
  /\ authRequired \in BOOLEAN
  /\ clientDecision \in BOOLEAN
  /\ hardStop \in {"none", "BLOCK", "CIRCUIT_BREAK"}
  /\ validatorStatus \in SuccessStatuses \cup {"BLOCK", Absent}
  /\ judged \in (SUBSET Items) \cup {Absent}
  /\ runStatus \in Statuses \cup {Absent}
  /\ statusFile \in Statuses \cup {Absent}
  /\ resultFile \in Statuses \cup {Absent}
  /\ report \in Statuses \cup {Absent}

Working == {"agent", "tests", "provisional", "validate"}
Closing == {"result", "rediff", "status", "cleanup", "report"}

Flow ==
  /\ pc = "checkpoint" => step \in {"new", "copying", "committing"}
  /\ pc \in Working \cup {"record"} => step = "ready"
  /\ pc = "settle" => step \in RollingBack \cup {"ready", "settled"}
  /\ pc \in {"extended", "done"} \cup Closing => step = "settled"
  /\ step \in RollingBack => pc = "settle"
  /\ step \notin {"new", "dead"} => fsCheckpoint # Absent
  /\ step = "settled" <=> outcome # Absent
  /\ pc \in Working \cup {"checkpoint"} => status = Absent
  /\ pc \in {"record", "settle", "extended", "done"} \cup Closing => status \in Statuses
  /\ status = Absent => outcome = Absent /\ runStatus = Absent
  /\ pc \in Working \cup {"checkpoint", "record", "settle", "extended"} => runStatus = Absent
  /\ pc \in {"done"} \cup Closing => runStatus \in Statuses
  /\ runStatus \in {Absent, status, "BLOCK"}

Judged ==
  /\ Success(status) =>
       /\ validatorStatus = status
       /\ ~authRequired /\ ~clientDecision /\ hardStop = "none"
       /\ pc \in {"report", "done", "crashed"} \/ workspace = judged
  /\ step \in RollingBack => ~Success(status)

Recorded ==
  /\ Success(statusFile) => statusFile = status
  /\ resultFile \in {Absent, runStatus}
  /\ report \in {Absent, runStatus}
  /\ pc \in {"settle", "extended", "result", "rediff", "status"} => statusFile = status
  /\ pc \in {"rediff", "status", "cleanup", "report", "done"} => resultFile = runStatus
  /\ pc \in {"cleanup", "report", "done"} => statusFile = runStatus
  /\ pc = "done" => report = runStatus

Fated ==
  outcome # Absent => /\ outcome.status = status
                      /\ outcome.action = "preserve" <=> Success(status)

RunInv ==
  /\ RunTypeOK
  /\ Flow
  /\ Judged
  /\ Recorded
  /\ Fated

LEMMA AbsentIsNothing ==
  /\ Absent \notin SUBSET Items
  /\ Absent \notin Statuses
  /\ Absent \notin Outcomes
BY AbsentAssumption

LEMMA StatusFacts ==
  /\ SuccessStatuses \subseteq Statuses
  /\ {"BLOCK", "AUTH_REQUIRED", "CLIENT_DECISION"} \subseteq Statuses
  /\ {"BLOCK", "AUTH_REQUIRED", "CLIENT_DECISION"} \cap SuccessStatuses = {}
BY ItemAssumption, StatusAssumption DEF SuccessStatuses

\* What a step leaves is a workspace and a repository.
LEMMA RepoTypes ==
  ASSUME RollbackTypeOK,
         CommitCheckpoint \/ WorkspaceChanges \/ Preserve \/ ResetToRef
           \/ WipeForRollback \/ WipeFails \/ DieWiping
  PROVE  repo' \in Repos /\ workspace' \in SUBSET Items
<1> USE RepoFacts DEF RollbackTypeOK
<1>1. CASE CommitCheckpoint
  <2>1. ASSUME NEW tree \in {Committed(workspace), {}}, NEW ref \in {tree, Absent},
               repo' = [checkpoint |-> ref, head |-> tree]
        PROVE  repo' \in Repos
    BY <2>1 DEF Committed, Repos, Trees
  <2> QED BY <1>1, <2>1 DEF CommitCheckpoint
<1>2. CASE WorkspaceChanges
  BY <1>2 DEF WorkspaceChanges, ChangeWorkspace
<1>3. CASE Preserve
  BY <1>3 DEF Preserve, Committed, Repos, Trees
<1>4. CASE ResetToRef
  <2>1. InspectGit \in SUBSET Items /\ Indexed \in SUBSET Items
    BY <1>4 DEF ResetToRef, Trees
  <2> QED BY <1>4, <2>1 DEF ResetToRef, AfterReset, AfterClean, Repos, Trees
<1>5. CASE WipeForRollback \/ WipeFails \/ DieWiping
  BY <1>5 DEF WipeForRollback, Wipe, WipeFails, DieWiping, WipePartly
<1> QED BY <1>1, <1>2, <1>3, <1>4, <1>5

LEMMA RunInit ==
  ASSUME TaskInit
  PROVE  RunInv
BY AbsentIsNothing, StatusFacts DEF NoRepo, Repos, Trees, TaskInit, RollbackInit, RunInv, RunTypeOK, RollbackTypeOK, Flow, Judged,
   Recorded, Fated, Success, RollingBack, Working, Closing, Places, Ended, Steps, Items

(***************************************************************************)
(* The loop: none of its actions touches a file or a status, except the    *)
(* safe stop.                                                              *)
(***************************************************************************)
LEMMA AttemptFacts ==
  ASSUME RunInv, NEW f \in Failures, Attempt(f)
  PROVE  /\ pc = "agent" /\ step = "ready" /\ step' = "ready"
         /\ workspace' \in SUBSET Items /\ lastDiff' \in {"nothing", "agent"}
         /\ repo' \in Repos
         /\ UNCHANGED <<fsCheckpoint, checkpointMeta, gitDiff, diffPatch, outcome,
                        status, validatorStatus, judged, fileVars>>
BY RepoFacts DEF Attempt, ChangeWorkspace, AttemptDiff, RunInv, RunTypeOK, RollbackTypeOK

LEMMA LoopKeepsInv ==
  ASSUME RunInv,
         pc = "agent", pc' \in {"agent", "tests"}, step = "ready", step' = "ready",
         workspace' \in SUBSET Items, lastDiff' \in {"nothing", "agent"},
         repo' \in Repos,
         authRequired' \in BOOLEAN, clientDecision' \in BOOLEAN,
         hardStop' \in {"none", "BLOCK", "CIRCUIT_BREAK"},
         UNCHANGED <<fsCheckpoint, checkpointMeta, gitDiff, diffPatch, outcome,
                     status, validatorStatus, judged, fileVars>>
  PROVE  RunInv'
BY AbsentIsNothing, StatusFacts DEF RunInv, RunTypeOK, RollbackTypeOK, Flow, Judged, Recorded, Fated,
   Success, RollingBack, Working, Closing, Places, Ended, Steps, fileVars

LEMMA AgentKeepsInv ==
  ASSUME RunInv, AgentStep
  PROVE  RunInv'
<1>1. ASSUME NEW f \in Failures, AgentNeedsAuth(f)
      PROVE  RunInv'
  <2>1. Attempt(f) /\ authRequired' = TRUE /\ pc' = "tests"
        /\ UNCHANGED <<clientDecision, hardStop>>
    BY <1>1 DEF AgentNeedsAuth
  <2>2. clientDecision \in BOOLEAN /\ hardStop \in {"none", "BLOCK", "CIRCUIT_BREAK"}
    BY DEF RunInv, RunTypeOK
  <2> QED BY <2>1, <2>2, AttemptFacts, LoopKeepsInv
<1>2. ASSUME NEW f \in Failures, AgentFails(f)
      PROVE  RunInv'
  <2>1. Attempt(f)
    BY <1>2 DEF AgentFails
  <2>2. /\ authRequired' \in BOOLEAN
        /\ clientDecision' \in BOOLEAN
        /\ pc' \in {"agent", "tests"}
    BY <1>2 DEF AgentFails
  <2>3. hardStop' \in {"none", "BLOCK", "CIRCUIT_BREAK"}
    BY <1>2 DEF AgentFails, RunInv, RunTypeOK
  <2> QED BY <2>1, <2>2, <2>3, AttemptFacts, LoopKeepsInv
<1>3. ASSUME NEW f \in Claims, AgentClaims(f)
      PROVE  RunInv'
  <2>1. f \in Failures
    BY ClaimAssumption
  <2>2. Attempt(f) /\ pc' = "tests" /\ UNCHANGED <<authRequired, clientDecision, hardStop>>
    BY <1>3 DEF AgentClaims
  <2>3. /\ authRequired \in BOOLEAN /\ clientDecision \in BOOLEAN
        /\ hardStop \in {"none", "BLOCK", "CIRCUIT_BREAK"}
    BY DEF RunInv, RunTypeOK
  <2> QED BY <2>1, <2>2, <2>3, AttemptFacts, LoopKeepsInv
<1>4. CASE AgentSafeStop
  BY <1>4, AbsentIsNothing, StatusFacts, RepoFacts
     DEF AgentSafeStop, RunInv, RunTypeOK, RollbackTypeOK, Flow, Judged, Recorded, Fated,
         Success, RollingBack, Working, Closing, Places, Ended, Steps, fileVars
<1> QED BY <1>1, <1>2, <1>3, <1>4 DEF AgentStep

(***************************************************************************)
(* The checkpoint, the tests, the two bundles and the validator.           *)
(***************************************************************************)
LEMMA JudgingKeepsInv ==
  ASSUME RunInv,
         TakeCheckpoint \/ RunTests \/ WriteProvisional \/ Validate \/ RecordVerdict
  PROVE  RunInv'
<1> USE AbsentIsNothing, StatusFacts
    DEF RunInv, RunTypeOK, RollbackTypeOK, Flow, Judged, Recorded, Fated,
        Success, RollingBack, Working, Closing, Places, Ended, Steps, fileVars
<1>1. CASE TakeCheckpoint
  <2>1. CASE BeginSnapshot /\ UNCHANGED pc
    BY <1>1, <2>1 DEF TakeCheckpoint, BeginSnapshot
  <2>2. CASE CopyEntry /\ UNCHANGED pc
    BY <1>1, <2>2 DEF TakeCheckpoint, CopyEntry, Copied
  <2>3. CASE FinishSnapshot /\ UNCHANGED pc
    BY <1>1, <2>3 DEF TakeCheckpoint, FinishSnapshot
  <2>4. CASE CommitCheckpoint /\ pc' = "agent"
    BY <1>1, <2>4, RepoTypes DEF TakeCheckpoint, CommitCheckpoint
  <2> QED BY <1>1, <2>1, <2>2, <2>3, <2>4 DEF TakeCheckpoint
<1>2. CASE RunTests
  BY <1>2, RepoTypes DEF RunTests, WorkspaceChanges, ChangeWorkspace
<1>3. CASE WriteProvisional
  <2>1. StatusOf("BLOCK") \in Statuses /\ ~Success(StatusOf("BLOCK"))
    BY DEF StatusOf
  <2> QED BY <1>3, <2>1 DEF WriteProvisional, WriteBundle, WriteBundleDiff, LastDiff, Diffs
<1>4. CASE Validate
  <2>1. /\ status' \in Statuses
        /\ Success(status') => /\ status' = validatorStatus'
                               /\ ~authRequired /\ ~clientDecision /\ hardStop = "none"
    BY <1>4 DEF Validate, RunStatus, StatusOf
  <2> QED BY <1>4, <2>1 DEF Validate
<1>5. CASE RecordVerdict
  BY <1>5 DEF RecordVerdict, WriteBundle, WriteBundleDiff, LastDiff, Diffs
<1> QED BY <1>1, <1>2, <1>3, <1>4, <1>5

(***************************************************************************)
(* The rollback policy.                                                    *)
(***************************************************************************)
LEMMA OutcomeFacts ==
  ASSUME RunInv, Preserve \/ WriteOutcome
  PROVE  /\ outcome' \in Outcomes
         /\ outcome'.status = status
         /\ outcome'.action = "preserve" <=> Success(status)
<1>1. CASE Preserve
  BY <1>1, StatusFacts DEF Preserve, Outcomes, Success
<1>2. CASE WriteOutcome
  <2>1. step \in RollingBack
    BY <1>2 DEF WriteOutcome, RollingBack
  <2>2. status \in Statuses /\ ~Success(status)
    BY <2>1, StatusFacts DEF RunInv, Flow, Judged
  <2> QED BY <1>2, <2>2 DEF WriteOutcome, Outcomes, Success
<1> QED BY <1>1, <1>2

LEMMA SettleKeepsInv ==
  ASSUME RunInv, Settle
  PROVE  RunInv'
<1> USE AbsentIsNothing, StatusFacts
    DEF RunInv, RunTypeOK, RollbackTypeOK, Flow, Judged, Recorded, Fated,
        Success, RollingBack, Working, Closing, Places, Ended, Steps, fileVars
<1> DEFINE others == <<retryVars, lastDiff, authRequired, clientDecision, hardStop,
                       validatorStatus, judged, fileVars>>
<1>1. pc = "settle" /\ UNCHANGED others
  BY DEF Settle
<1>2. CASE Preserve /\ UNCHANGED pc
  <2>1. /\ outcome' \in Outcomes
        /\ outcome'.status = status
        /\ outcome'.action = "preserve" <=> status \in SuccessStatuses
    BY <1>2, OutcomeFacts
  <2>2. RunTypeOK'
    BY <1>1, <1>2, <2>1, RepoTypes DEF Preserve
  <2>3. Flow'
    BY <1>1, <1>2, <2>1 DEF Preserve
  <2>4. Judged' /\ Recorded' /\ Fated'
    BY <1>1, <1>2, <2>1 DEF Preserve
  <2> QED BY <2>2, <2>3, <2>4
<1>3. CASE CaptureDiff(LastDiff) /\ UNCHANGED pc
  BY <1>1, <1>3, ItemAssumption DEF CaptureDiff, LastDiff, Diffs
<1>4. CASE RollbackStep /\ UNCHANGED pc
  <2>1. CASE ResetToRef
    BY <1>1, <1>4, <2>1, RepoTypes DEF ResetToRef
  <2>2. CASE NoRefToReset
    BY <1>1, <1>4, <2>2 DEF NoRefToReset
  <2>3. CASE WipeForRollback
    BY <1>1, <1>4, <2>3, RepoTypes DEF WipeForRollback, Wipe
  <2>4. CASE WipeFails
    BY <1>1, <1>4, <2>4, RepoTypes DEF WipeFails, WipePartly
  <2>5. CASE step = "refilling" /\ (RefillEntry \/ FinishRefill \/ RefillFails)
    BY <1>1, <1>4, <2>5 DEF RefillEntry, FinishRefill, RefillFails
  <2>6. CASE WriteOutcome
    <3>1. /\ outcome' \in Outcomes
          /\ outcome'.status = status
          /\ outcome'.action = "preserve" <=> status \in SuccessStatuses
      BY <2>6, OutcomeFacts
    <3>2. RunTypeOK'
      BY <1>1, <1>4, <2>6, <3>1 DEF WriteOutcome
    <3>3. Flow'
      BY <1>1, <1>4, <2>6, <3>1 DEF WriteOutcome
    <3>4. Judged' /\ Recorded' /\ Fated'
      BY <1>1, <1>4, <2>6, <3>1 DEF WriteOutcome
    <3> QED BY <3>2, <3>3, <3>4
  <2> QED BY <1>4, <2>1, <2>2, <2>3, <2>4, <2>5, <2>6 DEF RollbackStep
<1>5. CASE step = "settled" /\ pc' = "extended" /\ UNCHANGED rollbackVars
  BY <1>1, <1>5 DEF rollbackVars
<1> QED BY <1>2, <1>3, <1>4, <1>5 DEF Settle

(***************************************************************************)
(* After the controller, and the ways a task is abandoned.                 *)
(***************************************************************************)
LEMMA ClosingKeepsInv ==
  ASSUME RunInv,
         ExtendedValidation \/ WriteResult \/ RewriteDiff \/ WriteStatus \/ Cleanup \/ WriteReport
  PROVE  RunInv'
<1> USE AbsentIsNothing, StatusFacts
    DEF RunInv, RunTypeOK, RollbackTypeOK, Flow, Judged, Recorded, Fated,
        Success, RollingBack, Working, Closing, Places, Ended, Steps, fileVars, rollbackVars
<1>1. CASE ExtendedValidation
  BY <1>1 DEF ExtendedValidation
<1>2. CASE WriteResult
  BY <1>2 DEF WriteResult
<1>3. CASE RewriteDiff
  BY <1>3 DEF RewriteDiff
<1>4. CASE WriteStatus
  BY <1>4 DEF WriteStatus
<1>5. CASE Cleanup
  BY <1>5, RepoFacts DEF Cleanup
<1>6. CASE WriteReport
  BY <1>6 DEF WriteReport
<1> QED BY <1>1, <1>2, <1>3, <1>4, <1>5, <1>6

LEMMA AbandonKeepsInv ==
  ASSUME RunInv, Throws \/ Crash
  PROVE  RunInv'
<1> USE AbsentIsNothing, StatusFacts
    DEF RunInv, RunTypeOK, RollbackTypeOK, Flow, Judged, Recorded, Fated,
        Success, RollingBack, Working, Closing, Places, Ended, Steps, fileVars, rollbackVars
<1>1. CASE Throws
  BY <1>1, RepoTypes DEF Throws, WorkspaceChanges, ChangeWorkspace
<1>2. CASE Crash
  BY <1>2, RepoTypes DEF Crash, Die, DieWiping, WipePartly
<1> QED BY <1>1, <1>2

LEMMA StepKeepsInv ==
  ASSUME RunInv, [TaskNext]_vars
  PROVE  RunInv'
<1>1. CASE TaskNext
  BY <1>1, AgentKeepsInv, JudgingKeepsInv, SettleKeepsInv, ClosingKeepsInv, AbandonKeepsInv
     DEF TaskNext, TaskStep
<1>2. CASE UNCHANGED vars
  BY <1>2 DEF vars, controllerVars, fileVars, rollbackVars, RunInv, RunTypeOK, RollbackTypeOK,
     Flow, Judged, Recorded, Fated, Success
<1> QED BY <1>1, <1>2

-------------------------------------------------------------------------------
(***************************************************************************)
(* The inductive invariant holds of every reachable state.                 *)
(***************************************************************************)
THEOREM RunInvariance == TaskSpec => []RunInv
BY RunInit, StepKeepsInv, PTL DEF TaskSpec

(***************************************************************************)
(* No file shows a success the validator has not given, also when the      *)
(* process dies at the worst moment.                                       *)
(***************************************************************************)
THEOREM SuccessJudged == TaskSpec => []SuccessIsJudged
<1>1. RunInv => SuccessIsJudged
  <2> SUFFICES ASSUME RunInv, NEW st \in {statusFile, resultFile, report}, Success(st)
               PROVE  /\ st = validatorStatus
                      /\ ~authRequired /\ ~clientDecision /\ hardStop = "none"
                      /\ pc \in {"report", "done", "crashed"} \/ workspace = judged
    BY DEF SuccessIsJudged
  <2>1. st = status
    BY AbsentIsNothing, StatusFacts DEF RunInv, Recorded, Flow, Success
  <2> QED BY <2>1 DEF RunInv, Judged
<1> QED BY <1>1, RunInvariance, PTL

(***************************************************************************)
(* The verdict is recorded before the workspace is rolled back.            *)
(***************************************************************************)
THEOREM VerdictFirst == TaskSpec => []VerdictBeforeRollback
<1>1. RunInv => VerdictBeforeRollback
  BY DEF RunInv, Flow, Judged, Recorded, VerdictBeforeRollback
<1> QED BY <1>1, RunInvariance, PTL

(***************************************************************************)
(* The workspace is preserved for a success and for nothing else, and it   *)
(* is the workspace that was judged.                                       *)
(***************************************************************************)
THEOREM FateIsVerdict == TaskSpec => []FateFollowsVerdict
<1>1. RunInv => FateFollowsVerdict
  BY DEF RunInv, Flow, Judged, Fated, FateFollowsVerdict
<1> QED BY <1>1, RunInvariance, PTL

(***************************************************************************)
(* The files of a finished task agree.                                     *)
(***************************************************************************)
THEOREM FinishedFilesAgree == TaskSpec => []FilesAgree
<1>1. RunInv => FilesAgree
  BY DEF RunInv, Recorded, FilesAgree
<1> QED BY <1>1, RunInvariance, PTL

-------------------------------------------------------------------------------
(***************************************************************************)
(* The policy inside a task.  While the agent may still run the breaker is *)
(* closed, so that no refusal is an echo of an earlier one, and every stop *)
(* that asks for somebody has set its flag.                                *)
(***************************************************************************)
Heeded ==
  /\ pc \in {"checkpoint", "agent"} => circuit # "open"
  /\ decision.disposition = "AUTH_REQUIRED" => authRequired
  /\ decision.disposition = "CLIENT_DECISION" => clientDecision
  /\ decision.disposition = "CIRCUIT_BREAK" => authRequired \/ hardStop # "none"

PolicyInv == RetryInv /\ Heeded

LEMMA PolicyInit ==
  ASSUME TaskInit
  PROVE  PolicyInv
<1>1. RetryInv
  BY BudgetAssumption
     DEF TaskInit, RetryInit, RetryInv, RetryTypeOK, ThirdOccurrenceBreaks, MAX_RETRIES
<1>2. decision.disposition = "none" /\ circuit = "closed"
  BY DEF TaskInit, RetryInit, NoDecision
<1> QED BY <1>1, <1>2 DEF PolicyInv, Heeded

LEMMA PolicyUntouched ==
  ASSUME PolicyInv, UNCHANGED <<retryVars, authRequired, clientDecision, hardStop>>,
         pc' \in {"checkpoint", "agent"} => pc \in {"checkpoint", "agent"}
  PROVE  PolicyInv'
<1>1. RetryInv'
  BY DEF PolicyInv, RetryInv, RetryTypeOK, ThirdOccurrenceBreaks, retryVars
<1> QED BY <1>1 DEF PolicyInv, Heeded, retryVars

(***************************************************************************)
(* What an answer says with the breaker closed, when no row matches.       *)
(***************************************************************************)
LEMMA UnsafeAnswer ==
  ASSUME NEW signature, NEW authRequiredOption \in BOOLEAN, circuit # "open",
         Decide(signature, "unsafe_unknown", NoCategory, authRequiredOption)
  PROVE  decision'.disposition = IF authRequiredOption THEN "AUTH_REQUIRED" ELSE "BLOCK"
<1>1. ApplyKindRule("unsafe_unknown", CountUp(signature), authRequiredOption)
  BY DEF Decide
<1> QED BY <1>1 DEF ApplyKindRule, StopDecision, RetryableKinds

LEMMA AgentKeepsPolicy ==
  ASSUME PolicyInv, AgentStep
  PROVE  PolicyInv'
<1>1. "unsafe_unknown" \in FailureKinds /\ NoCategory \in Categories \cup {NoCategory}
  BY DEF FailureKinds
<1>2. ASSUME NEW f \in Failures, AgentNeedsAuth(f)
      PROVE  PolicyInv'
  <2>1. Decide(Signature(f), "unsafe_unknown", NoCategory, TRUE)
    BY <1>2 DEF AgentNeedsAuth, DecideAuthRequired
  <2>2. RetryInv'
    BY <1>1, <2>1, SignatureType, DecideAnswers DEF PolicyInv
  <2>3. /\ circuit # "open" /\ pc' = "tests"
        /\ authRequired' = TRUE
    BY <1>2 DEF AgentNeedsAuth, Attempt, PolicyInv, Heeded
  <2>4. decision'.disposition = "AUTH_REQUIRED"
    BY <2>1, <2>3, UnsafeAnswer
  <2> QED BY <2>2, <2>3, <2>4 DEF PolicyInv, Heeded
<1>3. ASSUME NEW f \in Failures, AgentFails(f)
      PROVE  PolicyInv'
  <2>1. Decide(Signature(f), KindOf(f), CategoryOf(f), FALSE)
    BY <1>3 DEF AgentFails, DecideFailure
  <2>2. /\ RetryInv'
        /\ decision'.shouldRetry <=> circuit' # "open"
    BY <2>1, SignatureType, KindOfType, CategoryOfType, DecideAnswers DEF PolicyInv
  <2>3. pc' = "agent" => circuit' # "open"
    BY <1>3, <2>2 DEF AgentFails
  <2>4. pc' \in {"agent", "tests"}
    BY <1>3 DEF AgentFails
  <2>5. /\ decision'.disposition = "AUTH_REQUIRED" => authRequired'
        /\ decision'.disposition = "CLIENT_DECISION" => clientDecision'
        /\ decision'.disposition = "CIRCUIT_BREAK" => hardStop' # "none"
    BY <1>3 DEF AgentFails
  <2> QED BY <2>2, <2>3, <2>4, <2>5 DEF PolicyInv, Heeded
<1>4. ASSUME NEW f \in Claims, AgentClaims(f)
      PROVE  PolicyInv'
  <2>1. /\ pc = "agent" /\ pc' = "tests"
        /\ UNCHANGED <<authRequired, clientDecision, hardStop>>
    BY <1>4 DEF AgentClaims, Attempt
  <2>2. CASE UNCHANGED retryVars
    BY <2>1, <2>2, PolicyUntouched
  <2>3. CASE RecordAttempt(Signature(f), "unsafe_unknown")
    <3>1. Decide(Signature(f), "unsafe_unknown", NoCategory, FALSE)
      BY <2>3 DEF RecordAttempt
    <3>2. RetryInv'
      BY <1>1, <3>1, ClaimAssumption, SignatureType, DecideAnswers DEF PolicyInv
    <3>3. decision'.disposition = "BLOCK"
      BY <2>1, <3>1, UnsafeAnswer DEF PolicyInv, Heeded
    <3> QED BY <2>1, <3>2, <3>3 DEF PolicyInv, Heeded
  <2> QED BY <1>4, <2>2, <2>3 DEF AgentClaims
<1>5. CASE AgentSafeStop
  <2>1. /\ circuit' = "open" /\ pc' = "record"
        /\ decision' = StopDecision("unsafe_unknown", "stop", "BLOCK", NoCategory)
        /\ totalAttempts' = TotalUp /\ UNCHANGED identicalCounts
    BY <1>5 DEF AgentSafeStop, Trip
  <2>2. decision' \in Decisions
    <3>1. "BLOCK" \in Dispositions
      BY DEF Dispositions
    <3> QED BY <1>1, <2>1, <3>1, DecisionTypes
  <2>3. totalAttempts' \in 0..MaxTotalAttempts
    BY <2>1, BudgetAssumption, AtMostBounds DEF TotalUp, PolicyInv, RetryInv, RetryTypeOK
  <2>4. RetryInv'
    BY <2>1, <2>2, <2>3 DEF PolicyInv, RetryInv, RetryTypeOK, ThirdOccurrenceBreaks
  <2>5. decision'.disposition = "BLOCK"
    BY <2>1 DEF StopDecision
  <2> QED BY <2>1, <2>4, <2>5 DEF PolicyInv, Heeded
<1> QED BY <1>2, <1>3, <1>4, <1>5 DEF AgentStep

LEMMA ValidateKeepsPolicy ==
  ASSUME PolicyInv, Validate
  PROVE  PolicyInv'
<1>1. pc' = "record" /\ UNCHANGED <<authRequired, clientDecision, hardStop>>
  BY DEF Validate
<1>2. CASE RecordValidationFailure
  <2>1. RetryInv'
    BY <1>2, ValidationFailureAnswers DEF PolicyInv
  <2>2. decision'.disposition = "BLOCK"
    BY <1>2 DEF RecordValidationFailure, StopDecision
  <2> QED BY <1>1, <2>1, <2>2 DEF PolicyInv, Heeded
<1>3. CASE UNCHANGED retryVars
  BY <1>1, <1>3, PolicyUntouched
<1> QED BY <1>2, <1>3 DEF Validate

LEMMA OthersKeepPolicy ==
  ASSUME PolicyInv, TaskNext, ~AgentStep, ~Validate
  PROVE  PolicyInv'
<1>1. /\ UNCHANGED <<retryVars, authRequired, clientDecision, hardStop>>
      /\ pc' \in {"checkpoint", "agent"} => pc \in {"checkpoint", "agent"}
  <2>1. CASE TakeCheckpoint \/ RunTests \/ WriteProvisional \/ RecordVerdict \/ Settle
    BY <2>1 DEF TakeCheckpoint, RunTests, WriteProvisional, RecordVerdict, Settle
  <2>2. CASE ExtendedValidation \/ WriteResult \/ RewriteDiff \/ WriteStatus \/ Cleanup
             \/ WriteReport
    BY <2>2 DEF ExtendedValidation, WriteResult, RewriteDiff, WriteStatus, Cleanup, WriteReport
  <2>3. CASE Throws \/ Crash
    BY <2>3 DEF Throws, Crash
  <2> QED BY <2>1, <2>2, <2>3 DEF TaskNext, TaskStep
<1> QED BY <1>1, PolicyUntouched

(***************************************************************************)
(* The policy's counters keep their types in a task, and a stop is heeded. *)
(***************************************************************************)
THEOREM PolicyInvariance == TaskSpec => []PolicyInv
<1>1. PolicyInv /\ [TaskNext]_vars => PolicyInv'
  <2>1. ASSUME PolicyInv, UNCHANGED vars
        PROVE  PolicyInv'
    BY <2>1, PolicyUntouched DEF vars, controllerVars
  <2> QED BY <2>1, AgentKeepsPolicy, ValidateKeepsPolicy, OthersKeepPolicy
<1> QED BY <1>1, PolicyInit, PTL DEF TaskSpec

(***************************************************************************)
(* A stop that asks for a credential or the client, or that breaks the     *)
(* circuit, is never followed by a success, whatever the validator says.   *)
(***************************************************************************)
THEOREM StopsAreHeeded == TaskSpec => []StopsHold
<1>1. RunInv /\ PolicyInv => StopsHold
  BY DEF RunInv, RunTypeOK, Judged, PolicyInv, Heeded, StopsHold
<1> QED BY <1>1, RunInvariance, PolicyInvariance, PTL

(***************************************************************************)
(* Type correctness of a task, the counters of the policy included.        *)
(***************************************************************************)
THEOREM TaskTypes == TaskSpec => []TaskTypeOK
<1>1. RunInv /\ PolicyInv => TaskTypeOK
  BY DEF RunInv, RunTypeOK, PolicyInv, RetryInv, TaskTypeOK
<1> QED BY <1>1, RunInvariance, PolicyInvariance, PTL

-------------------------------------------------------------------------------
(***************************************************************************)
(* The task implements the gate.  Its phase changes with the status of the *)
(* controller, with the status of the runner, and when it is abandoned.    *)
(***************************************************************************)
GateStutter ==
  UNCHANGED <<status, outcome, runStatus>> /\ pc' \notin {"threw", "crashed"}

LEMMA GateInitially ==
  ASSUME TaskInit
  PROVE  Gate!GateInit
BY DEF TaskInit, RollbackInit, Gate!GateInit

LEMMA StutterMaps ==
  ASSUME RunInv, GateStutter, pc \notin Ended
  PROVE  UNCHANGED Gate!gateVars
BY DEF GateStutter, Gate!gateVars, Ended

LEMMA JudgementMaps ==
  ASSUME RunInv, AgentSafeStop \/ Validate
  PROVE  Gate!Judgement
<1>1. /\ pc \notin Ended /\ pc' = "record"
      /\ status = Absent /\ outcome = Absent /\ runStatus = Absent
      /\ UNCHANGED <<outcome, runStatus>>
  BY DEF AgentSafeStop, Validate, RunInv, Flow, Working, Ended, fileVars
<1>2. status' \in Statuses
  <2>1. CASE AgentSafeStop
    BY <2>1, StatusFacts DEF AgentSafeStop
  <2>2. CASE Validate
    BY <2>2, StatusFacts DEF Validate, RunStatus, StatusOf
  <2> QED BY <2>1, <2>2
<1>3. status' # Absent
  BY <1>2, AbsentIsNothing
<1> QED BY <1>1, <1>2, <1>3 DEF Gate!Judgement, Ended

LEMMA SettlementMaps ==
  ASSUME RunInv, pc = "settle", pc' = "settle", UNCHANGED runStatus, Preserve \/ WriteOutcome
  PROVE  Gate!Settlement
<1>1. /\ outcome' \in Outcomes
      /\ outcome'.action = "preserve" <=> Success(status)
  BY OutcomeFacts
<1>2. outcome = Absent /\ outcome' # Absent
  BY <1>1, AbsentIsNothing DEF Preserve, WriteOutcome, RunInv, Flow
<1>3. status' = status /\ status # Absent /\ runStatus = Absent /\ runStatus' = Absent
  BY AbsentIsNothing DEF Preserve, WriteOutcome, RunInv, Flow
<1> QED BY <1>1, <1>2, <1>3 DEF Gate!Settlement, Success

LEMMA PublicationMaps ==
  ASSUME RunInv, ExtendedValidation
  PROVE  Gate!Publication
<1>1. /\ pc = "extended" /\ pc' = "result"
      /\ status \in Statuses /\ outcome # Absent /\ runStatus = Absent
      /\ runStatus' \in {status, "BLOCK"}
      /\ UNCHANGED <<status, outcome>>
  BY DEF ExtendedValidation, RunInv, Flow, rollbackVars
<1>2. status # Absent /\ runStatus' # Absent
  BY <1>1, AbsentIsNothing, StatusFacts
<1> QED BY <1>1, <1>2 DEF Gate!Publication

LEMMA AbandonMaps ==
  ASSUME RunInv, Throws \/ Crash
  PROVE  Gate!Abandon \/ UNCHANGED Gate!gateVars
<1>1. /\ pc \notin Ended /\ pc' \in {"threw", "crashed"}
      /\ UNCHANGED <<status, outcome, runStatus>>
  BY DEF Throws, Crash, WorkspaceChanges, ChangeWorkspace, Die, DieWiping, WipePartly, Ended,
         rollbackVars, fileVars
<1>2. CASE runStatus = Absent
  BY <1>1, <1>2 DEF Gate!Abandon, Ended
<1>3. CASE runStatus # Absent
  BY <1>1, <1>3 DEF Gate!gateVars
<1> QED BY <1>2, <1>3

LEMMA TaskStepMaps ==
  ASSUME RunInv, TaskNext
  PROVE  Gate!GateNext \/ UNCHANGED Gate!gateVars
<1>1. CASE TakeCheckpoint \/ RunTests \/ WriteProvisional \/ RecordVerdict \/ WriteResult
           \/ RewriteDiff \/ WriteStatus \/ Cleanup \/ WriteReport
  <2>1. GateStutter /\ pc \notin Ended
    BY <1>1 DEF TakeCheckpoint, BeginSnapshot, CopyEntry, FinishSnapshot, CommitCheckpoint,
       RunTests, WorkspaceChanges, ChangeWorkspace, WriteProvisional, RecordVerdict,
       WriteBundle, WriteBundleDiff, WriteResult,
       RewriteDiff, WriteStatus, Cleanup, WriteReport, GateStutter, Ended, rollbackVars, fileVars
  <2> QED BY <2>1, StutterMaps
<1>2. ASSUME NEW f \in Failures, AgentNeedsAuth(f) \/ AgentFails(f) \/ AgentClaims(f)
      PROVE  UNCHANGED Gate!gateVars
  <2>1. Attempt(f) /\ pc' \in {"agent", "tests"}
    BY <1>2 DEF AgentNeedsAuth, AgentFails, AgentClaims
  <2>2. GateStutter /\ pc \notin Ended
    BY <2>1, AttemptFacts DEF GateStutter, Ended, fileVars
  <2> QED BY <2>2, StutterMaps
<1>3. CASE AgentStep
  BY <1>2, <1>3, ClaimAssumption, JudgementMaps DEF AgentStep, Gate!GateNext
<1>4. CASE Settle
  <2>1. pc = "settle" /\ UNCHANGED runStatus
    BY <1>4 DEF Settle, fileVars
  <2>2. CASE (Preserve \/ WriteOutcome) /\ UNCHANGED pc
    BY <2>1, <2>2, SettlementMaps DEF Gate!GateNext
  <2>3. CASE ~((Preserve \/ WriteOutcome) /\ UNCHANGED pc)
    <3>1. GateStutter /\ pc \notin Ended
      BY <1>4, <2>1, <2>3 DEF Settle, RollbackStep, CaptureDiff, ResetToRef, NoRefToReset,
         WipeForRollback, Wipe, WipeFails, WipePartly, RefillEntry, FinishRefill, RefillFails,
         GateStutter, Ended, rollbackVars
    <3> QED BY <3>1, StutterMaps
  <2> QED BY <2>2, <2>3
<1>5. CASE Validate
  BY <1>5, JudgementMaps DEF Gate!GateNext
<1>6. CASE ExtendedValidation
  BY <1>6, PublicationMaps DEF Gate!GateNext
<1>7. CASE Throws \/ Crash
  BY <1>7, AbandonMaps DEF Gate!GateNext
<1> QED BY <1>1, <1>3, <1>4, <1>5, <1>6, <1>7 DEF TaskNext, TaskStep

LEMMA TaskStutterMaps ==
  ASSUME UNCHANGED vars
  PROVE  UNCHANGED Gate!gateVars
BY DEF vars, controllerVars, fileVars, rollbackVars, Gate!gateVars

(***************************************************************************)
(* The whole task, with every retry, rollback and crash, is an             *)
(* implementation of the gate: judged once, kept or discarded as judged,   *)
(* and never published better than judged.                                 *)
(***************************************************************************)
THEOREM TaskImplementsGate == TaskSpec => ImplementsGate
<1>1. RunInv /\ [TaskNext]_vars => [Gate!GateNext]_(Gate!gateVars)
  BY TaskStepMaps, TaskStutterMaps
<1> QED BY <1>1, GateInitially, RunInvariance, PTL DEF TaskSpec, ImplementsGate, Gate!GateSpec

-------------------------------------------------------------------------------
(***************************************************************************)
(* Every step descends: the loop by the counts of the policy, all others   *)
(* by the place in the sequence, the step of checkpoint or rollback, or    *)
(* the entries left to copy.                                               *)
(***************************************************************************)
LEMMA SameCounts ==
  ASSUME RetryInv, UNCHANGED identicalCounts
  PROVE  Counted
BY DEF Counted, RetryInv, RetryTypeOK, MAX_RETRIES

LEMMA NearerDescends ==
  ASSUME Counted,
         \/ \E s \in Signatures : identicalCounts[s] < identicalCounts'[s]
         \/ PlacesLeft(pc') < PlacesLeft(pc)
         \/ pc' = pc /\ StepsLeft(step') < StepsLeft(step)
         \/ pc' = pc /\ step' = step /\ ToCopy' \subseteq ToCopy /\ ToCopy' # ToCopy
  PROVE  Descends
BY DEF Counted, Descends

LEMMA AgentDescends ==
  ASSUME RunInv, PolicyInv, FreshMessages = {}, AgentStep
  PROVE  Descends
<1>1. "unsafe_unknown" \in FailureKinds /\ NoCategory \in Categories \cup {NoCategory}
  BY DEF FailureKinds
<1>2. PlacesLeft("tests") < PlacesLeft("agent") /\ PlacesLeft("record") < PlacesLeft("agent")
  BY DEF PlacesLeft
<1>3. RetryInv
  BY DEF PolicyInv
<1>4. ASSUME NEW f \in Failures, AgentNeedsAuth(f)
      PROVE  Descends
  <2>1. pc = "agent" /\ pc' = "tests" /\ Decide(Signature(f), "unsafe_unknown", NoCategory, TRUE)
    BY <1>4 DEF AgentNeedsAuth, Attempt, DecideAuthRequired
  <2> QED BY <1>1, <1>2, <1>3, <2>1, SignatureType, DecideCounts, NearerDescends
<1>5. ASSUME NEW f \in Failures, AgentFails(f)
      PROVE  Descends
  <2>1. /\ pc = "agent" /\ pc' = IF decision'.shouldRetry THEN "agent" ELSE "tests"
        /\ Decide(Signature(f), KindOf(f), CategoryOf(f), FALSE)
    BY <1>5 DEF AgentFails, Attempt, DecideFailure
  <2>2. /\ Counted
        /\ decision'.shouldRetry => identicalCounts[Signature(f)] < identicalCounts'[Signature(f)]
    BY <1>3, <2>1, SignatureType, KindOfType, CategoryOfType, DecideCounts
  <2> QED BY <1>2, <2>1, <2>2, SignatureType, NearerDescends
<1>6. ASSUME NEW f \in Claims, AgentClaims(f)
      PROVE  Descends
  <2>1. pc = "agent" /\ pc' = "tests"
    BY <1>6 DEF AgentClaims, Attempt
  <2>2. CASE UNCHANGED retryVars
    BY <1>2, <1>3, <2>1, <2>2, SameCounts, NearerDescends DEF retryVars
  <2>3. CASE RecordAttempt(Signature(f), "unsafe_unknown")
    <3>1. Decide(Signature(f), "unsafe_unknown", NoCategory, FALSE)
      BY <2>3 DEF RecordAttempt
    <3> QED BY <1>1, <1>2, <1>3, <2>1, <3>1, ClaimAssumption, SignatureType, DecideCounts,
              NearerDescends
  <2> QED BY <1>6, <2>2, <2>3 DEF AgentClaims
<1>7. CASE AgentSafeStop
  <2>1. pc = "agent" /\ pc' = "record" /\ UNCHANGED identicalCounts
    BY <1>7 DEF AgentSafeStop
  <2> QED BY <1>2, <1>3, <2>1, SameCounts, NearerDescends
<1> QED BY <1>4, <1>5, <1>6, <1>7 DEF AgentStep

LEMMA CheckpointDescends ==
  ASSUME RunInv, PolicyInv, TakeCheckpoint
  PROVE  Descends
<1>1. Counted
  BY SameCounts DEF TakeCheckpoint, PolicyInv, retryVars
<1>2. CASE CommitCheckpoint
  BY <1>1, <1>2, NearerDescends DEF TakeCheckpoint, CommitCheckpoint, PlacesLeft, StepsLeft,
     BeginSnapshot, CopyEntry, FinishSnapshot
<1>3. CASE BeginSnapshot \/ FinishSnapshot
  <2>1. pc' = pc /\ StepsLeft(step') < StepsLeft(step)
    BY <1>3 DEF TakeCheckpoint, BeginSnapshot, FinishSnapshot, CommitCheckpoint, StepsLeft
  <2> QED BY <1>1, <2>1, NearerDescends
<1>4. CASE CopyEntry
  <2>1. pc' = pc /\ step = "copying" /\ step' = "copying" /\ workspace' = workspace
    BY <1>4 DEF TakeCheckpoint, CopyEntry, CommitCheckpoint
  <2>2. PICK item \in Copied(workspace) \ fsCheckpoint : fsCheckpoint' = fsCheckpoint \cup {item}
    BY <1>4 DEF CopyEntry
  <2>3. ToCopy = Copied(workspace) \ fsCheckpoint /\ ToCopy' = Copied(workspace) \ fsCheckpoint'
    BY <2>1 DEF ToCopy, Copied
  <2>4. ToCopy' \subseteq ToCopy /\ ToCopy' # ToCopy
    BY <2>2, <2>3
  <2> QED BY <1>1, <2>1, <2>4, NearerDescends
<1> QED BY <1>2, <1>3, <1>4 DEF TakeCheckpoint

LEMMA SettleDescends ==
  ASSUME RunInv, PolicyInv, Settle
  PROVE  Descends
<1>1. Counted
  BY SameCounts DEF Settle, PolicyInv, retryVars
<1>2. CASE step = "settled" /\ pc' = "extended"
  BY <1>1, <1>2, NearerDescends DEF Settle, PlacesLeft
<1>3. CASE pc' = pc /\ (Preserve \/ CaptureDiff(LastDiff)
                        \/ ResetToRef \/ NoRefToReset \/ WipeForRollback \/ WipeFails
                        \/ FinishRefill \/ RefillFails \/ WriteOutcome)
  <2>1. step # "manualRefill"
    BY DEF RunInv, Flow, RollingBack, Settle
  <2>2. StepsLeft(step') < StepsLeft(step)
    BY <1>3, <2>1 DEF Preserve, CaptureDiff, ResetToRef, NoRefToReset, WipeForRollback, Wipe,
       WipeFails, WipePartly, FinishRefill, RefillFails, WriteOutcome, StepsLeft
  <2> QED BY <1>1, <1>3, <2>2, NearerDescends
<1>4. CASE pc' = pc /\ step = "refilling" /\ RefillEntry
  <2>1. step' = "refilling" /\ fsCheckpoint' = fsCheckpoint
    BY <1>4 DEF RefillEntry
  <2>2. PICK item \in fsCheckpoint \ workspace : workspace' = workspace \cup {item}
    BY <1>4 DEF RefillEntry
  <2>3. ToCopy = fsCheckpoint \ workspace /\ ToCopy' = fsCheckpoint' \ workspace'
    BY <1>4, <2>1 DEF ToCopy
  <2>4. ToCopy' \subseteq ToCopy /\ ToCopy' # ToCopy
    BY <2>1, <2>2, <2>3
  <2> QED BY <1>1, <1>4, <2>1, <2>4, NearerDescends
<1> QED BY <1>2, <1>3, <1>4 DEF Settle, RollbackStep

LEMMA OthersDescend ==
  ASSUME RunInv, PolicyInv,
         \/ RunTests \/ WriteProvisional \/ Validate \/ RecordVerdict
         \/ ExtendedValidation \/ WriteResult \/ RewriteDiff \/ WriteStatus \/ Cleanup
         \/ WriteReport \/ Throws \/ Crash
  PROVE  Descends
<1>1. UNCHANGED identicalCounts
  BY DEF RunTests, WriteProvisional, Validate, RecordVerdict, ExtendedValidation, WriteResult,
     RewriteDiff, WriteStatus, Cleanup, WriteReport, Throws, Crash, retryVars,
     RecordValidationFailure
<1>2. Counted
  BY <1>1, SameCounts DEF PolicyInv
<1>3. PlacesLeft(pc') < PlacesLeft(pc)
  <2>1. CASE RunTests \/ WriteProvisional \/ Validate \/ RecordVerdict
    BY <2>1 DEF RunTests, WriteProvisional, Validate, RecordVerdict, PlacesLeft
  <2>2. CASE ExtendedValidation \/ WriteResult \/ RewriteDiff \/ WriteStatus \/ Cleanup
             \/ WriteReport
    BY <2>2 DEF ExtendedValidation, WriteResult, RewriteDiff, WriteStatus, Cleanup, WriteReport,
       PlacesLeft
  <2>3. CASE Throws
    BY <2>3 DEF Throws, PlacesLeft
  <2>4. CASE Crash
    <3>1. pc \in Places \ Ended /\ pc' = "crashed"
      BY <2>4 DEF Crash, RunInv, RunTypeOK
    <3> QED BY <3>1 DEF Places, Ended, PlacesLeft
  <2> QED BY <2>1, <2>2, <2>3, <2>4
<1> QED BY <1>2, <1>3, NearerDescends

(***************************************************************************)
(* If no failure text is new each time, every step of a task, whatever the *)
(* agent, the tests and the checks do, comes nearer to its end in an order *)
(* in which a task can descend only finitely often: the counts of its      *)
(* failures, at most MAX_RETRIES each, then the place in the sequence, the *)
(* step of checkpoint or rollback, the entries left to copy.  So no task   *)
(* runs forever.                                                           *)
(***************************************************************************)
THEOREM TaskDescends ==
  ASSUME FreshMessages = {}
  PROVE  TaskSpec => EveryStepDescends
<1>1. RunInv /\ PolicyInv /\ [TaskNext]_vars => [Descends]_vars
  <2>1. SUFFICES ASSUME RunInv, PolicyInv, TaskNext
                 PROVE  Descends
    OBVIOUS
  <2> QED BY <2>1, AgentDescends, CheckpointDescends, SettleDescends, OthersDescend
            DEF TaskNext, TaskStep
<1> QED BY <1>1, RunInvariance, PolicyInvariance, PTL DEF TaskSpec, EveryStepDescends

-------------------------------------------------------------------------------
(***************************************************************************)
(* The copy in a task: what WorkspaceRollback keeps about it, a task keeps *)
(* too, although it changes the workspace at more places: a safe stop, and *)
(* the cleanup at its end.                                                 *)
(***************************************************************************)
LEMMA JudgedKeepsCopy ==
  ASSUME CopyInv, RunInv, AgentSafeStop \/ Validate
  PROVE  CopyInv'
<1> USE AbsentIsNothing DEF CopyInv, RollbackTypeOK, Untouched, Sealed, Refilling, Verdictful, RepoKnown,
        Settled, Steps
<1>1. step = "ready" /\ status' \in Statuses
  <2>1. CASE AgentSafeStop
    BY <2>1, StatusFacts DEF AgentSafeStop
  <2>2. CASE Validate
    BY <2>2, StatusFacts DEF Validate, RunStatus, StatusOf, RunInv, Flow, Working
  <2> QED BY <2>1, <2>2
<1>2. CASE AgentSafeStop
  <2>1. repo' \in LeftByAgent /\ RepoIsOld
    BY <1>1, <1>2 DEF AgentSafeStop, RepoIsOld
  <2>2. repo' \in Repos /\ repo'.checkpoint \in OldTrees /\ repo'.head \in OldTrees
    BY <2>1, RepoFacts, OldRepoFacts
  <2> QED BY <1>1, <1>2, <2>2 DEF AgentSafeStop
<1>3. CASE Validate
  BY <1>1, <1>3 DEF Validate
<1> QED BY <1>2, <1>3

LEMMA FilesKeepCopy ==
  ASSUME CopyInv, RunInv, WriteProvisional \/ RecordVerdict \/ RewriteDiff
  PROVE  CopyInv'
<1>1. LastDiff \in Diffs /\ diffPatch \in Diffs \cup {Absent}
  BY DEF RunInv, RunTypeOK, RollbackTypeOK, LastDiff, Diffs
<1>2. /\ UNCHANGED <<workspace, fsCheckpoint, checkpointMeta, repo, outcome, status, step>>
      /\ gitDiff' \in Diffs \cup {Absent} /\ diffPatch' \in Diffs \cup {Absent}
  BY <1>1 DEF WriteProvisional, RecordVerdict, RewriteDiff, WriteBundle, WriteBundleDiff
<1> QED BY <1>2 DEF CopyInv, RollbackTypeOK, Untouched, Sealed, Refilling, Verdictful, RepoKnown, Settled

LEMMA CleanupKeepsCopy ==
  ASSUME CopyInv, RunInv, Cleanup
  PROVE  CopyInv'
<1> USE DEF CopyInv, RollbackTypeOK, Untouched, Sealed, Refilling, Verdictful, RepoKnown, Settled
<1>1. /\ step = "settled" /\ repo' \in LeftOfRepo /\ repo' \in Repos
      /\ workspace' \in SUBSET workspace
      /\ UNCHANGED <<fsCheckpoint, checkpointMeta, gitDiff, diffPatch, outcome, status, step>>
  BY RepoFacts DEF Cleanup, RunInv, Flow, Closing
<1>2. outcome.action = "rollback"
        => repo'.checkpoint \in OldTrees /\ repo'.head \in OldTrees
  BY <1>1, OldRepoFacts DEF RepoIsOld
<1> QED BY <1>1, <1>2

LEMMA FrozenCopy ==
  ASSUME CopyInv, UNCHANGED rollbackVars
  PROVE  CopyInv'
BY DEF rollbackVars, CopyInv, RollbackTypeOK, Untouched, Sealed, Refilling, Verdictful, RepoKnown, Settled

LEMMA TaskKeepsCopy ==
  ASSUME CopyInv, RunInv, TaskNext
  PROVE  CopyInv'
<1>1. CASE TakeCheckpoint
  BY <1>1, CheckpointKeepsCopy DEF TakeCheckpoint
<1>2. CASE AgentStep
  <2>1. ASSUME NEW f \in Failures, Attempt(f)
        PROVE  CopyInv'
    BY <2>1, WorkKeepsCopy DEF Attempt, WorkspaceChanges
  <2> QED BY <1>2, <2>1, ClaimAssumption, JudgedKeepsCopy
          DEF AgentStep, AgentNeedsAuth, AgentFails, AgentClaims
<1>3. CASE RunTests
  BY <1>3, WorkKeepsCopy DEF RunTests
<1>4. CASE WriteProvisional \/ RecordVerdict \/ RewriteDiff
  BY <1>4, FilesKeepCopy
<1>5. CASE Validate
  BY <1>5, JudgedKeepsCopy
<1>6. CASE Settle
  <2>1. LastDiff \in {"nothing", "agent"}
    BY DEF RunInv, RunTypeOK, LastDiff
  <2>2. CASE Preserve \/ CaptureDiff(LastDiff)
    BY <2>1, <2>2, WorkKeepsCopy
  <2>3. CASE RollbackStep
    BY <2>3, RestoreKeepsCopy DEF RollbackStep
  <2> QED BY <1>6, <2>2, <2>3, FrozenCopy DEF Settle
<1>7. CASE ExtendedValidation \/ WriteResult \/ WriteStatus \/ WriteReport
  BY <1>7, FrozenCopy DEF ExtendedValidation, WriteResult, WriteStatus, WriteReport
<1>8. CASE Cleanup
  BY <1>8, CleanupKeepsCopy
<1>9. CASE Throws
  BY <1>9, WorkKeepsCopy, FrozenCopy DEF Throws
<1>10. CASE Crash
  BY <1>10, RestoreKeepsCopy, FrozenCopy DEF Crash
<1> QED BY <1>1, <1>2, <1>3, <1>4, <1>5, <1>6, <1>7, <1>8, <1>9, <1>10 DEF TaskNext, TaskStep

THEOREM CopyInvariance == TaskSpec => []CopyInv
<1>1. TaskInit => CopyInv
  BY RollbackInit0 DEF TaskInit, RollbackInv
<1>2. RunInv /\ CopyInv /\ [TaskNext]_vars => CopyInv'
  BY TaskKeepsCopy, FrozenCopy DEF vars
<1> QED BY <1>1, <1>2, RunInvariance, PTL DEF TaskSpec

(***************************************************************************)
(* What a task started with is in its workspace or in the copy at every    *)
(* moment of the task, whatever agents and tests delete, whichever way the *)
(* rollback fails and wherever the process dies.                           *)
(***************************************************************************)
THEOREM TaskRecoverable == TaskSpec => []SourcesRecoverable
<1>1. CopyInv => SourcesRecoverable
  BY CopyRecovers
<1> QED BY <1>1, CopyInvariance, PTL

-------------------------------------------------------------------------------
(***************************************************************************)
(* The refinement of the checkpoint contract.  Up to the cleanup the phase *)
(* of a task is that of its workspace.                                     *)
(***************************************************************************)
Late == {"report", "done", "crashed"}

LEMMA UpToCleanup ==
  ASSUME pc \notin Late, pc' \notin Late,
         Checkpoint!ContractNext \/ UNCHANGED Checkpoint!contractVars
  PROVE  TaskCheckpoint!ContractNext \/ UNCHANGED TaskCheckpoint!contractVars
<1>1. CASE UNCHANGED Checkpoint!contractVars
  BY <1>1 DEF Late, Checkpoint!contractVars, TaskCheckpoint!contractVars
<1>2. CASE Checkpoint!ContractNext
  BY <1>2 DEF Late, Checkpoint!ContractNext, Checkpoint!Save, Checkpoint!Work, Checkpoint!Keep,
     Checkpoint!RollBack, Checkpoint!PutBack, Checkpoint!Discard, Checkpoint!Succeed,
     Checkpoint!Abandon, Checkpoint!Reclaim, Checkpoint!Recover, Checkpoint!Retire,
     Checkpoint!MayHold, TaskCheckpoint!MayHold, TaskCheckpoint!ContractNext, TaskCheckpoint!Save, TaskCheckpoint!Work, TaskCheckpoint!Keep,
     TaskCheckpoint!RollBack, TaskCheckpoint!PutBack, TaskCheckpoint!Discard,
     TaskCheckpoint!Succeed, TaskCheckpoint!Abandon, TaskCheckpoint!Reclaim,
     TaskCheckpoint!Recover, TaskCheckpoint!Retire
<1> QED BY <1>1, <1>2

LEMMA SamePlace ==
  ASSUME UNCHANGED <<workspace, fsCheckpoint, checkpointMeta, repo, outcome, step>>,
         pc \in Late <=> pc' \in Late, pc' = "crashed" <=> pc = "crashed"
  PROVE  UNCHANGED TaskCheckpoint!contractVars
<1>1. /\ WorkspacePhase' = WorkspacePhase /\ CompleteCopy' = CompleteCopy
      /\ ResetTree' = ResetTree
  BY TreeFacts DEF WorkspacePhase, Restored, CompleteCopy
<1> QED BY <1>1 DEF Late, TaskCheckpoint!contractVars

LEMMA WorkingMaps ==
  ASSUME CopyInv, RunInv, AgentStep \/ RunTests \/ Throws
  PROVE  TaskCheckpoint!ContractNext \/ UNCHANGED TaskCheckpoint!contractVars
<1>1. ASSUME WorkspaceChanges, pc \notin Late, pc' \notin Late
      PROVE  TaskCheckpoint!ContractNext \/ UNCHANGED TaskCheckpoint!contractVars
  BY <1>1, WorkMaps, UpToCleanup
<1>2. CASE AgentStep
  <2>1. ASSUME NEW f \in Failures, AgentNeedsAuth(f) \/ AgentFails(f) \/ AgentClaims(f)
        PROVE  TaskCheckpoint!ContractNext \/ UNCHANGED TaskCheckpoint!contractVars
    <3>1. Attempt(f) /\ pc' \in {"agent", "tests"}
      BY <2>1 DEF AgentNeedsAuth, AgentFails, AgentClaims
    <3>2. pc = "agent" /\ WorkspaceChanges
      BY <3>1 DEF Attempt, WorkspaceChanges
    <3> QED BY <1>1, <3>1, <3>2 DEF Late
  <2>2. CASE AgentSafeStop
    <3>1. /\ pc = "agent" /\ pc' = "record" /\ step = "ready" /\ step' = "ready"
          /\ workspace' \in SUBSET Items
          /\ UNCHANGED <<fsCheckpoint, checkpointMeta>>
      BY <2>2 DEF AgentSafeStop
    <3>2. WorkspacePhase = "working" /\ WorkspacePhase' = "working" /\ CompleteCopy' = CompleteCopy
      BY <3>1, PhaseFacts DEF PhaseOfStep, CompleteCopy
    <3>3. ResetTree' \in TaskCheckpoint!MayHold
      BY <2>2, <3>1, JudgedKeepsCopy, TreeFacts
         DEF CopyInv, RepoKnown, TreeOfRepo, Checkpoint!MayHold, TaskCheckpoint!MayHold
    <3> QED BY <3>1, <3>2, <3>3 DEF TaskCheckpoint!ContractNext, TaskCheckpoint!Work
  <2> QED BY <1>2, <2>1, <2>2, ClaimAssumption DEF AgentStep
<1>3. CASE RunTests
  BY <1>1, <1>3 DEF RunTests, Late
<1>4. CASE Throws
  <2>1. pc \notin Late /\ pc' \notin Late
    BY <1>4 DEF Throws, Late
  <2>2. CASE WorkspaceChanges
    BY <1>1, <2>1, <2>2
  <2>3. CASE UNCHANGED rollbackVars
    BY <2>1, <2>3, SamePlace DEF rollbackVars, Late
  <2> QED BY <1>4, <2>2, <2>3 DEF Throws
<1> QED BY <1>2, <1>3, <1>4

LEMMA SettlingMaps ==
  ASSUME CopyInv, RunInv, TakeCheckpoint \/ Settle
  PROVE  TaskCheckpoint!ContractNext \/ UNCHANGED TaskCheckpoint!contractVars
<1>1. pc \notin Late /\ pc' \notin Late
  BY DEF TakeCheckpoint, Settle, Late
<1>2. CASE TakeCheckpoint
  BY <1>1, <1>2, CheckpointMaps, UpToCleanup DEF TakeCheckpoint
<1>3. CASE Settle
  <2>1. LastDiff \in {"nothing", "agent"}
    BY DEF RunInv, RunTypeOK, LastDiff
  <2>2. CASE Preserve \/ CaptureDiff(LastDiff)
    BY <1>1, <2>1, <2>2, WorkMaps, UpToCleanup
  <2>3. CASE RollbackStep
    BY <1>1, <2>3, RollbackMaps, UpToCleanup
  <2>4. CASE UNCHANGED rollbackVars
    BY <1>1, <2>4, SamePlace DEF rollbackVars, Late
  <2> QED BY <1>3, <2>2, <2>3, <2>4 DEF Settle
<1> QED BY <1>2, <1>3

LEMMA ClosingMaps ==
  ASSUME CopyInv, RunInv,
         WriteProvisional \/ Validate \/ RecordVerdict \/ ExtendedValidation \/ WriteResult
           \/ RewriteDiff \/ WriteStatus \/ Cleanup \/ WriteReport
  PROVE  TaskCheckpoint!ContractNext \/ UNCHANGED TaskCheckpoint!contractVars
<1>1. CASE Cleanup
  <2>1. /\ pc = "cleanup" /\ pc' = "report" /\ step = "settled"
        /\ workspace' \in SUBSET workspace /\ UNCHANGED <<fsCheckpoint, checkpointMeta>>
    BY <1>1 DEF Cleanup, RunInv, Flow, Closing
  <2>2. WorkspacePhase \in {"kept", "restored", "abandoned"} /\ CompleteCopy' = CompleteCopy
    BY <2>1, PhaseFacts DEF PhaseOfStep, CompleteCopy
  <2>3. ResetTree' \in SUBSET Items
    BY <1>1, CleanupKeepsCopy, TreeFacts DEF CopyInv, RollbackTypeOK, TreeOfRepo
  <2> QED BY <2>1, <2>2, <2>3 DEF TaskCheckpoint!ContractNext, TaskCheckpoint!Retire
<1>2. CASE WriteReport
  <2>1. pc = "report" /\ pc' = "done" /\ UNCHANGED rollbackVars
    BY <1>2 DEF WriteReport
  <2> QED BY <2>1, SamePlace DEF rollbackVars, Late
<1>3. CASE WriteProvisional \/ Validate \/ RecordVerdict \/ ExtendedValidation \/ WriteResult
             \/ RewriteDiff \/ WriteStatus
  <2>1. /\ pc \notin Late /\ pc' \notin Late
        /\ UNCHANGED <<workspace, fsCheckpoint, checkpointMeta, repo, outcome, step>>
    BY <1>3 DEF WriteProvisional, Validate, RecordVerdict, ExtendedValidation, WriteResult,
       RewriteDiff, WriteStatus, WriteBundle, WriteBundleDiff, rollbackVars, Late
  <2> QED BY <2>1, SamePlace DEF Late
<1> QED BY <1>1, <1>2, <1>3

LEMMA CrashMaps ==
  ASSUME CopyInv, RunInv, Crash
  PROVE  TaskCheckpoint!ContractNext \/ UNCHANGED TaskCheckpoint!contractVars
<1>1. pc \notin Ended /\ pc' = "crashed" /\ pc \in Places
  BY DEF Crash, RunInv, RunTypeOK
<1>2. CASE DieWiping
  <2>1. /\ step = "wiping" /\ pc = "settle"
        /\ workspace' \in SUBSET workspace /\ UNCHANGED <<fsCheckpoint, checkpointMeta>>
        /\ repo' \in LeftOfRepo
    BY <1>2 DEF DieWiping, WipePartly, RunInv, Flow, RollingBack
  <2>2. WorkspacePhase = "discarding" /\ CompleteCopy' = CompleteCopy
    BY <2>1, PhaseFacts DEF PhaseOfStep, CompleteCopy
  <2>3. RepoIsOld
    BY <2>1 DEF CopyInv, RepoKnown, RepoIsOld
  <2>4. ResetTree' \in TaskCheckpoint!MayHold
    BY <2>1, <2>3, OldRepoFacts, TreeFacts
       DEF CopyInv, RollbackTypeOK, TreeOfRepo, Checkpoint!MayHold, TaskCheckpoint!MayHold
  <2> QED BY <1>1, <2>1, <2>2, <2>4 DEF TaskCheckpoint!ContractNext, TaskCheckpoint!Discard,
             TaskCheckpoint!PutBack
<1>3. CASE ~DieWiping
  <2>1. /\ UNCHANGED <<workspace, fsCheckpoint, checkpointMeta, repo>>
        /\ step \notin {"dead", "manualRefill", "manualDone"}
    BY <1>3 DEF Crash, Die, rollbackVars
  <2>2. WorkspacePhase \in {"preparing", "working", "kept", "discarding", "restored", "abandoned"}
        /\ CompleteCopy' = CompleteCopy /\ ResetTree' = ResetTree
    BY <2>1, PhaseFacts, TreeFacts DEF PhaseOfStep, CompleteCopy, CopyInv, RollbackTypeOK, Steps
  <2> QED BY <1>1, <2>1, <2>2 DEF TaskCheckpoint!ContractNext, TaskCheckpoint!Abandon,
             TaskCheckpoint!contractVars, Ended
<1> QED BY <1>2, <1>3

(***************************************************************************)
(* Every task implements the checkpoint contract: nobody works before the  *)
(* copy is whole or after the rollback has begun, and a crash at any place *)
(* leaves the copy as it was.                                              *)
(***************************************************************************)
THEOREM TaskImplementsContract == TaskSpec => TaskImplementsCheckpoint
<1>1. TaskInit => TaskCheckpoint!ContractInit
  BY PhaseFacts, TreeFacts
     DEF TaskInit, RollbackInit, PhaseOfStep, TreeOfRepo, CompleteCopy, TaskCheckpoint!ContractInit
<1>2. RunInv /\ CopyInv /\ [TaskNext]_vars
        => [TaskCheckpoint!ContractNext]_(TaskCheckpoint!contractVars)
  <2> SUFFICES ASSUME RunInv, CopyInv, [TaskNext]_vars
               PROVE  TaskCheckpoint!ContractNext \/ UNCHANGED TaskCheckpoint!contractVars
    OBVIOUS
  <2>1. CASE TaskNext
    BY <2>1, WorkingMaps, SettlingMaps, ClosingMaps, CrashMaps DEF TaskNext, TaskStep
  <2>2. CASE UNCHANGED vars
    BY <2>2, SamePlace DEF vars, controllerVars, rollbackVars
  <2> QED BY <2>1, <2>2
<1> QED BY <1>1, <1>2, RunInvariance, CopyInvariance, PTL
    DEF TaskSpec, TaskImplementsCheckpoint, TaskCheckpoint!ContractSpec

-------------------------------------------------------------------------------
(***************************************************************************)
(* The gate is strong enough to be used instead of the task: it alone      *)
(* gives that a published success is the verdict, and that the work it     *)
(* stands for was kept.                                                    *)
(***************************************************************************)
THEOREM GateSuffices == ImplementsGate => []Gate!GateKept
<1> USE DEF Gate!GateInv, Gate!GateKept, Gate!GateFlow
<1>1. Gate!GateInit => Gate!GateInv
  BY AbsentIsNothing, StatusFacts DEF Gate!GateInit
<1>2. Gate!GateInv /\ [Gate!GateNext]_(Gate!gateVars) => Gate!GateInv'
  <2> SUFFICES ASSUME Gate!GateInv, [Gate!GateNext]_(Gate!gateVars)
               PROVE  Gate!GateInv'
    OBVIOUS
  <2>1. CASE Gate!Judgement
    BY <2>1, AbsentIsNothing DEF Gate!Judgement
  <2>2. CASE Gate!Settlement
    BY <2>2, AbsentIsNothing DEF Gate!Settlement
  <2>3. CASE Gate!Publication
    BY <2>3, StatusFacts DEF Gate!Publication
  <2>4. CASE Gate!Abandon
    BY <2>4 DEF Gate!Abandon
  <2>5. CASE UNCHANGED Gate!gateVars
    BY <2>5 DEF Gate!gateVars
  <2> QED BY <2>1, <2>2, <2>3, <2>4, <2>5 DEF Gate!GateNext
<1> QED BY <1>1, <1>2, PTL DEF ImplementsGate, Gate!GateSpec

(***************************************************************************)
(* What the gate gives therefore holds of every task.                      *)
(***************************************************************************)
COROLLARY TaskKeepsGate == TaskSpec => []Gate!GateKept
BY TaskImplementsGate, GateSuffices, PTL
==============================================================================
