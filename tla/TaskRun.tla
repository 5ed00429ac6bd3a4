------------------------------- MODULE TaskRun -------------------------------
(***************************************************************************)
(* One task from checkpoint to report: TaskRunner.execute                  *)
(* (src/execution/task-runner.ts) around PipelineController.run            *)
(* (src/controller/pipeline-controller.ts), with the retry policy and the  *)
(* rollback policy they call.                                              *)
(*                                                                         *)
(* pc is the place in this sequence.  Between two places only local        *)
(* variables change; a step that awaits something or writes a file that    *)
(* outlives the process is an action, so that the process may die between  *)
(* any two of them.  The agent, the tests, the checks of the validator and *)
(* the extended stages are the environment: any result.                    *)
(***************************************************************************)
EXTENDS RetryPolicy, WorkspaceRollback

CONSTANTS
  Claims,        \* outcomes in which the agent claims success
  CaptureSkips   \* items in directories the change capture does not look at

ASSUME ClaimAssumption == Claims \subseteq Failures

ASSUME StatusAssumption == {"AUTH_REQUIRED", "CLIENT_DECISION"} \subseteq Statuses

VARIABLES
  pc,
  lastDiff,         \* lastOutcome.diff, Absent as long as lastOutcome is null
  authRequired,
  clientDecision,
  hardStop,
  validatorStatus,  \* decision.status of the validator, Absent before it ran
  judged,           \* the workspace it looked at
  runStatus,        \* the status of the task, after the extended stages
  statusFile,       \* status in status.json
  resultFile,       \* status in result.json
  report            \* status in report.json

controllerVars == <<pc, lastDiff, authRequired, clientDecision, hardStop,
                    validatorStatus, judged>>
fileVars == <<runStatus, statusFile, resultFile, report>>
vars == <<retryVars, rollbackVars, controllerVars, fileVars>>

Ended == {"done", "threw", "crashed"}

Places == {"checkpoint", "agent", "tests", "provisional", "validate", "record",
           "settle", "extended", "result", "rediff", "status", "cleanup",
           "report"} \cup Ended

TaskTypeOK ==
  /\ RetryTypeOK
  /\ RollbackTypeOK
  /\ pc \in Places
  /\ lastDiff \in {"nothing", "agent", Absent}
  /\ authRequired \in BOOLEAN
  /\ clientDecision \in BOOLEAN
  /\ hardStop \in {"none", "BLOCK", "CIRCUIT_BREAK"}
  /\ validatorStatus \in SuccessStatuses \cup {"BLOCK", Absent}
  /\ judged \in (SUBSET Items) \cup {Absent}
  /\ {runStatus, statusFile, resultFile, report} \subseteq Statuses \cup {Absent}

TaskInit ==
  /\ RetryInit
  /\ RollbackInit
  /\ pc = "checkpoint"
  /\ lastDiff = Absent
  /\ authRequired = FALSE
  /\ clientDecision = FALSE
  /\ hardStop = "none"
  /\ validatorStatus = Absent
  /\ judged = Absent
  /\ runStatus = Absent
  /\ statusFile = Absent
  /\ resultFile = Absent
  /\ report = Absent

-------------------------------------------------------------------------------
\* createPreAgentCheckpoint
TakeCheckpoint ==
  /\ pc = "checkpoint"
  /\ \/ /\ BeginSnapshot \/ CopyEntry \/ FinishSnapshot
        /\ UNCHANGED pc
     \/ /\ CommitCheckpoint
        /\ pc' = "agent"
  /\ UNCHANGED <<retryVars, lastDiff, authRequired, clientDecision, hardStop,
                 validatorStatus, judged, fileVars>>

(***************************************************************************)
(* agent.run and what the loop does with the outcome.  An adapter compares *)
(* the workspace before and after this attempt only, and an attempt that   *)
(* timed out or whose answer cannot be parsed reports no change at all.    *)
(***************************************************************************)
SilentCodes == {"AGENT_TIMEOUT", "MALFORMED_OUTPUT", "FORBIDDEN_PIPELINE_VERDICT",
                "OPENHANDS_NOT_AVAILABLE"}

AttemptDiff(ws, f) ==
  LET changed == ((ws \ workspace) \cup (workspace \ ws)) \ CaptureSkips IN
  IF f.code \in SilentCodes \/ changed = {} THEN "nothing" ELSE "agent"

Attempt(f) ==
  /\ pc = "agent"
  /\ \E ws \in SUBSET Items :
       /\ ChangeWorkspace(ws)
       /\ lastDiff' = AttemptDiff(ws, f)
  /\ UNCHANGED <<validatorStatus, judged, fileVars>>

AgentNeedsAuth(f) ==
  /\ f.class = "auth_required"
  /\ Attempt(f)
  /\ DecideAuthRequired(Signature(f))
  /\ authRequired' = TRUE
  /\ pc' = "tests"
  /\ UNCHANGED <<clientDecision, hardStop>>

\* A claim of success is handed to the validator, also after an unsafe
\* failure, which only trips the breaker.
AgentClaims(f) ==
  /\ f.class # "auth_required"
  /\ Attempt(f)
  /\ IF KindOf(f) = "unsafe_unknown"
       THEN RecordAttempt(Signature(f), "unsafe_unknown")
       ELSE UNCHANGED retryVars
  /\ pc' = "tests"
  /\ UNCHANGED <<authRequired, clientDecision, hardStop>>

AgentFails(f) ==
  /\ f.class # "auth_required"
  /\ Attempt(f)
  /\ DecideFailure(f)
  /\ authRequired' = (authRequired \/ decision'.disposition = "AUTH_REQUIRED")
  /\ clientDecision' = (clientDecision \/ decision'.disposition = "CLIENT_DECISION")
  /\ hardStop' = IF decision'.disposition \in {"BLOCK", "CIRCUIT_BREAK"}
                   THEN decision'.disposition ELSE hardStop
  /\ pc' = IF decision'.shouldRetry THEN "agent" ELSE "tests"

(***************************************************************************)
(* The output or a changed path violates the safety kernel: the attempt    *)
(* leaves no outcome behind, and finalizeBlocked takes over.  Its          *)
(* signature is counted once and never compared.                           *)
(***************************************************************************)
AgentSafeStop ==
  /\ pc = "agent"
  /\ \E ws \in SUBSET Items :
       /\ step = "ready"
       /\ workspace' = ws
       /\ repo' \in LeftByAgent
  /\ Trip
  /\ decision' = StopDecision("unsafe_unknown", "stop", "BLOCK", NoCategory)
  /\ totalAttempts' = TotalUp
  /\ status' = "BLOCK"
  /\ pc' = "record"
  /\ UNCHANGED <<identicalCounts, fsCheckpoint, checkpointMeta, gitDiff, diffPatch,
                 outcome, step, lastDiff, authRequired, clientDecision,
                 hardStop, validatorStatus, judged, fileVars>>

-------------------------------------------------------------------------------
\* deps.runTests; tests may write to the workspace like the agent.
RunTests ==
  /\ pc = "tests"
  /\ WorkspaceChanges
  /\ pc' = "provisional"
  /\ UNCHANGED <<retryVars, lastDiff, authRequired, clientDecision, hardStop,
                 validatorStatus, judged, fileVars>>

\* evidence.writeBundle: the files of lastOutcome, or empty ones.
LastDiff == IF lastDiff = Absent THEN "nothing" ELSE lastDiff

WriteBundle(st) ==
  /\ WriteBundleDiff(LastDiff)
  /\ statusFile' = st

\* Mutant: the flags of the loop are left to the validator.
StatusOfValidator(otherwise) == otherwise

StatusOf(otherwise) ==
  IF authRequired THEN "AUTH_REQUIRED"
  ELSE IF clientDecision THEN "CLIENT_DECISION"
  ELSE otherwise

WriteProvisional ==
  /\ pc = "provisional"
  /\ WriteBundle(StatusOf("BLOCK"))
  /\ pc' = "validate"
  /\ UNCHANGED <<retryVars, lastDiff, authRequired, clientDecision, hardStop,
                 validatorStatus, judged, runStatus, resultFile, report>>

\* Mutant: a broken circuit does not count as a stop.
RunStatusUnbroken(decided) == StatusOf(IF hardStop = "BLOCK" THEN "BLOCK" ELSE decided)

RunStatus(decided) == StatusOf(IF hardStop = "none" THEN decided ELSE "BLOCK")

\* The validator decides, unless a flag of the loop overrides it.
Validate ==
  /\ pc = "validate"
  /\ validatorStatus' \in SuccessStatuses \cup {"BLOCK"}
  /\ judged' = workspace
  /\ IF ~authRequired /\ validatorStatus' = "BLOCK"
       THEN RecordValidationFailure
       ELSE UNCHANGED retryVars
  /\ status' = RunStatus(validatorStatus')
  /\ pc' = "record"
  /\ UNCHANGED <<workspace, fsCheckpoint, checkpointMeta, repo, gitDiff, diffPatch,
                 outcome, step, lastDiff, authRequired, clientDecision, hardStop,
                 fileVars>>

\* Mutant: the provisional bundle has to do.
RecordVerdictLater ==
  /\ pc = "record"
  /\ pc' = "settle"
  /\ UNCHANGED <<retryVars, rollbackVars, lastDiff, authRequired, clientDecision,
                 hardStop, validatorStatus, judged, fileVars>>

\* The final bundle of run(), or the only one of finalizeBlocked().
RecordVerdict ==
  /\ pc = "record"
  /\ WriteBundle(status)
  /\ pc' = "settle"
  /\ UNCHANGED <<retryVars, lastDiff, authRequired, clientDecision, hardStop,
                 validatorStatus, judged, runStatus, resultFile, report>>

\* Mutant: the rollback is not awaited.
SettleUnawaited ==
  /\ pc = "settle"
  /\ \/ /\ \/ Preserve
           \/ CaptureDiff(LastDiff)
           \/ RollbackStep
        /\ UNCHANGED pc
     \/ /\ pc' = "extended"
        /\ UNCHANGED rollbackVars
  /\ UNCHANGED <<retryVars, lastDiff, authRequired, clientDecision, hardStop,
                 validatorStatus, judged, fileVars>>

\* applyRollbackPolicy, then the return to TaskRunner.
Settle ==
  /\ pc = "settle"
  /\ \/ /\ \/ Preserve
           \/ CaptureDiff(LastDiff)
           \/ RollbackStep
        /\ UNCHANGED pc
     \/ /\ step = "settled"
        /\ pc' = "extended"
        /\ UNCHANGED rollbackVars
  /\ UNCHANGED <<retryVars, lastDiff, authRequired, clientDecision, hardStop,
                 validatorStatus, judged, fileVars>>

-------------------------------------------------------------------------------
(***************************************************************************)
(* TaskRunner.execute after controller.run: the load and red-team stages,  *)
(* finalizeEvidencePack file by file, cleanup, report.                     *)
(***************************************************************************)
\* Mutant: a stage that passes lifts a block.
ExtendedValidationDecides ==
  /\ pc = "extended"
  /\ runStatus' \in {"PASS", "BLOCK"}
  /\ pc' = "result"
  /\ UNCHANGED <<retryVars, rollbackVars, lastDiff, authRequired, clientDecision,
                 hardStop, validatorStatus, judged, statusFile, resultFile, report>>

ExtendedValidation ==
  /\ pc = "extended"
  /\ runStatus' \in {status, "BLOCK"}
  /\ pc' = "result"
  /\ UNCHANGED <<retryVars, rollbackVars, lastDiff, authRequired, clientDecision,
                 hardStop, validatorStatus, judged, statusFile, resultFile, report>>

WriteResult ==
  /\ pc = "result"
  /\ resultFile' = runStatus
  /\ pc' = "rediff"
  /\ UNCHANGED <<retryVars, rollbackVars, lastDiff, authRequired, clientDecision,
                 hardStop, validatorStatus, judged, runStatus, statusFile, report>>

\* git-diff.patch is written again, from diff.patch.
RewriteDiff ==
  /\ pc = "rediff"
  /\ gitDiff' = diffPatch
  /\ pc' = "status"
  /\ UNCHANGED <<retryVars, workspace, fsCheckpoint, checkpointMeta, repo, diffPatch,
                 outcome, status, step, lastDiff, authRequired, clientDecision,
                 hardStop, validatorStatus, judged, fileVars>>

WriteStatus ==
  /\ pc = "status"
  /\ statusFile' = runStatus
  /\ pc' = "cleanup"
  /\ UNCHANGED <<retryVars, rollbackVars, lastDiff, authRequired, clientDecision,
                 hardStop, validatorStatus, judged, runStatus, resultFile, report>>

\* task.cleanupWorkspace; a removal that fails leaves a part behind.
Cleanup ==
  /\ pc = "cleanup"
  /\ workspace' \in SUBSET workspace
  /\ repo' \in LeftOfRepo
  /\ pc' = "report"
  /\ UNCHANGED <<retryVars, fsCheckpoint, checkpointMeta, gitDiff, diffPatch, outcome,
                 status, step, lastDiff, authRequired, clientDecision, hardStop,
                 validatorStatus, judged, fileVars>>

WriteReport ==
  /\ pc = "report"
  /\ report' = runStatus
  /\ pc' = "done"
  /\ UNCHANGED <<retryVars, rollbackVars, lastDiff, authRequired, clientDecision,
                 hardStop, validatorStatus, judged, runStatus, statusFile, resultFile>>

-------------------------------------------------------------------------------
(***************************************************************************)
(* The agent, the tests, a check or an extended stage throws: nothing      *)
(* between it and the caller of execute() catches anything but a           *)
(* SafetyError of the agent phase.  And the process may die.               *)
(***************************************************************************)
Throws ==
  /\ \/ /\ pc \in {"agent", "tests"}
        /\ WorkspaceChanges
     \/ /\ pc \in {"validate", "extended"}
        /\ UNCHANGED rollbackVars
  /\ pc' = "threw"
  /\ UNCHANGED <<retryVars, lastDiff, authRequired, clientDecision, hardStop,
                 validatorStatus, judged, fileVars>>

Crash ==
  /\ pc \notin Ended
  /\ Die \/ DieWiping \/ (step = "settled" /\ UNCHANGED rollbackVars)
  /\ pc' = "crashed"
  /\ UNCHANGED <<retryVars, lastDiff, authRequired, clientDecision, hardStop,
                 validatorStatus, judged, fileVars>>

AgentStep ==
  \/ \E f \in Failures : AgentNeedsAuth(f) \/ AgentFails(f)
  \/ \E f \in Claims : AgentClaims(f)
  \/ AgentSafeStop

TaskStep ==
  \/ TakeCheckpoint
  \/ AgentStep
  \/ RunTests \/ WriteProvisional \/ Validate \/ RecordVerdict \/ Settle
  \/ ExtendedValidation \/ WriteResult \/ RewriteDiff \/ WriteStatus \/ Cleanup
  \/ WriteReport
  \/ Throws

TaskNext == TaskStep \/ Crash

TaskSpec == TaskInit /\ [][TaskNext]_vars

(***************************************************************************)
(* Every step but a crash is taken eventually: execute() is one async      *)
(* function without waits of its own, the process runner kills an agent at *)
(* its timeout (a descendant of it that kept its pipes open would hold the *)
(* runner back; there is none here), and the checks have timeouts.         *)
(***************************************************************************)
FairTaskSpec == TaskSpec /\ WF_vars(TaskStep)

-------------------------------------------------------------------------------
(***************************************************************************)
(* Properties                                                              *)
(***************************************************************************)
Success(st) == st \in SuccessStatuses

(***************************************************************************)
(* No file ever shows a success the validator has not given: at every      *)
(* moment, also one at which the process dies, a success in status.json,   *)
(* result.json or report.json is the validator's own status, nothing in    *)
(* the loop stood against it, and until the final cleanup the workspace is *)
(* the one the validator looked at.                                        *)
(***************************************************************************)
SuccessIsJudged ==
  \A st \in {statusFile, resultFile, report} :
    Success(st) => /\ st = validatorStatus
                   /\ ~authRequired /\ ~clientDecision /\ hardStop = "none"
                   /\ pc \in {"report", "done", "crashed"} \/ workspace = judged

(***************************************************************************)
(* The verdict is on disk before the workspace is touched: once a rollback *)
(* has begun, status.json holds the status it is done for, so that a run   *)
(* found dead with its workspace half restored says why.                   *)
(***************************************************************************)
RollingBack == {"captured", "wiping", "refilling", "restored", "failed"}

VerdictBeforeRollback ==
  step \in RollingBack => statusFile = status /\ ~Success(status)

(***************************************************************************)
(* The recorded fate of the workspace follows the status of the            *)
(* controller: preserved exactly for a success, and then untouched since   *)
(* the validator saw it.                                                   *)
(***************************************************************************)
FateFollowsVerdict ==
  outcome # Absent =>
    /\ outcome.status = status
    /\ outcome.action = "preserve" <=> Success(status)
    /\ outcome.action = "preserve" /\ pc \in {"settle", "extended", "result", "rediff",
                                              "status", "cleanup"}
         => workspace = judged

(***************************************************************************)
(* The files of a finished task agree on its status.                       *)
(***************************************************************************)
FilesAgree == pc = "done" => report = resultFile /\ report = statusFile

(***************************************************************************)
(* A stop of the policy that asks for a credential or for the client, or   *)
(* that breaks the circuit, keeps the task from a success, however good    *)
(* the validator finds the workspace.  (BLOCK is not among them, nor are   *)
(* RETRY_ONCE and AGENT_INVESTIGATE: an exhausted row of these sets no     *)
(* hardStop, and the verdict stays with the validator.)                    *)
(***************************************************************************)
StopsHold ==
  Success(status) =>
    decision.disposition \notin {"AUTH_REQUIRED", "CLIENT_DECISION", "CIRCUIT_BREAK"}

(***************************************************************************)
(* A task ends, if no failure text is new each time: with a finite set of  *)
(* failures the breaker bounds the attempts, and every rollback comes to   *)
(* an end.                                                                 *)
(***************************************************************************)
Terminates == <>(pc \in Ended)

(***************************************************************************)
(* Why it ends: no step of a task can be taken again and again.  With no   *)
(* text that is new each time, a retry uses up an occurrence the breaker   *)
(* tolerates and no count is ever taken back; any other step comes nearer  *)
(* to the end of the task, or of the checkpoint or rollback it is in, or   *)
(* copies one entry more.                                                  *)
(***************************************************************************)
PlacesLeft(place) ==
  CASE place = "checkpoint"  -> 13
    [] place = "agent"       -> 12
    [] place = "tests"       -> 11
    [] place = "provisional" -> 10
    [] place = "validate"    -> 9
    [] place = "record"      -> 8
    [] place = "settle"      -> 7
    [] place = "extended"    -> 6
    [] place = "result"      -> 5
    [] place = "rediff"      -> 4
    [] place = "status"      -> 3
    [] place = "cleanup"     -> 2
    [] place = "report"      -> 1
    [] OTHER                 -> 0

StepsLeft(at) ==
  CASE at = "new"                  -> 8
    [] at = "copying"              -> 7
    [] at = "committing"           -> 6
    [] at = "ready"                -> 5
    [] at = "captured"             -> 4
    [] at = "wiping"               -> 3
    [] at = "refilling"            -> 2
    [] at \in {"restored", "failed"} -> 1
    [] OTHER                       -> 0

ToCopy ==
  CASE step = "copying"   -> Copied(workspace) \ fsCheckpoint
    [] step = "refilling" -> fsCheckpoint \ workspace
    [] OTHER              -> {}

Descends ==
  /\ \A s \in Signatures : identicalCounts[s] <= identicalCounts'[s]
  /\ \/ \E s \in Signatures : identicalCounts[s] < identicalCounts'[s]
     \/ PlacesLeft(pc') < PlacesLeft(pc)
     \/ pc' = pc /\ StepsLeft(step') < StepsLeft(step)
     \/ pc' = pc /\ step' = step /\ ToCopy' \subseteq ToCopy /\ ToCopy' # ToCopy

EveryStepDescends == [][Descends]_vars

(***************************************************************************)
(* The task implements the gate.  The work is judged when the controller   *)
(* sets its status (the validator, or a safe stop), and published when     *)
(* TaskRunner has the final status.                                        *)
(***************************************************************************)
Gate == INSTANCE VerdictGate WITH
  Verdicts  <- Statuses,
  Successes <- SuccessStatuses,
  Unjudged  <- Absent,
  phase     <- IF pc \in {"threw", "crashed"} /\ runStatus = Absent THEN "abandoned"
               ELSE IF runStatus # Absent THEN "closed"
               ELSE IF status # Absent THEN "judged"
               ELSE "open",
  verdict   <- status,
  kept      <- IF outcome = Absent THEN "undecided"
               ELSE IF outcome.action = "preserve" THEN "kept"
               ELSE "discarded",
  published <- runStatus

ImplementsGate == Gate!GateSpec

(***************************************************************************)
(* A task implements the checkpoint contract too: it is the agent, the     *)
(* tests and the safe stop that work, only between the checkpoint and the  *)
(* rollback; nothing that TaskRunner does after the verdict touches the    *)
(* workspace before its cleanup; and neither a step of the task nor a      *)
(* crash touches the copy.                                                 *)
(***************************************************************************)
TaskCheckpoint == INSTANCE CheckpointContract WITH
  All       <- Items,
  Original  <- Sources,
  LeftOut   <- NodeModules,
  Removable <- Edits \ (Ignored \cup Nested),
  Commits   <- AgentTrees,
  None      <- Absent,
  phase     <- IF pc = "crashed" THEN "abandoned"
               ELSE IF pc \in {"report", "done"} THEN "retired"
               ELSE WorkspacePhase,
  copy      <- CompleteCopy,
  commit    <- ResetTree

TaskImplementsCheckpoint == TaskCheckpoint!ContractSpec
==============================================================================
