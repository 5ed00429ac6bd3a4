----------------------------- MODULE FailureDemo -----------------------------
(***************************************************************************)
(* The failure demonstration                                               *)
(* (src/scenarios/public-catalog/failure-demo.ts): an agent breaks the     *)
(* catalog on purpose, the targeted checks must see it, the failed state   *)
(* is kept, the agent repairs within a budget and with a policy of its     *)
(* own, and the independent validator has the last word.  In the           *)
(* unrecoverable mode the agent's output is unsafe and nothing is          *)
(* repaired.                                                               *)
(*                                                                         *)
(* Demos follow each other under one run id (PIPELINE_RUN_ID): the         *)
(* workspace is written over but never emptied, and so is the run          *)
(* directory.                                                              *)
(***************************************************************************)
EXTENDS RetryPolicy

CONSTANTS
  Absent,
  MaxRepairAttempts,  \* options.maxRepairAttempts
  MaxDemos,           \* how many demos are started
  Fixtures,           \* what the two catalogs of evaluation-demo get right
  Readings            \* exit code of the tests, totalItems and archivedLeak as printed

TargetedChecks == {"acceptance-tests", "graphql-products", "storefront-products"}

\* sku: NAIL-001 is among the products; only the broader validation looks at it.
Facts == TargetedChecks \cup {"sku"}

ASSUME FixturesAssumption == Fixtures \subseteq [{"buggy", "reference"} -> SUBSET Facts]

\* targeted.detail: the failed checks and what was read in them.
Details == [checks : SUBSET TargetedChecks, reading : Readings]

\* The text of a failed repair; the signature keeps its numbers.
StillFailing(detail) ==
  [class |-> "recoverable", code |-> "REPAIR_STILL_FAILING", message |-> detail]

ASSUME DemoAssumption ==
  /\ MaxRepairAttempts \in Nat /\ MaxDemos \in Nat
  /\ MaxIdenticalRetries = 2
  /\ MaxTotalAttempts = 2 + MaxRepairAttempts
  /\ Failures = {StillFailing(detail) : detail \in Details}
  /\ FreshMessages = {}

ASSUME AbsentAssumption ==
  /\ Absent \notin [demo : 1..MaxDemos, status : {"PASS", "BLOCK"}]
  /\ Absent \notin [demo : 1..MaxDemos, catalog : {"incomplete", "buggy", "reference", "placeholder"}]

VARIABLES
  fixtures,     \* the fixtures of this checkout
  demo,         \* number of the last demo
  mode,         \* recoverable or unrecoverable
  pc,           \* place in runFailureDemo
  server,       \* whether the demo shop listens
  catalog,      \* content of catalog.mjs in the workspace
  brief,        \* demo that wrote .pipeline/repair-brief.json, 0 if none
  changed,      \* whether the last agent call changed catalog.mjs
  injected,     \* the catalog after the first agent call, under an old brief the reference
  failed,       \* targeted checks that failed
  reading,      \* what their text shows besides
  repairs,      \* repairAttempts
  handed,       \* how often the agent got a brief with this text
  failedState,  \* failed-state/
  status,       \* the status that is finalized
  statusFile, demoFile, verdictFile,  \* status.json, failure-demo.json, validator-verdict.json
  returned,     \* whether the last demo returned a result
  passed        \* demos the broader validation let pass

inputs == <<fixtures, demo, mode>>

workspace == <<catalog, brief, changed, injected>>

loop == <<failed, reading, repairs, handed, failedState>>

outputs == <<status, statusFile, demoFile, verdictFile, returned, passed>>

demoVars == <<fixtures, demo, mode, pc, server, catalog, brief, changed, injected, failed,
              reading, repairs, handed, failedState, status, statusFile, demoFile, verdictFile,
              returned, passed, retryVars>>

Demos == 1..MaxDemos

Catalogs == {"incomplete", "buggy", "reference", "placeholder"}

\* A file with the status of a demo.
StatusFiles == [demo : Demos, status : {"PASS", "BLOCK"}] \cup {Absent}

FailedStates == [demo : Demos, catalog : Catalogs] \cup {Absent}

\* Places with the shop open, and without it.
ShopPlaces == {"inject", "target", "targeted", "loop", "repair", "retarget", "decide",
               "stopped", "validate"}

DemoTypeOK ==
  /\ fixtures \in Fixtures
  /\ demo \in 0..MaxDemos
  /\ pc # "idle" => demo \in Demos
  /\ mode \in {"recoverable", "unrecoverable"}
  /\ pc \in ShopPlaces \cup {"idle", "materialize", "listen", "unsafe",
                             "bundle", "file", "pack", "close"}
  /\ server \in BOOLEAN
  /\ catalog \in Catalogs /\ injected \in Catalogs
  /\ brief \in 0..MaxDemos /\ changed \in BOOLEAN
  /\ failed \in SUBSET TargetedChecks /\ reading \in Readings
  /\ repairs \in 0..MaxRepairAttempts
  /\ handed \in [Details -> Nat]
  /\ failedState \in FailedStates
  /\ status \in {"PASS", "BLOCK"}
  /\ statusFile \in StatusFiles /\ demoFile \in StatusFiles /\ verdictFile \in StatusFiles
  /\ returned \in BOOLEAN
  /\ passed \subseteq Demos
  /\ RetryTypeOK

DemoInit ==
  /\ fixtures \in Fixtures
  /\ demo = 0
  /\ mode = "recoverable"
  /\ pc = "idle"
  /\ server = FALSE
  /\ catalog = "incomplete" /\ injected = "incomplete"
  /\ brief = 0 /\ changed = FALSE
  /\ failed = {} /\ reading \in Readings
  /\ repairs = 0 /\ handed = [detail \in Details |-> 0]
  /\ failedState = Absent
  /\ status = "BLOCK"
  /\ statusFile = Absent /\ demoFile = Absent /\ verdictFile = Absent
  /\ returned = FALSE
  /\ passed = {}
  /\ RetryInit

-------------------------------------------------------------------------------
\* Local variables start afresh, and so does the retry policy.
Start(m) ==
  /\ pc = "idle"
  /\ demo < MaxDemos
  /\ demo' = demo + 1
  /\ mode' = m
  /\ pc' = "materialize"
  /\ failed' = {} /\ repairs' = 0
  /\ handed' = [detail \in Details |-> 0]
  /\ returned' = FALSE
  /\ Reset
  /\ UNCHANGED <<fixtures, server, workspace, reading, failedState, status, statusFile, demoFile,
                 verdictFile, passed>>

\* Copies the app over the workspace; .pipeline is not part of it.
MaterializeEvaluationDemo ==
  /\ pc = "materialize"
  /\ catalog' = "incomplete"
  /\ pc' = IF mode = "recoverable" THEN "listen" ELSE "unsafe"
  /\ UNCHANGED <<inputs, server, brief, changed, injected, loop, outputs, retryVars>>

StartServer ==
  /\ pc = "listen"
  /\ server' = TRUE
  /\ pc' = "inject"
  /\ UNCHANGED <<inputs, workspace, loop, outputs, retryVars>>

\* RecoverableFailureDemoAgent: the brief alone says which of the two it does.
RunAgent ==
  LET content == IF brief = 0 THEN "buggy" ELSE "reference"
  IN  /\ pc \in {"inject", "repair"}
      /\ catalog' = content
      /\ changed' = (catalog # content)
      /\ injected' = IF pc = "inject" THEN content ELSE injected
      /\ pc' = IF pc = "inject" THEN "target" ELSE "retarget"
      /\ UNCHANGED <<inputs, server, brief, loop, outputs, retryVars>>

Detail == [checks |-> failed, reading |-> reading]

\* What the shop shows with a catalog; without a rule it is empty.
Right(content) == IF content \in {"buggy", "reference"} THEN fixtures[content] ELSE {}

\* The tests of a correct catalog may still not exit with 0.
RunTargetedValidation ==
  /\ pc \in {"target", "retarget"}
  /\ \E crashed \in SUBSET {"acceptance-tests"} :
       failed' = (TargetedChecks \ Right(catalog)) \cup crashed
  /\ reading' \in Readings
  /\ pc' = IF pc = "target" THEN "targeted"
           ELSE IF failed' = {} THEN "loop" ELSE "decide"
  /\ UNCHANGED <<inputs, server, workspace, repairs, handed, failedState, outputs, retryVars>>

\* Mutant: the catalog is looked for at a wrong path.
PreserveFailedStateMissing ==
  /\ pc = "targeted"
  /\ failed # {}
  /\ failedState' = [demo |-> demo, catalog |-> Absent]
  /\ pc' = "loop"
  /\ UNCHANGED <<inputs, server, workspace, failed, reading, repairs, handed, outputs, retryVars>>

\* Mutant: what an earlier demo has kept is not written over.
PreserveFailedStateOnce ==
  /\ pc = "targeted"
  /\ failed # {}
  /\ failedState' = IF failedState = Absent THEN [demo |-> demo, catalog |-> catalog]
                    ELSE failedState
  /\ pc' = "loop"
  /\ UNCHANGED <<inputs, server, workspace, failed, reading, repairs, handed, outputs, retryVars>>

PreserveFailedState ==
  /\ pc = "targeted"
  /\ failed # {}
  /\ failedState' = [demo |-> demo, catalog |-> catalog]
  /\ pc' = "loop"
  /\ UNCHANGED <<inputs, server, workspace, failed, reading, repairs, handed, outputs, retryVars>>

\* One turn of the while loop: a brief, then the agent.
WriteRepairBrief ==
  /\ pc = "loop"
  /\ failed # {}
  /\ repairs < MaxRepairAttempts
  /\ repairs' = repairs + 1
  /\ brief' = demo
  /\ handed' = [handed EXCEPT ![Detail] = @ + 1]
  /\ pc' = "repair"
  /\ UNCHANGED <<inputs, server, catalog, changed, injected, failed, reading, failedState,
                 outputs, retryVars>>

Finalize(verdict) ==
  /\ status' = verdict
  /\ pc' = "bundle"

\* Mutant: the answer of the policy is not looked at.
DecideRepairUnasked ==
  /\ pc = "decide"
  /\ RecordAttempt(Signature(StillFailing(Detail)), "recoverable_implementation")
  /\ pc' = IF repairs >= MaxRepairAttempts THEN "stopped" ELSE "loop"
  /\ UNCHANGED <<inputs, server, workspace, loop, outputs>>

\* A refusal of the policy, or the last attempt, breaks the loop.
DecideRepair ==
  /\ pc = "decide"
  /\ RecordAttempt(Signature(StillFailing(Detail)), "recoverable_implementation")
  /\ pc' = IF ~decision'.shouldRetry \/ repairs >= MaxRepairAttempts
             THEN "stopped" ELSE "loop"
  /\ UNCHANGED <<inputs, server, workspace, loop, outputs>>

\* Mutant: a loop that was broken with attempts left is not finalized.
BlockUnrepairedAtLast ==
  /\ pc \in {"loop", "stopped"}
  /\ failed # {}
  /\ repairs >= MaxRepairAttempts
  /\ Finalize("BLOCK")
  /\ UNCHANGED <<inputs, server, workspace, loop, statusFile, demoFile, verdictFile,
                 returned, passed, retryVars>>

\* The loop is broken, or without any attempt allowed it was not entered.
BlockUnrepaired ==
  /\ pc \in {"loop", "stopped"}
  /\ failed # {}
  /\ pc = "loop" => repairs >= MaxRepairAttempts
  /\ Finalize("BLOCK")
  /\ UNCHANGED <<inputs, server, workspace, loop, statusFile, demoFile, verdictFile,
                 returned, passed, retryVars>>

\* The bundle under which the broader validation looks for its evidence.
BroaderBundle ==
  /\ pc = "loop"
  /\ failed = {}
  /\ statusFile' = [demo |-> demo, status |-> "BLOCK"]
  /\ pc' = "validate"
  /\ UNCHANGED <<inputs, server, workspace, loop, status, demoFile, verdictFile, returned,
                 passed, retryVars>>

\* The steps of buildScenarioTask; the exit code of the tests is given as 0, and
\* the browser is a fake.
BroaderMayPass == changed /\ {"sku", "graphql-products"} \subseteq Right(catalog)

\* A request may fail all the same.
RunBroaderValidation ==
  /\ pc = "validate"
  /\ \E verdict \in {"BLOCK"} \cup (IF BroaderMayPass THEN {"PASS"} ELSE {}) :
       /\ verdictFile' = [demo |-> demo, status |-> verdict]
       /\ passed' = IF verdict = "PASS" THEN passed \cup {demo} ELSE passed
       /\ Finalize(verdict)
  /\ UNCHANGED <<inputs, server, workspace, loop, statusFile, demoFile, returned, retryVars>>

\* UnrecoverableFailureDemoAgent: the scan of its output throws a SafetyError.
StopUnsafe ==
  /\ pc = "unsafe"
  /\ catalog' = "placeholder"
  /\ changed' = TRUE
  /\ Finalize("BLOCK")
  /\ UNCHANGED <<inputs, server, brief, injected, loop, statusFile, demoFile, verdictFile,
                 returned, passed, retryVars>>

-------------------------------------------------------------------------------
\* finalizeDemo: the bundle, failure-demo.json, the pack; then the finally.
Result == [demo |-> demo, status |-> status]

WriteBundle ==
  /\ pc = "bundle"
  /\ statusFile' = Result
  /\ pc' = "file"
  /\ UNCHANGED <<inputs, server, workspace, loop, status, demoFile, verdictFile, returned,
                 passed, retryVars>>

WriteDemoFile ==
  /\ pc = "file"
  /\ demoFile' = Result
  /\ pc' = "pack"
  /\ UNCHANGED <<inputs, server, workspace, loop, status, statusFile, verdictFile, returned,
                 passed, retryVars>>

\* Mutant: the verdict is left to the validator.
FinalizePackVerdictLeft ==
  /\ pc = "pack"
  /\ statusFile' = Result
  /\ pc' = "close"
  /\ UNCHANGED <<inputs, server, workspace, loop, status, demoFile, verdictFile, returned,
                 passed, retryVars>>

FinalizePack ==
  /\ pc = "pack"
  /\ verdictFile' = Result
  /\ statusFile' = Result
  /\ pc' = "close"
  /\ UNCHANGED <<inputs, server, workspace, loop, status, demoFile, returned, passed,
                 retryVars>>

Close ==
  /\ pc = "close"
  /\ server' = FALSE
  /\ returned' = TRUE
  /\ pc' = "idle"
  /\ UNCHANGED <<inputs, workspace, loop, status, statusFile, demoFile, verdictFile, passed,
                 retryVars>>

\* Mutant: a bug the checks do not see is no reason to stop.
RefuseInvalidDemoNot ==
  /\ pc = "targeted"
  /\ failed = {}
  /\ pc' = "loop"
  /\ UNCHANGED <<inputs, server, workspace, loop, outputs, retryVars>>

\* The bug was not seen: the demo is invalid.
RefuseInvalidDemo ==
  /\ pc = "targeted"
  /\ failed = {}
  /\ server' = FALSE
  /\ pc' = "idle"
  /\ UNCHANGED <<inputs, workspace, loop, outputs, retryVars>>

\* Mutant: the shop is closed before the return only.
ThrowsOpen ==
  /\ pc # "idle"
  /\ pc' = "idle"
  /\ UNCHANGED <<inputs, server, workspace, loop, outputs, retryVars>>

\* A file, a request or the agent throws; the finally closes the shop.
Throws ==
  /\ pc # "idle"
  /\ server' = FALSE
  /\ pc' = "idle"
  /\ UNCHANGED <<inputs, workspace, loop, outputs, retryVars>>

DemoStep ==
  \/ MaterializeEvaluationDemo \/ StartServer \/ RunAgent \/ RunTargetedValidation
  \/ RefuseInvalidDemo \/ PreserveFailedState
  \/ WriteRepairBrief \/ DecideRepair \/ BlockUnrepaired
  \/ BroaderBundle \/ RunBroaderValidation
  \/ StopUnsafe
  \/ WriteBundle \/ WriteDemoFile \/ FinalizePack \/ Close

DemoNext ==
  \/ \E m \in {"recoverable", "unrecoverable"} : Start(m)
  \/ DemoStep
  \/ Throws

DemoSpec == DemoInit /\ [][DemoNext]_demoVars

\* Every call returns or throws: the requests go to the shop of this process.
FairDemoSpec == DemoSpec /\ WF_demoVars(DemoStep)

-------------------------------------------------------------------------------
(***************************************************************************)
(* Properties                                                              *)
(***************************************************************************)

(***************************************************************************)
(* docs/AUTONOMOUS_DEBUGGING.md: the failed state is preserved before the  *)
(* repair.  Whenever the agent may have repaired, failed-state/ holds the  *)
(* catalog with which the checks of this demo failed (the one its first    *)
(* agent call left, under the brief of an earlier demo the reference), not *)
(* one of an earlier demo and not the one a repair wrote.                  *)
(***************************************************************************)
FailedStateIsKept ==
  pc # "idle" /\ repairs > 0 =>
    failedState = [demo |-> demo, catalog |-> injected]

(***************************************************************************)
(* A demo passes only after it has broken the catalog itself and seen it   *)
(* fail, and with a catalog that was changed by the last repair and        *)
(* satisfies every check, the acceptance tests among them, whose exit code *)
(* the broader validation does not ask for.  A repair brief that an        *)
(* earlier demo left behind makes the first agent call a repair, and the   *)
(* demo must not pass.                                                     *)
(***************************************************************************)
PassIsEarned ==
  status = "PASS" /\ pc \in {"bundle", "file", "pack", "close"} =>
    /\ mode = "recoverable"
    /\ repairs > 0
    /\ failedState = [demo |-> demo, catalog |-> injected]
    /\ changed
    /\ Facts \subseteq Right(catalog)

(***************************************************************************)
(* Whatever demos share a directory and wherever they died: a PASS in      *)
(* status.json, failure-demo.json or validator-verdict.json names a demo   *)
(* the broader validation let pass, and when a demo has returned the three *)
(* are its own and agree.                                                  *)
(***************************************************************************)
DemoFiles == {statusFile, demoFile, verdictFile}

DemoFilesAgree ==
  /\ \A file \in DemoFiles \ {Absent} : file.status = "PASS" => file.demo \in passed
  /\ returned => DemoFiles = {Result}

(***************************************************************************)
(* The agent is never handed the same failure text more often than         *)
(* identical failures are tolerated, however many repairs are allowed and  *)
(* whatever fails in between.  The failure that was injected is not        *)
(* counted by the policy.  The text names the failed checks and the        *)
(* numbers read in them: the same checks with other numbers are another    *)
(* failure, which only the number of repairs limits.                       *)
(***************************************************************************)
SameFailureHandedTwice ==
  \A detail \in Details : handed[detail] <= MaxIdenticalRetries

(***************************************************************************)
(* However a demo ends, with a result, refused or with an error, its shop  *)
(* no longer listens.                                                      *)
(***************************************************************************)
ShopIsClosed == pc = "idle" => ~server

(***************************************************************************)
(* Why a demo ends: no two steps of it repeat.  Each starts another demo,  *)
(* or uses up a repair, or is further on the way to the end of this one,   *)
(* the step after an error included; and the repairs are limited.          *)
(***************************************************************************)
DistanceToEnd(place) ==
  CASE place = "materialize" -> 14
    [] place = "listen"      -> 13
    [] place = "inject"      -> 12
    [] place = "target"      -> 11
    [] place = "targeted"    -> 10
    [] place = "repair"      -> 9
    [] place = "retarget"    -> 8
    [] place = "decide"      -> 7
    [] place = "loop"        -> 6
    [] place \in {"stopped", "validate", "unsafe"} -> 5
    [] place = "bundle"      -> 4
    [] place = "file"        -> 3
    [] place = "pack"        -> 2
    [] place = "close"       -> 1
    [] OTHER                 -> 0

NearerToEnd ==
  \/ demo' = demo + 1 /\ demo' <= MaxDemos
  \/ demo' = demo /\ repairs' = repairs + 1 /\ repairs' <= MaxRepairAttempts
  \/ demo' = demo /\ repairs' = repairs /\ DistanceToEnd(pc') < DistanceToEnd(pc)

EveryDemoStepIsNearer == [][NearerToEnd]_demoVars

(***************************************************************************)
(* Every demo that is started comes to an end.                             *)
(***************************************************************************)
DemoEnds == pc # "idle" ~> pc = "idle"
=============================================================================
