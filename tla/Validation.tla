----------------------------- MODULE Validation -----------------------------
(***************************************************************************)
(* IndependentValidator.validate (src/validator/independent-validator.ts)  *)
(* on a task: its steps one after another, each a request to the system    *)
(* under test, a look at a file, or a browser that is launched, led        *)
(* through pages and closed; then the acceptance tests, the list of the    *)
(* results and the status.                                                 *)
(*                                                                         *)
(* The system under test may answer anything: a step picks its answer, and *)
(* held records whether what the step claims was so when it looked.        *)
(***************************************************************************)
EXTENDS ScenarioCompiler

CONSTANT Tasks  \* the tasks that are validated

\* A task has a step, and at most one journey, which is not empty.
ASSUME TaskAssumption ==
  \A t \in Tasks :
    /\ Len(t.steps) \in Nat \ {0}
    /\ Len(t.journey) \in Nat
    /\ \A i, j \in 1..Len(t.steps) :
         t.steps[i].type = "browser_journey" /\ t.steps[j].type = "browser_journey"
           => i = j /\ Len(t.journey) > 0

VARIABLES
  task,         \* the task that is validated
  mode,         \* baseline or acceptance
  network,      \* PIPELINE_ALLOW_NETWORK, or a scenario that allows it
  pc,           \* place in validate()
  results,      \* one for each step that is through
  pending,      \* result of the browser check whose page is to be closed
  walked,       \* outcomes of the actions of the journey
  shots,        \* files in screenshots/
  journeyFile,  \* status in playwright-results.json, none if there is no file
  browsers,     \* browsers that are open
  lost,         \* launches whose newPage failed
  exit,         \* of the acceptance tests
  status        \* what validate() returns

checkVars == <<task, mode, network, pc, results, pending, walked, shots, journeyFile,
               browsers, lost, exit, status>>

CheckStatuses == {"PASS", "FAIL", "ERROR"}

Tests == {"zero", "nonzero", "none"}

Results == [status : CheckStatuses, held : BOOLEAN]

ValidationTypeOK ==
  /\ task \in Tasks /\ mode \in {"baseline", "acceptance"} /\ network \in BOOLEAN
  /\ pc \in {"check", "visit", "walk", "finish", "close", "tests", "list", "decide",
             "done", "thrown"}
  /\ results \in Seq(Results) /\ pending \in Results
  /\ walked \in Seq(CheckStatuses)
  /\ journeyFile \in CheckStatuses \cup {"none"}
  /\ browsers \in Nat /\ lost \in Nat
  /\ exit \in Tests
  /\ status \in {"none", "PASS", "BLOCK", "BASELINE_BLOCKED_EXPECTED"}

NoResult == [status |-> "ERROR", held |-> FALSE]

ValidationInit ==
  /\ task \in Tasks
  /\ mode \in {"baseline", "acceptance"}
  /\ network \in BOOLEAN
  /\ pc = "check"
  /\ results = <<>>
  /\ pending = NoResult
  /\ walked = <<>>
  /\ shots = {}
  /\ journeyFile = "none"
  /\ browsers = 0 /\ lost = 0
  /\ exit \in Tests
  /\ status = "none"

\* The step that is due.
Step == task.steps[Len(results) + 1]

Record(result) ==
  /\ results' = Append(results, result)
  /\ pc' = IF Len(results) + 1 < Len(task.steps) THEN "check" ELSE "tests"

Unchanged == UNCHANGED <<task, mode, network, exit>>

BrowserFree == UNCHANGED <<pending, walked, shots, journeyFile, browsers, lost, status>>

-------------------------------------------------------------------------------
(***************************************************************************)
(* The checks that need no browser.  An answer: refused (the call throws), *)
(* other (a different status, text that is no JSON, a file without the     *)
(* marker, a tree that lost files or its nesting, a service that is not    *)
(* ready), missing (no such path, row or file, no such change), nothing    *)
(* (null or zero where the value should be), partial (the value, next to   *)
(* errors), there.  A ping does not ask for the network.                   *)
(***************************************************************************)
HttpTypes == {"application_health", "http_response"}

BrowserTypes == {"browser_playwright", "browser_journey"}

NetworkTypes == HttpTypes \cup BrowserTypes \cup {"graphql_request"}

PingTypes == {"redis_ping", "postgres_ready"}

\* A call that throws is an ERROR, anything but the expected a FAIL.
JudgePlain(step, answer) ==
  CASE answer = "refused" -> "ERROR"
    [] answer = "there"   -> "PASS"
    [] OTHER              -> "FAIL"

\* Only an undefined value is a missing one.
JudgeGraphql(step, answer) ==
  CASE answer = "refused" -> "ERROR"
    [] answer = "there"   -> "PASS"
    [] answer = "partial" -> IF step.noErrors THEN "FAIL" ELSE "PASS"
    [] answer = "nothing" -> IF step.equals THEN "FAIL" ELSE "PASS"
    [] OTHER              -> "FAIL"

\* A fixture value that is no list counts as one row, whatever it is.
JudgeDatabase(step, answer) ==
  CASE answer = "refused" -> "ERROR"
    [] answer = "there"   -> "PASS"
    [] answer = "nothing" -> IF step.equals THEN "FAIL" ELSE "PASS"
    [] OTHER              -> "FAIL"

\* What each check tells apart.
HealthAnswers == {"refused", "other", "there"}

HttpAnswers == {"refused", "other", "there"}

GraphqlAnswers == {"refused", "other", "missing", "nothing", "partial", "there"}

DatabaseAnswers == {"refused", "missing", "nothing", "there"}

ExistsAnswers == {"refused", "missing", "there"}

ContainsAnswers == {"refused", "missing", "other", "there"}

ChangedAnswers == {"missing", "there"}

TreeAnswers == {"refused", "missing", "other", "there"}

PingAnswers == {"refused", "other", "there"}

Answers(type) ==
  CASE type = "application_health"      -> HealthAnswers
    [] type = "http_response"           -> HttpAnswers
    [] type = "graphql_request"         -> GraphqlAnswers
    [] type = "database_state"          -> DatabaseAnswers
    [] type = "workspace_file_exists"   -> ExistsAnswers
    [] type = "workspace_file_contains" -> ContainsAnswers
    [] type = "changed_files_include"   -> ChangedAnswers
    [] type = "path_invariant"          -> TreeAnswers
    [] type \in PingTypes               -> PingAnswers
    [] OTHER                            -> {}

Judge(step, answer) ==
  CASE step.type = "graphql_request" -> JudgeGraphql(step, answer)
    [] step.type = "database_state"  -> JudgeDatabase(step, answer)
    [] OTHER                         -> JudgePlain(step, answer)

Asks ==
  /\ pc = "check"
  /\ Step.type \in NetworkTypes => network
  /\ \E answer \in Answers(Step.type) :
       Record([status |-> Judge(Step, answer), held |-> answer \in {"there", "partial"}])
  /\ BrowserFree /\ Unchanged

WithoutNetwork ==
  /\ pc = "check"
  /\ Step.type \in NetworkTypes /\ ~network
  /\ Record([status |-> "FAIL", held |-> FALSE])
  /\ BrowserFree /\ Unchanged

\* The names are looked up in the list that writeBundle returned.
EvidencePresent ==
  /\ pc = "check"
  /\ Step.type = "evidence_present"
  /\ LET complete == task.files \subseteq BundleFiles
     IN  Record([status |-> IF complete THEN "PASS" ELSE "FAIL", held |-> complete])
  /\ BrowserFree /\ Unchanged

-------------------------------------------------------------------------------
(***************************************************************************)
(* The browser checks.  pending is the result that is returned once the    *)
(* page is closed.                                                         *)
(***************************************************************************)
\* launch fails, or newPage does and leaves the browser open, or a page is there.
Launch ==
  /\ pc = "check"
  /\ Step.type \in BrowserTypes /\ network
  /\ \/ /\ Record(NoResult)
        /\ journeyFile' = IF Step.type = "browser_journey" THEN "ERROR" ELSE journeyFile
        /\ \/ UNCHANGED <<browsers, lost>>
           \/ browsers' = browsers + 1 /\ lost' = lost + 1
     \/ /\ pc' = IF Step.type = "browser_journey" THEN "walk" ELSE "visit"
        /\ browsers' = browsers + 1
        /\ UNCHANGED <<results, lost, journeyFile>>
  /\ UNCHANGED <<pending, walked, shots, status>>
  /\ Unchanged

\* goto, title, textContent or the screenshot throws, or the page is judged.
Visit ==
  /\ pc = "visit"
  /\ \/ pending' = NoResult /\ UNCHANGED shots
     \/ \E found \in BOOLEAN :
          /\ pending' = [status |-> IF found THEN "PASS" ELSE "FAIL", held |-> found]
          /\ shots' = shots \cup {Step.claim}
  /\ pc' = "close"
  /\ UNCHANGED <<results, walked, journeyFile, browsers, lost, status>>
  /\ Unchanged

NextAction == task.journey[Len(walked) + 1]

\* The screenshot is taken also of a page that is not as expected.
Walk ==
  /\ pc = "walk"
  /\ \E outcome \in CheckStatuses :
       /\ walked' = Append(walked, outcome)
       /\ shots' = IF outcome = "ERROR" \/ NextAction.screenshot = "none" THEN shots
                   ELSE shots \cup {NextAction.screenshot}
       /\ pc' = IF outcome = "PASS" /\ Len(walked) + 1 < Len(task.journey)
                  THEN "walk" ELSE "finish"
  /\ UNCHANGED <<results, pending, journeyFile, browsers, lost, status>>
  /\ Unchanged

\* Mutant: an action that throws is no failure.
JourneyStatusFailed(outcomes) ==
  IF \E i \in 1..Len(outcomes) : outcomes[i] = "FAIL" THEN "FAIL" ELSE "PASS"

JourneyStatus(outcomes) ==
  IF \E i \in 1..Len(outcomes) : outcomes[i] = "ERROR" THEN "ERROR"
  ELSE IF \E i \in 1..Len(outcomes) : outcomes[i] # "PASS" THEN "FAIL"
  ELSE "PASS"

\* If a file cannot be written the journey is an ERROR, and so is the file, if
\* it can be written then.
Finish ==
  /\ pc = "finish"
  /\ \/ /\ pending' = [status |-> JourneyStatus(walked), held |-> JourneyStatus(walked) = "PASS"]
        /\ journeyFile' = JourneyStatus(walked)
     \/ /\ pending' = NoResult
        /\ journeyFile' \in {journeyFile, "ERROR"}
  /\ pc' = "close"
  /\ UNCHANGED <<results, walked, shots, browsers, lost, status>>
  /\ Unchanged

\* Mutant: only the page of a check that passed is closed.
CloseIfPassed ==
  /\ pc = "close"
  /\ Record(pending)
  /\ browsers' = IF pending.status = "PASS" THEN browsers - 1 ELSE browsers
  /\ UNCHANGED <<pending, walked, shots, journeyFile, lost, status>>
  /\ Unchanged

\* The finally of both checks.
Close ==
  /\ pc = "close"
  /\ Record(pending)
  /\ browsers' = browsers - 1
  /\ UNCHANGED <<pending, walked, shots, journeyFile, lost, status>>
  /\ Unchanged

\* The file of a result cannot be written: the error leaves validate(), and on
\* its way the page is closed.
Throws ==
  /\ pc \in {"check", "close", "tests", "list", "decide"}
  /\ pc' = "thrown"
  /\ browsers' = IF pc = "close" THEN browsers - 1 ELSE browsers
  /\ UNCHANGED <<results, pending, walked, shots, journeyFile, lost, status>>
  /\ Unchanged

-------------------------------------------------------------------------------
\* acceptance-tests.json, if the tests ran; then validation-results.json.
AcceptanceTests ==
  /\ pc \in {"tests", "list"}
  /\ pc' = IF pc = "tests" THEN "list" ELSE "decide"
  /\ UNCHANGED results
  /\ BrowserFree /\ Unchanged

TestsPassed ==
  exit # "none" => exit = (IF mode = "baseline" THEN "nonzero" ELSE "zero")

\* Mutant: what could not be checked does not count.
AllPassedOrError ==
  TestsPassed /\ \A i \in 1..Len(results) : results[i].status # "FAIL"

AllPassed ==
  TestsPassed /\ \A i \in 1..Len(results) : results[i].status = "PASS"

Decide ==
  /\ pc = "decide"
  /\ pc' = "done"
  /\ status' =
       IF mode = "baseline"
         THEN IF task.required \subseteq BundleFiles /\ exit # "zero"
                THEN "BASELINE_BLOCKED_EXPECTED" ELSE "BLOCK"
         ELSE IF AllPassed THEN "PASS" ELSE "BLOCK"
  /\ UNCHANGED <<results, pending, walked, shots, journeyFile, browsers, lost>>
  /\ Unchanged

ValidationNext ==
  \/ Asks \/ WithoutNetwork \/ EvidencePresent
  \/ Launch \/ Visit \/ Walk \/ Finish \/ Close
  \/ Throws
  \/ AcceptanceTests \/ Decide

ValidationSpec == ValidationInit /\ [][ValidationNext]_checkVars

-------------------------------------------------------------------------------
(***************************************************************************)
(* Properties                                                              *)
(***************************************************************************)

(***************************************************************************)
(* A PASS in the demo or of a card rests on one passed check for each      *)
(* step, every one that compares holding when it looked, the network there *)
(* if one of them needs it, and no failed test.                            *)
(***************************************************************************)
Compares(step) == step.equals \/ step.type \notin {"graphql_request", "database_state"}

PassIsWhole ==
  status = "PASS" =>
    /\ exit # "nonzero"
    /\ Len(results) = Len(task.steps)
    /\ \A i \in 1..Len(task.steps) :
         /\ results[i].status = "PASS"
         /\ Compares(task.steps[i]) => results[i].held
         /\ task.steps[i].type \in NetworkTypes => network

(***************************************************************************)
(* Every acceptance bullet of a card has a result of its own when the      *)
(* checks are through, whichever patterns its text matches.                *)
(***************************************************************************)
BulletsAreChecked ==
  pc = "done" =>
    \A text \in task.bullets :
      \E i \in 1..Len(results) : task.steps[i].bullet = text

(***************************************************************************)
(* A journey that passed was walked to its end: every action passed, every *)
(* screenshot it names is there, and playwright-results.json says so.  A   *)
(* file that says PASS belongs to such a journey.                          *)
(***************************************************************************)
JourneyIsWhole ==
  (\/ journeyFile = "PASS"
   \/ \E i \in 1..Len(results) :
        task.steps[i].type = "browser_journey" /\ results[i].status = "PASS") =>
    /\ Len(walked) = Len(task.journey)
    /\ \A i \in 1..Len(walked) :
         /\ walked[i] = "PASS"
         /\ task.journey[i].screenshot \in shots \cup {"none"}
    /\ journeyFile = "PASS"

(***************************************************************************)
(* Whatever throws inside a check, and when validate() itself throws, no   *)
(* browser stays open but those whose newPage had failed.                  *)
(***************************************************************************)
BrowsersAreClosed ==
  pc \notin {"visit", "walk", "finish", "close"} => browsers = lost

(***************************************************************************)
(* The checks of the order, which a card is compiled to, claim an active   *)
(* order, an order of the Admin API, a persisted one.  The code looks only *)
(* for a value, and null or 0 is one.                                      *)
(***************************************************************************)
OrdersAreThere ==
  \A i \in 1..Len(results) :
    /\ results[i].status = "PASS"
    /\ task.steps[i].claim \in {"active order", "orders", "one order"}
    => results[i].held

(***************************************************************************)
(* If all files the evidence check names are in the run directory, and all *)
(* other checks passed, the status is no BLOCK.  The check looks in the    *)
(* list of the bundle, which has no validation-results.json, and neither   *)
(* screenshots/ nor api-responses/.                                        *)
(***************************************************************************)
OnDisk ==
  BundleFiles \cup {"screenshots/", "api-responses/"}
    \cup (IF pc \in {"decide", "done"} THEN {"validation-results.json"} ELSE {})

EvidenceOnDiskCounts ==
  /\ pc = "done" /\ mode = "acceptance" /\ TestsPassed
  /\ task.files \subseteq OnDisk
  /\ \A i \in 1..Len(results) :
       task.steps[i].type # "evidence_present" => results[i].status = "PASS"
  => status = "PASS"
=============================================================================
