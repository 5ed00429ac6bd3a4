-------------------------- MODULE ScenarioCompiler --------------------------
(***************************************************************************)
(* The scenario compiler (src/compiler): from the acceptance bullets of a  *)
(* business card to the steps the independent validator runs, and the      *)
(* steps of the scenarios, which are written by hand                       *)
(* (src/scenarios/browser-checkout, src/scenarios/public-catalog).         *)
(*                                                                         *)
(* Of a bullet the compiler asks only which of its patterns the text       *)
(* matches.  A check has a claim, what its description says is so when it  *)
(* passes; ids, urls, queries, selectors and timeouts are left out.        *)
(***************************************************************************)
EXTENDS Naturals, Sequences, FiniteSets, SequencesExt

\* The patterns of expandAcceptanceBullet, in the order they are tried.
Rules == <<"load", "listed", "cart", "checkout", "created", "backend">>

\* The first rule that matches.
RuleOf(bullet) ==
  IF bullet.matches = {} THEN "note"
  ELSE Rules[CHOOSE i \in 1..Len(Rules) :
               /\ Rules[i] \in bullet.matches
               /\ \A j \in 1..(i - 1) : Rules[j] \notin bullet.matches]

\* equals: the value at the data path is compared, or the rows are;
\* noErrors: GraphQL errors fail the check.
Check(bullet, type, claim) ==
  [type |-> type, bullet |-> bullet.text,
   claim |-> claim, equals |-> FALSE, noErrors |-> TRUE]

\* The business assertion of each rule: a sentence, without a type.
Assertion(bullet) == Check(bullet, "none", "none")

Buckets(assertions, browser, api, database) ==
  [assertions |-> assertions, browser |-> browser, api |-> api, database |-> database]

LoadChecks(bullet) ==
  Buckets(<<Assertion(bullet)>>,
          <<Check(bullet, "browser_playwright", "storefront")>>,
          <<Check(bullet, "application_health", "health")>>,
          <<>>)

ListedChecks(bullet) ==
  Buckets(<<Assertion(bullet)>>,
          <<Check(bullet, "browser_playwright", "listing")>>,
          <<Check(bullet, "http_response", "products")>>,
          <<>>)

\* An order or an ErrorResult, both are answers.
CartChecks(bullet) ==
  Buckets(<<Assertion(bullet)>>,
          <<>>,
          <<[Check(bullet, "graphql_request", "answer") EXCEPT !.noErrors = FALSE]>>,
          <<>>)

\* Mutant: the browser check of the checkout is left to the sentence.
CheckoutChecksNone(bullet) == Buckets(<<Assertion(bullet)>>, <<>>, <<>>, <<>>)

CheckoutChecks(bullet) ==
  Buckets(<<Assertion(bullet)>>,
          <<Check(bullet, "browser_playwright", "checkout")>>,
          <<>>, <<>>)

CreatedChecks(bullet) ==
  Buckets(<<Assertion(bullet)>>,
          <<>>,
          <<Check(bullet, "graphql_request", "active order")>>,
          <<>>)

BackendChecks(bullet) ==
  Buckets(<<Assertion(bullet)>>,
          <<>>,
          <<Check(bullet, "graphql_request", "orders")>>,
          <<Check(bullet, "database_state", "one order")>>)

\* Without a rule: the agent is to leave a note with the text of the bullet.
NoteChecks(bullet) ==
  Buckets(<<Check(bullet, "workspace_file_contains", "note")>>,
          <<>>, <<>>, <<>>)

ExpandAcceptanceBullet(bullet) ==
  LET rule == RuleOf(bullet)
  IN  CASE rule = "load"     -> LoadChecks(bullet)
        [] rule = "listed"   -> ListedChecks(bullet)
        [] rule = "cart"     -> CartChecks(bullet)
        [] rule = "checkout" -> CheckoutChecks(bullet)
        [] rule = "created"  -> CreatedChecks(bullet)
        [] rule = "backend"  -> BackendChecks(bullet)
        [] rule = "note"     -> NoteChecks(bullet)

\* Two names stand for those that writeBundle returns.
BundleFiles == {"run-manifest.json", "status.json"}

DefaultEvidence ==
  BundleFiles \cup {"validation-results.json", "screenshots/", "api-responses/"}

EvidencePack ==
  [type |-> "evidence_present", bullet |-> "none",
   claim |-> "files", equals |-> FALSE, noErrors |-> TRUE]

CompileTechnicalScenario(card) ==
  LET expanded == [i \in 1..Len(card) |-> ExpandAcceptanceBullet(card[i])]
      All(bucket) == FlattenSeq([i \in 1..Len(card) |-> expanded[i][bucket]])
  IN  Buckets(<<EvidencePack>> \o All("assertions"),
              All("browser"), All("api"), All("database"))

\* A sentence has no type and gives no step.
TechnicalCheckToValidationStep(check) ==
  IF check.type = "none" THEN <<>> ELSE <<check>>

AllChecks(scenario) ==
  scenario.assertions \o scenario.browser \o scenario.api \o scenario.database

ValidationSteps(checks) ==
  FlattenSeq([i \in 1..Len(checks) |-> TechnicalCheckToValidationStep(checks[i])])

\* The steps of a card, bucket after bucket.
TechnicalScenarioToTask(card) ==
  [bullets |-> {card[i].text : i \in 1..Len(card)},
   steps |-> ValidationSteps(AllChecks(CompileTechnicalScenario(card))),
   files |-> DefaultEvidence,
   required |-> {name \in DefaultEvidence : name \notin {"screenshots/", "api-responses/"}},
   journey |-> <<>>]

-------------------------------------------------------------------------------
(***************************************************************************)
(* The checkout demo: a journey, then the Shop API, then the database,     *)
(* all with the values they are to find.                                   *)
(***************************************************************************)
DemoStep(name, type) ==
  [type |-> type, bullet |-> "none", claim |-> name,
   equals |-> TRUE, noErrors |-> TRUE]

BuildPostBrowserGraphqlSteps ==
  <<DemoStep("product by slug", "graphql_request"),
    DemoStep("order by code", "graphql_request"),
    DemoStep("customer", "graphql_request"),
    DemoStep("order state", "http_response")>>

BuildPostApiDatabaseSteps == <<DemoStep("order row", "database_state")>>

Action(type, screenshot) == [type |-> type, screenshot |-> screenshot]

BuildCheckoutJourneyActions ==
  <<Action("goto", "01-home.png"), Action("click", "02-product.png"),
    Action("click", "03-cart.png"), Action("click", "04-checkout.png"),
    Action("click", "none"), Action("assert", "none")>>

BuildBrowserCheckoutTask ==
  [bullets |-> {},
   steps |-> <<EvidencePack, DemoStep("journey", "browser_journey")>>
               \o BuildPostBrowserGraphqlSteps \o BuildPostApiDatabaseSteps,
   files |-> BundleFiles,
   required |-> BundleFiles,
   journey |-> BuildCheckoutJourneyActions]

(***************************************************************************)
(* Tasks without a journey: the public catalog scenario, and two task      *)
(* cards of fixtures/tasks.                                                *)
(***************************************************************************)
CardTask(steps) ==
  [bullets |-> {}, steps |-> <<EvidencePack>> \o steps,
   files |-> BundleFiles, required |-> BundleFiles, journey |-> <<>>]

BuildScenarioTask ==
  CardTask(<<DemoStep("adapter", "changed_files_include"),
             DemoStep("health", "application_health"),
             DemoStep("api products", "http_response"),
             DemoStep("graphql products", "graphql_request"),
             DemoStep("catalog page", "browser_playwright"),
             DemoStep("catalog state", "database_state")>>)

NailPatternsTask ==
  CardTask(<<DemoStep("inventory", "workspace_file_exists"),
             DemoStep("nested", "workspace_file_contains"),
             DemoStep("tree", "path_invariant")>>)

StackTask ==
  CardTask(<<DemoStep("redis", "redis_ping"), DemoStep("postgres", "postgres_ready")>>)
=============================================================================
