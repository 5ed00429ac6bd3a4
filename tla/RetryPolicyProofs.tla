-------------------------- MODULE RetryPolicyProofs --------------------------
(***************************************************************************)
(* Theorems about RetryPolicy, for every set of failures and every budget. *)
(*                                                                         *)
(* ThirdOccurrenceBreaks needs the types of the counters to be inductive   *)
(* and nothing else: the two rule tables compare the occurrence just       *)
(* counted with caps that are at most MAX_RETRIES, and the other counts    *)
(* were below it before.                                                   *)
(***************************************************************************)
EXTENDS RetryPolicy, TLAPS

(***************************************************************************)
(* The classifiers and the saturating counters return what they should.    *)
(***************************************************************************)
LEMMA AtMostBounds ==
  ASSUME NEW n \in Nat, NEW bound \in Nat
  PROVE  AtMost(n, bound) \in Nat /\ AtMost(n, bound) <= bound /\ AtMost(n, bound) <= n
BY DEF AtMost

LEMMA KindOfType ==
  ASSUME NEW f \in Failures
  PROVE  KindOf(f) \in FailureKinds
BY DEF KindOf, ClassifyFailure, FailureKinds

LEMMA CategoryOfType ==
  ASSUME NEW f \in Failures
  PROVE  CategoryOf(f) \in Categories \cup {NoCategory}
BY DEF CategoryOf, ClassifyRetryCategory, Categories, NoCategory

LEMMA SignatureType ==
  ASSUME NEW f \in Failures
  PROVE  Signature(f) \in Signatures
BY DEF Signatures

LEMMA RuleType ==
  ASSUME NEW category
  PROVE  RuleDisposition(category) \in Dispositions /\ KindOfCategory(category) \in FailureKinds
         /\ RuleMaxOccurrences(category) \in Nat
BY DEF RuleDisposition, RuleMaxOccurrences, KindOfCategory, Dispositions, FailureKinds, MAX_RETRIES

LEMMA DecisionTypes ==
  ASSUME NEW kind \in FailureKinds, NEW action \in {"stop", "stop_auth"},
         NEW disposition \in Dispositions, NEW category \in Categories \cup {NoCategory}
  PROVE  /\ RetryDecision(kind, disposition, category) \in Decisions
         /\ StopDecision(kind, action, disposition, category) \in Decisions
BY DEF RetryDecision, StopDecision, Decisions, Actions

(***************************************************************************)
(* No cap lets a failure be retried at its third occurrence.               *)
(***************************************************************************)
LEMMA CapBounds ==
  ASSUME NEW category
  PROVE  OccurrenceCap(category) \in Nat /\ OccurrenceCap(category) <= MAX_RETRIES
BY BudgetAssumption, RuleType, AtMostBounds DEF OccurrenceCap, MAX_RETRIES

LEMMA KindBudgetBounds ==
  ASSUME NEW kind
  PROVE  KindBudget(kind) \in Nat /\ KindBudget(kind) <= MAX_RETRIES
BY BudgetAssumption, AtMostBounds DEF KindBudget, MAX_RETRIES

(***************************************************************************)
(* What one answer establishes.  A repeatable row answers and leaves the   *)
(* breaker closed only for an occurrence below its cap, the kind rule only *)
(* below the budget of the kind and of the run; every other exit trips the *)
(* breaker.                                                                *)
(***************************************************************************)
Answered(identical) ==
  /\ circuit' \in {"closed", "open"}
  /\ decision' \in Decisions
  /\ decision'.shouldRetry <=> circuit' # "open"
  /\ circuit' # "open" => identical < MAX_RETRIES

LEMMA ClassifiedRuleAnswers ==
  ASSUME NEW category \in Categories, NEW identical \in Nat,
         NEW authRequired \in BOOLEAN, circuit = "closed",
         ApplyClassifiedRule(category, identical, authRequired)
  PROVE  Answered(identical)
<1> DEFINE rule == RuleDisposition(category)
           exhausted == IF identical >= MAX_RETRIES THEN "CIRCUIT_BREAK" ELSE rule
<1>1. /\ rule \in Dispositions
      /\ KindOfCategory(category) \in FailureKinds
      /\ OccurrenceCap(category) \in Nat
      /\ OccurrenceCap(category) <= MAX_RETRIES
  BY RuleType, CapBounds
<1>2. CASE /\ Trip
           /\ \E kind \in FailureKinds, action \in {"stop", "stop_auth"},
                 disposition \in Dispositions :
                decision' = StopDecision(kind, action, disposition, category)
  <2>1. PICK kind \in FailureKinds, action \in {"stop", "stop_auth"},
             disposition \in Dispositions :
               decision' = StopDecision(kind, action, disposition, category)
    BY <1>2
  <2>2. decision' \in Decisions
    BY <2>1, DecisionTypes
  <2>3. decision'.shouldRetry = FALSE
    BY <2>1 DEF StopDecision
  <2> QED BY <1>2, <2>2, <2>3 DEF Trip, Answered
<1>3. CASE /\ identical < OccurrenceCap(category)
           /\ decision' = RetryDecision(KindOfCategory(category), rule, category)
           /\ UNCHANGED circuit
  <2>1. decision' \in Decisions
    BY <1>1, <1>3, DecisionTypes
  <2>2. decision'.shouldRetry = TRUE
    BY <1>3 DEF RetryDecision
  <2>3. identical < MAX_RETRIES
    BY <1>1, <1>3 DEF MAX_RETRIES
  <2> QED BY <1>3, <2>1, <2>2, <2>3 DEF Answered
<1>4. /\ exhausted \in Dispositions
      /\ {"BLOCK", "AUTH_REQUIRED", "CLIENT_DECISION"} \subseteq Dispositions
      /\ {"unsafe_unknown", "repeated"} \subseteq FailureKinds
  BY <1>1 DEF Dispositions, FailureKinds
<1> HIDE DEF exhausted
<1>5. \/ /\ Trip
         /\ \/ decision' = StopDecision("unsafe_unknown", "stop", "BLOCK", category)
            \/ decision' = StopDecision("unsafe_unknown", "stop_auth", "AUTH_REQUIRED", category)
            \/ decision' = StopDecision("unsafe_unknown", "stop", "CLIENT_DECISION", category)
            \/ decision' = StopDecision("repeated", "stop", exhausted, category)
      \/ /\ identical < OccurrenceCap(category)
         /\ decision' = RetryDecision(KindOfCategory(category), rule, category)
         /\ UNCHANGED circuit
  BY DEF ApplyClassifiedRule, exhausted
<1> QED BY <1>2, <1>3, <1>4, <1>5

LEMMA KindRuleAnswers ==
  ASSUME NEW kind \in FailureKinds, NEW identical \in Nat,
         NEW authRequired \in BOOLEAN, circuit = "closed",
         ApplyKindRule(kind, identical, authRequired)
  PROVE  /\ Answered(identical)
         /\ decision'.category = NoCategory
         /\ decision'.shouldRetry => TotalUp < MaxTotalAttempts
<1> DEFINE outOfBudget == TotalUp >= MaxTotalAttempts \/ identical >= KindBudget(kind)
           refusal == IF authRequired THEN "AUTH_REQUIRED" ELSE "BLOCK"
<1>1. /\ KindBudget(kind) \in Nat
      /\ KindBudget(kind) <= MAX_RETRIES
      /\ DispositionOfKind(kind) \in Dispositions
  BY KindBudgetBounds DEF DispositionOfKind, Dispositions
<1>2. \/ /\ Trip
         /\ \/ decision' = StopDecision("unsafe_unknown", StopAction(authRequired), refusal, NoCategory)
            \/ decision' = StopDecision("validation", "stop", "BLOCK", NoCategory)
            \/ decision' = StopDecision("repeated", "stop", "CIRCUIT_BREAK", NoCategory)
      \/ /\ ~outOfBudget
         /\ decision' = RetryDecision(kind, DispositionOfKind(kind), NoCategory)
         /\ UNCHANGED circuit
  BY DEF ApplyKindRule, OutOfBudget
<1>3. CASE /\ Trip
           /\ \E k \in FailureKinds, action \in {"stop", "stop_auth"},
                 disposition \in Dispositions :
                decision' = StopDecision(k, action, disposition, NoCategory)
  <2>1. PICK k \in FailureKinds, action \in {"stop", "stop_auth"},
             disposition \in Dispositions :
               decision' = StopDecision(k, action, disposition, NoCategory)
    BY <1>3
  <2>2. decision' \in Decisions
    BY <2>1, DecisionTypes
  <2>3. decision'.shouldRetry = FALSE /\ decision'.category = NoCategory
    BY <2>1 DEF StopDecision
  <2> QED BY <1>3, <2>2, <2>3 DEF Trip, Answered
<1>4. CASE /\ ~outOfBudget
           /\ decision' = RetryDecision(kind, DispositionOfKind(kind), NoCategory)
           /\ UNCHANGED circuit
  <2>1. decision' \in Decisions
    BY <1>1, <1>4, DecisionTypes
  <2>2. decision'.shouldRetry = TRUE /\ decision'.category = NoCategory
    BY <1>4 DEF RetryDecision
  <2>3. identical < MAX_RETRIES
    BY <1>1, <1>4 DEF MAX_RETRIES
  <2>4. TotalUp < MaxTotalAttempts
    BY <1>4, BudgetAssumption DEF TotalUp, AtMost
  <2> QED BY <1>4, <2>1, <2>2, <2>3, <2>4 DEF Answered
<1>5. /\ StopAction(authRequired) \in {"stop", "stop_auth"}
      /\ refusal \in Dispositions
      /\ {"BLOCK", "CIRCUIT_BREAK"} \subseteq Dispositions
      /\ {"unsafe_unknown", "repeated", "validation"} \subseteq FailureKinds
  BY DEF StopAction, Dispositions, FailureKinds
<1> HIDE DEF refusal, outOfBudget
<1> QED BY <1>2, <1>3, <1>4, <1>5

(***************************************************************************)
(* The inductive invariant, and what a call of decide() does to it.        *)
(***************************************************************************)
RetryInv == RetryTypeOK /\ ThirdOccurrenceBreaks

LEMMA CountUpBounds ==
  ASSUME RetryTypeOK, NEW signature \in Signatures
  PROVE  /\ CountUp(signature) \in 0..MAX_RETRIES
         /\ TotalUp \in 0..MaxTotalAttempts
<1>1. identicalCounts[signature] \in 0..MAX_RETRIES
  BY DEF RetryTypeOK
<1>2. AtMost(identicalCounts[signature] + 1, MAX_RETRIES) \in 0..MAX_RETRIES
  BY <1>1 DEF AtMost, MAX_RETRIES
<1>3. AtMost(totalAttempts + 1, MaxTotalAttempts) \in 0..MaxTotalAttempts
  BY BudgetAssumption, AtMostBounds DEF RetryTypeOK
<1> QED BY <1>2, <1>3 DEF CountUp, TotalUp, MAX_RETRIES

LEMMA DecideAnswers ==
  ASSUME RetryInv,
         NEW signature \in Signatures, NEW kind \in FailureKinds,
         NEW category \in Categories \cup {NoCategory}, NEW authRequired \in BOOLEAN,
         Decide(signature, kind, category, authRequired)
  PROVE  /\ RetryInv'
         /\ decision'.shouldRetry <=> circuit' # "open"
         /\ circuit = "open" => circuit' = "open"
         /\ decision'.shouldRetry /\ decision'.category = NoCategory
              => totalAttempts' < MaxTotalAttempts
<1> DEFINE identical == CountUp(signature)
<1>1. /\ identical \in 0..MAX_RETRIES
      /\ TotalUp \in 0..MaxTotalAttempts
  BY CountUpBounds DEF RetryInv
<1>2. /\ identicalCounts' = [identicalCounts EXCEPT ![signature] = identical]
      /\ totalAttempts' = TotalUp
  BY DEF Decide
<1>3. identicalCounts' \in [Signatures -> 0..MAX_RETRIES] /\ totalAttempts' \in 0..MaxTotalAttempts
  BY <1>1, <1>2 DEF RetryInv, RetryTypeOK
<1>4. CASE circuit = "open"
  <2>1. /\ decision' = StopDecision("repeated", StopAction(authRequired), "CIRCUIT_BREAK", category)
        /\ circuit' = "open"
    BY <1>4 DEF Decide
  <2>2. decision' \in Decisions
    <3>1. /\ "repeated" \in FailureKinds
          /\ "CIRCUIT_BREAK" \in Dispositions
          /\ StopAction(authRequired) \in {"stop", "stop_auth"}
      BY DEF FailureKinds, Dispositions, StopAction
    <3> QED BY <2>1, <3>1, DecisionTypes
  <2>3. decision'.shouldRetry = FALSE
    BY <2>1 DEF StopDecision
  <2> QED BY <1>3, <2>1, <2>2, <2>3 DEF RetryInv, RetryTypeOK, ThirdOccurrenceBreaks
<1>5. CASE circuit # "open"
  <2>1. circuit = "closed"
    BY <1>5 DEF RetryInv, RetryTypeOK
  <2>2. identical \in Nat
    BY <1>1
  <2>3. Answered(identical)
    <3>1. CASE category # NoCategory
      <4>1. category \in Categories /\ ApplyClassifiedRule(category, identical, authRequired)
        BY <1>5, <3>1 DEF Decide
      <4> HIDE DEF identical
      <4> QED BY <4>1, <2>1, <2>2, ClassifiedRuleAnswers
    <3>2. CASE category = NoCategory
      <4>1. ApplyKindRule(kind, identical, authRequired)
        BY <1>5, <3>2 DEF Decide
      <4> HIDE DEF identical
      <4> QED BY <4>1, <2>1, <2>2, KindRuleAnswers
    <3> QED BY <3>1, <3>2
  <2>4. decision'.shouldRetry /\ decision'.category = NoCategory => totalAttempts' < MaxTotalAttempts
    <3>1. CASE category # NoCategory
      <4>1. ApplyClassifiedRule(category, identical, authRequired)
        BY <1>5, <3>1 DEF Decide
      <4>2. decision'.category = category
        BY <4>1 DEF ApplyClassifiedRule, StopDecision, RetryDecision
      <4> QED BY <3>1, <4>2
    <3>2. CASE category = NoCategory
      <4>1. ApplyKindRule(kind, identical, authRequired)
        BY <1>5, <3>2 DEF Decide
      <4> HIDE DEF identical
      <4> QED BY <1>2, <4>1, <2>1, <2>2, KindRuleAnswers
    <3> QED BY <3>1, <3>2
  <2>5. RetryTypeOK'
    BY <1>3, <2>3 DEF Answered, RetryTypeOK
  <2>6. ThirdOccurrenceBreaks'
    <3>1. \A s \in Signatures : identicalCounts[s] < MAX_RETRIES
      BY <1>5 DEF RetryInv, ThirdOccurrenceBreaks
    <3>2. circuit' # "open" => \A s \in Signatures : identicalCounts'[s] < MAX_RETRIES
      BY <1>2, <2>3, <3>1 DEF Answered, RetryInv, RetryTypeOK
    <3> QED BY <3>2 DEF ThirdOccurrenceBreaks
  <2> QED BY <1>5, <2>3, <2>4, <2>5, <2>6 DEF RetryInv, Answered
<1> QED BY <1>4, <1>5

(***************************************************************************)
(* Every call of the object is a Decide, the validator's veto, or a reset. *)
(***************************************************************************)
LEMMA RetryNextCases ==
  ASSUME RetryNext
  PROVE  \/ \E signature \in Signatures, kind \in FailureKinds,
              category \in Categories \cup {NoCategory}, authRequired \in BOOLEAN :
                Decide(signature, kind, category, authRequired)
         \/ RecordValidationFailure
         \/ Reset
<1>1. ASSUME NEW f \in Failures, DecideFailure(f)
      PROVE  \E signature \in Signatures, kind \in FailureKinds,
               category \in Categories \cup {NoCategory}, authRequired \in BOOLEAN :
                 Decide(signature, kind, category, authRequired)
  BY <1>1, SignatureType, KindOfType, CategoryOfType DEF DecideFailure
<1>2. ASSUME NEW f \in Failures, DecideAuthRequired(Signature(f))
      PROVE  \E signature \in Signatures, kind \in FailureKinds,
               category \in Categories \cup {NoCategory}, authRequired \in BOOLEAN :
                 Decide(signature, kind, category, authRequired)
  <2>1. "unsafe_unknown" \in FailureKinds
    BY DEF FailureKinds
  <2> QED BY <1>2, <2>1, SignatureType DEF DecideAuthRequired
<1>3. ASSUME NEW f \in Failures, NEW kind \in FailureKinds, RecordAttempt(Signature(f), kind)
      PROVE  \E signature \in Signatures, k \in FailureKinds,
               category \in Categories \cup {NoCategory}, authRequired \in BOOLEAN :
                 Decide(signature, k, category, authRequired)
  BY <1>3, SignatureType DEF RecordAttempt
<1> QED BY <1>1, <1>2, <1>3 DEF RetryNext

LEMMA ValidationFailureAnswers ==
  ASSUME RetryInv, RecordValidationFailure
  PROVE  /\ RetryInv'
         /\ circuit' = "open"
         /\ decision'.shouldRetry = FALSE
<1>1. /\ decision' = StopDecision("validation", "stop", "BLOCK", NoCategory)
      /\ circuit' = "open"
      /\ UNCHANGED <<identicalCounts, totalAttempts>>
  BY DEF RecordValidationFailure, Trip
<1>2. decision' \in Decisions
  <2>1. "validation" \in FailureKinds /\ "BLOCK" \in Dispositions
    BY DEF FailureKinds, Dispositions
  <2> QED BY <1>1, <2>1, DecisionTypes
<1>3. decision'.shouldRetry = FALSE
  BY <1>1 DEF StopDecision
<1> QED BY <1>1, <1>2, <1>3 DEF RetryInv, RetryTypeOK, ThirdOccurrenceBreaks

LEMMA ResetRestarts ==
  ASSUME RetryInv, Reset
  PROVE  RetryInv'
BY BudgetAssumption DEF RetryInv, RetryTypeOK, ThirdOccurrenceBreaks, Reset, MAX_RETRIES

-------------------------------------------------------------------------------
(***************************************************************************)
(* The counters, the breaker and the answer keep their types, and the      *)
(* third occurrence of a failure always leaves the breaker open, for any   *)
(* set of failures and any budgets: no configured budget raises the cap of *)
(* MAX_RETRIES on identical failures.                                      *)
(***************************************************************************)
THEOREM RetryInvariance == RetrySpec => []RetryInv
<1>1. RetryInit => RetryInv
  BY BudgetAssumption
     DEF RetryInit, RetryInv, RetryTypeOK, ThirdOccurrenceBreaks, MAX_RETRIES
<1>2. RetryInv /\ [RetryNext]_retryVars => RetryInv'
  <2> SUFFICES ASSUME RetryInv, [RetryNext]_retryVars
               PROVE  RetryInv'
    OBVIOUS
  <2>1. CASE RetryNext
    BY <2>1, RetryNextCases, DecideAnswers, ValidationFailureAnswers, ResetRestarts
  <2>2. CASE UNCHANGED retryVars
    BY <2>2 DEF RetryInv, RetryTypeOK, ThirdOccurrenceBreaks, retryVars
  <2> QED BY <2>1, <2>2
<1> QED BY <1>1, <1>2, PTL DEF RetrySpec

(***************************************************************************)
(* Type correctness of the retry policy.                                   *)
(***************************************************************************)
THEOREM RetryTypes == RetrySpec => []RetryTypeOK
BY RetryInvariance, PTL DEF RetryInv

(***************************************************************************)
(* docs/RETRY_POLICY.md, "same failure on the third occurrence is          *)
(* CIRCUIT_BREAK": the breaker is open at the third occurrence.            *)
(***************************************************************************)
THEOREM ThirdOccurrence == RetrySpec => []ThirdOccurrenceBreaks
BY RetryInvariance, PTL DEF RetryInv

(***************************************************************************)
(* A stop always trips the breaker, and nothing is retried behind it.      *)
(***************************************************************************)
THEOREM AnswersMatch == RetrySpec => AnswerMatchesCircuit
<1>1. RetryInv /\ [RetryNext]_retryVars
        => [~Reset => (decision'.shouldRetry <=> circuit' # "open")]_retryVars
  BY RetryNextCases, DecideAnswers, ValidationFailureAnswers
<1> QED BY <1>1, RetryInvariance, PTL DEF RetrySpec, AnswerMatchesCircuit

(***************************************************************************)
(* The circuit stays open for the rest of the run.                         *)
(***************************************************************************)
THEOREM OpenStaysOpen == RetrySpec => OpenIsFinal
<1>1. RetryInv /\ [RetryNext]_retryVars
        => [circuit = "open" /\ ~Reset => circuit' = "open" /\ ~decision'.shouldRetry]_retryVars
  BY RetryNextCases, DecideAnswers, ValidationFailureAnswers
<1> QED BY <1>1, RetryInvariance, PTL DEF RetrySpec, OpenIsFinal

(***************************************************************************)
(* What the client table does not cover is retried within the total        *)
(* budget only.                                                            *)
(***************************************************************************)
THEOREM UnclassifiedCapped == RetrySpec => UnclassifiedWithinTotal
<1>1. RetryInv /\ [RetryNext]_retryVars
        => [~Reset /\ decision'.shouldRetry /\ decision'.category = NoCategory
              => totalAttempts' < MaxTotalAttempts]_retryVars
  BY RetryNextCases, DecideAnswers, ValidationFailureAnswers
<1> QED BY <1>1, RetryInvariance, PTL DEF RetrySpec, UnclassifiedWithinTotal

(***************************************************************************)
(* The rows of the client table that may repeat are reached by no failure  *)
(* that a row before them refuses, and only by a code or a word of theirs. *)
(***************************************************************************)
LEMMA RepeatableRows ==
  ASSUME NEW f \in Failures,
         CategoryOf(f) # NoCategory, MayRepeat(RuleDisposition(CategoryOf(f)))
  PROVE  ~OnStopRow(f) /\ LooksRepeatable(f)
<1> DEFINE category == CategoryOf(f)
           says == Says[f.message]
<1>1. category \notin {"production_target", "missing_credential",
                      "business_ambiguity", "dangerous_operation"}
  BY DEF MayRepeat, RuleDisposition
<1>2. /\ ~(f.code \in ProductionCodes \/ "production" \in says)
      /\ ~(f.class = "auth_required" \/ f.code \in CredentialCodes \/ "credential" \in says)
      /\ ~(f.code \in AmbiguityCodes \/ "ambiguity" \in says)
      /\ ~(f.code \in DangerousCodes \/ "danger" \in says)
  BY <1>1 DEF CategoryOf, ClassifyRetryCategory
<1>3. ~OnStopRow(f)
  BY <1>2 DEF OnStopRow, StopRowCodes, StopRowWords
<1>4. \/ f.code \in BrowserCodes \/ {"timeout", "browser"} \subseteq says
      \/ f.code \in DependencyCodes \/ "dependency" \in says
      \/ f.code \in ContainerCodes \/ "container" \in says
      \/ f.code \in BugCodes \/ "bug" \in says
  BY <1>2 DEF CategoryOf, ClassifyRetryCategory
<1>5. LooksRepeatable(f)
  BY <1>4 DEF LooksRepeatable, RepeatableCodes, RepeatableWords
<1> QED BY <1>3, <1>5

(***************************************************************************)
(* A failure without a row keeps a refusal unless it names a timeout.      *)
(***************************************************************************)
LEMMA RefusedWithoutRow ==
  ASSUME NEW f \in Failures,
         CategoryOf(f) = NoCategory, Refused(f), KindOf(f) # "unsafe_unknown"
  PROVE  ~OnStopRow(f) /\ LooksRepeatable(f)
<1> DEFINE says == Says[f.message]
<1>1. /\ ~(f.code \in ProductionCodes \/ "production" \in says)
      /\ ~(f.class = "auth_required" \/ f.code \in CredentialCodes \/ "credential" \in says)
      /\ ~(f.code \in AmbiguityCodes \/ "ambiguity" \in says)
      /\ ~(f.code \in DangerousCodes \/ "danger" \in says)
  BY DEF CategoryOf, ClassifyRetryCategory, NoCategory
<1>2. ~OnStopRow(f)
  BY <1>1 DEF OnStopRow, StopRowCodes, StopRowWords
<1>3. f.class \in FailureClasses
  BY MessageAssumption
<1>4. f.code \in UnsafeCodes \/ f.class \in {"non_recoverable", "unknown"}
  BY <1>1, <1>3 DEF Refused, StopRowCodes, FailureClasses
<1>5. f.code \in TimeoutCodes \/ "timeout" \in says
  BY <1>1, <1>4 DEF KindOf, ClassifyFailure
<1>6. LooksRepeatable(f)
  BY <1>5 DEF LooksRepeatable, RepeatableCodes, RepeatableWords
<1> QED BY <1>2, <1>6

(***************************************************************************)
(* A refused failure is retried only if it is on no row that stops and its *)
(* code or text names a timeout or a repeatable row: dangerous operations, *)
(* production targets, missing credentials and questions for the client    *)
(* never are.                                                              *)
(***************************************************************************)
THEOREM RefusedStop == RetrySpec => RefusedFailuresStop
<1>1. ASSUME NEW f \in Failures, DecideFailure(f), Refused(f), decision'.shouldRetry
      PROVE  ~OnStopRow(f) /\ LooksRepeatable(f)
  <2>1. ASSUME circuit = "open"
        PROVE  decision'.shouldRetry = FALSE
    BY <1>1, <2>1 DEF DecideFailure, Decide, StopDecision
  <2>2. CASE CategoryOf(f) # NoCategory
    <3>1. ApplyClassifiedRule(CategoryOf(f), CountUp(Signature(f)), FALSE)
      BY <1>1, <2>1, <2>2 DEF DecideFailure, Decide
    <3>2. ASSUME ~MayRepeat(RuleDisposition(CategoryOf(f)))
          PROVE  decision'.shouldRetry = FALSE
      BY <3>1, <3>2 DEF ApplyClassifiedRule, StopDecision
    <3> QED BY <1>1, <2>2, <3>2, RepeatableRows
  <2>3. CASE CategoryOf(f) = NoCategory
    <3>1. ApplyKindRule(KindOf(f), CountUp(Signature(f)), FALSE)
      BY <1>1, <2>1, <2>3 DEF DecideFailure, Decide
    <3>2. ASSUME KindOf(f) = "unsafe_unknown"
          PROVE  decision'.shouldRetry = FALSE
      BY <3>1, <3>2 DEF ApplyKindRule, StopDecision
    <3> QED BY <1>1, <2>3, <3>2, RefusedWithoutRow
  <2> QED BY <2>2, <2>3
<1>2. [\A f \in Failures :
         DecideFailure(f) /\ Refused(f) /\ decision'.shouldRetry
           => ~OnStopRow(f) /\ LooksRepeatable(f)]_retryVars
  BY <1>1
<1> QED BY <1>2, PTL DEF RefusedFailuresStop

-------------------------------------------------------------------------------
(***************************************************************************)
(* What bounds the retries.  A count is never taken back, and a retry has  *)
(* counted its failure once more, if no text is new each time.             *)
(***************************************************************************)
Counted == \A s \in Signatures : identicalCounts[s] <= identicalCounts'[s]

LEMMA DecideCounts ==
  ASSUME RetryInv, FreshMessages = {},
         NEW signature \in Signatures, NEW kind \in FailureKinds,
         NEW category \in Categories \cup {NoCategory}, NEW authRequired \in BOOLEAN,
         Decide(signature, kind, category, authRequired)
  PROVE  /\ Counted
         /\ decision'.shouldRetry => identicalCounts[signature] < identicalCounts'[signature]
<1>1. identicalCounts \in [Signatures -> 0..MAX_RETRIES]
  BY DEF RetryInv, RetryTypeOK
<1>2. CountUp(signature) = AtMost(identicalCounts[signature] + 1, MAX_RETRIES)
  BY DEF CountUp
<1>3. identicalCounts' = [identicalCounts EXCEPT ![signature] = CountUp(signature)]
  BY DEF Decide
<1>4. identicalCounts[signature] <= CountUp(signature)
  BY <1>1, <1>2 DEF AtMost, MAX_RETRIES
<1>5. Counted
  BY <1>1, <1>3, <1>4 DEF Counted
<1>6. ASSUME decision'.shouldRetry
      PROVE  identicalCounts[signature] < identicalCounts'[signature]
  <2>1. circuit # "open"
    BY <1>6, DecideAnswers
  <2>2. identicalCounts[signature] < MAX_RETRIES
    BY <2>1 DEF RetryInv, ThirdOccurrenceBreaks
  <2>3. CountUp(signature) = identicalCounts[signature] + 1
    BY <1>1, <1>2, <2>2 DEF AtMost, MAX_RETRIES
  <2> QED BY <1>1, <1>3, <2>3
<1> QED BY <1>5, <1>6

(***************************************************************************)
(* If no failure text is new each time, then between two resets no count   *)
(* of the policy is taken back and every answer that grants a retry has    *)
(* counted its failure, at most MAX_RETRIES: with finitely many failures   *)
(* the retries of a run are bounded, also those that no total limits.      *)
(***************************************************************************)
THEOREM RetriesAreCounted ==
  ASSUME FreshMessages = {}
  PROVE  RetrySpec =>
           [][~Reset =>
                /\ Counted
                /\ decision'.shouldRetry =>
                     \E s \in Signatures : identicalCounts[s] < identicalCounts'[s]]_retryVars
<1>1. RetryInv /\ [RetryNext]_retryVars =>
        [~Reset =>
           /\ Counted
           /\ decision'.shouldRetry =>
                \E s \in Signatures : identicalCounts[s] < identicalCounts'[s]]_retryVars
  <2>1. SUFFICES ASSUME RetryInv, RetryNext, ~Reset
                 PROVE  /\ Counted
                        /\ decision'.shouldRetry =>
                             \E s \in Signatures : identicalCounts[s] < identicalCounts'[s]
    OBVIOUS
  <2>2. CASE RecordValidationFailure
    <3>1. identicalCounts' = identicalCounts /\ decision'.shouldRetry = FALSE
      BY <2>2 DEF RecordValidationFailure, StopDecision
    <3>2. identicalCounts \in [Signatures -> 0..MAX_RETRIES]
      BY <2>1 DEF RetryInv, RetryTypeOK
    <3> QED BY <3>1, <3>2 DEF Counted, MAX_RETRIES
  <2> QED BY <2>1, <2>2, RetryNextCases, DecideCounts
<1> QED BY <1>1, RetryInvariance, PTL DEF RetrySpec
==============================================================================
