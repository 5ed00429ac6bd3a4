----------------------------- MODULE RetryPolicy -----------------------------
(***************************************************************************)
(* The bounded-recovery policy of one pipeline run                         *)
(* (src/retry/retry-policy.ts and circuit-breaker.ts).                     *)
(*                                                                         *)
(* One RetryPolicy object lives as long as a run.  After every failed      *)
(* attempt the controller calls decide() once; the answer says whether the *)
(* agent may run again.  A circuit breaker, once tripped, refuses every    *)
(* later request until reset().                                            *)
(***************************************************************************)
EXTENDS Naturals, FailureClassifier

CONSTANTS
  Messages,             \* normalised message texts an attempt can fail with
  FreshMessages,        \* texts that never repeat: they carry a time or a count
  Says,                 \* which keyword families a text contains
  Failures,             \* the failed outcomes the agent adapter can report
  MaxIdenticalRetries,  \* options.maxIdenticalRetries
  MaxTotalAttempts,     \* options.maxTotalAttempts
  MaxTransientRetries,  \* options.maxTransientRetries ?? maxIdenticalRetries
  MaxTimeoutRetries     \* options.maxTimeoutRetries   ?? maxIdenticalRetries

(***************************************************************************)
(* The constructor refuses budgets below 1; the two kind budgets have no   *)
(* check of their own, and are at least 1 because they default to one that *)
(* has.                                                                    *)
(***************************************************************************)
ASSUME BudgetAssumption ==
  /\ MaxIdenticalRetries \in Nat \ {0}
  /\ MaxTotalAttempts \in Nat \ {0}
  /\ MaxTransientRetries \in Nat
  /\ MaxTimeoutRetries \in Nat

ASSUME MessageAssumption ==
  /\ FreshMessages \subseteq Messages
  /\ Says \in [Messages -> SUBSET Words]
  /\ Failures \subseteq [class : FailureClasses, code : Codes, message : Messages]

VARIABLES
  identicalCounts,  \* how often each failure signature was seen
  totalAttempts,    \* decide() calls since the last reset
  circuit,          \* state of the circuit breaker
  decision          \* the answer of the last call

retryVars == <<identicalCounts, totalAttempts, circuit, decision>>

(***************************************************************************)
(* The signature of a failed attempt (buildFailureSignature): kind, class, *)
(* code and message.                                                       *)
(***************************************************************************)
KindOf(f) == ClassifyFailure(f.class, f.code, Says[f.message])

\* Mutant: the controller leaves the optional code out of the call.
CategoryWithoutCode(f) == ClassifyRetryCategory(f.class, "NONE", Says[f.message])

CategoryOf(f) == ClassifyRetryCategory(f.class, f.code, Says[f.message])

Signature(f) == <<KindOf(f), f.class, f.code, f.message>>

Signatures == {Signature(f) : f \in Failures}

AtMost(n, bound) == IF n < bound THEN n ELSE bound

(***************************************************************************)
(* Counters saturate: decide() compares an identical count with bounds of  *)
(* at most MAX_RETRIES and the total with maxTotalAttempts, so that larger *)
(* values behave like these.                                               *)
(***************************************************************************)
\* Mutant: a new Map for each call.
CountUpAfresh(signature) == 1

CountUp(signature) ==
  IF signature[4] \in FreshMessages THEN 1
  ELSE AtMost(identicalCounts[signature] + 1, MAX_RETRIES)

TotalUp == AtMost(totalAttempts + 1, MaxTotalAttempts)

Actions == {"retry_agent", "stop", "stop_auth"}

Decisions == [shouldRetry : BOOLEAN, kind : FailureKinds, action : Actions,
              disposition : Dispositions, category : Categories \cup {NoCategory}]

NoDecision == [shouldRetry |-> FALSE, kind |-> "none", action |-> "none",
               disposition |-> "none", category |-> NoCategory]

RetryDecision(kind, disposition, category) ==
  [shouldRetry |-> TRUE, kind |-> kind, action |-> "retry_agent",
   disposition |-> disposition, category |-> category]

StopDecision(kind, action, disposition, category) ==
  [shouldRetry |-> FALSE, kind |-> kind, action |-> action,
   disposition |-> disposition, category |-> category]

RetryTypeOK ==
  /\ identicalCounts \in [Signatures -> 0..MAX_RETRIES]
  /\ totalAttempts \in 0..MaxTotalAttempts
  /\ circuit \in {"closed", "open"}
  /\ decision \in Decisions \cup {NoDecision}

RetryInit ==
  /\ identicalCounts = [s \in Signatures |-> 0]
  /\ totalAttempts = 0
  /\ circuit = "closed"
  /\ decision = NoDecision

-------------------------------------------------------------------------------
(***************************************************************************)
(* decide(), one operator per group of exits.  Every stop trips the        *)
(* breaker; half_open exists in CircuitBreaker but nothing enters it.      *)
(***************************************************************************)
Trip == circuit' = "open"

StopAction(authRequired) == IF authRequired THEN "stop_auth" ELSE "stop"

\* Mutant: the option alone, without the minimum.
OccurrenceCapOptionOnly(category) == MaxIdenticalRetries

\* The occurrences a repeatable row of the client table tolerates.
OccurrenceCap(category) ==
  AtMost(AtMost(RuleMaxOccurrences(category), MaxIdenticalRetries), MAX_RETRIES)

ApplyClassifiedRule(category, identical, authRequired) ==
  LET rule == RuleDisposition(category)
      refused == rule = "BLOCK"
      needsCredential == rule = "AUTH_REQUIRED" \/ authRequired
  IN
  \/ /\ refused
     /\ Trip
     /\ decision' = StopDecision("unsafe_unknown", "stop", "BLOCK", category)
  \/ /\ ~refused
     /\ needsCredential
     /\ Trip
     /\ decision' = StopDecision("unsafe_unknown", "stop_auth", "AUTH_REQUIRED", category)
  \/ /\ ~needsCredential
     /\ rule = "CLIENT_DECISION"
     /\ Trip
     /\ decision' = StopDecision("unsafe_unknown", "stop", "CLIENT_DECISION", category)
  \/ /\ ~needsCredential
     /\ MayRepeat(rule)
     /\ identical >= OccurrenceCap(category)
     /\ Trip
     /\ decision' = StopDecision("repeated", "stop",
                       IF identical >= MAX_RETRIES THEN "CIRCUIT_BREAK" ELSE rule, category)
  \/ /\ ~needsCredential
     /\ MayRepeat(rule)
     /\ identical < OccurrenceCap(category)
     /\ decision' = RetryDecision(KindOfCategory(category), rule, category)
     /\ UNCHANGED circuit

(***************************************************************************)
(* kindRetryBudget, capped.                                                *)
(***************************************************************************)
KindBudget(kind) ==
  AtMost(CASE kind = "transient_infrastructure"   -> AtMost(MaxTransientRetries, MAX_RETRIES)
           [] kind = "timeout"                    -> AtMost(MaxTimeoutRetries, MAX_RETRIES)
           [] kind = "recoverable_implementation" -> MaxIdenticalRetries
           [] OTHER                               -> 1,
         MAX_RETRIES)

DispositionOfKind(kind) ==
  CASE kind = "timeout"                    -> "RETRY_ONCE"
    [] kind = "recoverable_implementation" -> "AGENT_REPAIR"
    [] OTHER                               -> "RETRY"

RetryableKinds == {"transient_infrastructure", "recoverable_implementation", "timeout"}

\* Mutant: one attempt too many.
OutOfBudgetLate(kind, identical) ==
  totalAttempts >= MaxTotalAttempts \/ identical >= KindBudget(kind)

OutOfBudget(kind, identical) ==
  TotalUp >= MaxTotalAttempts \/ identical >= KindBudget(kind)

\* No row of the client table matched: the failure kind decides.
ApplyKindRule(kind, identical, authRequired) ==
  LET hardStop == authRequired \/ kind = "unsafe_unknown" IN
  \/ /\ hardStop
     /\ Trip
     /\ decision' = StopDecision("unsafe_unknown", StopAction(authRequired),
                       IF authRequired THEN "AUTH_REQUIRED" ELSE "BLOCK", NoCategory)
  \/ /\ ~hardStop
     /\ kind = "validation"
     /\ Trip
     /\ decision' = StopDecision("validation", "stop", "BLOCK", NoCategory)
  \/ /\ ~hardStop
     /\ kind = "repeated" \/ (kind \in RetryableKinds /\ OutOfBudget(kind, identical))
     /\ Trip
     /\ decision' = StopDecision("repeated", "stop", "CIRCUIT_BREAK", NoCategory)
  \/ /\ ~hardStop
     /\ kind \in RetryableKinds
     /\ ~OutOfBudget(kind, identical)
     /\ decision' = RetryDecision(kind, DispositionOfKind(kind), NoCategory)
     /\ UNCHANGED circuit

Decide(signature, kind, category, authRequired) ==
  LET identical == CountUp(signature) IN
  /\ identicalCounts' = [identicalCounts EXCEPT ![signature] = identical]
  /\ totalAttempts' = TotalUp
  /\ \/ /\ circuit = "open"
        /\ decision' = StopDecision("repeated", StopAction(authRequired),
                                    "CIRCUIT_BREAK", category)
        /\ UNCHANGED circuit
     \/ /\ circuit # "open"
        /\ category # NoCategory
        /\ ApplyClassifiedRule(category, identical, authRequired)
     \/ /\ circuit # "open"
        /\ category = NoCategory
        /\ ApplyKindRule(kind, identical, authRequired)

-------------------------------------------------------------------------------
(***************************************************************************)
(* The calls of the object.  The controller's call gives the category of   *)
(* the failure; recordAttempt() and the auth_required call of the          *)
(* controller give neither code nor message, which match no row.           *)
(***************************************************************************)
DecideFailure(f) == Decide(Signature(f), KindOf(f), CategoryOf(f), FALSE)

RecordAttempt(signature, kind) == Decide(signature, kind, NoCategory, FALSE)

DecideAuthRequired(signature) == Decide(signature, "unsafe_unknown", NoCategory, TRUE)

\* Mutant: the refusal does not trip the breaker.
RecordValidationFailureOnly ==
  /\ decision' = StopDecision("validation", "stop", "BLOCK", NoCategory)
  /\ UNCHANGED <<identicalCounts, totalAttempts, circuit>>

RecordValidationFailure ==
  /\ Trip
  /\ decision' = StopDecision("validation", "stop", "BLOCK", NoCategory)
  /\ UNCHANGED <<identicalCounts, totalAttempts>>

Reset ==
  /\ identicalCounts' = [s \in Signatures |-> 0]
  /\ totalAttempts' = 0
  /\ circuit' = "closed"
  /\ UNCHANGED decision

RetryNext ==
  \/ \E f \in Failures :
       \/ DecideFailure(f)
       \/ DecideAuthRequired(Signature(f))
       \/ \E kind \in FailureKinds : RecordAttempt(Signature(f), kind)
  \/ RecordValidationFailure
  \/ Reset

RetrySpec == RetryInit /\ [][RetryNext]_retryVars

-------------------------------------------------------------------------------
(***************************************************************************)
(* Properties                                                              *)
(***************************************************************************)

(***************************************************************************)
(* As long as the breaker is closed, no failure has been seen MAX_RETRIES  *)
(* times: whichever of the two rule tables answers, the third occurrence   *)
(* of the same failure finds the breaker open or opens it.                 *)
(***************************************************************************)
ThirdOccurrenceBreaks ==
  circuit # "open" => \A s \in Signatures : identicalCounts[s] < MAX_RETRIES

(***************************************************************************)
(* An answer and the breaker never disagree: a refusal is never given with *)
(* the breaker left closed, which would let the next failure retry, and a  *)
(* retry never with the breaker open.                                      *)
(***************************************************************************)
AnswerMatchesCircuit ==
  [][~Reset => (decision'.shouldRetry <=> circuit' # "open")]_retryVars

(***************************************************************************)
(* Within a run the breaker is never closed again and never grants another *)
(* attempt, whatever sequence of failures follows.  Only reset(), which    *)
(* starts a new run, closes it.                                            *)
(***************************************************************************)
OpenIsFinal ==
  [][circuit = "open" /\ ~Reset => /\ circuit' = "open"
                                   /\ ~decision'.shouldRetry]_retryVars

(***************************************************************************)
(* A failure that was refused - a code of UNSAFE_CODES or of a row that    *)
(* stops, or a class other than "recoverable" - gets another attempt only  *)
(* if both classifiers miss the refusal: its code and class match no row   *)
(* that stops, its text has no word of such a row, and its code or its     *)
(* text names a timeout or one of the repeatable rows.  The two            *)
(* classifiers look at text and codes in different orders, and between     *)
(* them they turn no other refused failure into a retryable one.  So a     *)
(* dangerous operation, a production target, a missing credential or a     *)
(* question for the client is never retried; what else the code refuses    *)
(* (NETWORK_DENIED, NOOP_AGENT, MALFORMED_OUTPUT, ...) is, when its text   *)
(* says "timeout".                                                         *)
(***************************************************************************)
StopRowCodes == DangerousCodes \cup ProductionCodes \cup CredentialCodes \cup AmbiguityCodes
StopRowWords == {"production", "credential", "ambiguity", "danger"}

OnStopRow(f) ==
  \/ f.code \in StopRowCodes
  \/ f.class = "auth_required"
  \/ Says[f.message] \cap StopRowWords # {}

Refused(f) ==
  \/ f.code \in UnsafeCodes \cup StopRowCodes
  \/ f.class # "recoverable"

RepeatableCodes == TimeoutCodes \cup BrowserCodes \cup DependencyCodes \cup ContainerCodes \cup BugCodes
RepeatableWords == {"timeout", "dependency", "container", "bug"}

LooksRepeatable(f) == f.code \in RepeatableCodes \/ Says[f.message] \cap RepeatableWords # {}

RefusedFailuresStop ==
  [][\A f \in Failures :
       DecideFailure(f) /\ Refused(f) /\ decision'.shouldRetry
         => ~OnStopRow(f) /\ LooksRepeatable(f)]_retryVars

(***************************************************************************)
(* A failure that no row of the client table covers never gets a retry     *)
(* once the attempts of the run are used up, also when each attempt fails  *)
(* in a new way.                                                           *)
(***************************************************************************)
UnclassifiedWithinTotal ==
  [][~Reset /\ decision'.shouldRetry /\ decision'.category = NoCategory
       => totalAttempts' < MaxTotalAttempts]_retryVars

(***************************************************************************)
(* docs/SAFETY.md: unlimited retries are excluded by "Caps on              *)
(* identical/total attempts".  No retry is granted once maxTotalAttempts   *)
(* attempts have been made.                                                *)
(***************************************************************************)
CappedTotal ==
  [][~Reset /\ decision'.shouldRetry => totalAttempts' < MaxTotalAttempts]_retryVars
==============================================================================
