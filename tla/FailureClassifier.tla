-------------------------- MODULE FailureClassifier --------------------------
(***************************************************************************)
(* The two taxonomies a failed agent attempt is sorted into before the     *)
(* retry policy looks at it:                                               *)
(*                                                                         *)
(*   - the failure kind   (src/retry/failure-classifier.ts), and           *)
(*   - the retry category (src/retry/classified-policy.ts), which selects  *)
(*     a row of the client table, or none.                                 *)
(*                                                                         *)
(* Both read the same three inputs: the class the adapter gives, its code, *)
(* and the text of its message.  A message is kept as the set of keyword   *)
(* families the regular expressions of the two classifiers look for; its   *)
(* wording is abstracted away.                                             *)
(***************************************************************************)

FailureClasses == {"recoverable", "non_recoverable", "auth_required", "unknown"}

FailureKinds == {"transient_infrastructure", "recoverable_implementation",
                 "validation", "timeout", "repeated", "unsafe_unknown"}

Categories == {"temporary_container_failure", "browser_timeout", "code_bug",
               "dependency_error", "missing_credential", "business_ambiguity",
               "dangerous_operation", "production_target"}

NoCategory == "none"

(***************************************************************************)
(* Keyword families.  "infrastructure" stands for the words transient and  *)
(* infrastructure, "timeout" for timeout and timed out, "browser" for      *)
(* browser and playwright, the others for the alternatives of one regular  *)
(* expression each.                                                        *)
(***************************************************************************)
Words == {"timeout", "infrastructure", "production", "credential", "ambiguity",
          "danger", "browser", "dependency", "container", "bug"}

TransientCodes == {"TOOL_CRASH", "ECONNRESET", "ECONNREFUSED", "ETIMEDOUT",
                   "NETWORK_GLITCH", "INFRA_TRANSIENT", "DOCKER_DAEMON_BUSY"}

TimeoutCodes == {"AGENT_TIMEOUT", "TIMEOUT", "DEADLINE_EXCEEDED"}

UnsafeCodes == {"SECRET_PATTERN", "PRODUCTION_INDICATOR", "PATH_ESCAPE",
                "NETWORK_DENIED", "IRREVERSIBLE_ACTION", "NOOP_AGENT",
                "MOCK_FAILURE", "OPENHANDS_NOT_AVAILABLE", "FORBIDDEN_VERDICT"}

\* Codes that start with MOCK_RETRYABLE or contain RETRY.
RetryMarkedCodes == {"MOCK_RETRYABLE", "RETRY_LATER"}

ProductionCodes == {"PRODUCTION_INDICATOR", "PRODUCTION_TARGET"}
CredentialCodes == {"AUTH_REQUIRED", "MISSING_CREDENTIAL"}
AmbiguityCodes  == {"BUSINESS_AMBIGUITY", "CLIENT_DECISION"}
DangerousCodes  == {"SECRET_PATTERN", "IRREVERSIBLE_ACTION",
                    "DANGEROUS_OPERATION", "PATH_ESCAPE"}
BrowserCodes    == {"BROWSER_TIMEOUT", "PLAYWRIGHT_TIMEOUT"}
DependencyCodes == {"DEPENDENCY_ERROR", "MODULE_NOT_FOUND"}
ContainerCodes  == {"TOOL_CRASH", "DOCKER_DAEMON_BUSY", "CONTAINER_FAILURE",
                    "ECONNRESET", "ECONNREFUSED"}
BugCodes        == {"CODE_BUG", "MOCK_RETRYABLE"}

(***************************************************************************)
(* Failures no code of the tables names: the exit codes and the parser     *)
(* errors of src/agent, an outcome without a code, and the code the        *)
(* failure demo gives a repair that did not help.                          *)
(***************************************************************************)
OtherCodes == {"NONE", "OPENHANDS_EXIT_0", "OPENHANDS_EXIT_NONZERO",
               "MALFORMED_OUTPUT", "FORBIDDEN_PIPELINE_VERDICT",
               "REPAIR_STILL_FAILING"}

Codes == UNION {TransientCodes, TimeoutCodes, UnsafeCodes, RetryMarkedCodes,
                ProductionCodes, CredentialCodes, AmbiguityCodes,
                DangerousCodes, BrowserCodes, DependencyCodes, ContainerCodes,
                BugCodes, OtherCodes}

(***************************************************************************)
(* classifyFailure for an outcome of the agent: the order of the tests is  *)
(* the order of the code.  A timeout is recognised before an unsafe code,  *)
(* and whatever nothing recognises is unsafe.                              *)
(***************************************************************************)
ClassifyFailure(class, code, says) ==
  IF class = "auth_required" THEN "unsafe_unknown"
  ELSE IF code \in TimeoutCodes \/ "timeout" \in says THEN "timeout"
  ELSE IF code \in UnsafeCodes \/ class \in {"non_recoverable", "unknown"}
    THEN "unsafe_unknown"
  ELSE IF code \in TransientCodes \/ "infrastructure" \in says
    THEN "transient_infrastructure"
  ELSE IF class = "recoverable" \/ code \in RetryMarkedCodes
    THEN "recoverable_implementation"
  ELSE "unsafe_unknown"

(***************************************************************************)
(* classifyRetryCategory: the first row of the client table that matches,  *)
(* or none.                                                                *)
(***************************************************************************)
ClassifyRetryCategory(class, code, says) ==
  IF code \in ProductionCodes \/ "production" \in says THEN "production_target"
  ELSE IF \/ class = "auth_required"
          \/ code \in CredentialCodes
          \/ "credential" \in says THEN "missing_credential"
  ELSE IF code \in AmbiguityCodes \/ "ambiguity" \in says THEN "business_ambiguity"
  ELSE IF code \in DangerousCodes \/ "danger" \in says THEN "dangerous_operation"
  ELSE IF code \in BrowserCodes \/ {"timeout", "browser"} \subseteq says
    THEN "browser_timeout"
  ELSE IF code \in DependencyCodes \/ "dependency" \in says THEN "dependency_error"
  ELSE IF code \in ContainerCodes \/ "container" \in says
    THEN "temporary_container_failure"
  ELSE IF code \in BugCodes \/ "bug" \in says THEN "code_bug"
  ELSE NoCategory

(***************************************************************************)
(* The client table: what is done about a category, and how many           *)
(* occurrences of the same failure it tolerates.                           *)
(***************************************************************************)
MAX_RETRIES == 3

Dispositions == {"RETRY", "RETRY_ONCE", "AGENT_REPAIR", "AGENT_INVESTIGATE",
                 "AUTH_REQUIRED", "CLIENT_DECISION", "BLOCK", "CIRCUIT_BREAK"}

RuleDisposition(category) ==
  CASE category = "temporary_container_failure" -> "RETRY"
    [] category = "browser_timeout"             -> "RETRY_ONCE"
    [] category = "code_bug"                    -> "AGENT_REPAIR"
    [] category = "dependency_error"            -> "AGENT_INVESTIGATE"
    [] category = "missing_credential"          -> "AUTH_REQUIRED"
    [] category = "business_ambiguity"          -> "CLIENT_DECISION"
    [] OTHER                                    -> "BLOCK"

RuleMaxOccurrences(category) ==
  CASE category \in {"temporary_container_failure", "code_bug"} -> MAX_RETRIES
    [] category \in {"browser_timeout", "dependency_error"}     -> 2
    [] OTHER                                                    -> 1

\* dispositionMayRepeat
MayRepeat(disposition) ==
  disposition \in {"RETRY", "RETRY_ONCE", "AGENT_REPAIR", "AGENT_INVESTIGATE"}

(***************************************************************************)
(* The kind a row of the table reports when it grants a retry.             *)
(***************************************************************************)
KindOfCategory(category) ==
  CASE category = "browser_timeout"             -> "timeout"
    [] category = "temporary_container_failure" -> "transient_infrastructure"
    [] OTHER                                    -> "recoverable_implementation"
==============================================================================
