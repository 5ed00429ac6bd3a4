-------------------------- MODULE FailureDemoProofs --------------------------
(***************************************************************************)
(* Theorems about FailureDemo, for every catalog, every number of repairs  *)
(* and every number of demonstrations in one directory.                    *)
(*                                                                         *)
(* The argument: Flow says what is known at each place (a repair begins    *)
(* only after this demo has broken the catalog and kept it, the broader    *)
(* validation only with every targeted check right); Recorded says whose   *)
(* status the files hold; Bounded ties how often the agent was handed the  *)
(* same failure text to how often the policy has counted it.               *)
(***************************************************************************)
EXTENDS FailureDemo, RetryPolicyProofs

Early   == {"materialize", "listen", "inject", "target", "targeted", "unsafe"}
Repairs == {"loop", "repair", "retarget", "decide", "stopped", "validate"}
Closing == {"bundle", "file", "pack", "close"}

Flow ==
  /\ pc \in ShopPlaces \cup {"listen"} => mode = "recoverable"
  /\ pc \in Early => repairs = 0
  /\ pc \in {"target", "targeted"} => catalog = injected
  /\ pc \in Repairs => failedState = [demo |-> demo, catalog |-> injected]
  /\ pc \in {"repair", "retarget", "decide", "validate"} => repairs > 0
  /\ pc = "loop" /\ failed = {} => repairs > 0
  /\ pc = "decide" => failed # {}
  /\ pc = "validate" => failed = {}
  /\ pc \in {"loop", "validate"} /\ failed = {} => TargetedChecks \subseteq Right(catalog)

Backed(file) == file # Absent /\ file.status = "PASS" => file.demo \in passed

Recorded ==
  /\ Backed(statusFile) /\ Backed(demoFile) /\ Backed(verdictFile)
  /\ pc \in Closing /\ status = "PASS" => demo \in passed
  /\ returned => /\ pc = "idle"
                 /\ statusFile = Result /\ demoFile = Result /\ verdictFile = Result
  /\ pc \in {"file", "pack", "close"} => statusFile = Result
  /\ pc \in {"pack", "close"} => demoFile = Result
  /\ pc = "close" => verdictFile = Result

\* How often the policy has counted this failure.
Seen(detail) == identicalCounts[Signature(StillFailing(detail))]

Bounded ==
  /\ \A detail \in Details :
       handed[detail] <= 2 /\ handed[detail] <= Seen(detail) + 1
  /\ pc \in Early =>
       \A detail \in Details : handed[detail] = 0 /\ Seen(detail) = 0
  /\ pc = "loop" /\ failed # {} => handed[Detail] <= Seen(Detail) /\ Seen(Detail) <= 1

DemoInv ==
  /\ DemoTypeOK
  /\ RetryInv
  /\ ShopIsClosed
  /\ Flow
  /\ FailedStateIsKept
  /\ PassIsEarned
  /\ Recorded
  /\ Bounded

-------------------------------------------------------------------------------
(***************************************************************************)
(* The assumptions in the form the steps need them.                        *)
(***************************************************************************)
LEMMA DetailFacts ==
  ASSUME NEW detail \in Details
  PROVE  /\ StillFailing(detail) \in Failures
         /\ Signature(StillFailing(detail)) \in Signatures
BY DemoAssumption, SignatureType

LEMMA DetailTyped ==
  ASSUME DemoTypeOK
  PROVE  Detail \in Details
BY DEF DemoTypeOK, Detail, Details

LEMMA SignatureTells ==
  ASSUME NEW c \in Details, NEW d \in Details,
         Signature(StillFailing(c)) = Signature(StillFailing(d))
  PROVE  c = d
BY DEF Signature, StillFailing

(***************************************************************************)
(* Most steps leave the retry policy alone.                                *)
(***************************************************************************)
LEMMA RetryFrozen ==
  ASSUME RetryInv, UNCHANGED retryVars
  PROVE  RetryInv' /\ \A detail \in Details : Seen(detail)' = Seen(detail)
BY DEF RetryInv, RetryTypeOK, ThirdOccurrenceBreaks, retryVars, Seen

LEMMA InitiallyInv ==
  ASSUME DemoInit
  PROVE  DemoInv
<1>1. RetryInv
  BY BudgetAssumption
     DEF DemoInit, RetryInit, RetryInv, RetryTypeOK, ThirdOccurrenceBreaks, MAX_RETRIES
<1>2. DemoTypeOK
  <2>1. handed \in [Details -> Nat]
    BY DEF DemoInit
  <2>2. demo \in 0..MaxDemos /\ brief \in 0..MaxDemos /\ repairs \in 0..MaxRepairAttempts
    BY DemoAssumption DEF DemoInit
  <2> QED BY <1>1, <2>1, <2>2 DEF DemoInit, DemoTypeOK, RetryInv, Catalogs, StatusFiles, FailedStates
<1>3. \A detail \in Details : handed[detail] = 0 /\ Seen(detail) = 0
  BY DetailFacts DEF DemoInit, RetryInit, Seen
<1>4. ShopIsClosed /\ Flow /\ FailedStateIsKept /\ PassIsEarned
  BY DEF DemoInit, ShopIsClosed, Flow, ShopPlaces, Early, Repairs, FailedStateIsKept, PassIsEarned
<1>5. Recorded
  BY DEF DemoInit, Recorded, Backed, Closing
<1>6. Bounded
  BY <1>3 DEF DemoInit, Bounded, Early
<1> QED BY <1>1, <1>2, <1>4, <1>5, <1>6 DEF DemoInv

(***************************************************************************)
(* The workspace, the shop and the agent.                                  *)
(***************************************************************************)
LEMMA SetupKeepsInv ==
  ASSUME DemoInv, MaterializeEvaluationDemo \/ StartServer \/ RunAgent
  PROVE  DemoInv'
<1> USE DEF MaterializeEvaluationDemo, StartServer, RunAgent, inputs,
            workspace, loop, outputs
<1>1. RetryInv'
  BY RetryFrozen DEF DemoInv
<1>2. DemoTypeOK'
  <2>1. CASE MaterializeEvaluationDemo
    BY <1>1, <2>1 DEF DemoInv, DemoTypeOK, RetryInv, ShopPlaces, Catalogs
  <2>2. CASE StartServer
    BY <1>1, <2>2 DEF DemoInv, DemoTypeOK, RetryInv, ShopPlaces, Catalogs
  <2>3. CASE RunAgent
    BY <1>1, <2>3 DEF DemoInv, DemoTypeOK, RetryInv, ShopPlaces, Catalogs
  <2> QED BY <2>1, <2>2, <2>3
<1>3. ShopIsClosed' /\ FailedStateIsKept'
  BY DEF DemoInv, ShopIsClosed, FailedStateIsKept, Flow, Repairs, Early
<1>4. Flow'
  BY DEF DemoInv, DemoTypeOK, Flow, Repairs, Early, ShopPlaces, Right
<1>5. PassIsEarned'
  BY DEF DemoInv, DemoTypeOK, PassIsEarned, FailedStateIsKept, Flow, ShopPlaces, Right
<1>6. Recorded'
  BY DEF DemoInv, Recorded, Backed, Result, Closing
<1>7. Bounded'
  <2>1. \A detail \in Details : Seen(detail)' = Seen(detail)
    BY RetryFrozen DEF DemoInv
  <2> QED BY <2>1 DEF DemoInv, DemoTypeOK, Bounded, Early, Detail
<1> QED BY <1>1, <1>2, <1>3, <1>4, <1>5, <1>6, <1>7 DEF DemoInv

(***************************************************************************)
(* The targeted checks: only here the failed ones change, and without any  *)
(* failed the catalog is right.                                            *)
(***************************************************************************)
LEMMA ChecksKeepsInv ==
  ASSUME DemoInv, RunTargetedValidation
  PROVE  DemoInv'
<1> USE DEF RunTargetedValidation, inputs, workspace, loop, outputs
<1>1. RetryInv'
  BY RetryFrozen DEF DemoInv
<1>2. DemoTypeOK'
  <2>1. PICK crashed \in SUBSET {"acceptance-tests"} :
          failed' = (TargetedChecks \ Right(catalog)) \cup crashed
    OBVIOUS
  <2>2. failed' \in SUBSET TargetedChecks
    BY <2>1 DEF TargetedChecks
  <2>3. pc' \in {"targeted", "loop", "decide"}
    OBVIOUS
  <2> QED BY <1>1, <2>2, <2>3 DEF DemoInv, DemoTypeOK, RetryInv, ShopPlaces
<1>3. ShopIsClosed' /\ FailedStateIsKept'
  BY DEF DemoInv, ShopIsClosed, FailedStateIsKept, Flow, Repairs, Early
<1>4. Flow'
  BY DEF DemoInv, DemoTypeOK, Flow, Repairs, Early, ShopPlaces, Right
<1>5. PassIsEarned'
  BY DEF DemoInv, DemoTypeOK, PassIsEarned, FailedStateIsKept, Flow, ShopPlaces, Right
<1>6. Recorded'
  BY DEF DemoInv, Recorded, Backed, Result, Closing
<1>7. Bounded'
  <2>1. \A detail \in Details : Seen(detail)' = Seen(detail)
    BY RetryFrozen DEF DemoInv
  <2> QED BY <2>1 DEF DemoInv, DemoTypeOK, Bounded, Early, Detail
<1> QED BY <1>1, <1>2, <1>3, <1>4, <1>5, <1>6, <1>7 DEF DemoInv

(***************************************************************************)
(* The failed state is kept before the first repair.                       *)
(***************************************************************************)
LEMMA PreserveKeepsInv ==
  ASSUME DemoInv, PreserveFailedState
  PROVE  DemoInv'
<1> USE DEF PreserveFailedState, inputs, workspace, loop, outputs
<1>1. RetryInv'
  BY RetryFrozen DEF DemoInv
<1>2. DemoTypeOK'
  BY <1>1 DEF DemoInv, DemoTypeOK, RetryInv, ShopPlaces, FailedStates
<1>3. ShopIsClosed' /\ FailedStateIsKept'
  BY DEF DemoInv, ShopIsClosed, FailedStateIsKept, Flow, Repairs, Early
<1>4. Flow'
  BY DEF DemoInv, DemoTypeOK, Flow, Repairs, Early, ShopPlaces, Right
<1>5. PassIsEarned'
  BY DEF DemoInv, DemoTypeOK, PassIsEarned, FailedStateIsKept, Flow, ShopPlaces, Right
<1>6. Recorded'
  BY DEF DemoInv, Recorded, Backed, Result, Closing
<1>7. Bounded'
  <2>1. \A detail \in Details : Seen(detail)' = Seen(detail)
    BY RetryFrozen DEF DemoInv
  <2> QED BY <2>1, DetailTyped DEF DemoInv, DemoTypeOK, Bounded, Early, Detail
<1> QED BY <1>1, <1>2, <1>3, <1>4, <1>5, <1>6, <1>7 DEF DemoInv

(***************************************************************************)
(* Another turn of the loop hands the failure to the agent: it was counted *)
(* as often as it was handed before.                                       *)
(***************************************************************************)
LEMMA BriefKeepsInv ==
  ASSUME DemoInv, WriteRepairBrief
  PROVE  DemoInv'
<1> USE DEF WriteRepairBrief, inputs, workspace, loop, outputs
<1>1. RetryInv'
  BY RetryFrozen DEF DemoInv
<1>2. DemoTypeOK'
  <2>1. handed[Detail] \in Nat /\ repairs' \in 0..MaxRepairAttempts
    BY DemoAssumption, DetailTyped DEF DemoInv, DemoTypeOK
  <2>2. handed' \in [Details -> Nat]
    BY <2>1, DetailTyped DEF DemoInv, DemoTypeOK
  <2>3. brief' \in 0..MaxDemos
    BY DEF DemoInv, DemoTypeOK
  <2> QED BY <1>1, <2>1, <2>2, <2>3 DEF DemoInv, DemoTypeOK, RetryInv, ShopPlaces
<1>3. ShopIsClosed' /\ FailedStateIsKept'
  BY DEF DemoInv, ShopIsClosed, FailedStateIsKept, Flow, Repairs, Early
<1>4. Flow'
  BY DEF DemoInv, DemoTypeOK, Flow, Repairs, Early, ShopPlaces, Right
<1>5. PassIsEarned'
  BY DEF DemoInv, DemoTypeOK, PassIsEarned, FailedStateIsKept, Flow, ShopPlaces, Right
<1>6. Recorded'
  BY DEF DemoInv, Recorded, Backed, Result, Closing
<1>7. Bounded'
  <2>1. \A detail \in Details : Seen(detail)' = Seen(detail)
    BY RetryFrozen DEF DemoInv
  <2>2. handed[Detail] \in Nat /\ handed[Detail] <= Seen(Detail) /\ Seen(Detail) <= 1
    BY DetailTyped DEF DemoInv, DemoTypeOK, Bounded, Detail
  <2>3. Seen(Detail) \in Nat
    BY DetailFacts, DetailTyped DEF DemoInv, DemoTypeOK, RetryTypeOK, Seen, MAX_RETRIES
  <2>4. ASSUME NEW detail \in Details
        PROVE  handed'[detail] <= 2 /\ handed'[detail] <= Seen(detail) + 1
    BY <2>2, <2>3 DEF DemoInv, DemoTypeOK, Bounded, Detail
  <2> QED BY <2>1, <2>4 DEF Bounded, Early
<1> QED BY <1>1, <1>2, <1>3, <1>4, <1>5, <1>6, <1>7 DEF DemoInv

(***************************************************************************)
(* A demo that is not repaired is a BLOCK.                                 *)
(***************************************************************************)
LEMMA BlockKeepsInv ==
  ASSUME DemoInv, BlockUnrepaired \/ StopUnsafe \/ BroaderBundle
  PROVE  DemoInv'
<1> USE DEF BlockUnrepaired, StopUnsafe, BroaderBundle, Finalize, inputs,
            workspace, loop, outputs
<1>1. RetryInv'
  BY RetryFrozen DEF DemoInv
<1>2. DemoTypeOK'
  <2>1. CASE BlockUnrepaired
    BY <1>1, <2>1 DEF DemoInv, DemoTypeOK, RetryInv, ShopPlaces
  <2>2. CASE StopUnsafe
    BY <1>1, <2>2 DEF DemoInv, DemoTypeOK, RetryInv, ShopPlaces, Catalogs
  <2>3. CASE BroaderBundle
    BY <1>1, <2>3 DEF DemoInv, DemoTypeOK, RetryInv, ShopPlaces, StatusFiles
  <2> QED BY <2>1, <2>2, <2>3
<1>3. ShopIsClosed' /\ FailedStateIsKept'
  BY DEF DemoInv, ShopIsClosed, FailedStateIsKept, Flow, Repairs, Early
<1>4. Flow'
  BY DEF DemoInv, DemoTypeOK, Flow, Repairs, Early, ShopPlaces, Right
<1>5. PassIsEarned'
  BY DEF DemoInv, DemoTypeOK, PassIsEarned, FailedStateIsKept, Flow, ShopPlaces, Right
<1>6. Recorded'
  BY DEF DemoInv, Recorded, Backed, Result, Closing
<1>7. Bounded'
  <2>1. \A detail \in Details : Seen(detail)' = Seen(detail)
    BY RetryFrozen DEF DemoInv
  <2> QED BY <2>1 DEF DemoInv, DemoTypeOK, Bounded, Early, Detail
<1> QED BY <1>1, <1>2, <1>3, <1>4, <1>5, <1>6, <1>7 DEF DemoInv

(***************************************************************************)
(* The broader validation passes a repaired catalog only.                  *)
(***************************************************************************)
LEMMA BroaderKeepsInv ==
  ASSUME DemoInv, RunBroaderValidation
  PROVE  DemoInv'
<1> USE DEF RunBroaderValidation, Finalize, inputs, workspace, loop, outputs
<1>1. RetryInv'
  BY RetryFrozen DEF DemoInv
<1>2. DemoTypeOK'
  <2>1. PICK verdict \in {"PASS", "BLOCK"} :
          /\ verdictFile' = [demo |-> demo, status |-> verdict]
          /\ passed' = IF verdict = "PASS" THEN passed \cup {demo} ELSE passed
          /\ status' = verdict /\ pc' = "bundle"
    OBVIOUS
  <2>2. demo \in Demos
    BY DEF DemoInv, DemoTypeOK
  <2>3. verdictFile' \in StatusFiles /\ passed' \subseteq Demos
    BY <2>1, <2>2 DEF DemoInv, DemoTypeOK, StatusFiles
  <2> QED BY <1>1, <2>1, <2>3 DEF DemoInv, DemoTypeOK, RetryInv, ShopPlaces
<1>3. ShopIsClosed' /\ FailedStateIsKept'
  BY DEF DemoInv, ShopIsClosed, FailedStateIsKept, Flow, Repairs, Early
<1>4. Flow'
  BY DEF DemoInv, DemoTypeOK, Flow, Repairs, Early, ShopPlaces, Right
<1>5. PassIsEarned'
  <2>1. status' = "PASS" => BroaderMayPass
    OBVIOUS
  <2>2. /\ mode = "recoverable" /\ repairs > 0
        /\ failedState = [demo |-> demo, catalog |-> injected]
        /\ TargetedChecks \subseteq Right(catalog)
    BY DEF DemoInv, Flow, ShopPlaces, Repairs
  <2>3. BroaderMayPass => changed /\ Facts \subseteq Right(catalog)
    BY <2>2 DEF BroaderMayPass, Facts
  <2>4. Right(catalog)' = Right(catalog)
    BY DEF Right
  <2> QED BY <2>1, <2>2, <2>3, <2>4 DEF PassIsEarned
<1>6. Recorded'
  BY DEF DemoInv, Recorded, Backed, Result, Closing
<1>7. Bounded'
  <2>1. \A detail \in Details : Seen(detail)' = Seen(detail)
    BY RetryFrozen DEF DemoInv
  <2> QED BY <2>1 DEF DemoInv, DemoTypeOK, Bounded, Early, Detail
<1> QED BY <1>1, <1>2, <1>3, <1>4, <1>5, <1>6, <1>7 DEF DemoInv

(***************************************************************************)
(* finalizeDemo writes the three files one after the other.                *)
(***************************************************************************)
LEMMA FilesKeepsInv ==
  ASSUME DemoInv, WriteBundle \/ WriteDemoFile \/ FinalizePack \/ Close
  PROVE  DemoInv'
<1> USE DEF WriteBundle, WriteDemoFile, FinalizePack, Close, inputs,
            workspace, loop, outputs
<1>1. RetryInv'
  BY RetryFrozen DEF DemoInv
<1>2. DemoTypeOK'
  <2>1. pc \in Closing => Result \in StatusFiles
    BY DEF DemoInv, DemoTypeOK, Closing, Result, StatusFiles
  <2> QED BY <1>1, <2>1 DEF DemoInv, DemoTypeOK, RetryInv, ShopPlaces, Closing
<1>3. ShopIsClosed' /\ FailedStateIsKept'
  BY DEF DemoInv, ShopIsClosed, FailedStateIsKept, Flow, Repairs, Early
<1>4. Flow'
  BY DEF DemoInv, DemoTypeOK, Flow, Repairs, Early, ShopPlaces, Right
<1>5. PassIsEarned'
  BY DEF DemoInv, DemoTypeOK, PassIsEarned, FailedStateIsKept, Flow, ShopPlaces, Right
<1>6. Recorded'
  BY DEF DemoInv, Recorded, Backed, Result, Closing
<1>7. Bounded'
  <2>1. \A detail \in Details : Seen(detail)' = Seen(detail)
    BY RetryFrozen DEF DemoInv
  <2> QED BY <2>1 DEF DemoInv, DemoTypeOK, Bounded, Early, Detail
<1> QED BY <1>1, <1>2, <1>3, <1>4, <1>5, <1>6, <1>7 DEF DemoInv

(***************************************************************************)
(* An invalid demo and an error leave everything as it is, the shop closed. *)
(***************************************************************************)
LEMMA FailureKeepsInv ==
  ASSUME DemoInv, RefuseInvalidDemo \/ Throws
  PROVE  DemoInv'
<1> USE DEF RefuseInvalidDemo, Throws, inputs, workspace, loop, outputs
<1>1. RetryInv'
  BY RetryFrozen DEF DemoInv
<1>2. DemoTypeOK'
  BY <1>1 DEF DemoInv, DemoTypeOK, RetryInv, ShopPlaces
<1>3. ShopIsClosed' /\ FailedStateIsKept'
  BY DEF DemoInv, ShopIsClosed, FailedStateIsKept, Flow, Repairs, Early
<1>4. Flow'
  BY DEF DemoInv, DemoTypeOK, Flow, Repairs, Early, ShopPlaces, Right
<1>5. PassIsEarned'
  BY DEF DemoInv, DemoTypeOK, PassIsEarned, FailedStateIsKept, Flow, ShopPlaces, Right
<1>6. Recorded'
  BY DEF DemoInv, Recorded, Backed, Result, Closing
<1>7. Bounded'
  <2>1. \A detail \in Details : Seen(detail)' = Seen(detail)
    BY RetryFrozen DEF DemoInv
  <2> QED BY <2>1 DEF DemoInv, DemoTypeOK, Bounded, Early, Detail
<1> QED BY <1>1, <1>2, <1>3, <1>4, <1>5, <1>6, <1>7 DEF DemoInv

(***************************************************************************)
(* A new demo starts with nothing handed and nothing counted.              *)
(***************************************************************************)
LEMMA StartKeepsInv ==
  ASSUME DemoInv, NEW m \in {"recoverable", "unrecoverable"}, Start(m)
  PROVE  DemoInv'
<1> USE DEF Start, workspace
<1>1. RetryInv'
  BY ResetRestarts DEF DemoInv
<1>2. DemoTypeOK'
  <2>1. handed' \in [Details -> Nat]
    OBVIOUS
  <2>2. /\ demo' \in Demos /\ demo' \in 0..MaxDemos
        /\ repairs' \in 0..MaxRepairAttempts
    BY DemoAssumption DEF DemoInv, DemoTypeOK, Demos
  <2> QED BY <1>1, <2>1, <2>2 DEF DemoInv, DemoTypeOK, RetryInv
<1>3. ShopIsClosed' /\ FailedStateIsKept'
  BY DEF DemoInv, ShopIsClosed, FailedStateIsKept
<1>4. Flow'
  BY DEF Flow, Repairs, Early, ShopPlaces
<1>5. PassIsEarned'
  BY DEF PassIsEarned
<1>6. Recorded'
  BY DEF DemoInv, Recorded, Backed, Closing
<1>7. Bounded'
  <2>1. ASSUME NEW detail \in Details
        PROVE  handed'[detail] = 0 /\ Seen(detail)' = 0
    BY DetailFacts DEF Reset, Seen
  <2> QED BY <2>1 DEF Bounded, Early
<1> QED BY <1>1, <1>2, <1>3, <1>4, <1>5, <1>6, <1>7 DEF DemoInv

(***************************************************************************)
(* What recordAttempt answers to a repair that did not help: one more      *)
(* count for this failure, none for others, and another attempt only below *)
(* the budget of the kind.                                                 *)
(***************************************************************************)
LEMMA RepairAnswer ==
  ASSUME RetryInv, NEW detail \in Details,
         RecordAttempt(Signature(StillFailing(detail)), "recoverable_implementation")
  PROVE  /\ RetryInv'
         /\ \A other \in Details : Seen(other) <= Seen(other)'
         /\ decision'.shouldRetry => Seen(detail)' = Seen(detail) + 1 /\ Seen(detail)' <= 1
<1> DEFINE signature == Signature(StillFailing(detail))
           kind == "recoverable_implementation"
<1>1. Decide(signature, kind, NoCategory, FALSE)
  BY DEF RecordAttempt
<1>2. signature \in Signatures /\ kind \in FailureKinds
  BY DetailFacts DEF FailureKinds
<1>3. RetryInv' /\ (decision'.shouldRetry <=> circuit' # "open") /\ (circuit = "open" => circuit' = "open")
  <2> HIDE DEF signature, kind
  <2> QED BY <1>1, <1>2, DecideAnswers
<1>4. CountUp(signature) = AtMost(Seen(detail) + 1, MAX_RETRIES)
  BY DemoAssumption DEF CountUp, Seen
<1>5. Seen(detail) \in 0..3
  BY <1>2 DEF RetryInv, RetryTypeOK, Seen, MAX_RETRIES
<1>6. identicalCounts' = [identicalCounts EXCEPT ![signature] = CountUp(signature)]
  BY <1>1 DEF Decide
<1>7. Seen(detail)' = CountUp(signature)
  BY <1>2, <1>6 DEF RetryInv, RetryTypeOK, Seen
<1>8. ASSUME NEW other \in Details
      PROVE  Seen(other) <= Seen(other)'
  <2>1. CASE other = detail
    BY <1>4, <1>5, <1>7, <2>1 DEF AtMost, MAX_RETRIES
  <2>2. CASE other # detail
    <3>1. Signature(StillFailing(other)) \in Signatures /\ Signature(StillFailing(other)) # signature
      BY <2>2, DetailFacts, SignatureTells
    <3>2. Seen(other)' = Seen(other) /\ Seen(other) \in 0..MAX_RETRIES
      BY <1>6, <3>1 DEF RetryInv, RetryTypeOK, Seen
    <3> QED BY <3>2 DEF MAX_RETRIES
  <2> QED BY <2>1, <2>2
<1>9. decision'.shouldRetry => Seen(detail)' = Seen(detail) + 1 /\ Seen(detail)' <= 1
  <2> SUFFICES ASSUME decision'.shouldRetry
               PROVE  Seen(detail)' = Seen(detail) + 1 /\ Seen(detail)' <= 1
    OBVIOUS
  <2>1. ApplyKindRule(kind, CountUp(signature), FALSE)
    BY <1>1, <1>3 DEF Decide
  <2>2. ~OutOfBudget(kind, CountUp(signature))
    BY <2>1 DEF ApplyKindRule, StopDecision
  <2>3. KindBudget(kind) = 2
    BY DemoAssumption DEF KindBudget, AtMost, MAX_RETRIES
  <2>4. ~(CountUp(signature) >= 2)
    BY <2>2, <2>3 DEF OutOfBudget
  <2> QED BY <1>4, <1>5, <1>7, <2>4 DEF AtMost, MAX_RETRIES
<1> QED BY <1>3, <1>8, <1>9

(***************************************************************************)
(* The loop goes on only with an answer that leaves one turn at this       *)
(* failure.                                                                *)
(***************************************************************************)
LEMMA DecideKeepsInv ==
  ASSUME DemoInv, DecideRepair
  PROVE  DemoInv'
<1> USE DEF inputs, workspace, loop, outputs
<1>1. /\ RecordAttempt(Signature(StillFailing(Detail)), "recoverable_implementation")
      /\ pc = "decide" /\ pc' \in {"stopped", "loop"}
      /\ pc' = "loop" => decision'.shouldRetry
      /\ UNCHANGED <<inputs, server, workspace, loop, outputs>>
  BY DEF DecideRepair
<1>2. Detail \in Details /\ failed # {} /\ Detail' = Detail
  BY <1>1, DetailTyped DEF DemoInv, Flow, Detail
<1>3. /\ RetryInv'
      /\ \A other \in Details : Seen(other) <= Seen(other)'
      /\ decision'.shouldRetry => Seen(Detail)' = Seen(Detail) + 1 /\ Seen(Detail)' <= 1
  BY <1>1, <1>2, RepairAnswer DEF DemoInv
<1>4. DemoTypeOK'
  BY <1>1, <1>3 DEF DemoInv, DemoTypeOK, RetryInv, ShopPlaces
<1>5. ShopIsClosed' /\ FailedStateIsKept'
  BY <1>1 DEF DemoInv, ShopIsClosed, FailedStateIsKept
<1>6. Flow'
  BY <1>1, <1>2 DEF DemoInv, Flow, Repairs, Early, ShopPlaces
<1>7. PassIsEarned'
  BY <1>1 DEF PassIsEarned
<1>8. Recorded'
  BY <1>1 DEF DemoInv, Recorded, Backed, Result, Closing
<1>9. Bounded'
  <2>1. ASSUME NEW detail \in Details
        PROVE  handed[detail] \in Nat /\ Seen(detail) \in Nat /\ (Seen(detail)' \in Nat)
    <3>1. Signature(StillFailing(detail)) \in Signatures
      BY DetailFacts
    <3>2. Seen(detail) \in Nat /\ (Seen(detail)' \in Nat)
      BY <1>3, <3>1 DEF DemoInv, RetryInv, RetryTypeOK, Seen, MAX_RETRIES
    <3> QED BY <3>2 DEF DemoInv, DemoTypeOK
  <2>2. ASSUME NEW detail \in Details
        PROVE  handed'[detail] <= 2 /\ handed'[detail] <= Seen(detail)' + 1
    BY <1>1, <1>3, <2>1 DEF DemoInv, Bounded
  <2>3. pc' = "loop" => handed'[Detail'] <= Seen(Detail)' /\ Seen(Detail)' <= 1
    BY <1>1, <1>2, <1>3, <2>1 DEF DemoInv, Bounded
  <2> QED BY <1>1, <2>2, <2>3 DEF Bounded, Early, Seen
<1> QED BY <1>3, <1>4, <1>5, <1>6, <1>7, <1>8, <1>9 DEF DemoInv

LEMMA StepKeepsInv ==
  ASSUME DemoInv, [DemoNext]_demoVars
  PROVE  DemoInv'
<1>1. CASE DemoNext
  BY <1>1, SetupKeepsInv, ChecksKeepsInv, PreserveKeepsInv, BriefKeepsInv, DecideKeepsInv,
     BlockKeepsInv, BroaderKeepsInv, FilesKeepsInv, FailureKeepsInv, StartKeepsInv
     DEF DemoNext, DemoStep
<1>2. CASE UNCHANGED demoVars
  <2> USE <1>2 DEF demoVars
  <2>1. RetryInv' /\ \A detail \in Details : Seen(detail)' = Seen(detail)
    BY RetryFrozen DEF DemoInv
  <2>2. DemoTypeOK' /\ ShopIsClosed' /\ FailedStateIsKept'
    BY <2>1 DEF DemoInv, DemoTypeOK, RetryInv, ShopIsClosed, FailedStateIsKept
  <2>3. Flow' /\ PassIsEarned' /\ Recorded'
    BY DEF DemoInv, Flow, PassIsEarned, Recorded, Backed, Result, Right
  <2>4. Bounded'
    BY <2>1, DetailTyped DEF DemoInv, DemoTypeOK, Bounded, Detail
  <2> QED BY <2>1, <2>2, <2>3, <2>4 DEF DemoInv
<1> QED BY <1>1, <1>2

-------------------------------------------------------------------------------
(***************************************************************************)
(* The inductive invariant holds of every reachable state.                 *)
(***************************************************************************)
THEOREM DemoInvariance == DemoSpec => []DemoInv
BY InitiallyInv, StepKeepsInv, PTL DEF DemoSpec

(***************************************************************************)
(* Type correctness of the failure demonstration.                          *)
(***************************************************************************)
THEOREM DemoTypes == DemoSpec => []DemoTypeOK
BY DemoInvariance, PTL DEF DemoInv

(***************************************************************************)
(* The catalog that was broken is kept whenever a repair may have begun.   *)
(***************************************************************************)
THEOREM FailedStateKept == DemoSpec => []FailedStateIsKept
BY DemoInvariance, PTL DEF DemoInv

(***************************************************************************)
(* No demo passes that has not broken the catalog, seen it fail and        *)
(* repaired it, whatever the fixtures get right.                           *)
(***************************************************************************)
THEOREM PassEarned == DemoSpec => []PassIsEarned
BY DemoInvariance, PTL DEF DemoInv

(***************************************************************************)
(* The shop of a demo is closed when the demo is over.                     *)
(***************************************************************************)
THEOREM ShopClosed == DemoSpec => []ShopIsClosed
BY DemoInvariance, PTL DEF DemoInv

(***************************************************************************)
(* What the three files say was judged so, and a demo that returned has    *)
(* written all of them.                                                    *)
(***************************************************************************)
THEOREM FilesOfDemo == DemoSpec => []DemoFilesAgree
<1>1. DemoInv => DemoFilesAgree
  BY DEF DemoInv, Recorded, Backed, DemoFilesAgree, DemoFiles
<1> QED BY <1>1, DemoInvariance, PTL

(***************************************************************************)
(* Whatever number of repairs is configured, the agent gets a brief with   *)
(* the same failure text, the failed checks and their numbers, at most     *)
(* twice.                                                                  *)
(***************************************************************************)
THEOREM HandedTwice == DemoSpec => []SameFailureHandedTwice
<1>1. DemoInv => SameFailureHandedTwice
  BY DemoAssumption DEF DemoInv, Bounded, SameFailureHandedTwice
<1> QED BY <1>1, DemoInvariance, PTL

(***************************************************************************)
(* The order of the places is the order in which a demo reaches them.      *)
(***************************************************************************)
LEMMA PlacesInOrder ==
  /\ \A place \in ShopPlaces \cup {"materialize", "listen", "unsafe", "bundle", "file",
                                   "pack", "close"} : DistanceToEnd(place) \in 1..14
  /\ DistanceToEnd("idle") = 0
  /\ DistanceToEnd("materialize") = 14 /\ DistanceToEnd("listen") = 13
  /\ DistanceToEnd("inject") = 12 /\ DistanceToEnd("target") = 11
  /\ DistanceToEnd("targeted") = 10 /\ DistanceToEnd("repair") = 9
  /\ DistanceToEnd("retarget") = 8 /\ DistanceToEnd("decide") = 7
  /\ DistanceToEnd("loop") = 6 /\ DistanceToEnd("stopped") = 5
  /\ DistanceToEnd("validate") = 5 /\ DistanceToEnd("unsafe") = 5
  /\ DistanceToEnd("bundle") = 4 /\ DistanceToEnd("file") = 3
  /\ DistanceToEnd("pack") = 2 /\ DistanceToEnd("close") = 1
BY DEF DistanceToEnd, ShopPlaces

(***************************************************************************)
(* No two steps of a demo repeat, however many repairs and demos there     *)
(* are: only a new demo and a repair lead back, and both are counted.      *)
(***************************************************************************)
THEOREM DemoDescends == DemoSpec => EveryDemoStepIsNearer
<1>1. DemoInv /\ [DemoNext]_demoVars => [NearerToEnd]_demoVars
  <2> SUFFICES ASSUME DemoInv, DemoNext
               PROVE  NearerToEnd
    OBVIOUS
  <2> USE PlacesInOrder DEF NearerToEnd, inputs, workspace, loop, outputs
  <2>1. ASSUME NEW m \in {"recoverable", "unrecoverable"}, Start(m)
        PROVE  NearerToEnd
    BY <2>1, DemoAssumption DEF Start, DemoInv, DemoTypeOK
  <2>2. CASE MaterializeEvaluationDemo \/ StartServer \/ RunAgent
    BY <2>2 DEF MaterializeEvaluationDemo, StartServer, RunAgent
  <2>3. CASE RunTargetedValidation
    BY <2>3 DEF RunTargetedValidation
  <2>4. CASE RefuseInvalidDemo \/ PreserveFailedState
    BY <2>4 DEF RefuseInvalidDemo, PreserveFailedState
  <2>5. CASE WriteRepairBrief
    BY <2>5, DemoAssumption DEF WriteRepairBrief, DemoInv, DemoTypeOK
  <2>6. CASE DecideRepair
    BY <2>6 DEF DecideRepair
  <2>7. CASE BlockUnrepaired \/ BroaderBundle
    BY <2>7 DEF BlockUnrepaired, BroaderBundle, Finalize
  <2>8. CASE RunBroaderValidation \/ StopUnsafe
    BY <2>8 DEF RunBroaderValidation, StopUnsafe, Finalize
  <2>9. CASE WriteBundle \/ WriteDemoFile \/ FinalizePack \/ Close
    BY <2>9 DEF WriteBundle, WriteDemoFile, FinalizePack, Close
  <2>10. CASE Throws
    <3>1. DistanceToEnd(pc) \in 1..14
      BY <2>10 DEF Throws, DemoInv, DemoTypeOK
    <3> QED BY <2>10, <3>1 DEF Throws
  <2> QED BY <2>1, <2>2, <2>3, <2>4, <2>5, <2>6, <2>7, <2>8, <2>9, <2>10 DEF DemoNext, DemoStep
<1> QED BY <1>1, DemoInvariance, PTL DEF DemoSpec, EveryDemoStepIsNearer
=============================================================================
