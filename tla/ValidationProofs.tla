-------------------------- MODULE ValidationProofs --------------------------
(***************************************************************************)
(* Theorems about Validation, for every set of tasks.                      *)
(*                                                                         *)
(* The argument: Counted ties the place in validate() to the number of     *)
(* results, so that nothing is decided before the last step has one;       *)
(* Judged says what a passed result stands for; Walked follows the one     *)
(* journey a task may have, from nothing over the actions that passed to   *)
(* the result that is kept.                                                *)
(***************************************************************************)
EXTENDS Validation, WellFoundedInduction, TLAPS

Checking == {"check", "visit", "walk", "finish", "close"}
Browsing == {"visit", "walk", "finish", "close"}

Counted ==
  /\ Len(results) <= Len(task.steps)
  /\ pc \in Checking => Len(results) < Len(task.steps)
  /\ pc \in {"tests", "list", "decide", "done"} => Len(results) = Len(task.steps)

\* A passed result of a step: it held, if it compares, and it had the network.
Sound(step, result) ==
  result.status = "PASS" =>
    /\ Compares(step) => result.held
    /\ step.type \in NetworkTypes => network

Judged ==
  /\ \A i \in 1..Len(results) : Sound(task.steps[i], results[i])
  /\ pc \in Browsing => Step.type \in BrowserTypes /\ network
  /\ pending.status = "PASS" => pending.held
  /\ status = "PASS" => pc = "done" /\ mode = "acceptance" /\ AllPassed

Open ==
  /\ pc \in Browsing => browsers = lost + 1
  /\ pc \notin Browsing => browsers = lost

IsJourney(i) == task.steps[i].type = "browser_journey"

\* The actions that are through are on their screenshots, if they passed.
Shown ==
  /\ Len(walked) <= Len(task.journey)
  /\ \A i \in 1..Len(walked) :
       walked[i] = "PASS" => task.journey[i].screenshot \in shots \cup {"none"}

AllWalked == \A i \in 1..Len(walked) : walked[i] = "PASS"

Whole == Len(walked) = Len(task.journey) /\ AllWalked

\* No journey is through or on its way.
Unwalked ==
  /\ \A i \in 1..Len(results) : ~IsJourney(i)
  /\ pc \in Checking => pc = "check" \/ ~IsJourney(Len(results) + 1)

Walked ==
  /\ Shown
  /\ pc # "thrown" /\ Unwalked => walked = <<>> /\ journeyFile = "none"
  /\ pc \in {"walk", "finish"} => IsJourney(Len(results) + 1) /\ journeyFile = "none"
  /\ pc = "visit" => ~IsJourney(Len(results) + 1)
  /\ pc = "walk" => AllWalked /\ Len(walked) < Len(task.journey)
  /\ pc = "finish" /\ AllWalked => Whole
  /\ pc = "close" /\ IsJourney(Len(results) + 1) /\ pending.status = "PASS" => journeyFile = "PASS"
  /\ \A i \in 1..Len(results) :
       IsJourney(i) /\ results[i].status = "PASS" => journeyFile = "PASS"
  /\ journeyFile = "PASS" => Whole

ValidationInv ==
  /\ ValidationTypeOK
  /\ Counted
  /\ Judged
  /\ Open
  /\ Walked

-------------------------------------------------------------------------------
LEMMA TaskFacts ==
  ASSUME ValidationTypeOK
  PROVE  /\ Len(task.steps) \in Nat \ {0}
         /\ Len(task.journey) \in Nat
         /\ Len(results) \in Nat /\ Len(walked) \in Nat
         /\ \A i, j \in 1..Len(task.steps) :
              IsJourney(i) /\ IsJourney(j) => i = j /\ Len(task.journey) > 0
BY TaskAssumption DEF ValidationTypeOK, IsJourney

LEMMA AppendFacts ==
  ASSUME NEW S, NEW s \in Seq(S), NEW e \in S
  PROVE  /\ Append(s, e) \in Seq(S)
         /\ Len(Append(s, e)) = Len(s) + 1
         /\ \A i \in 1..Len(s) : Append(s, e)[i] = s[i]
         /\ Append(s, e)[Len(s) + 1] = e
OBVIOUS

(***************************************************************************)
(* One more result: the others stay, and the tests follow the last step.   *)
(***************************************************************************)
LEMMA RecordFacts ==
  ASSUME ValidationTypeOK, Counted, pc \in Checking, NEW result \in Results, Record(result)
  PROVE  /\ results' \in Seq(Results)
         /\ Len(results') = Len(results) + 1
         /\ \A i \in 1..Len(results) : results'[i] = results[i]
         /\ results'[Len(results) + 1] = result
         /\ Len(results') <= Len(task.steps)
         /\ \/ pc' = "check" /\ Len(results') < Len(task.steps)
            \/ pc' = "tests" /\ Len(results') = Len(task.steps)
<1>1. results \in Seq(Results) /\ results' = Append(results, result)
  BY DEF ValidationTypeOK, Record
<1>2. Len(results) < Len(task.steps)
  BY DEF Counted
<1>3. /\ results' \in Seq(Results)
      /\ Len(results') = Len(results) + 1
      /\ \A i \in 1..Len(results) : results'[i] = results[i]
      /\ results'[Len(results) + 1] = result
  BY <1>1, AppendFacts
<1>4. \/ pc' = "check" /\ Len(results) + 1 < Len(task.steps)
      \/ pc' = "tests" /\ ~(Len(results) + 1 < Len(task.steps))
  BY DEF Record
<1> QED BY <1>2, <1>3, <1>4, TaskFacts

LEMMA ValidationInitInv ==
  ASSUME ValidationInit
  PROVE  ValidationInv
<1>1. results = <<>> /\ walked = <<>> /\ <<>> \in Seq(Results) /\ <<>> \in Seq(CheckStatuses)
  BY DEF ValidationInit
<1>2. ValidationTypeOK
  BY <1>1 DEF ValidationInit, ValidationTypeOK, NoResult, Results, CheckStatuses
<1>3. Len(results) = 0 /\ Len(walked) = 0
  BY <1>1
<1>4. Counted
  BY <1>2, <1>3, TaskFacts DEF ValidationInit, Counted
<1>5. Judged /\ Open
  BY <1>3 DEF ValidationInit, Judged, Open, Browsing, NoResult
<1>6. Walked
  BY <1>1, <1>2, <1>3, TaskFacts DEF ValidationInit, Walked, Shown
<1> QED BY <1>2, <1>4, <1>5, <1>6 DEF ValidationInv

(***************************************************************************)
(* A result that is sound leaves the count and the judgements right.       *)
(***************************************************************************)
LEMMA SoundResult ==
  ASSUME ValidationInv, pc \in Checking, NEW result \in Results, Record(result),
         Sound(Step, result), Unchanged, UNCHANGED <<pending, status>>
  PROVE  Counted' /\ Judged'
<1>1. /\ Len(results') = Len(results) + 1
      /\ \A i \in 1..Len(results) : results'[i] = results[i]
      /\ results'[Len(results) + 1] = result
      /\ Len(results') <= Len(task.steps)
      /\ \/ pc' = "check" /\ Len(results') < Len(task.steps)
         \/ pc' = "tests" /\ Len(results') = Len(task.steps)
  BY RecordFacts DEF ValidationInv
<1>2. UNCHANGED <<task, mode, network, exit>>
  BY DEF Unchanged
<1>3. Len(results) \in Nat
  BY TaskFacts DEF ValidationInv
<1>4. Counted'
  BY <1>1, <1>2 DEF Counted, Checking
<1>5. ASSUME NEW i \in 1..Len(results')
      PROVE  Sound(task.steps[i], results[i])'
  <2>1. CASE i = Len(results) + 1
    BY <1>1, <1>2, <2>1 DEF Sound, Step
  <2>2. CASE i # Len(results) + 1
    <3>1. i \in 1..Len(results) /\ results'[i] = results[i]
      BY <1>1, <1>3, <2>2
    <3> QED BY <1>2, <3>1 DEF Sound, ValidationInv, Judged
  <2> QED BY <2>1, <2>2
<1>6. status # "PASS"
  BY DEF ValidationInv, Judged, Checking
<1>7. pc' \notin Browsing
  BY <1>1 DEF Browsing
<1> QED BY <1>4, <1>5, <1>6, <1>7 DEF ValidationInv, Judged

(***************************************************************************)
(* A result that no browser was asked for.                                 *)
(***************************************************************************)
LEMMA PlainResult ==
  ASSUME ValidationInv, pc = "check", NEW result \in Results, Record(result),
         Sound(Step, result), Step.type = "browser_journey" => result.status # "PASS",
         BrowserFree, Unchanged
  PROVE  ValidationInv'
<1> USE DEF BrowserFree, Unchanged
<1>1. /\ results' \in Seq(Results)
      /\ Len(results') = Len(results) + 1
      /\ \A i \in 1..Len(results) : results'[i] = results[i]
      /\ results'[Len(results) + 1] = result
      /\ pc' \in {"check", "tests"}
  BY RecordFacts DEF ValidationInv, Checking
<1>2. Counted' /\ Judged'
  BY SoundResult DEF Checking
<1>3. ValidationTypeOK'
  BY <1>1 DEF ValidationInv, ValidationTypeOK
<1>4. Open'
  BY <1>1 DEF ValidationInv, Open, Browsing
<1>5. Walked'
  <2>1. Len(results) \in Nat
    BY TaskFacts DEF ValidationInv
  <2>2. Unwalked' => Unwalked
    BY <1>1, <2>1 DEF Unwalked, IsJourney
  <2>3. Shown' /\ (Whole' <=> Whole)
    BY DEF ValidationInv, Walked, Shown, Whole, AllWalked
  <2>4. ASSUME NEW i \in 1..Len(results'), IsJourney(i)', (results[i].status = "PASS")'
        PROVE  journeyFile = "PASS"
    <3>1. i # Len(results) + 1
      BY <1>1, <2>4 DEF IsJourney, Step
    <3>2. i \in 1..Len(results) /\ results'[i] = results[i]
      BY <1>1, <2>1, <3>1
    <3> QED BY <2>4, <3>2 DEF ValidationInv, Walked, IsJourney
  <2> QED BY <1>1, <2>2, <2>3, <2>4 DEF ValidationInv, Walked
<1> QED BY <1>2, <1>3, <1>4, <1>5 DEF ValidationInv

(***************************************************************************)
(* Every judgement of an answer is a status, and a pass holds, if the step *)
(* compares.                                                               *)
(***************************************************************************)
LEMMA JudgeFacts ==
  ASSUME NEW step, NEW answer
  PROVE  /\ Judge(step, answer) \in CheckStatuses
         /\ Judge(step, answer) = "PASS" /\ Compares(step) => answer \in {"there", "partial"}
<1>1. /\ JudgePlain(step, answer) \in CheckStatuses
      /\ JudgePlain(step, answer) = "PASS" => answer = "there"
  BY DEF JudgePlain, CheckStatuses
<1>2. /\ JudgeGraphql(step, answer) \in CheckStatuses
      /\ JudgeGraphql(step, answer) = "PASS" => answer \in {"there", "partial"} \/ ~step.equals
  BY DEF JudgeGraphql, CheckStatuses
<1>3. /\ JudgeDatabase(step, answer) \in CheckStatuses
      /\ JudgeDatabase(step, answer) = "PASS" => answer = "there" \/ ~step.equals
  BY DEF JudgeDatabase, CheckStatuses
<1> QED BY <1>1, <1>2, <1>3 DEF Judge, Compares

LEMMA PlainStepsKeepInv ==
  ASSUME ValidationInv, Asks \/ WithoutNetwork \/ EvidencePresent
  PROVE  ValidationInv'
<1>1. CASE Asks
  <2>1. PICK answer \in Answers(Step.type) :
          Record([status |-> Judge(Step, answer), held |-> answer \in {"there", "partial"}])
    BY <1>1 DEF Asks
  <2> DEFINE result == [status |-> Judge(Step, answer), held |-> answer \in {"there", "partial"}]
  <2>2. /\ pc = "check" /\ BrowserFree /\ Unchanged
        /\ Step.type \in NetworkTypes => network
    BY <1>1 DEF Asks
  <2>3. result \in Results /\ Sound(Step, result)
    <3>1. (answer \in {"there", "partial"}) \in BOOLEAN
      OBVIOUS
    <3> QED BY <2>2, <3>1, JudgeFacts DEF Results, Sound
  <2>4. Step.type # "browser_journey"
    BY DEF Answers, PingTypes
  <2> HIDE DEF result
  <2>5. Record(result)
    BY <2>1 DEF result
  <2> QED BY <2>2, <2>3, <2>4, <2>5, PlainResult
<1>2. CASE WithoutNetwork
  <2> DEFINE result == [status |-> "FAIL", held |-> FALSE]
  <2>1. result \in Results /\ Sound(Step, result) /\ result.status # "PASS"
    BY DEF Results, CheckStatuses, Sound
  <2>2. pc = "check" /\ Record(result) /\ BrowserFree /\ Unchanged
    BY <1>2 DEF WithoutNetwork
  <2> HIDE DEF result
  <2> QED BY <2>1, <2>2, PlainResult
<1>3. CASE EvidencePresent
  <2> DEFINE complete == task.files \subseteq BundleFiles
             result == [status |-> IF complete THEN "PASS" ELSE "FAIL", held |-> complete]
  <2>1. pc = "check" /\ Record(result) /\ BrowserFree /\ Unchanged
        /\ Step.type = "evidence_present"
    BY <1>3 DEF EvidencePresent
  <2>2. result \in Results
    <3>1. complete \in BOOLEAN
      OBVIOUS
    <3> QED BY <3>1 DEF Results, CheckStatuses
  <2>3. Sound(Step, result)
    BY <2>1 DEF Sound, NetworkTypes, HttpTypes, BrowserTypes
  <2> HIDE DEF result
  <2> QED BY <2>1, <2>2, <2>3, PlainResult
<1> QED BY <1>1, <1>2, <1>3

(***************************************************************************)
(* The browser of a check: what was walked belongs to the one journey.     *)
(***************************************************************************)
LEMMA FirstJourney ==
  ASSUME ValidationInv, pc = "check", Step.type = "browser_journey"
  PROVE  /\ Unwalked /\ walked = <<>> /\ journeyFile = "none"
         /\ Len(task.journey) > 0
<1>1. /\ Len(results) \in Nat /\ Len(task.steps) \in Nat
      /\ Len(results) < Len(task.steps)
      /\ IsJourney(Len(results) + 1)
  BY TaskFacts DEF ValidationInv, Counted, Checking, IsJourney, Step
<1>2. Len(results) + 1 \in 1..Len(task.steps)
  BY <1>1
<1>3. ASSUME NEW i \in 1..Len(results)
      PROVE  ~IsJourney(i)
  <2>1. i \in 1..Len(task.steps) /\ i # Len(results) + 1
    BY <1>1
  <2> QED BY <1>1, <1>2, <2>1, TaskFacts DEF ValidationInv
<1>4. Len(task.journey) > 0
  BY <1>1, <1>2, TaskFacts DEF ValidationInv
<1>5. Unwalked
  BY <1>3 DEF Unwalked
<1> QED BY <1>4, <1>5 DEF ValidationInv, Walked

LEMMA LaunchKeepsInv ==
  ASSUME ValidationInv, Launch
  PROVE  ValidationInv'
<1> USE DEF Unchanged
<1>1. /\ pc = "check" /\ Step.type \in BrowserTypes /\ network
      /\ UNCHANGED <<pending, walked, shots, status, task, mode, network, exit>>
  BY DEF Launch
<1>2. CASE /\ Record(NoResult)
           /\ journeyFile' = IF Step.type = "browser_journey" THEN "ERROR" ELSE journeyFile
           /\ \/ UNCHANGED <<browsers, lost>>
              \/ browsers' = browsers + 1 /\ lost' = lost + 1
  <2>1. NoResult \in Results /\ Sound(Step, NoResult) /\ NoResult.status = "ERROR"
    BY DEF NoResult, Results, CheckStatuses, Sound
  <2>2. /\ results' \in Seq(Results)
        /\ Len(results') = Len(results) + 1
        /\ \A i \in 1..Len(results) : results'[i] = results[i]
        /\ results'[Len(results) + 1] = NoResult
        /\ pc' \in {"check", "tests"}
    BY <1>1, <1>2, <2>1, RecordFacts DEF ValidationInv, Checking
  <2>3. Counted' /\ Judged'
    BY <1>1, <1>2, <2>1, SoundResult DEF Checking
  <2>4. ValidationTypeOK'
    BY <1>1, <1>2, <2>2 DEF ValidationInv, ValidationTypeOK, CheckStatuses
  <2>5. Open'
    BY <1>1, <1>2, <2>2 DEF ValidationInv, ValidationTypeOK, Open, Browsing
  <2>6. Walked'
    <3>1. Len(results) \in Nat
      BY TaskFacts DEF ValidationInv
    <3>2. Shown' /\ (Whole' <=> Whole)
      BY <1>1 DEF ValidationInv, Walked, Shown, Whole, AllWalked
    <3>3. Unwalked' => Unwalked /\ Step.type # "browser_journey"
      BY <1>1, <2>2, <3>1 DEF Unwalked, IsJourney, Step
    <3>4. ASSUME NEW i \in 1..Len(results'), IsJourney(i)', (results[i].status = "PASS")'
          PROVE  journeyFile' = "PASS"
      <4>1. i # Len(results) + 1
        BY <2>1, <2>2, <3>4
      <4>2. i \in 1..Len(results) /\ results'[i] = results[i]
        BY <2>2, <3>1, <4>1
      <4>3. IsJourney(i) /\ journeyFile = "PASS"
        BY <1>1, <3>4, <4>2 DEF ValidationInv, Walked, IsJourney
      <4>4. Step.type # "browser_journey"
        BY <1>1, <4>2, <4>3, FirstJourney DEF Unwalked
      <4> QED BY <1>2, <4>3, <4>4
    <3>5. journeyFile' = "PASS" => Whole
      BY <1>2 DEF ValidationInv, Walked
    <3> QED BY <1>1, <1>2, <2>2, <3>2, <3>3, <3>4, <3>5 DEF ValidationInv, Walked
  <2> QED BY <2>3, <2>4, <2>5, <2>6 DEF ValidationInv
<1>3. CASE /\ pc' = IF Step.type = "browser_journey" THEN "walk" ELSE "visit"
           /\ browsers' = browsers + 1
           /\ UNCHANGED <<results, lost, journeyFile>>
  <2>1. pc' \in {"walk", "visit"} /\ UNCHANGED <<task, results, walked, shots, journeyFile>>
    BY <1>1, <1>3
  <2>2. ValidationTypeOK'
    BY <1>1, <1>3 DEF ValidationInv, ValidationTypeOK
  <2>3. Counted' /\ Open'
    BY <1>1, <1>3 DEF ValidationInv, Counted, Checking, Open, Browsing
  <2>4. Judged'
    BY <1>1, <1>3 DEF ValidationInv, Judged, Sound, Browsing, Step
  <2>5. Walked'
    <3>1. Unwalked' => Unwalked
      BY <1>1, <2>1 DEF Unwalked, IsJourney
    <3>2. IsJourney(Len(results) + 1)' <=> Step.type = "browser_journey"
      BY <2>1 DEF IsJourney, Step
    <3>3. Step.type = "browser_journey" => (AllWalked /\ Len(walked) < Len(task.journey))' /\ journeyFile = "none"
      BY <1>1, <2>1, FirstJourney DEF AllWalked
    <3>4. Shown' /\ (Whole' <=> Whole) /\ \A i \in 1..Len(results) : IsJourney(i)' <=> IsJourney(i)
      BY <2>1 DEF ValidationInv, Walked, Shown, Whole, AllWalked, IsJourney
    <3> QED BY <1>1, <1>3, <2>1, <3>1, <3>2, <3>3, <3>4 DEF ValidationInv, Walked
  <2> QED BY <2>2, <2>3, <2>4, <2>5 DEF ValidationInv
<1> QED BY <1>2, <1>3 DEF Launch

LEMMA VisitKeepsInv ==
  ASSUME ValidationInv, Visit
  PROVE  ValidationInv'
<1>1. /\ pc = "visit" /\ pc' = "close"
      /\ UNCHANGED <<task, mode, network, exit, results, walked, journeyFile, browsers, lost, status>>
      /\ shots \subseteq shots'
  BY DEF Visit, Unchanged
<1>2. pending' \in Results /\ (pending'.status = "PASS" => pending'.held)
  <2>1. CASE pending' = NoResult
    BY <2>1 DEF NoResult, Results, CheckStatuses
  <2>2. ASSUME NEW found \in BOOLEAN,
               pending' = [status |-> IF found THEN "PASS" ELSE "FAIL", held |-> found]
        PROVE  pending' \in Results /\ (pending'.status = "PASS" => pending'.held)
    BY <2>2 DEF Results, CheckStatuses
  <2> QED BY <2>1, <2>2 DEF Visit
<1>3. ValidationTypeOK'
  BY <1>1, <1>2 DEF ValidationInv, ValidationTypeOK
<1>4. Counted' /\ Open'
  BY <1>1 DEF ValidationInv, Counted, Checking, Open, Browsing
<1>5. Judged'
  BY <1>1, <1>2 DEF ValidationInv, Judged, Sound, Browsing, Step
<1>6. Walked'
  <2>1. Unwalked' => Unwalked
    BY <1>1 DEF ValidationInv, Walked, Unwalked, IsJourney
  <2>2. /\ Shown' /\ (Whole' <=> Whole)
        /\ \A i \in 1..(Len(results) + 1) : IsJourney(i)' <=> IsJourney(i)
    BY <1>1 DEF ValidationInv, Walked, Shown, Whole, AllWalked, IsJourney
  <2>3. ~IsJourney(Len(results) + 1)'
    BY <1>1 DEF ValidationInv, Walked, IsJourney
  <2> QED BY <1>1, <2>1, <2>2, <2>3 DEF ValidationInv, Walked, IsJourney
<1> QED BY <1>3, <1>4, <1>5, <1>6 DEF ValidationInv

LEMMA WalkKeepsInv ==
  ASSUME ValidationInv, Walk
  PROVE  ValidationInv'
<1>1. /\ pc = "walk" /\ pc' \in {"walk", "finish"}
      /\ UNCHANGED <<task, mode, network, exit, results, pending, journeyFile, browsers,
                     lost, status>>
  BY DEF Walk, Unchanged
<1>2. PICK outcome \in CheckStatuses :
        /\ walked' = Append(walked, outcome)
        /\ shots' = IF outcome = "ERROR" \/ NextAction.screenshot = "none" THEN shots
                    ELSE shots \cup {NextAction.screenshot}
        /\ pc' = IF outcome = "PASS" /\ Len(walked) + 1 < Len(task.journey)
                   THEN "walk" ELSE "finish"
  BY DEF Walk
<1>3. /\ walked' \in Seq(CheckStatuses)
      /\ Len(walked') = Len(walked) + 1
      /\ \A i \in 1..Len(walked) : walked'[i] = walked[i]
      /\ walked'[Len(walked) + 1] = outcome
  <2>1. walked \in Seq(CheckStatuses)
    BY DEF ValidationInv, ValidationTypeOK
  <2> QED BY <1>2, <2>1, AppendFacts
<1>4. /\ Len(walked) \in Nat /\ Len(task.journey) \in Nat /\ Len(results) \in Nat
      /\ Len(walked) < Len(task.journey) /\ AllWalked /\ journeyFile = "none"
      /\ IsJourney(Len(results) + 1)
  BY <1>1, TaskFacts DEF ValidationInv, Walked
<1>5. ValidationTypeOK'
  BY <1>1, <1>3 DEF ValidationInv, ValidationTypeOK
<1>6. Counted' /\ Open'
  BY <1>1 DEF ValidationInv, Counted, Checking, Open, Browsing
<1>7. Judged'
  BY <1>1 DEF ValidationInv, Judged, Sound, Browsing, Step
<1>8. Shown'
  <2>1. ASSUME NEW i \in 1..Len(walked'), walked'[i] = "PASS"
        PROVE  task.journey[i].screenshot \in shots' \cup {"none"}
    <3>1. CASE i = Len(walked) + 1
      BY <1>2, <1>3, <2>1, <3>1 DEF NextAction
    <3>2. CASE i # Len(walked) + 1
      <4>1. i \in 1..Len(walked) /\ walked[i] = "PASS"
        BY <1>3, <1>4, <2>1, <3>2
      <4> QED BY <1>2, <4>1 DEF ValidationInv, Walked, Shown
    <3> QED BY <3>1, <3>2
  <2> QED BY <1>1, <1>3, <1>4, <2>1 DEF Shown
<1>9. /\ pc' = "walk" => AllWalked' /\ Len(walked') < Len(task.journey)
      /\ AllWalked' => outcome = "PASS"
  <2>1. AllWalked' => outcome = "PASS"
    BY <1>3, <1>4 DEF AllWalked
  <2>2. outcome = "PASS" => AllWalked'
    BY <1>3, <1>4 DEF AllWalked
  <2> QED BY <1>2, <1>3, <2>1, <2>2
<1>10. pc' = "finish" /\ AllWalked' => Whole'
  BY <1>1, <1>2, <1>3, <1>4, <1>9 DEF Whole
<1>11. Walked'
  <2>1. IsJourney(Len(results) + 1)' /\ \A i \in 1..Len(results) : IsJourney(i)' <=> IsJourney(i)
    BY <1>1, <1>4 DEF IsJourney
  <2>2. ~Unwalked'
    BY <1>1, <2>1 DEF Unwalked, Checking
  <2> QED BY <1>1, <1>4, <1>8, <1>9, <1>10, <2>1, <2>2 DEF ValidationInv, Walked
<1> QED BY <1>5, <1>6, <1>7, <1>11 DEF ValidationInv

LEMMA FinishKeepsInv ==
  ASSUME ValidationInv, Finish
  PROVE  ValidationInv'
<1>1. /\ pc = "finish" /\ pc' = "close"
      /\ UNCHANGED <<task, mode, network, exit, results, walked, shots, browsers, lost, status>>
  BY DEF Finish, Unchanged
<1>2. /\ JourneyStatus(walked) \in CheckStatuses
      /\ JourneyStatus(walked) = "PASS" => AllWalked
  BY DEF JourneyStatus, CheckStatuses, AllWalked
<1>3. /\ pending' \in Results /\ (pending'.status = "PASS" => pending'.held)
      /\ journeyFile' \in CheckStatuses \cup {"none"}
      /\ pending'.status = "PASS" => journeyFile' = "PASS"
      /\ journeyFile' = "PASS" => AllWalked
  <2>1. CASE /\ pending' = [status |-> JourneyStatus(walked), held |-> JourneyStatus(walked) = "PASS"]
             /\ journeyFile' = JourneyStatus(walked)
    <3>1. (JourneyStatus(walked) = "PASS") \in BOOLEAN
      OBVIOUS
    <3> QED BY <1>2, <2>1, <3>1 DEF Results
  <2>2. CASE pending' = NoResult /\ journeyFile' \in {journeyFile, "ERROR"}
    <3>1. journeyFile = "none"
      BY <1>1 DEF ValidationInv, Walked
    <3> QED BY <2>2, <3>1 DEF NoResult, Results, CheckStatuses
  <2> QED BY <2>1, <2>2 DEF Finish
<1>4. ValidationTypeOK'
  BY <1>1, <1>3 DEF ValidationInv, ValidationTypeOK
<1>5. Counted' /\ Open'
  BY <1>1 DEF ValidationInv, Counted, Checking, Open, Browsing
<1>6. Judged'
  BY <1>1, <1>3 DEF ValidationInv, Judged, Sound, Browsing, Step
<1>7. Walked'
  <2>1. IsJourney(Len(results) + 1)' /\ \A i \in 1..Len(results) : IsJourney(i)' <=> IsJourney(i)
    BY <1>1 DEF ValidationInv, Walked, IsJourney
  <2>2. ~Unwalked'
    BY <1>1, <2>1 DEF Unwalked, Checking
  <2>3. Shown' /\ (Whole' <=> Whole) /\ (AllWalked => Whole)
    BY <1>1 DEF ValidationInv, Walked, Shown, Whole, AllWalked
  <2>4. ASSUME NEW i \in 1..Len(results), IsJourney(i)
        PROVE  FALSE
    <3>1. /\ i \in 1..Len(task.steps) /\ Len(results) + 1 \in 1..Len(task.steps)
          /\ i # Len(results) + 1
      BY <1>1, <2>4, TaskFacts DEF ValidationInv, Counted, Checking
    <3> QED BY <1>1, <2>4, <3>1, TaskFacts DEF ValidationInv, Walked
  <2> QED BY <1>1, <1>3, <2>1, <2>2, <2>3, <2>4 DEF Walked
<1> QED BY <1>4, <1>5, <1>6, <1>7 DEF ValidationInv

LEMMA CloseKeepsInv ==
  ASSUME ValidationInv, Close
  PROVE  ValidationInv'
<1>1. /\ pc = "close" /\ Record(pending) /\ browsers' = browsers - 1 /\ Unchanged
      /\ UNCHANGED <<task, mode, network, exit, pending, walked, shots, journeyFile, lost, status>>
  BY DEF Close, Unchanged
<1>2. pending \in Results /\ Sound(Step, pending)
  BY <1>1 DEF ValidationInv, ValidationTypeOK, Judged, Browsing, Sound
<1>3. /\ results' \in Seq(Results)
      /\ Len(results') = Len(results) + 1
      /\ \A i \in 1..Len(results) : results'[i] = results[i]
      /\ results'[Len(results) + 1] = pending
      /\ pc' \in {"check", "tests"}
  BY <1>1, <1>2, RecordFacts DEF ValidationInv, Checking
<1>4. Counted' /\ Judged'
  BY <1>1, <1>2, SoundResult DEF Checking
<1>5. browsers = lost + 1 /\ lost \in Nat
  BY <1>1 DEF ValidationInv, ValidationTypeOK, Open, Browsing
<1>6. ValidationTypeOK'
  BY <1>1, <1>3, <1>5 DEF ValidationInv, ValidationTypeOK
<1>7. Open'
  BY <1>1, <1>3, <1>5 DEF Open, Browsing
<1>8. Walked'
  <2>1. Len(results) \in Nat
    BY TaskFacts DEF ValidationInv
  <2>2. Unwalked' => Unwalked
    BY <1>1, <1>3, <2>1 DEF Unwalked, IsJourney
  <2>3. Shown' /\ (Whole' <=> Whole)
    BY <1>1 DEF ValidationInv, Walked, Shown, Whole, AllWalked
  <2>4. ASSUME NEW i \in 1..Len(results'), IsJourney(i)', (results[i].status = "PASS")'
        PROVE  journeyFile = "PASS"
    <3>1. IsJourney(i)
      BY <1>1, <2>4 DEF IsJourney
    <3>2. CASE i = Len(results) + 1
      BY <1>1, <1>3, <2>4, <3>1, <3>2 DEF ValidationInv, Walked
    <3>3. CASE i # Len(results) + 1
      <4>1. i \in 1..Len(results) /\ results'[i] = results[i]
        BY <1>3, <2>1, <3>3
      <4> QED BY <2>4, <3>1, <4>1 DEF ValidationInv, Walked
    <3> QED BY <3>2, <3>3
  <2> QED BY <1>1, <1>3, <2>2, <2>3, <2>4 DEF ValidationInv, Walked
<1> QED BY <1>4, <1>6, <1>7, <1>8 DEF ValidationInv

(***************************************************************************)
(* After the steps, and when the validator throws.                         *)
(***************************************************************************)
LEMMA EndKeepsInv ==
  ASSUME ValidationInv, Throws \/ AcceptanceTests \/ Decide
  PROVE  ValidationInv'
<1>1. /\ UNCHANGED <<task, mode, network, exit, results, pending, walked, shots, journeyFile, lost>>
      /\ pc' \in {"thrown", "list", "decide", "done"}
  BY DEF Throws, AcceptanceTests, Decide, BrowserFree, Unchanged
<1>2. pc' # "thrown" => pc \in {"tests", "list", "decide"}
  BY DEF Throws, AcceptanceTests, Decide
<1>3. browsers' = IF pc = "close" THEN browsers - 1 ELSE browsers
  BY DEF Throws, AcceptanceTests, Decide, BrowserFree
<1>4. pc \notin Browsing \/ pc = "close"
  BY DEF Throws, AcceptanceTests, Decide, Browsing
<1>5. browsers' = lost /\ lost \in Nat
  BY <1>3, <1>4 DEF ValidationInv, ValidationTypeOK, Open, Browsing
<1>6. /\ status' \in {"none", "PASS", "BLOCK", "BASELINE_BLOCKED_EXPECTED"}
      /\ status' = "PASS" => pc' = "done" /\ mode = "acceptance" /\ AllPassed
  <2>1. CASE Decide
    <3>1. mode \in {"baseline", "acceptance"}
      BY DEF ValidationInv, ValidationTypeOK
    <3> QED BY <2>1, <3>1 DEF Decide
  <2>2. CASE Throws \/ AcceptanceTests
    <3>1. status' = status /\ pc # "done"
      BY <2>2 DEF Throws, AcceptanceTests, BrowserFree
    <3> QED BY <3>1 DEF ValidationInv, ValidationTypeOK, Judged
  <2> QED BY <2>1, <2>2
<1>7. ValidationTypeOK'
  BY <1>1, <1>5, <1>6 DEF ValidationInv, ValidationTypeOK
<1>8. Counted' /\ Open'
  BY <1>1, <1>2, <1>5 DEF ValidationInv, Counted, Checking, Open, Browsing
<1>9. Judged'
  <2>1. AllPassed' <=> AllPassed
    BY <1>1 DEF AllPassed, TestsPassed
  <2> QED BY <1>1, <1>6, <2>1 DEF ValidationInv, Judged, Sound, Browsing
<1>10. Walked'
  <2>1. Shown' /\ (Whole' <=> Whole)
    BY <1>1 DEF ValidationInv, Walked, Shown, Whole, AllWalked
  <2>2. pc' # "thrown" /\ Unwalked' => pc # "thrown" /\ Unwalked
    BY <1>1, <1>2 DEF Unwalked, IsJourney, Checking
  <2> QED BY <1>1, <2>1, <2>2 DEF ValidationInv, Walked, IsJourney
<1> QED BY <1>7, <1>8, <1>9, <1>10 DEF ValidationInv

LEMMA StepKeepsInv ==
  ASSUME ValidationInv, [ValidationNext]_checkVars
  PROVE  ValidationInv'
<1>1. CASE ValidationNext
  BY <1>1, PlainStepsKeepInv, LaunchKeepsInv, VisitKeepsInv, WalkKeepsInv, FinishKeepsInv,
     CloseKeepsInv, EndKeepsInv DEF ValidationNext
<1>2. CASE UNCHANGED checkVars
  <2> USE <1>2 DEF checkVars
  <2>1. ValidationTypeOK' /\ Counted' /\ Open'
    BY DEF ValidationInv, ValidationTypeOK, Counted, Open
  <2>2. Judged'
    BY DEF ValidationInv, Judged, Sound, AllPassed, TestsPassed, Step
  <2>3. Walked'
    BY DEF ValidationInv, Walked, Shown, Whole, AllWalked, Unwalked, IsJourney
  <2> QED BY <2>1, <2>2, <2>3 DEF ValidationInv
<1> QED BY <1>1, <1>2

-------------------------------------------------------------------------------
(***************************************************************************)
(* The inductive invariant holds of every reachable state.                 *)
(***************************************************************************)
THEOREM ValidationInvariance == ValidationSpec => []ValidationInv
BY ValidationInitInv, StepKeepsInv, PTL DEF ValidationSpec

(***************************************************************************)
(* Type correctness of the validator.                                      *)
(***************************************************************************)
THEOREM ValidationTypes == ValidationSpec => []ValidationTypeOK
BY ValidationInvariance, PTL DEF ValidationInv

(***************************************************************************)
(* A PASS rests on a passed result for every step of the task, whatever    *)
(* the system under test answers and wherever the validator throws.        *)
(***************************************************************************)
THEOREM PassWhole == ValidationSpec => []PassIsWhole
<1>1. ValidationInv => PassIsWhole
  <2> SUFFICES ASSUME ValidationInv, status = "PASS"
               PROVE  /\ exit # "nonzero"
                      /\ Len(results) = Len(task.steps)
                      /\ \A i \in 1..Len(task.steps) :
                           /\ results[i].status = "PASS"
                           /\ Compares(task.steps[i]) => results[i].held
                           /\ task.steps[i].type \in NetworkTypes => network
    BY DEF PassIsWhole
  <2>1. /\ pc = "done" /\ mode = "acceptance" /\ AllPassed
        /\ Len(results) = Len(task.steps)
    BY DEF ValidationInv, Judged, Counted
  <2>2. exit # "nonzero"
    BY <2>1 DEF AllPassed, TestsPassed
  <2> QED BY <2>1, <2>2 DEF ValidationInv, Judged, Sound, AllPassed
<1> QED BY <1>1, ValidationInvariance, PTL

(***************************************************************************)
(* A journey that passed was walked to its end.                            *)
(***************************************************************************)
THEOREM JourneyWhole == ValidationSpec => []JourneyIsWhole
<1>1. ValidationInv => JourneyIsWhole
  BY DEF ValidationInv, Walked, Shown, Whole, AllWalked, IsJourney, JourneyIsWhole
<1> QED BY <1>1, ValidationInvariance, PTL

(***************************************************************************)
(* Every browser is closed again, but those that never gave a page.        *)
(***************************************************************************)
THEOREM BrowsersClosed == ValidationSpec => []BrowsersAreClosed
<1>1. ValidationInv => BrowsersAreClosed
  BY DEF ValidationInv, Open, Browsing, BrowsersAreClosed
<1> QED BY <1>1, ValidationInvariance, PTL

-------------------------------------------------------------------------------
(***************************************************************************)
(* The compiler.  FlattenSeq is defined with a recursive function on       *)
(* 1..N; what holds of it is shown for the least index at which it would   *)
(* not, the sets of naturals being well founded.                           *)
(***************************************************************************)

(***************************************************************************)
(* Induction, over a set of naturals.                                      *)
(***************************************************************************)
LEMMA NatInductionOnSet ==
  ASSUME NEW T, 0 \in T, \A n \in Nat : n \in T => n + 1 \in T
  PROVE  Nat \subseteq T
<1> DEFINE Missing == Nat \ T
<1>1. SUFFICES ASSUME Missing # {}
               PROVE  FALSE
  OBVIOUS
<1>2. PICK least \in Missing : \A n \in Missing : ~(<<n, least>> \in OpToRel(<, Nat))
  <2>1. Missing \subseteq Nat
    OBVIOUS
  <2> HIDE DEF Missing
  <2> QED BY <1>1, <2>1, WFMin, NatLessThanWellFounded, Zenon
<1>3. least \in Nat /\ least # 0 /\ least - 1 \in Nat
  OBVIOUS
<1>4. <<least - 1, least>> \in OpToRel(<, Nat)
  BY <1>3 DEF OpToRel
<1>5. least - 1 \in T
  BY <1>2, <1>3, <1>4
<1> QED BY <1>3, <1>5

Flattened(f, seqs, n) ==
  f = [i \in 1..n |-> IF i = 1 THEN seqs[i] ELSE f[i - 1] \o seqs[i]]

(***************************************************************************)
(* The recursive function of FlattenSeq exists.                            *)
(***************************************************************************)
LEMMA FlattenedExists ==
  ASSUME NEW seqs
  PROVE  \A n \in Nat : \E f : Flattened(f, seqs, n)
<1> DEFINE T == {n \in Nat : \E f : Flattened(f, seqs, n)}
<1>1. 0 \in T
  <2>1. Flattened([i \in 1..0 |-> seqs], seqs, 0)
    BY DEF Flattened
  <2> QED BY <2>1
<1>2. ASSUME NEW n \in Nat, n \in T
      PROVE  n + 1 \in T
  <2>1. PICK f : Flattened(f, seqs, n)
    BY <1>2
  <2> DEFINE next == IF n = 0 THEN seqs[1] ELSE f[n] \o seqs[n + 1]
             g == [i \in 1..(n + 1) |-> IF i = n + 1 THEN next ELSE f[i]]
  <2>2. ASSUME NEW i \in 1..(n + 1)
        PROVE  g[i] = IF i = 1 THEN seqs[i] ELSE g[i - 1] \o seqs[i]
    <3>1. CASE i = n + 1
      <4>1. CASE n = 0
        BY <3>1, <4>1
      <4>2. CASE n # 0
        <5>1. i - 1 = n /\ i # 1 /\ n \in 1..(n + 1) /\ n # n + 1
          BY <3>1, <4>2
        <5>2. g[n] = f[n]
          BY <5>1
        <5> QED BY <3>1, <4>2, <5>1, <5>2
      <4> QED BY <4>1, <4>2
    <3>2. CASE i # n + 1
      <4>1. i \in 1..n /\ g[i] = f[i]
        BY <3>2
      <4>2. f[i] = IF i = 1 THEN seqs[i] ELSE f[i - 1] \o seqs[i]
        BY <2>1, <4>1 DEF Flattened
      <4>3. i # 1 => i - 1 \in 1..(n + 1) /\ i - 1 # n + 1
        BY <4>1
      <4>4. i # 1 => g[i - 1] = f[i - 1]
        BY <4>3
      <4> QED BY <4>1, <4>2, <4>4
    <3> QED BY <3>1, <3>2
  <2>3. Flattened(g, seqs, n + 1)
    <3>1. g = [i \in 1..(n + 1) |-> g[i]]
      OBVIOUS
    <3> HIDE DEF g
    <3> QED BY <2>2, <3>1 DEF Flattened
  <2> HIDE DEF g
  <2> QED BY <2>3
<1> HIDE DEF T
<1>3. Nat \subseteq T
  BY <1>1, <1>2, NatInductionOnSet
<1> QED BY <1>3 DEF T

\* A sequence that has every element of the first n sequences and no other.
Collected(S, seqs, n, s) ==
  /\ s \in Seq(S)
  /\ \A i \in 1..n : \A j \in 1..Len(seqs[i]) : \E k \in 1..Len(s) : s[k] = seqs[i][j]
  /\ \A k \in 1..Len(s) : \E i \in 1..n : \E j \in 1..Len(seqs[i]) : s[k] = seqs[i][j]

LEMMA CollectedNext ==
  ASSUME NEW S, NEW seqs, NEW n \in Nat, NEW s, Collected(S, seqs, n, s),
         NEW next, next \in Seq(S), seqs[n + 1] = next
  PROVE  Collected(S, seqs, n + 1, s \o next)
<1> DEFINE all == s \o next
<1>1. s \in Seq(S)
  BY DEF Collected
<1>2. /\ all \in Seq(S)
      /\ Len(all) = Len(s) + Len(next)
      /\ Len(s) \in Nat /\ Len(next) \in Nat
      /\ \A k \in 1..Len(s) : all[k] = s[k]
      /\ \A j \in 1..Len(next) : all[Len(s) + j] = next[j]
  BY <1>1
<1> HIDE DEF all
<1>3. ASSUME NEW i \in 1..(n + 1), NEW j \in 1..Len(seqs[i])
      PROVE  \E k \in 1..Len(all) : all[k] = seqs[i][j]
  <2>1. CASE i = n + 1
    <3>1. j \in 1..Len(next) /\ seqs[i][j] = next[j]
      BY <2>1
    <3>2. Len(s) + j \in 1..Len(all)
      BY <1>2, <3>1
    <3> QED BY <1>2, <3>1, <3>2
  <2>2. CASE i # n + 1
    <3>1. i \in 1..n
      BY <2>2
    <3>2. PICK k \in 1..Len(s) : s[k] = seqs[i][j]
      BY <3>1 DEF Collected
    <3>3. k \in 1..Len(all)
      BY <1>2
    <3> QED BY <1>2, <3>2, <3>3
  <2> QED BY <2>1, <2>2
<1>4. ASSUME NEW k \in 1..Len(all)
      PROVE  \E i \in 1..(n + 1) : \E j \in 1..Len(seqs[i]) : all[k] = seqs[i][j]
  <2>1. CASE k <= Len(s)
    <3>1. k \in 1..Len(s)
      BY <1>2, <2>1
    <3>2. PICK i \in 1..n : \E j \in 1..Len(seqs[i]) : s[k] = seqs[i][j]
      BY <3>1 DEF Collected
    <3>3. i \in 1..(n + 1)
      OBVIOUS
    <3> QED BY <1>2, <3>1, <3>2, <3>3
  <2>2. CASE ~(k <= Len(s))
    <3>1. k - Len(s) \in 1..Len(next) /\ Len(s) + (k - Len(s)) = k
      BY <1>2, <2>2
    <3>2. all[k] = next[k - Len(s)]
      BY <1>2, <3>1
    <3>3. n + 1 \in 1..(n + 1)
      OBVIOUS
    <3> QED BY <3>1, <3>2, <3>3
  <2> QED BY <2>1, <2>2
<1>5. Collected(S, seqs, n + 1, all)
  BY <1>2, <1>3, <1>4 DEF Collected
<1> QED BY <1>5 DEF all

LEMMA FlattenedCollects ==
  ASSUME NEW S, NEW N \in Nat, NEW seqs \in [1..N -> Seq(S)],
         NEW f, Flattened(f, seqs, N)
  PROVE  \A n \in 1..N : Collected(S, seqs, n, f[n])
<1> DEFINE T == {n \in Nat : n \in 1..N => Collected(S, seqs, n, f[n])}
<1>1. 0 \in T
  OBVIOUS
<1>2. \A i \in 1..N : f[i] = IF i = 1 THEN seqs[i] ELSE f[i - 1] \o seqs[i]
  BY DEF Flattened
<1>3. ASSUME NEW n \in Nat, n \in T, n + 1 \in 1..N
      PROVE  Collected(S, seqs, n + 1, f[n + 1])
  <2>1. seqs[n + 1] \in Seq(S)
    BY <1>3
  <2>2. CASE n = 0
    <3>1. f[n + 1] = seqs[n + 1]
      BY <1>2, <1>3, <2>2
    <3>2. n + 1 = 1
      BY <2>2
    <3> QED BY <2>1, <3>1, <3>2 DEF Collected
  <2>3. CASE n # 0
    <3>1. n \in 1..N
      BY <1>3, <2>3
    <3>2. Collected(S, seqs, n, f[n])
      BY <1>3, <3>1
    <3>3. n + 1 # 1 /\ (n + 1) - 1 = n
      BY <2>3
    <3>4. f[n + 1] = f[n] \o seqs[n + 1]
      BY <1>2, <1>3, <3>3
    <3> QED BY <2>1, <3>2, <3>4, CollectedNext
  <2> QED BY <2>2, <2>3
<1>4. ASSUME NEW n \in Nat, n \in T
      PROVE  n + 1 \in T
  <2>1. n + 1 \in 1..N => Collected(S, seqs, n + 1, f[n + 1])
    BY <1>3, <1>4
  <2>2. n + 1 \in Nat
    OBVIOUS
  <2> QED BY <2>1, <2>2, Zenon
<1> HIDE DEF T
<1>5. Nat \subseteq T
  BY <1>1, <1>4, NatInductionOnSet
<1> QED BY <1>5 DEF T

(***************************************************************************)
(* FlattenSeq gives a sequence of the elements of its sequences, all of    *)
(* them and no other.                                                      *)
(***************************************************************************)
LEMMA FlattenSeqFacts ==
  ASSUME NEW S, NEW N \in Nat, NEW seqs \in [1..N -> Seq(S)]
  PROVE  Collected(S, seqs, N, FlattenSeq(seqs))
<1>1. seqs \in Seq(Seq(S)) /\ Len(seqs) = N
  OBVIOUS
<1>2. CASE N = 0
  <2>1. FlattenSeq(seqs) = seqs
    BY <1>1, <1>2 DEF FlattenSeq
  <2>2. seqs = <<>>
    BY <1>1, <1>2
  <2> QED BY <1>2, <2>1, <2>2 DEF Collected
<1>3. CASE N # 0
  <2>1. PICK f : Flattened(f, seqs, N)
    BY FlattenedExists
  <2>2. f = [i \in 1..Len(seqs) |-> IF i = 1 THEN seqs[i] ELSE f[i - 1] \o seqs[i]]
    BY <1>1, <2>1 DEF Flattened
  <2>3. \E g : /\ g = [i \in 1..Len(seqs) |-> IF i = 1 THEN seqs[i] ELSE g[i - 1] \o seqs[i]]
               /\ FlattenSeq(seqs) = g[Len(seqs)]
    BY <1>1, <1>3, <2>2, Zenon DEF FlattenSeq
  <2>4. PICK g : Flattened(g, seqs, N) /\ FlattenSeq(seqs) = g[N]
    BY <1>1, <2>3 DEF Flattened
  <2>5. \A n \in 1..N : Collected(S, seqs, n, g[n])
    BY <2>4, FlattenedCollects
  <2>6. N \in 1..N
    BY <1>3
  <2> QED BY <2>4, <2>5, <2>6
<1> QED BY <1>2, <1>3

(***************************************************************************)
(* The checks a bullet may become, and the bullets.                        *)
(***************************************************************************)
RuleNames == {"load", "listed", "cart", "checkout", "created", "backend"}

StepTypes ==
  {"browser_playwright", "application_health", "http_response", "graphql_request",
   "database_state", "workspace_file_contains", "evidence_present"}

Claims ==
  {"none", "files", "storefront", "health", "listing", "products", "answer", "checkout",
   "active order", "orders", "one order", "note"}

Checks(texts) ==
  [type : StepTypes \cup {"none"}, bullet : texts \cup {"none"}, claim : Claims,
   equals : BOOLEAN, noErrors : BOOLEAN]

BucketNames == {"assertions", "browser", "api", "database"}

Bullets(texts) == [text : texts, matches : SUBSET RuleNames]

LEMMA RuleOfFacts ==
  ASSUME NEW texts, NEW bullet \in Bullets(texts)
  PROVE  RuleOf(bullet) \in RuleNames \cup {"note"}
<1>1. CASE bullet.matches = {}
  BY <1>1 DEF RuleOf
<1>2. CASE bullet.matches # {}
  <2> DEFINE First(i) == /\ Rules[i] \in bullet.matches
                         /\ \A j \in 1..(i - 1) : Rules[j] \notin bullet.matches
  <2>1. /\ Len(Rules) = 6
        /\ Rules[1] = "load" /\ Rules[2] = "listed" /\ Rules[3] = "cart"
        /\ Rules[4] = "checkout" /\ Rules[5] = "created" /\ Rules[6] = "backend"
    BY DEF Rules
  <2>2. bullet.matches \subseteq RuleNames
    BY DEF Bullets
  <2>3. \E i \in 1..Len(Rules) : First(i)
    <3> USE <2>1
    <3>1. CASE Rules[1] \in bullet.matches
      <4>1. First(1)
        BY <3>1
      <4> QED BY <4>1
    <3>2. CASE Rules[1] \notin bullet.matches /\ Rules[2] \in bullet.matches
      <4>1. First(2)
        BY <3>2
      <4> QED BY <4>1
    <3>3. CASE (\A j \in 1..2 : Rules[j] \notin bullet.matches) /\ Rules[3] \in bullet.matches
      <4>1. First(3)
        BY <3>3
      <4> QED BY <4>1
    <3>4. CASE (\A j \in 1..3 : Rules[j] \notin bullet.matches) /\ Rules[4] \in bullet.matches
      <4>1. First(4)
        BY <3>4
      <4> QED BY <4>1
    <3>5. CASE (\A j \in 1..4 : Rules[j] \notin bullet.matches) /\ Rules[5] \in bullet.matches
      <4>1. First(5)
        BY <3>5
      <4> QED BY <4>1
    <3>6. CASE \A j \in 1..5 : Rules[j] \notin bullet.matches
      <4>1. Rules[6] \in bullet.matches
        BY <1>2, <2>2, <3>6 DEF RuleNames
      <4>2. First(6)
        BY <3>6, <4>1
      <4> QED BY <4>2
    <3> QED BY <3>1, <3>2, <3>3, <3>4, <3>5, <3>6
  <2>4. PICK i \in 1..Len(Rules) : RuleOf(bullet) = Rules[i]
    BY <1>2, <2>3 DEF RuleOf
  <2> QED BY <2>1, <2>4 DEF RuleNames
<1> QED BY <1>1, <1>2

(***************************************************************************)
(* Every bullet becomes checks, and one of them has a type.                *)
(***************************************************************************)
Expanded(texts, bullet, buckets) ==
  /\ \A b \in BucketNames : buckets[b] \in Seq(Checks(texts))
  /\ \E b \in BucketNames : \E j \in 1..Len(buckets[b]) :
       buckets[b][j].type # "none" /\ buckets[b][j].bullet = bullet.text

LEMMA BucketsFacts ==
  ASSUME NEW texts, NEW bullet, NEW a, NEW b, NEW c, NEW d,
         a \in Seq(Checks(texts)), b \in Seq(Checks(texts)),
         c \in Seq(Checks(texts)), d \in Seq(Checks(texts)),
         NEW check \in Checks(texts), check.type # "none", check.bullet = bullet.text,
         <<check>> \in {a, b, c, d}
  PROVE  Expanded(texts, bullet, Buckets(a, b, c, d))
<1> DEFINE all == Buckets(a, b, c, d)
<1>1. /\ all["assertions"] = a /\ all["browser"] = b
      /\ all["api"] = c /\ all["database"] = d
  BY DEF Buckets
<1> HIDE DEF all
<1>2. \A name \in BucketNames : all[name] \in Seq(Checks(texts))
  BY <1>1 DEF BucketNames
<1>3. PICK name \in BucketNames : all[name] = <<check>>
  BY <1>1 DEF BucketNames
<1>4. Len(<<check>>) = 1 /\ <<check>>[1] = check
  OBVIOUS
<1>5. 1 \in 1..Len(all[name]) /\ all[name][1] = check
  BY <1>3, <1>4
<1>6. Expanded(texts, bullet, all)
  BY <1>2, <1>5 DEF Expanded
<1> QED BY <1>6 DEF all

LEMMA ExpandFacts ==
  ASSUME NEW texts, NEW bullet \in Bullets(texts)
  PROVE  Expanded(texts, bullet, ExpandAcceptanceBullet(bullet))
<1>1. bullet.text \in texts
  BY DEF Bullets
<1>2. <<>> \in Seq(Checks(texts)) /\ \A c \in Checks(texts) : <<c>> \in Seq(Checks(texts))
  OBVIOUS
<1>3. <<Assertion(bullet)>> \in Seq(Checks(texts))
  BY <1>1, <1>2 DEF Assertion, Check, Checks, Claims
<1>4. Expanded(texts, bullet, LoadChecks(bullet))
  <2> DEFINE c == Check(bullet, "browser_playwright", "storefront")
             d == Check(bullet, "application_health", "health")
  <2>1. c \in Checks(texts) /\ d \in Checks(texts) /\ c.type # "none" /\ c.bullet = bullet.text
    BY <1>1 DEF Check, Checks, StepTypes, Claims
  <2> HIDE DEF c, d
  <2>2. Expanded(texts, bullet, Buckets(<<Assertion(bullet)>>, <<c>>, <<d>>, <<>>))
    BY <1>2, <1>3, <2>1, BucketsFacts
  <2> QED BY <2>2 DEF LoadChecks, c, d
<1>5. Expanded(texts, bullet, ListedChecks(bullet))
  <2> DEFINE c == Check(bullet, "browser_playwright", "listing")
             d == Check(bullet, "http_response", "products")
  <2>1. c \in Checks(texts) /\ d \in Checks(texts) /\ c.type # "none" /\ c.bullet = bullet.text
    BY <1>1 DEF Check, Checks, StepTypes, Claims
  <2> HIDE DEF c, d
  <2>2. Expanded(texts, bullet, Buckets(<<Assertion(bullet)>>, <<c>>, <<d>>, <<>>))
    BY <1>2, <1>3, <2>1, BucketsFacts
  <2> QED BY <2>2 DEF ListedChecks, c, d
<1>6. Expanded(texts, bullet, CartChecks(bullet))
  <2> DEFINE c == [Check(bullet, "graphql_request", "answer") EXCEPT !.noErrors = FALSE]
  <2>1. c \in Checks(texts) /\ c.type # "none" /\ c.bullet = bullet.text
    BY <1>1 DEF Check, Checks, StepTypes, Claims
  <2> HIDE DEF c
  <2>2. Expanded(texts, bullet, Buckets(<<Assertion(bullet)>>, <<>>, <<c>>, <<>>))
    BY <1>2, <1>3, <2>1, BucketsFacts
  <2> QED BY <2>2 DEF CartChecks, c
<1>7. Expanded(texts, bullet, CheckoutChecks(bullet))
  <2> DEFINE c == Check(bullet, "browser_playwright", "checkout")
  <2>1. c \in Checks(texts) /\ c.type # "none" /\ c.bullet = bullet.text
    BY <1>1 DEF Check, Checks, StepTypes, Claims
  <2> HIDE DEF c
  <2>2. Expanded(texts, bullet, Buckets(<<Assertion(bullet)>>, <<c>>, <<>>, <<>>))
    BY <1>2, <1>3, <2>1, BucketsFacts
  <2> QED BY <2>2 DEF CheckoutChecks, c
<1>8. Expanded(texts, bullet, CreatedChecks(bullet))
  <2> DEFINE c == Check(bullet, "graphql_request", "active order")
  <2>1. c \in Checks(texts) /\ c.type # "none" /\ c.bullet = bullet.text
    BY <1>1 DEF Check, Checks, StepTypes, Claims
  <2> HIDE DEF c
  <2>2. Expanded(texts, bullet, Buckets(<<Assertion(bullet)>>, <<>>, <<c>>, <<>>))
    BY <1>2, <1>3, <2>1, BucketsFacts
  <2> QED BY <2>2 DEF CreatedChecks, c
<1>9. Expanded(texts, bullet, BackendChecks(bullet))
  <2> DEFINE c == Check(bullet, "graphql_request", "orders")
             d == Check(bullet, "database_state", "one order")
  <2>1. c \in Checks(texts) /\ d \in Checks(texts) /\ c.type # "none" /\ c.bullet = bullet.text
    BY <1>1 DEF Check, Checks, StepTypes, Claims
  <2> HIDE DEF c, d
  <2>2. Expanded(texts, bullet, Buckets(<<Assertion(bullet)>>, <<>>, <<c>>, <<d>>))
    BY <1>2, <1>3, <2>1, BucketsFacts
  <2> QED BY <2>2 DEF BackendChecks, c, d
<1>10. Expanded(texts, bullet, NoteChecks(bullet))
  <2> DEFINE c == Check(bullet, "workspace_file_contains", "note")
  <2>1. c \in Checks(texts) /\ c.type # "none" /\ c.bullet = bullet.text
    BY <1>1 DEF Check, Checks, StepTypes, Claims
  <2> HIDE DEF c
  <2>2. Expanded(texts, bullet, Buckets(<<c>>, <<>>, <<>>, <<>>))
    BY <1>2, <2>1, BucketsFacts
  <2> QED BY <2>2 DEF NoteChecks, c
<1> QED
  BY <1>4, <1>5, <1>6, <1>7, <1>8, <1>9, <1>10, RuleOfFacts
     DEF ExpandAcceptanceBullet, RuleNames

LEMMA ConcatFacts ==
  ASSUME NEW S, NEW s \in Seq(S), NEW t \in Seq(S)
  PROVE  /\ s \o t \in Seq(S)
         /\ \A j \in 1..Len(s) : \E k \in 1..Len(s \o t) : (s \o t)[k] = s[j]
         /\ \A j \in 1..Len(t) : \E k \in 1..Len(s \o t) : (s \o t)[k] = t[j]
<1> DEFINE all == s \o t
<1>1. /\ all \in Seq(S)
      /\ Len(all) = Len(s) + Len(t)
      /\ Len(s) \in Nat /\ Len(t) \in Nat
      /\ \A k \in 1..Len(s) : all[k] = s[k]
      /\ \A j \in 1..Len(t) : all[Len(s) + j] = t[j]
  OBVIOUS
<1> HIDE DEF all
<1>2. ASSUME NEW j \in 1..Len(s)
      PROVE  j \in 1..Len(all) /\ all[j] = s[j]
  BY <1>1
<1>3. ASSUME NEW j \in 1..Len(t)
      PROVE  Len(s) + j \in 1..Len(all) /\ all[Len(s) + j] = t[j]
  BY <1>1
<1> QED BY <1>1, <1>2, <1>3 DEF all

(***************************************************************************)
(* The checks of a scenario: those of its bullets, after the evidence.     *)
(***************************************************************************)
LEMMA CompileFacts ==
  ASSUME NEW texts, NEW card \in Seq(Bullets(texts)),
         NEW checks, checks = AllChecks(CompileTechnicalScenario(card))
  PROVE  /\ checks \in Seq(Checks(texts))
         /\ \E k \in 1..Len(checks) : checks[k] = EvidencePack
         /\ \A i \in 1..Len(card) :
              \E k \in 1..Len(checks) :
                checks[k].type # "none" /\ checks[k].bullet = card[i].text
<1> DEFINE S == Checks(texts)
           N == Len(card)
           expanded == [i \in 1..N |-> ExpandAcceptanceBullet(card[i])]
           OfBucket(b) == [i \in 1..N |-> expanded[i][b]]
           All(b) == FlattenSeq(OfBucket(b))
           first == <<EvidencePack>>
           ab == (first \o All("assertions")) \o All("browser")
           abc == ab \o All("api")
<1>1. N \in Nat /\ \A i \in 1..N : card[i] \in Bullets(texts)
  OBVIOUS
<1>2. \A i \in 1..N : Expanded(texts, card[i], expanded[i])
  BY <1>1, ExpandFacts
<1> HIDE DEF expanded
<1>3. ASSUME NEW b \in BucketNames
      PROVE  Collected(S, OfBucket(b), N, All(b))
  <2>1. OfBucket(b) \in [1..N -> Seq(S)]
    BY <1>2 DEF Expanded
  <2> HIDE DEF OfBucket
  <2> QED BY <1>1, <2>1, FlattenSeqFacts
<1>4. first \in Seq(S) /\ first[1] = EvidencePack /\ 1 \in 1..Len(first)
  <2>1. EvidencePack \in S
    BY DEF EvidencePack, Checks, StepTypes, Claims
  <2> QED BY <2>1
<1>5. checks = abc \o All("database")
  BY DEF AllChecks, CompileTechnicalScenario, Buckets, expanded
<1>6. /\ All("assertions") \in Seq(S) /\ All("browser") \in Seq(S)
      /\ All("api") \in Seq(S) /\ All("database") \in Seq(S)
  BY <1>3 DEF Collected, BucketNames
<1> HIDE DEF All, first
<1>7. first \o All("assertions") \in Seq(S) /\ ab \in Seq(S) /\ abc \in Seq(S)
      /\ checks \in Seq(S)
  BY <1>4, <1>5, <1>6
<1> DEFINE Into(s, t) == \A j \in 1..Len(s) : \E k \in 1..Len(t) : t[k] = s[j]
<1>8. ASSUME NEW r \in Seq(S), NEW s \in Seq(S), NEW t \in Seq(S), Into(r, s), Into(s, t)
      PROVE  Into(r, t)
  BY <1>8
<1>9. ASSUME NEW s \in Seq(S), NEW t \in Seq(S)
      PROVE  Into(s, s \o t) /\ Into(t, s \o t)
  BY ConcatFacts
<1> HIDE DEF Into, S
<1>10. /\ Into(first, first \o All("assertions"))
       /\ Into(All("assertions"), first \o All("assertions"))
       /\ Into(first \o All("assertions"), ab) /\ Into(All("browser"), ab)
       /\ Into(ab, abc) /\ Into(All("api"), abc)
       /\ Into(abc, checks) /\ Into(All("database"), checks)
  BY <1>4, <1>5, <1>6, <1>7, <1>9
<1>11. Into(ab, checks) /\ Into(All("browser"), checks) /\ Into(All("api"), checks)
  BY <1>6, <1>7, <1>8, <1>10
<1>12. Into(first \o All("assertions"), checks)
  BY <1>7, <1>8, <1>10, <1>11
<1>13. Into(first, checks) /\ Into(All("assertions"), checks)
  BY <1>4, <1>6, <1>7, <1>8, <1>10, <1>12
<1>14. \E k \in 1..Len(checks) : checks[k] = EvidencePack
  BY <1>4, <1>13 DEF Into
<1>15. ASSUME NEW i \in 1..N
       PROVE  \E k \in 1..Len(checks) :
                checks[k].type # "none" /\ checks[k].bullet = card[i].text
  <2>1. PICK b \in BucketNames : \E j \in 1..Len(expanded[i][b]) :
          expanded[i][b][j].type # "none" /\ expanded[i][b][j].bullet = card[i].text
    BY <1>2, <1>15 DEF Expanded
  <2>2. PICK j \in 1..Len(expanded[i][b]) :
          expanded[i][b][j].type # "none" /\ expanded[i][b][j].bullet = card[i].text
    BY <2>1
  <2>3. OfBucket(b)[i] = expanded[i][b]
    BY <1>15
  <2> HIDE DEF OfBucket
  <2>4. PICK k \in 1..Len(All(b)) : All(b)[k] = expanded[i][b][j]
    BY <1>3, <2>2, <2>3 DEF Collected
  <2>5. Into(All(b), checks)
    BY <1>10, <1>11, <1>13 DEF BucketNames
  <2> QED BY <2>2, <2>4, <2>5 DEF Into
<1> QED BY <1>7, <1>14, <1>15 DEF S

TypedChecks(texts) == {check \in Checks(texts) : check.type # "none"}

(***************************************************************************)
(* The steps of a list of checks: one for each check that has a type.      *)
(***************************************************************************)
LEMMA StepsFacts ==
  ASSUME NEW texts, NEW checks \in Seq(Checks(texts)),
         NEW steps, steps = ValidationSteps(checks)
  PROVE  /\ steps \in Seq(TypedChecks(texts))
         /\ \A i \in 1..Len(checks) : checks[i].type # "none" =>
              \E k \in 1..Len(steps) : steps[k] = checks[i]
<1> DEFINE Typed == TypedChecks(texts)
           N == Len(checks)
           step == [i \in 1..N |-> TechnicalCheckToValidationStep(checks[i])]
<1>1. N \in Nat /\ \A i \in 1..N : checks[i] \in Checks(texts)
  OBVIOUS
<1>2. \A i \in 1..N : step[i] = IF checks[i].type = "none" THEN <<>> ELSE <<checks[i]>>
  BY DEF TechnicalCheckToValidationStep
<1>3. step \in [1..N -> Seq(Typed)]
  <2>1. <<>> \in Seq(Typed) /\ \A c \in Typed : <<c>> \in Seq(Typed)
    OBVIOUS
  <2>2. \A i \in 1..N : checks[i].type # "none" => checks[i] \in Typed
    BY <1>1 DEF TypedChecks
  <2> HIDE DEF Typed
  <2>3. \A i \in 1..N : step[i] \in Seq(Typed)
    BY <1>2, <2>1, <2>2
  <2> QED BY <2>3
<1>4. steps = FlattenSeq(step)
  BY DEF ValidationSteps
<1> HIDE DEF Typed, step
<1>5. Collected(Typed, step, N, steps)
  BY <1>1, <1>3, <1>4, FlattenSeqFacts
<1>6. ASSUME NEW i \in 1..N, checks[i].type # "none"
      PROVE  \E k \in 1..Len(steps) : steps[k] = checks[i]
  <2>1. step[i] = <<checks[i]>>
    BY <1>2, <1>6
  <2>2. 1 \in 1..Len(step[i]) /\ step[i][1] = checks[i]
    BY <2>1
  <2>3. \A j \in 1..Len(step[i]) : \E k \in 1..Len(steps) : steps[k] = step[i][j]
    BY <1>5 DEF Collected
  <2> QED BY <2>2, <2>3
<1> QED BY <1>5, <1>6 DEF Collected, Typed

(***************************************************************************)
(* The compiler (technicalScenarioToTaskDefinition of                      *)
(* compileTechnicalScenario): whatever the bullets of a card say, its task *)
(* has a step for every bullet, the check of the evidence, and no journey  *)
(* and no step without a type.  So every card satisfies TaskAssumption.    *)
(***************************************************************************)
THEOREM CompiledCard ==
  ASSUME NEW texts, NEW card \in Seq(Bullets(texts)),
         NEW compiled, compiled = TechnicalScenarioToTask(card)
  PROVE  /\ compiled.steps \in Seq(Checks(texts))
         /\ Len(compiled.steps) \in Nat \ {0}
         /\ Len(compiled.journey) = 0
         /\ \E k \in 1..Len(compiled.steps) : compiled.steps[k] = EvidencePack
         /\ \A k \in 1..Len(compiled.steps) :
              compiled.steps[k].type \in StepTypes /\ compiled.steps[k].type # "browser_journey"
         /\ \A text \in compiled.bullets :
              \E k \in 1..Len(compiled.steps) : compiled.steps[k].bullet = text
<1> DEFINE checks == AllChecks(CompileTechnicalScenario(card))
           steps == ValidationSteps(checks)
<1>1. /\ compiled.steps = steps
      /\ compiled.journey = <<>>
      /\ compiled.bullets = {card[i].text : i \in 1..Len(card)}
  BY DEF TechnicalScenarioToTask
<1>2. /\ checks \in Seq(Checks(texts))
      /\ \E k \in 1..Len(checks) : checks[k] = EvidencePack
      /\ \A i \in 1..Len(card) :
           \E k \in 1..Len(checks) :
             checks[k].type # "none" /\ checks[k].bullet = card[i].text
  BY CompileFacts
<1> HIDE DEF checks
<1>3. /\ steps \in Seq(TypedChecks(texts))
      /\ \A i \in 1..Len(checks) : checks[i].type # "none" =>
           \E k \in 1..Len(steps) : steps[k] = checks[i]
  BY <1>2, StepsFacts
<1> HIDE DEF steps
<1>4. \E k \in 1..Len(steps) : steps[k] = EvidencePack
  <2>1. EvidencePack.type # "none"
    BY DEF EvidencePack
  <2> QED BY <1>2, <1>3, <2>1
<1>5. \A k \in 1..Len(steps) : steps[k] \in TypedChecks(texts)
  BY <1>3
<1>6. \A k \in 1..Len(steps) :
        steps[k].type \in StepTypes /\ steps[k].type # "browser_journey"
  BY <1>5 DEF TypedChecks, Checks, StepTypes
<1>7. ASSUME NEW text \in compiled.bullets
      PROVE  \E k \in 1..Len(steps) : steps[k].bullet = text
  <2>1. PICK i \in 1..Len(card) : text = card[i].text
    BY <1>1
  <2>2. PICK k \in 1..Len(checks) : checks[k].type # "none" /\ checks[k].bullet = text
    BY <1>2, <2>1
  <2> QED BY <1>3, <2>2
<1>8. Len(steps) \in Nat \ {0} /\ Len(<<>>) = 0
  BY <1>3, <1>4
<1>9. steps \in Seq(Checks(texts))
  <2>1. TypedChecks(texts) \subseteq Checks(texts)
    BY DEF TypedChecks
  <2> QED BY <1>3, <2>1
<1> QED BY <1>1, <1>4, <1>6, <1>7, <1>8, <1>9

(***************************************************************************)
(* When the checks of a card are through, every acceptance bullet of it    *)
(* has a result of its own.  The tasks without a card, those of the        *)
(* scenarios, have no bullets.                                             *)
(***************************************************************************)
THEOREM BulletsChecked ==
  ASSUME NEW texts,
         \A t \in Tasks :
           \/ t.bullets = {}
           \/ \E card \in Seq(Bullets(texts)) : t = TechnicalScenarioToTask(card)
  PROVE  ValidationSpec => []BulletsAreChecked
<1>1. ASSUME ValidationInv
      PROVE  BulletsAreChecked
  <2>1. SUFFICES ASSUME pc = "done", NEW text \in task.bullets
                 PROVE  \E i \in 1..Len(results) : task.steps[i].bullet = text
    BY DEF BulletsAreChecked
  <2>2. Len(results) = Len(task.steps) /\ task \in Tasks
    BY <1>1, <2>1 DEF ValidationInv, Counted, ValidationTypeOK
  <2>3. PICK card \in Seq(Bullets(texts)) : task = TechnicalScenarioToTask(card)
    BY <2>1, <2>2
  <2> QED BY <2>1, <2>2, <2>3, CompiledCard
<1> QED BY <1>1, ValidationInvariance, PTL
=============================================================================
