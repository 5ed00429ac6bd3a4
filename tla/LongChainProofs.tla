-------------------------- MODULE LongChainProofs --------------------------
(***************************************************************************)
(* Theorems about RunDirectory, for every number of runs, every set of     *)
(* ids, tasks and flags, and about LongChain, for every set of card lists, *)
(* of any length.                                                          *)
(*                                                                         *)
(* The argument for the directories: what a run has decided is fixed when  *)
(* it is written (Decided, Present), so that a file can be compared with   *)
(* the log of its writer at any later time (Told).  Written says which     *)
(* files the running run has written at each place.  A success in          *)
(* status.json is backed by checks of the same run at every moment,        *)
(* because they are replaced only while status.json shows no success or    *)
(* while the other copy is complete (Backed).  What a finished run leaves  *)
(* stays until the next run enters its directory (Left).  All of this is   *)
(* said of directories that no other process has taken; it can only take   *)
(* what it has found free, and stays where it is (Taken).                  *)
(*                                                                         *)
(* For the chain: each of its steps is a step of RunDirectory or leaves    *)
(* the variables of it alone, so that a chain inherits the theorems.       *)
(* Besides, Placed says where the chain is in its list, Collected compares *)
(* what it has collected with the log, and Numbered counts the runs.       *)
(***************************************************************************)
EXTENDS LongChain, WellFoundedInduction, TLAPS

Verdict == "validator-verdict.json"
Results == "validation-results.json"
Scenario == "scenario.json"

File(r, status, checks) == [run |-> r, status |-> status, checks |-> checks, torn |-> FALSE]

\* What is in the log of a run once something is decided.
Decided ==
  \A r \in Runs :
    /\ r > run => log[r] = NotStarted
    /\ r <= run => log[r].dir \in Dirs
    /\ log[r].validator = "PASS" => log[r].checks = "passed"
    /\ log[r].status \in Successes => log[r].status = log[r].validator /\ log[r].stop = Absent
    /\ log[r].final \in {Absent, "BLOCK", log[r].status}
    /\ log[r].returned => log[r].final \in Verdicts

\* Places up to which nothing is decided.
BeforeJudged == {"make", "agent", "manifest1", "status1", "task1", "summary1", "validate"}
BeforeStatus == BeforeJudged \cup {"results1", "verdict1", "settle"}
BeforeFinal  == BeforeStatus \cup {"manifest2", "status2", "task2", "summary2", "extended"}

\* The log of the running run.
Present ==
  pc # "idle" =>
    /\ log[run].dir = dir
    /\ log[run].task \in Tasks
    /\ ~log[run].returned
    /\ pc # "make" => dir \in root
    /\ pc \in BeforeJudged => log[run].validator = Absent
    /\ pc \in BeforeStatus \ BeforeJudged => log[run].validator \in Verdicts
    /\ pc \in BeforeStatus => log[run].status = Absent
    /\ pc \notin BeforeStatus => log[run].status \in Verdicts
    /\ pc \in BeforeFinal => log[run].final = Absent
    /\ pc \notin BeforeFinal => log[run].final \in Verdicts

\* Places of the pack once validator-verdict.json shows the final status.
AfterVerdict == {"page3", "status3", "catalog3", "report", "return"}

\* A file against the log of the run that wrote it.
ToldBy(n, file) ==
  /\ file.torn => file.status = Absent
  /\ file.status \in Successes =>
       /\ file.status = log[file.run].validator
       /\ n # Verdict => log[file.run].stop = Absent
  /\ n = Verdict =>
       (log[file.run].returned \/ (file.run = run /\ pc \in AfterVerdict)
          => file.status = log[file.run].final)
  /\ n = Scenario => log[file.run].final # Absent

Told ==
  \A d \in Dirs \ foreign, n \in Names :
    files[d][n] # Absent =>
      /\ d \in root
      /\ files[d][n].run \in Runs /\ files[d][n].run <= run
      /\ log[files[d][n].run].dir = d
      /\ ToldBy(n, files[d][n])

\* The files the running run has written, by its place.
FromScenario == {"result3", "validation3", "results3", "verdict3"} \cup AfterVerdict

FromBundle == {"extended", "task3", "scenario3"} \cup FromScenario

Own(n, status, checks) == dir \in foreign \/ files[dir][n] = File(run, status, checks)

OfOthers(n) == dir \in foreign \/ files[dir][n] = Absent \/ files[dir][n].run # run

There(n) ==
  dir \in foreign \/ (files[dir][n] # Absent /\ (files[dir][n].run = run => ~files[dir][n].torn))

WrittenByBundle ==
  /\ pc \in {"task1", "summary1", "validate", "results1", "verdict1", "settle"} =>
       Own("status.json", ProvisionalStatus, "none")
  /\ pc \in {"verdict1", "settle"} => Own(Results, Absent, log[run].checks)
  /\ pc \in {"manifest2", "status2", "task2", "summary2", "extended", "task3", "scenario3",
             "result3", "validation3", "results3"} /\ log[run].status \in Successes =>
       Own(Results, Absent, log[run].checks)
  /\ pc \in {"status2", "task2", "summary2"} \cup FromBundle =>
       Own("run-manifest.json", log[run].status, "none")
  /\ pc \in {"task2", "summary2"} \cup (FromBundle \ {"catalog3", "report", "return"}) =>
       Own("status.json", log[run].status, "none")
  /\ pc \in {"summary2"} \cup FromBundle => Own("task.json", Absent, "none")
  /\ pc \in FromBundle => Own("summary.md", log[run].status, "none")

WrittenByPack ==
  /\ pc \in {"task3", "scenario3"} => OfOthers(Scenario)
  /\ pc \in FromScenario => There(Scenario)
  /\ pc \in FromScenario \ {"result3"} => Own("result.json", log[run].final, log[run].checks)
  /\ pc \in {"results3", "verdict3"} \cup AfterVerdict =>
       Own("validation.json", log[run].final, log[run].checks)
  /\ pc \in {"verdict3"} \cup AfterVerdict => Own(Results, Absent, log[run].checks)
  /\ pc \in AfterVerdict => Own(Verdict, log[run].final, log[run].checks)
  /\ pc \in AfterVerdict \ {"page3"} =>
       Own("final-report.html", log[run].final, log[run].checks)
  /\ pc \in {"catalog3", "report", "return"} => Own("status.json", log[run].final, "none")
  /\ pc \in {"report", "return"} => Own("evidence-manifest.json", log[run].final, "none")
  /\ pc = "return" => Own("report.json", log[run].final, log[run].checks)

BackedIn(d) ==
  LET file == files[d]["status.json"]
  IN  file # Absent /\ file.status \in Successes =>
        /\ Readable(d, AuditedName(d))
        /\ Audit(d).run = file.run
        /\ Audit(d).checks = log[file.run].checks

Backed == \A d \in Dirs \ foreign : BackedIn(d)

\* The files of a run that has finished.
LeftBy(r) ==
  LET d == log[r].dir
  IN  /\ \A n \in {"run-manifest.json", "summary.md"} :
           files[d][n] = File(r, log[r].status, "none")
      /\ \A n \in {"status.json", "evidence-manifest.json"} :
           files[d][n] = File(r, log[r].final, "none")
      /\ files[d]["task.json"] = File(r, Absent, "none")
      /\ files[d][Results] = File(r, Absent, log[r].checks)
      /\ \A n \in {Verdict, "result.json", "validation.json", "final-report.html",
                   "report.json"} :
           files[d][n] = File(r, log[r].final, log[r].checks)
      /\ files[d][Scenario] # Absent
      /\ files[d][Scenario].run = r => ~files[d][Scenario].torn

Left ==
  \A r \in Runs :
    log[r].returned /\ LastInDirectory(r) /\ log[r].dir \notin foreign => LeftBy(r)

Taken == foreign \subseteq root

DirInv ==
  /\ DirTypeOK
  /\ Decided /\ Present /\ Told
  /\ WrittenByBundle /\ WrittenByPack
  /\ Backed /\ Left
  /\ Taken /\ FirstInDirectory

-------------------------------------------------------------------------------
(***************************************************************************)
(* Facts about the constants and about a listing of the root.              *)
(***************************************************************************)
LEMMA RunsAreNumbers == Runs \subseteq Nat /\ MaxRuns \in Nat /\ Numbers \subseteq Nat
BY BoundsAssumption DEF Runs, Numbers

LEMMA AbsentIsNoDirectory == Absent \notin Dirs /\ Named \cap Numbers = {}
BY BoundsAssumption, NamedAssumption DEF Dirs, Numbers

LEMMA NameOfPlace == \A place \in WritePlaces : NameAt[place] \in Names
BY DEF WritePlaces, NameAt, Names, BundleNames

LEMMA PlaceOfScenario ==
  \A place \in WritePlaces : NameAt[place] = Scenario => place = "scenario3"
BY DEF WritePlaces, NameAt, Scenario

LEMMA WritePlacesRun ==
  /\ WritePlaces \subseteq Places
  /\ "idle" \notin WritePlaces /\ "make" \notin WritePlaces /\ "agent" \notin WritePlaces
BY DEF WritePlaces, Places

(***************************************************************************)
(* The number that follows a listing is not in it.                         *)
(***************************************************************************)
LEMMA NextSeqIsFree ==
  ASSUME root \subseteq Dirs, NextSeq \in Numbers
  PROVE  NextSeq \notin root
<1> DEFINE Above == {n \in Nat : n \in 1..(MaxSeq + 1) /\ \A m \in root \cap Numbers : m < n}
<1>1. MaxSeq + 1 \in Above
  BY BoundsAssumption DEF Numbers
<1>2. PICK least \in Above : \A n \in Above : ~(<<n, least>> \in OpToRel(<, Nat))
  <2>1. Above \subseteq Nat /\ Above # {}
    BY <1>1
  <2> HIDE DEF Above
  <2> QED BY <2>1, WFMin, NatLessThanWellFounded, Zenon
<1>3. least = 1 \/ least - 1 \in root
  <2>1. SUFFICES ASSUME least # 1, least - 1 \notin root
                 PROVE  FALSE
    OBVIOUS
  <2>2. least - 1 \in Nat /\ least - 1 \in 1..(MaxSeq + 1)
    BY <2>1, BoundsAssumption
  <2>3. ASSUME NEW m \in root \cap Numbers
        PROVE  m < least - 1
    BY <2>1, <2>3, BoundsAssumption DEF Numbers
  <2>4. least - 1 \in Above
    BY <2>2, <2>3
  <2>5. <<least - 1, least>> \in OpToRel(<, Nat)
    BY <2>2 DEF OpToRel
  <2> QED BY <1>2, <2>4, <2>5
<1>4. \A m \in root \cap Numbers : m < NextSeq
  BY <1>2, <1>3 DEF NextSeq
<1> QED BY <1>4, BoundsAssumption DEF Numbers

-------------------------------------------------------------------------------
(***************************************************************************)
(* The initial state.                                                      *)
(***************************************************************************)
LEMMA InitiallyInv == DirInit => DirInv
<1> SUFFICES ASSUME DirInit
             PROVE  DirInv
  OBVIOUS
<1> USE DEF DirInit
<1>1. DirTypeOK
  <2>1. NotStarted \in Records
    BY DEF NotStarted, Records, CheckLists
  <2> QED BY <2>1, BoundsAssumption DEF DirTypeOK, Places
<1>2. Decided
  BY RunsAreNumbers, FlagsAssumption DEF Decided, NotStarted, Successes, Verdicts, Runs
<1>3. Present /\ Told /\ FirstInDirectory
  BY DEF Present, Told, FirstInDirectory
<1>4. WrittenByBundle /\ WrittenByPack /\ Taken
  BY DEF WrittenByBundle, WrittenByPack, FromBundle, FromScenario, AfterVerdict, Taken
<1>5. Backed
  BY DEF Backed, BackedIn, Names, BundleNames
<1>6. Left
  BY DEF Left, NotStarted
<1> QED BY <1>1, <1>2, <1>3, <1>4, <1>5, <1>6 DEF DirInv

-------------------------------------------------------------------------------
(***************************************************************************)
(* What every file that is written keeps.                                  *)
(***************************************************************************)
LEMMA RunningTypes ==
  ASSUME DirTypeOK, pc # "idle"
  PROVE  run \in Runs /\ dir \in Dirs /\ log[run] \in Records /\ run \in Nat
BY RunsAreNumbers DEF DirTypeOK

\* A finished run that has been followed by none in its directory.
LEMMA FinishedElsewhere ==
  ASSUME DirInv, pc # "idle", NEW r \in Runs, log[r].returned, LastInDirectory(r)
  PROVE  r < run /\ log[r].dir \in Dirs /\ log[r].dir # dir
<1>1. r # run
  BY DEF DirInv, Present
<1>2. r <= run
  <2>1. ~NotStarted.returned
    BY DEF NotStarted
  <2>2. r \in Nat /\ run \in Nat
    BY RunningTypes, RunsAreNumbers DEF DirInv
  <2> QED BY <2>1, <2>2 DEF DirInv, Decided
<1>3. run \in Runs /\ r < run
  BY <1>1, <1>2, RunningTypes, RunsAreNumbers DEF DirInv
<1>4. log[run].dir # log[r].dir /\ log[run].dir = dir
  BY <1>3 DEF LastInDirectory, DirInv, Present
<1> QED BY <1>2, <1>3, <1>4 DEF DirInv, Decided

SameStage(place, next) ==
  /\ next \in Places \ {"idle", "make"}
  /\ place \in BeforeJudged <=> next \in BeforeJudged
  /\ place \in BeforeStatus <=> next \in BeforeStatus
  /\ place \in BeforeFinal <=> next \in BeforeFinal

LEMMA PutKeeps ==
  ASSUME DirInv,
         NEW place \in WritePlaces, NEW status \in Verdicts \cup {Absent},
         NEW checks \in CheckLists, NEW next,
         Put(place, status, checks, next),
         SameStage(place, next),
         status \in Successes =>
           /\ status = log[run].validator
           /\ NameAt[place] # Verdict => log[run].stop = Absent,
         NameAt[place] = Verdict /\ next \in AfterVerdict
           => status = log[run].final,
         NameAt[place] # Verdict =>
           (next \in AfterVerdict => place \in AfterVerdict)
  PROVE  DirTypeOK' /\ Decided' /\ Present' /\ Told' /\ Left' /\ Taken' /\ FirstInDirectory'
<1> DEFINE file == File(run, status, checks)
           name == NameAt[place]
<1>1. /\ pc = place /\ pc' = next
      /\ files' = [files EXCEPT ![dir][name] = file]
      /\ UNCHANGED <<root, run, dir, log, strangers, pending, foreign>>
  BY DEF Put, File, others
<1>2. pc # "idle" /\ pc # "make"
  BY <1>1, WritePlacesRun
<1>3. run \in Runs /\ dir \in Dirs /\ log[run] \in Records /\ run \in Nat /\ name \in Names
  BY <1>2, RunningTypes, NameOfPlace DEF DirInv
<1>4. file \in Contents
  BY <1>3 DEF File, Contents
<1>5. file # Absent
  BY <1>4, AbsentAssumption
<1>6. /\ files'[dir][name] = file
      /\ \A d \in Dirs, n \in Names : <<d, n>> # <<dir, name>> => files'[d][n] = files[d][n]
  BY <1>1, <1>3 DEF DirInv, DirTypeOK
<1>7. DirTypeOK'
  BY <1>1, <1>2, <1>3, <1>4 DEF DirInv, DirTypeOK, SameStage
<1>8. Decided'
  BY <1>1 DEF DirInv, Decided
<1>9. Present'
  <2>1. Present
    BY DEF DirInv
  <2> QED BY <1>1, <1>2, <2>1 DEF Present, SameStage
<1>10. Told'
  <2>1. SUFFICES ASSUME NEW d \in Dirs \ foreign, NEW n \in Names, files'[d][n] # Absent
                 PROVE  /\ d \in root
                        /\ files'[d][n].run \in Runs /\ files'[d][n].run <= run
                        /\ log[files'[d][n].run].dir = d
                        /\ ToldBy(n, files[d][n])'
    BY <1>1 DEF Told
  <2>2. CASE d = dir /\ n = name
    <3>0. n = Scenario => log[run].final # Absent
      <4>1. n = Scenario => pc = "scenario3"
        BY <1>1, <2>2, PlaceOfScenario
      <4>2. Absent \notin Verdicts
        BY FlagsAssumption
      <4> QED BY <1>2, <4>1, <4>2 DEF DirInv, Present, BeforeFinal, BeforeStatus, BeforeJudged
    <3>1. /\ file.run = run /\ file.status = status /\ file.torn = FALSE
          /\ files'[d][n] = file
      BY <1>6, <2>2 DEF File
    <3>2. log[run].dir = dir /\ dir \in root /\ ~log[run].returned
      BY <1>2 DEF DirInv, Present
    <3>3. ToldBy(n, files[d][n])'
      BY <1>1, <2>2, <3>0, <3>1, <3>2 DEF ToldBy
    <3> QED BY <1>3, <2>2, <3>1, <3>2, <3>3
  <2>3. CASE ~(d = dir /\ n = name)
    <3>1. files'[d][n] = files[d][n]
      BY <1>6, <2>3
    <3>2. /\ d \in root /\ files[d][n].run \in Runs /\ files[d][n].run <= run
          /\ log[files[d][n].run].dir = d /\ ToldBy(n, files[d][n])
      BY <2>1, <3>1 DEF DirInv, Told
    <3>3. ASSUME n = Verdict, files[d][n].run = run, pc' \in AfterVerdict
          PROVE  pc \in AfterVerdict
      <4>1. d = dir
        BY <1>2, <3>2, <3>3 DEF DirInv, Present
      <4> QED BY <1>1, <2>3, <3>3, <4>1
    <3>4. ToldBy(n, files[d][n])'
      BY <1>1, <3>1, <3>2, <3>3 DEF ToldBy
    <3> QED BY <3>1, <3>2, <3>4
  <2> QED BY <2>2, <2>3
<1>11. Left'
  <2>1. SUFFICES ASSUME NEW r \in Runs, log[r].returned, LastInDirectory(r),
                        log[r].dir \notin foreign
                 PROVE  LeftBy(r)'
    BY <1>1 DEF Left, LastInDirectory
  <2>2. log[r].dir \in Dirs /\ log[r].dir # dir
    BY <1>2, <2>1, FinishedElsewhere
  <2>3. LeftBy(r)
    BY <2>1 DEF DirInv, Left
  <2>4. files'[log[r].dir] = files[log[r].dir]
    BY <1>1, <2>2 DEF DirInv, DirTypeOK
  <2> QED BY <1>1, <2>3, <2>4 DEF LeftBy
<1>12. FirstInDirectory'
  <2>1. SUFFICES ASSUME dir \notin Named, ~log[run].contended
                 PROVE  /\ dir \notin pending \cup foreign
                        /\ \A n \in Names : files'[dir][n] # Absent => files'[dir][n].run = run
    BY <1>1 DEF FirstInDirectory, SameStage, Listing
  <2>2. /\ dir \notin pending \cup foreign
        /\ \A n \in Names : files[dir][n] # Absent => files[dir][n].run = run
    BY <1>2, <2>1 DEF DirInv, FirstInDirectory, Listing
  <2>3. file.run = run
    BY DEF File
  <2> QED BY <1>3, <1>6, <2>2, <2>3
<1>13. Taken'
  BY <1>1 DEF DirInv, Taken
<1> QED BY <1>7, <1>8, <1>9, <1>10, <1>11, <1>12, <1>13

(***************************************************************************)
(* The facts about all files follow from those about the directory of the  *)
(* running run.                                                            *)
(***************************************************************************)
LEMMA BackedElsewhere ==
  ASSUME DirInv, pc # "idle",
         \A d \in Dirs : d # dir => files'[d] = files[d],
         \A r \in Runs : log'[r].checks = log[r].checks,
         dir \notin foreign => BackedIn(dir)', dir' = dir, foreign' = foreign
  PROVE  Backed'
<1>1. SUFFICES ASSUME NEW d \in Dirs \ foreign, d # dir
               PROVE  BackedIn(d)'
  BY DEF Backed
<1>2. files'[d] = files[d]
  BY <1>1
<1>3. BackedIn(d)
  BY DEF DirInv, Backed
<1>4. files[d]["status.json"] # Absent => files[d]["status.json"].run \in Runs
  BY DEF DirInv, Told, Names, BundleNames
<1> QED BY <1>2, <1>3, <1>4 DEF BackedIn, Readable, Audit, AuditedName

LEMMA FilesAreThere ==
  \A r \in Runs, status \in Verdicts \cup {Absent}, checks \in CheckLists :
    File(r, status, checks) \in Contents /\ File(r, status, checks) # Absent
<1>1. SUFFICES ASSUME NEW r \in Runs, NEW status \in Verdicts \cup {Absent},
                      NEW checks \in CheckLists
               PROVE  File(r, status, checks) \in Contents
  BY AbsentAssumption
<1> QED BY DEF File, Contents

\* A write of another file than the three that the audit looks at.
LEMMA AuditedUntouched ==
  ASSUME DirInv, pc # "idle", UNCHANGED <<dir, log, foreign>>,
         \A d \in Dirs : d # dir => files'[d] = files[d],
         \A n \in {"status.json", Results, "validation.json"} : files'[dir][n] = files[dir][n]
  PROVE  Backed'
<1>1. dir \in Dirs
  BY RunningTypes DEF DirInv
<1>2. dir \notin foreign => BackedIn(dir)
  BY <1>1 DEF DirInv, Backed
<1>3. dir \notin foreign => BackedIn(dir)'
  BY <1>2 DEF BackedIn, Readable, Audit, AuditedName, Results
<1> QED BY <1>3, BackedElsewhere

\* A write of status.json over complete checks of the same run, or of no success.
LEMMA StatusBacked ==
  ASSUME DirInv, pc # "idle", UNCHANGED <<dir, log, foreign>>,
         \A d \in Dirs : d # dir => files'[d] = files[d],
         NEW status \in Verdicts,
         dir \notin foreign =>
           /\ files'[dir]["status.json"] = File(run, status, "none")
           /\ status \in Successes => files'[dir][Results] = File(run, Absent, log[run].checks)
  PROVE  Backed'
<1>1. run \in Runs /\ log[run].checks \in CheckLists
  BY RunningTypes DEF DirInv, Records
<1> DEFINE shown == File(run, status, "none")
           kept == File(run, Absent, log[run].checks)
<1>2. shown.status = status /\ shown.run = run
  BY DEF File
<1>3. kept # Absent /\ ~kept.torn /\ kept.run = run /\ kept.checks = log[run].checks
  BY <1>1, FilesAreThere DEF File
<1>4. ASSUME dir \notin foreign
      PROVE  BackedIn(dir)'
  <2> HIDE DEF shown, kept
  <2>1. /\ files'[dir]["status.json"] = shown
        /\ status \in Successes => files'[dir]["validation-results.json"] = kept
    BY <1>4 DEF shown, kept, Results
  <2> QED BY <1>2, <1>3, <2>1 DEF BackedIn, Readable, Audit, AuditedName
<1> QED BY <1>4, BackedElsewhere

(***************************************************************************)
(* What a write changes, and which of the files of the run stay.           *)
(***************************************************************************)
LEMMA PutChanges ==
  ASSUME DirInv, NEW place \in WritePlaces, NEW status, NEW checks, NEW next,
         Put(place, status, checks, next)
  PROVE  /\ pc = place /\ pc' = next /\ pc # "idle"
         /\ UNCHANGED <<root, run, dir, log, strangers, pending, foreign>>
         /\ files'[dir][NameAt[place]] = File(run, status, checks)
         /\ \A n \in Names \ {NameAt[place]} : files'[dir][n] = files[dir][n]
         /\ \A d \in Dirs : d # dir => files'[d] = files[d]
<1>1. pc = place /\ pc # "idle"
  BY WritePlacesRun DEF Put
<1>2. dir \in Dirs /\ NameAt[place] \in Names
  BY <1>1, RunningTypes, NameOfPlace DEF DirInv
<1> QED BY <1>1, <1>2 DEF Put, File, DirInv, DirTypeOK, others

LEMMA ProvisionalStatusStops ==
  ProvisionalStatus \in Verdicts /\ ProvisionalStatus \notin Successes
BY DEF ProvisionalStatus, Verdicts, Stops, Successes

LEMMA CheckListsHaveNone == "none" \in CheckLists
BY DEF CheckLists

-------------------------------------------------------------------------------
(***************************************************************************)
(* The writes of a run, one lemma for each of the bundles and the pack.    *)
(***************************************************************************)
LEMMA ProvisionalBundleKeeps ==
  ASSUME DirInv, ProvisionalBundle
  PROVE  DirInv'
<1>0. ProvisionalStatus \in Verdicts \cup {Absent} /\ Absent \in Verdicts \cup {Absent}
      /\ Absent \notin Successes
  BY ProvisionalStatusStops, FlagsAssumption DEF Verdicts
<1>1. CASE Put("manifest1", ProvisionalStatus, "none", "status1")
  <2>1. "manifest1" \in WritePlaces /\ NameAt["manifest1"] = "run-manifest.json"
    BY DEF WritePlaces, NameAt
  <2>2. SameStage("manifest1", "status1")
    BY DEF SameStage, BeforeJudged, BeforeStatus, BeforeFinal, Places, WritePlaces
  <2>3. DirTypeOK' /\ Decided' /\ Present' /\ Told' /\ Left' /\ Taken' /\ FirstInDirectory'
    BY <1>0, <1>1, <2>1, <2>2, PutKeeps, ProvisionalStatusStops, CheckListsHaveNone
       DEF Verdict, AfterVerdict
  <2>4. WrittenByBundle' /\ WrittenByPack'
    BY <1>1, <2>1, PutChanges
       DEF WrittenByBundle, WrittenByPack, FromBundle, FromScenario, AfterVerdict
  <2>5. Backed'
    BY <1>1, <2>1, PutChanges, AuditedUntouched DEF Results, Names, BundleNames
  <2> QED BY <2>3, <2>4, <2>5 DEF DirInv
<1>2. CASE Put("status1", ProvisionalStatus, "none", "task1")
  <2>1. "status1" \in WritePlaces /\ NameAt["status1"] = "status.json"
    BY DEF WritePlaces, NameAt
  <2>2. SameStage("status1", "task1")
    BY DEF SameStage, BeforeJudged, BeforeStatus, BeforeFinal, Places, WritePlaces
  <2>3. DirTypeOK' /\ Decided' /\ Present' /\ Told' /\ Left' /\ Taken' /\ FirstInDirectory'
    BY <1>0, <1>2, <2>1, <2>2, PutKeeps, ProvisionalStatusStops, CheckListsHaveNone
       DEF Verdict, AfterVerdict
  <2>4. WrittenByBundle' /\ WrittenByPack'
    BY <1>2, <2>1, PutChanges
       DEF WrittenByBundle, WrittenByPack, FromBundle, FromScenario, AfterVerdict, Own,
           ProvisionalStatus
  <2>5. Backed'
    BY <1>2, <2>1, PutChanges, StatusBacked, ProvisionalStatusStops
  <2> QED BY <2>3, <2>4, <2>5 DEF DirInv
<1>3. CASE Put("task1", Absent, "none", "summary1")
  <2>1. "task1" \in WritePlaces /\ NameAt["task1"] = "task.json"
    BY DEF WritePlaces, NameAt
  <2>2. SameStage("task1", "summary1")
    BY DEF SameStage, BeforeJudged, BeforeStatus, BeforeFinal, Places, WritePlaces
  <2>3. DirTypeOK' /\ Decided' /\ Present' /\ Told' /\ Left' /\ Taken' /\ FirstInDirectory'
    BY <1>0, <1>3, <2>1, <2>2, PutKeeps, CheckListsHaveNone DEF Verdict, AfterVerdict
  <2>4. WrittenByBundle' /\ WrittenByPack'
    BY <1>3, <2>1, PutChanges
       DEF WrittenByBundle, WrittenByPack, FromBundle, FromScenario, AfterVerdict, Own,
           ProvisionalStatus, DirInv, Names, BundleNames
  <2>5. Backed'
    BY <1>3, <2>1, PutChanges, AuditedUntouched DEF Results, Names, BundleNames
  <2> QED BY <2>3, <2>4, <2>5 DEF DirInv
<1>4. CASE Put("summary1", ProvisionalStatus, "none", "validate")
  <2>1. "summary1" \in WritePlaces /\ NameAt["summary1"] = "summary.md"
    BY DEF WritePlaces, NameAt
  <2>2. SameStage("summary1", "validate")
    BY DEF SameStage, BeforeJudged, BeforeStatus, BeforeFinal, Places, WritePlaces
  <2>3. DirTypeOK' /\ Decided' /\ Present' /\ Told' /\ Left' /\ Taken' /\ FirstInDirectory'
    BY <1>0, <1>4, <2>1, <2>2, PutKeeps, ProvisionalStatusStops, CheckListsHaveNone
       DEF Verdict, AfterVerdict
  <2>4. WrittenByBundle' /\ WrittenByPack'
    BY <1>4, <2>1, PutChanges
       DEF WrittenByBundle, WrittenByPack, FromBundle, FromScenario, AfterVerdict, Own,
           ProvisionalStatus, DirInv, Names, BundleNames
  <2>5. Backed'
    BY <1>4, <2>1, PutChanges, AuditedUntouched DEF Results, Names, BundleNames
  <2> QED BY <2>3, <2>4, <2>5 DEF DirInv
<1> QED BY <1>1, <1>2, <1>3, <1>4 DEF ProvisionalBundle

\* What the log says of the running run, for the statuses it may write.
RunFacts ==
  /\ Absent \in Verdicts \cup {Absent} /\ Absent \notin Successes
  /\ "none" \in CheckLists /\ log[run].checks \in CheckLists
  /\ log[run].status \in Successes =>
       log[run].status = log[run].validator /\ log[run].stop = Absent
  /\ log[run].final \in Successes => log[run].final = log[run].status

LEMMA RunFactsHold ==
  ASSUME DirInv, pc # "idle"
  PROVE  RunFacts
<1>1. run \in Runs /\ log[run].checks \in CheckLists
  BY RunningTypes DEF DirInv, Records
<1>2. Absent \notin Successes /\ "BLOCK" \notin Successes
  BY FlagsAssumption DEF Verdicts, Successes
<1> QED BY <1>1, <1>2, CheckListsHaveNone DEF DirInv, Decided, RunFacts

LEMMA ValidatorFilesKeeps ==
  ASSUME DirInv, ValidatorFiles
  PROVE  DirInv'
<1>0. RunFacts
  <2>1. pc # "idle"
    BY DEF ValidatorFiles, Put
  <2> QED BY <2>1, RunFactsHold
<1>1. CASE Put("results1", Absent, log[run].checks, "verdict1")
  <2>1. /\ "results1" \in WritePlaces /\ NameAt["results1"] = Results
        /\ SameStage("results1", "verdict1")
    BY DEF WritePlaces, NameAt, Results, Verdict, SameStage, BeforeJudged, BeforeStatus,
           BeforeFinal, Places
  <2>2. pc = "results1"
    BY <1>1 DEF Put
  <2>4. DirTypeOK' /\ Decided' /\ Present' /\ Told' /\ Left' /\ Taken' /\ FirstInDirectory'
    BY <1>0, <1>1, <2>1, PutKeeps DEF AfterVerdict, RunFacts, Verdict, Results
  <2>5. WrittenByBundle' /\ WrittenByPack'
    BY <1>1, <2>1, <2>2, PutChanges
       DEF WrittenByBundle, WrittenByPack, FromBundle, FromScenario, AfterVerdict, Own,
           OfOthers, There, ProvisionalStatus, DirInv, Names, BundleNames, Results, Verdict,
           Scenario
  <2>6. Own("status.json", ProvisionalStatus, "none")
    BY <2>2 DEF DirInv, WrittenByBundle
  <2>7. Backed'
    BY <1>1, <2>1, <2>6, ProvisionalStatusStops, PutChanges, StatusBacked
       DEF Own, Results, Names, BundleNames
  <2> QED BY <2>4, <2>5, <2>7 DEF DirInv
<1>2. CASE Put("verdict1", log[run].validator, log[run].checks, "settle")
  <2>1. /\ "verdict1" \in WritePlaces /\ NameAt["verdict1"] = Verdict
        /\ SameStage("verdict1", "settle")
    BY DEF WritePlaces, NameAt, Results, Verdict, SameStage, BeforeJudged, BeforeStatus,
           BeforeFinal, Places
  <2>2. pc = "verdict1"
    BY <1>2 DEF Put
  <2>3. log[run].validator \in Verdicts
    BY <2>2 DEF DirInv, Present, BeforeJudged, BeforeStatus, BeforeFinal
  <2>4. DirTypeOK' /\ Decided' /\ Present' /\ Told' /\ Left' /\ Taken' /\ FirstInDirectory'
    BY <1>0, <1>2, <2>1, <2>3, PutKeeps DEF AfterVerdict, RunFacts, Verdict, Successes
  <2>5. WrittenByBundle' /\ WrittenByPack'
    BY <1>2, <2>1, <2>2, PutChanges
       DEF WrittenByBundle, WrittenByPack, FromBundle, FromScenario, AfterVerdict, Own,
           OfOthers, There, ProvisionalStatus, DirInv, Names, BundleNames, Results, Verdict,
           Scenario
  <2>6. Backed'
    BY <1>2, <2>1, PutChanges, AuditedUntouched DEF Results, Verdict, Names, BundleNames
  <2> QED BY <2>4, <2>5, <2>6 DEF DirInv
<1> QED BY <1>1, <1>2 DEF ValidatorFiles

LEMMA FinalBundleKeeps ==
  ASSUME DirInv, FinalBundle
  PROVE  DirInv'
<1>0. RunFacts
  <2>1. pc # "idle"
    BY DEF FinalBundle, Put
  <2> QED BY <2>1, RunFactsHold
<1>1. CASE Put("manifest2", log[run].status, "none", "status2")
  <2>1. /\ "manifest2" \in WritePlaces /\ NameAt["manifest2"] = "run-manifest.json"
        /\ SameStage("manifest2", "status2")
    BY DEF WritePlaces, NameAt, Results, Verdict, SameStage, BeforeJudged, BeforeStatus,
           BeforeFinal, Places
  <2>2. pc = "manifest2"
    BY <1>1 DEF Put
  <2>3. log[run].status \in Verdicts
    BY <2>2 DEF DirInv, Present, BeforeJudged, BeforeStatus, BeforeFinal
  <2>4. DirTypeOK' /\ Decided' /\ Present' /\ Told' /\ Left' /\ Taken' /\ FirstInDirectory'
    BY <1>0, <1>1, <2>1, <2>3, PutKeeps DEF AfterVerdict, RunFacts, Verdict, Successes
  <2>5. WrittenByBundle' /\ WrittenByPack'
    BY <1>1, <2>1, <2>2, PutChanges
       DEF WrittenByBundle, WrittenByPack, FromBundle, FromScenario, AfterVerdict, Own,
           OfOthers, There, ProvisionalStatus, DirInv, Names, BundleNames, Results, Verdict,
           Scenario
  <2>6. Backed'
    BY <1>1, <2>1, PutChanges, AuditedUntouched DEF Results, Verdict, Names, BundleNames
  <2> QED BY <2>4, <2>5, <2>6 DEF DirInv
<1>2. CASE Put("status2", log[run].status, "none", "task2")
  <2>1. /\ "status2" \in WritePlaces /\ NameAt["status2"] = "status.json"
        /\ SameStage("status2", "task2")
    BY DEF WritePlaces, NameAt, Results, Verdict, SameStage, BeforeJudged, BeforeStatus,
           BeforeFinal, Places
  <2>2. pc = "status2"
    BY <1>2 DEF Put
  <2>3. log[run].status \in Verdicts
    BY <2>2 DEF DirInv, Present, BeforeJudged, BeforeStatus, BeforeFinal
  <2>4. DirTypeOK' /\ Decided' /\ Present' /\ Told' /\ Left' /\ Taken' /\ FirstInDirectory'
    BY <1>0, <1>2, <2>1, <2>3, PutKeeps DEF AfterVerdict, RunFacts, Verdict, Successes
  <2>5. WrittenByBundle' /\ WrittenByPack'
    BY <1>2, <2>1, <2>2, PutChanges
       DEF WrittenByBundle, WrittenByPack, FromBundle, FromScenario, AfterVerdict, Own,
           OfOthers, There, ProvisionalStatus, DirInv, Names, BundleNames, Results, Verdict,
           Scenario
  <2>6. log[run].status \in Successes => Own(Results, Absent, log[run].checks)
    BY <1>0, <2>2, FlagsAssumption
       DEF RunFacts, DirInv, WrittenByBundle, WrittenByPack, FromBundle, FromScenario,
           AfterVerdict
  <2>7. Backed'
    BY <1>2, <2>1, <2>3, <2>6, PutChanges, StatusBacked
       DEF Own, Results, Names, BundleNames
  <2> QED BY <2>4, <2>5, <2>7 DEF DirInv
<1>3. CASE Put("task2", Absent, "none", "summary2")
  <2>1. /\ "task2" \in WritePlaces /\ NameAt["task2"] = "task.json"
        /\ SameStage("task2", "summary2")
    BY DEF WritePlaces, NameAt, Results, Verdict, SameStage, BeforeJudged, BeforeStatus,
           BeforeFinal, Places
  <2>2. pc = "task2"
    BY <1>3 DEF Put
  <2>4. DirTypeOK' /\ Decided' /\ Present' /\ Told' /\ Left' /\ Taken' /\ FirstInDirectory'
    BY <1>0, <1>3, <2>1, PutKeeps DEF AfterVerdict, RunFacts, Verdict, Results
  <2>5. WrittenByBundle' /\ WrittenByPack'
    BY <1>3, <2>1, <2>2, PutChanges
       DEF WrittenByBundle, WrittenByPack, FromBundle, FromScenario, AfterVerdict, Own,
           OfOthers, There, ProvisionalStatus, DirInv, Names, BundleNames, Results, Verdict,
           Scenario
  <2>6. Backed'
    BY <1>3, <2>1, PutChanges, AuditedUntouched DEF Results, Verdict, Names, BundleNames
  <2> QED BY <2>4, <2>5, <2>6 DEF DirInv
<1>4. CASE Put("summary2", log[run].status, "none", "extended")
  <2>1. /\ "summary2" \in WritePlaces /\ NameAt["summary2"] = "summary.md"
        /\ SameStage("summary2", "extended")
    BY DEF WritePlaces, NameAt, Results, Verdict, SameStage, BeforeJudged, BeforeStatus,
           BeforeFinal, Places
  <2>2. pc = "summary2"
    BY <1>4 DEF Put
  <2>3. log[run].status \in Verdicts
    BY <2>2 DEF DirInv, Present, BeforeJudged, BeforeStatus, BeforeFinal
  <2>4. DirTypeOK' /\ Decided' /\ Present' /\ Told' /\ Left' /\ Taken' /\ FirstInDirectory'
    BY <1>0, <1>4, <2>1, <2>3, PutKeeps DEF AfterVerdict, RunFacts, Verdict, Successes
  <2>5. WrittenByBundle' /\ WrittenByPack'
    BY <1>4, <2>1, <2>2, PutChanges
       DEF WrittenByBundle, WrittenByPack, FromBundle, FromScenario, AfterVerdict, Own,
           OfOthers, There, ProvisionalStatus, DirInv, Names, BundleNames, Results, Verdict,
           Scenario
  <2>6. Backed'
    BY <1>4, <2>1, PutChanges, AuditedUntouched DEF Results, Verdict, Names, BundleNames
  <2> QED BY <2>4, <2>5, <2>6 DEF DirInv
<1> QED BY <1>1, <1>2, <1>3, <1>4 DEF FinalBundle

LEMMA WriteReportKeeps ==
  ASSUME DirInv, WriteReport
  PROVE  DirInv'
<1>0. RunFacts
  <2>1. pc # "idle"
    BY DEF WriteReport, Put
  <2> QED BY <2>1, RunFactsHold
<1>1. CASE Put("report", log[run].final, log[run].checks, "return")
  <2>1. /\ "report" \in WritePlaces /\ NameAt["report"] = "report.json"
        /\ SameStage("report", "return")
    BY DEF WritePlaces, NameAt, Results, Verdict, SameStage, BeforeJudged, BeforeStatus,
           BeforeFinal, Places
  <2>2. pc = "report"
    BY <1>1 DEF Put
  <2>3. log[run].final \in Verdicts
    BY <2>2 DEF DirInv, Present, BeforeJudged, BeforeStatus, BeforeFinal
  <2>4. DirTypeOK' /\ Decided' /\ Present' /\ Told' /\ Left' /\ Taken' /\ FirstInDirectory'
    BY <1>0, <1>1, <2>1, <2>3, PutKeeps DEF AfterVerdict, RunFacts, Verdict, Successes
  <2>5. WrittenByBundle' /\ WrittenByPack'
    BY <1>1, <2>1, <2>2, PutChanges
       DEF WrittenByBundle, WrittenByPack, FromBundle, FromScenario, AfterVerdict, Own,
           OfOthers, There, ProvisionalStatus, DirInv, Names, BundleNames, Results, Verdict,
           Scenario
  <2>6. Backed'
    BY <1>1, <2>1, PutChanges, AuditedUntouched DEF Results, Verdict, Names, BundleNames
  <2> QED BY <2>4, <2>5, <2>6 DEF DirInv
<1> QED BY <1>1 DEF WriteReport

-------------------------------------------------------------------------------
(***************************************************************************)
(* What every decision keeps.  The verdict of the validator, the checks    *)
(* and the flag of a run change only while no file shows a success of it.  *)
(***************************************************************************)
LEMMA NoteChanges ==
  ASSUME DirInv, NEW place, place # "idle", NEW record, NEW next, Note(place, record, next)
  PROVE  /\ pc = place /\ pc' = next
         /\ UNCHANGED <<root, files, run, dir, strangers, pending, foreign>>
         /\ run \in Runs /\ dir \in Dirs
         /\ log'[run] = record
         /\ \A r \in Runs : r # run => log'[r] = log[r]
<1>1. run \in Runs /\ dir \in Dirs
  BY RunningTypes DEF DirInv, Note
<1> QED BY <1>1 DEF Note, DirInv, DirTypeOK, others

\* The files with a success of the running run wait for its verdict.
LEMMA NoSuccessYet ==
  ASSUME DirInv, log[run].validator = Absent,
         NEW d \in Dirs \ foreign, NEW n \in Names, files[d][n] # Absent, files[d][n].run = run
  PROVE  files[d][n].status \notin Successes
<1>1. Absent \notin Successes
  BY FlagsAssumption DEF Verdicts
<1> QED BY <1>1 DEF DirInv, Told, ToldBy

LEMMA NoteKeeps ==
  ASSUME DirInv, NEW place, place \notin {"idle", "make"}, NEW record \in Records, NEW next,
         Note(place, record, next), next \in Places \ ({"make"} \cup AfterVerdict),
         record.dir = dir, record.contended = log[run].contended,
         record.validator = "PASS" => record.checks = "passed",
         record.status \in Successes => record.status = record.validator /\ record.stop = Absent,
         record.final \in {Absent, "BLOCK", record.status},
         log[run].final # Absent => record.final = log[run].final,
         ~record.returned,
         \/ log[run].validator = Absent
         \/ /\ record.validator = log[run].validator
            /\ record.checks = log[run].checks
            /\ record.stop = log[run].stop
  PROVE  DirTypeOK' /\ Decided' /\ Told' /\ Backed' /\ Left' /\ Taken' /\ FirstInDirectory'
<1>1. /\ pc = place /\ pc' = next
      /\ UNCHANGED <<root, files, run, dir, strangers, pending, foreign>>
      /\ run \in Runs /\ dir \in Dirs
      /\ log'[run] = record
      /\ \A r \in Runs : r # run => log'[r] = log[r]
  BY NoteChanges
<1>2. log[run].dir = dir /\ ~log[run].returned
  BY <1>1 DEF DirInv, Present
<1>3. DirTypeOK'
  BY <1>1 DEF Note, DirInv, DirTypeOK, AfterVerdict
<1>4. Decided'
  <2>1. SUFFICES ASSUME NEW r \in Runs
                 PROVE  /\ r > run => log'[r] = NotStarted
                        /\ r <= run => log'[r].dir \in Dirs
                        /\ log'[r].validator = "PASS" => log'[r].checks = "passed"
                        /\ log'[r].status \in Successes =>
                             log'[r].status = log'[r].validator /\ log'[r].stop = Absent
                        /\ log'[r].final \in {Absent, "BLOCK", log'[r].status}
                        /\ log'[r].returned => log'[r].final \in Verdicts
    BY <1>1 DEF Decided
  <2>2. CASE r = run
    BY <1>1, <2>2, RunsAreNumbers
  <2>3. CASE r # run
    BY <1>1, <2>3 DEF DirInv, Decided
  <2> QED BY <2>2, <2>3
<1>5. Told'
  <2>1. SUFFICES ASSUME NEW d \in Dirs \ foreign, NEW n \in Names, files[d][n] # Absent
                 PROVE  log'[files[d][n].run].dir = d /\ ToldBy(n, files[d][n])'
    BY <1>1 DEF Told, DirInv
  <2>2. files[d][n].run \in Runs /\ log[files[d][n].run].dir = d /\ ToldBy(n, files[d][n])
    BY <2>1 DEF DirInv, Told
  <2>3. CASE files[d][n].run # run
    BY <1>1, <2>2, <2>3 DEF ToldBy
  <2>4. CASE files[d][n].run = run
    <3>1. files[d][n].status \in Successes => log[run].validator # Absent
      BY <2>1, <2>4, NoSuccessYet
    <3> QED BY <1>1, <1>2, <2>2, <2>4, <3>1 DEF ToldBy
  <2> QED BY <2>3, <2>4
<1>6. Backed'
  <2>1. SUFFICES ASSUME NEW d \in Dirs \ foreign
                 PROVE  BackedIn(d)'
    BY <1>1 DEF Backed
  <2>2. BackedIn(d)
    BY DEF DirInv, Backed
  <2>3. "status.json" \in Names
    BY DEF Names, BundleNames
  <2>4. files[d]["status.json"] # Absent =>
          /\ files[d]["status.json"].run \in Runs
          /\ files[d]["status.json"].run = run /\ files[d]["status.json"].status \in Successes =>
               log[run].validator # Absent
    BY <2>3, NoSuccessYet DEF DirInv, Told
  <2>5. files[d]["status.json"] # Absent /\ files[d]["status.json"].status \in Successes =>
          log'[files[d]["status.json"].run].checks = log[files[d]["status.json"].run].checks
    BY <1>1, <2>4
  <2> QED BY <1>1, <2>2, <2>5 DEF BackedIn, Readable, Audit, AuditedName
<1>7. \A r \in Runs : log'[r].dir = log[r].dir
  BY <1>1, <1>2
<1>8. Left'
  <2>1. SUFFICES ASSUME NEW r \in Runs, log'[r].returned, LastInDirectory(r)',
                        log'[r].dir \notin foreign
                 PROVE  LeftBy(r)'
    BY <1>1 DEF Left
  <2>2. r # run /\ log'[r] = log[r]
    BY <1>1, <2>1
  <2>3. LastInDirectory(r)
    BY <1>7, <2>1 DEF LastInDirectory
  <2>4. LeftBy(r)
    BY <2>1, <2>2, <2>3 DEF DirInv, Left
  <2> QED BY <1>1, <2>2, <2>4 DEF LeftBy
<1>9. FirstInDirectory'
  BY <1>1 DEF FirstInDirectory, Listing, DirInv
<1>10. Taken'
  BY <1>1 DEF DirInv, Taken
<1> QED BY <1>3, <1>4, <1>5, <1>6, <1>8, <1>9, <1>10

(***************************************************************************)
(* The decisions of a run.                                                 *)
(***************************************************************************)
LEMMA RecordOfRun ==
  ASSUME DirInv, pc # "idle"
  PROVE  /\ log[run] \in Records /\ log[run].dir = dir /\ ~log[run].returned
         /\ log[run].validator = "PASS" => log[run].checks = "passed"
         /\ log[run].status \in Successes =>
              log[run].status = log[run].validator /\ log[run].stop = Absent
         /\ Absent \notin Successes /\ "BLOCK" \notin Successes /\ Absent # "PASS"
<1>1. run \in Runs /\ log[run] \in Records
  BY RunningTypes DEF DirInv
<1> QED BY <1>1, FlagsAssumption DEF DirInv, Decided, Present, Verdicts, Successes

LEMMA LoopEndsKeeps ==
  ASSUME DirInv, LoopEnds
  PROVE  DirInv'
<1>1. PICK stop \in Flags \cup {Absent} :
        Note("agent", [log[run] EXCEPT !.stop = stop], "manifest1")
  BY DEF LoopEnds
<1> DEFINE record == [log[run] EXCEPT !.stop = stop]
<1>2. pc = "agent"
  BY <1>1 DEF Note
<1>3. log[run] \in Records /\ log[run].validator = Absent /\ log[run].status = Absent
      /\ log[run].final = Absent
  BY <1>2, RecordOfRun DEF DirInv, Present, BeforeJudged, BeforeStatus, BeforeFinal
<1>4. stop \in Stops \cup {Absent}
  BY FlagsAssumption
<1>5. /\ record \in Records
      /\ record.dir = log[run].dir /\ record.task = log[run].task
      /\ record.contended = log[run].contended /\ record.validator = Absent
      /\ record.status = Absent /\ record.final = Absent
      /\ record.returned = log[run].returned
  BY <1>3, <1>4 DEF Records
<1>6. Note("agent", record, "manifest1")
  BY <1>1
<1> HIDE DEF record
<1>7. DirTypeOK' /\ Decided' /\ Told' /\ Backed' /\ Left' /\ Taken' /\ FirstInDirectory'
  BY <1>2, <1>3, <1>5, <1>6, RecordOfRun, NoteKeeps DEF Places, WritePlaces, AfterVerdict
<1>8. Present'
  BY <1>2, <1>5, <1>6, NoteChanges
     DEF DirInv, Present, BeforeJudged, BeforeStatus, BeforeFinal
<1>9. pc' = "manifest1"
  BY <1>6 DEF Note
<1>10. WrittenByBundle' /\ WrittenByPack'
  BY <1>9 DEF WrittenByBundle, WrittenByPack, FromBundle, FromScenario, AfterVerdict
<1> QED BY <1>7, <1>8, <1>10 DEF DirInv

LEMMA SafeStopKeeps ==
  ASSUME DirInv, SafeStop
  PROVE  DirInv'
<1> DEFINE record == [log[run] EXCEPT !.stop = "BLOCK", !.status = "BLOCK"]
<1>1. Note("agent", record, "manifest2")
  BY DEF SafeStop
<1>2. pc = "agent"
  BY <1>1 DEF Note
<1>3. log[run] \in Records /\ log[run].validator = Absent /\ log[run].final = Absent
  BY <1>2, RecordOfRun DEF DirInv, Present, BeforeJudged, BeforeStatus, BeforeFinal
<1>4. "BLOCK" \in Stops /\ "BLOCK" \in Verdicts
  BY DEF Stops, Verdicts
<1>5. /\ record \in Records
      /\ record.dir = log[run].dir /\ record.task = log[run].task
      /\ record.contended = log[run].contended /\ record.validator = Absent
      /\ record.status = "BLOCK" /\ record.final = Absent
      /\ record.returned = log[run].returned
  BY <1>3, <1>4 DEF Records
<1> HIDE DEF record
<1>6. DirTypeOK' /\ Decided' /\ Told' /\ Backed' /\ Left' /\ Taken' /\ FirstInDirectory'
  BY <1>1, <1>2, <1>3, <1>5, RecordOfRun, NoteKeeps DEF Places, WritePlaces, AfterVerdict
<1>7. Present'
  <2>1. pc' = "manifest2" /\ log'[run] = record /\ UNCHANGED <<root, run, dir>>
    BY <1>1, <1>2, <1>5, NoteChanges
  <2>2. log[run].dir = dir /\ log[run].task \in Tasks /\ ~log[run].returned /\ dir \in root
    BY <1>2 DEF DirInv, Present
  <2> QED BY <1>4, <1>5, <2>1, <2>2
          DEF Present, BeforeJudged, BeforeStatus, BeforeFinal
<1>8. WrittenByBundle' /\ WrittenByPack'
  BY <1>1, <1>2, <1>5, RecordOfRun, NoteChanges
     DEF WrittenByBundle, WrittenByPack, FromBundle, FromScenario, AfterVerdict
<1> QED BY <1>6, <1>7, <1>8 DEF DirInv

LEMMA DecidedByChecks ==
  ASSUME NEW task, NEW checks \in CheckLists, NEW exit
  PROVE  /\ DecideStatus(task, checks, exit) \in Verdicts
         /\ DecideStatus(task, checks, exit) = "PASS" => checks = "passed"
BY DEF DecideStatus, Verdicts, Successes, Stops

LEMMA ValidateKeeps ==
  ASSUME DirInv, Validate
  PROVE  DirInv'
<1>1. PICK checks \in {"passed", "failed"}, exit \in {"none", "zero", "nonzero"} :
        Note("validate",
             [log[run] EXCEPT !.checks = checks,
                              !.validator = DecideStatus(log[run].task, checks, exit)],
             "results1")
  <2>1. PICK found \in {"passed", "failed"}, exit \in {"none", "zero", "nonzero"} :
          Note("validate",
               [log[run] EXCEPT
                  !.checks = IF TestsFail(log[run].task.mode, exit) THEN "failed" ELSE found,
                  !.validator =
                    DecideStatus(log[run].task,
                                 IF TestsFail(log[run].task.mode, exit) THEN "failed" ELSE found,
                                 exit)],
               "results1")
    BY DEF Validate
  <2> DEFINE checks == IF TestsFail(log[run].task.mode, exit) THEN "failed" ELSE found
  <2>2. checks \in {"passed", "failed"}
    OBVIOUS
  <2> QED BY <2>1, <2>2
<1> DEFINE decided == DecideStatus(log[run].task, checks, exit)
           record == [log[run] EXCEPT !.checks = checks, !.validator = decided]
<1>2. Note("validate", record, "results1") /\ pc = "validate"
  BY <1>1 DEF Note
<1>3. checks \in CheckLists
  BY DEF CheckLists
<1>4. decided \in Verdicts /\ (decided = "PASS" => checks = "passed")
  BY <1>3, DecidedByChecks
<1>5. log[run] \in Records /\ log[run].validator = Absent /\ log[run].status = Absent
      /\ log[run].final = Absent
  BY <1>2, RecordOfRun DEF DirInv, Present, BeforeJudged, BeforeStatus, BeforeFinal
<1> HIDE DEF decided
<1>6. /\ record \in Records
      /\ record.dir = log[run].dir /\ record.task = log[run].task
      /\ record.contended = log[run].contended /\ record.validator = decided
      /\ record.checks = checks /\ record.stop = log[run].stop
      /\ record.status = Absent /\ record.final = Absent
      /\ record.returned = log[run].returned
  BY <1>3, <1>4, <1>5 DEF Records
<1> HIDE DEF record
<1>7. DirTypeOK' /\ Decided' /\ Told' /\ Backed' /\ Left' /\ Taken' /\ FirstInDirectory'
  BY <1>2, <1>4, <1>5, <1>6, RecordOfRun, NoteKeeps DEF Places, WritePlaces, AfterVerdict
<1>8. Present'
  <2>1. pc' = "results1" /\ log'[run] = record /\ UNCHANGED <<root, run, dir>>
    BY <1>2, NoteChanges
  <2>2. log[run].dir = dir /\ log[run].task \in Tasks /\ ~log[run].returned /\ dir \in root
    BY <1>2 DEF DirInv, Present
  <2> QED BY <1>4, <1>6, <2>1, <2>2
          DEF Present, BeforeJudged, BeforeStatus, BeforeFinal
<1>9. WrittenByBundle' /\ WrittenByPack'
  <2>1. Own("status.json", ProvisionalStatus, "none")
    BY <1>2 DEF DirInv, WrittenByBundle
  <2>2. ProvisionalStatus' = ProvisionalStatus
    BY <1>2, <1>6, NoteChanges DEF ProvisionalStatus
  <2> QED BY <1>2, <2>1, <2>2, NoteChanges
       DEF WrittenByBundle, WrittenByPack, FromBundle, FromScenario, AfterVerdict, Own
<1> QED BY <1>7, <1>8, <1>9 DEF DirInv

LEMMA SettleKeeps ==
  ASSUME DirInv, Settle
  PROVE  DirInv'
<1> DEFINE settled == IF log[run].stop = Absent THEN log[run].validator ELSE log[run].stop
           record == [log[run] EXCEPT !.status = settled]
<1>1. Note("settle", record, "manifest2") /\ pc = "settle"
  BY DEF Settle, Note
<1>2. log[run] \in Records /\ log[run].validator \in Verdicts /\ log[run].final = Absent
  BY <1>1, RecordOfRun DEF DirInv, Present, BeforeJudged, BeforeStatus, BeforeFinal
<1>3. log[run].stop \in Stops \cup {Absent}
  BY <1>2 DEF Records
<1>4. /\ settled \in Verdicts
      /\ settled \in Successes => settled = log[run].validator /\ log[run].stop = Absent
  BY <1>2, <1>3 DEF Verdicts, Stops, Successes
<1> HIDE DEF settled
<1>5. /\ record \in Records
      /\ record.dir = log[run].dir /\ record.task = log[run].task
      /\ record.contended = log[run].contended /\ record.validator = log[run].validator
      /\ record.checks = log[run].checks /\ record.stop = log[run].stop
      /\ record.status = settled /\ record.final = Absent
      /\ record.returned = log[run].returned
  BY <1>2, <1>4 DEF Records
<1> HIDE DEF record
<1>6. DirTypeOK' /\ Decided' /\ Told' /\ Backed' /\ Left' /\ Taken' /\ FirstInDirectory'
  BY <1>1, <1>2, <1>4, <1>5, RecordOfRun, NoteKeeps DEF Places, WritePlaces, AfterVerdict
<1>7. pc' = "manifest2" /\ log'[run] = record /\ UNCHANGED <<root, files, run, dir, foreign>>
  BY <1>1, NoteChanges
<1>8. Present'
  BY <1>1, <1>4, <1>5, <1>7 DEF DirInv, Present, BeforeJudged, BeforeStatus, BeforeFinal
<1>9. WrittenByBundle' /\ WrittenByPack'
  <2>1. Own(Results, Absent, log[run].checks)
    BY <1>1 DEF DirInv, WrittenByBundle
  <2>2. Own(Results, Absent, log[run].checks)'
    BY <1>5, <1>7, <2>1 DEF Own
  <2> QED BY <1>7, <2>2 DEF WrittenByBundle, WrittenByPack, FromBundle, FromScenario, AfterVerdict
<1> QED BY <1>6, <1>8, <1>9 DEF DirInv

LEMMA ExtendedStagesKeep ==
  ASSUME DirInv, ExtendedStages
  PROVE  DirInv'
<1>1. PICK final \in {"BLOCK", log[run].status} :
        Note("extended", [log[run] EXCEPT !.final = final], "task3")
  BY DEF ExtendedStages
<1> DEFINE record == [log[run] EXCEPT !.final = final]
<1>2. Note("extended", record, "task3") /\ pc = "extended"
  BY <1>1 DEF Note
<1>3. log[run] \in Records /\ log[run].status \in Verdicts /\ log[run].final = Absent
  BY <1>2, RecordOfRun DEF DirInv, Present, BeforeJudged, BeforeStatus, BeforeFinal
<1>4. final \in Verdicts
  BY <1>3 DEF Verdicts, Stops
<1>5. /\ record \in Records
      /\ record.dir = log[run].dir /\ record.task = log[run].task
      /\ record.contended = log[run].contended /\ record.validator = log[run].validator
      /\ record.checks = log[run].checks /\ record.stop = log[run].stop
      /\ record.status = log[run].status /\ record.final = final
      /\ record.returned = log[run].returned
  BY <1>3, <1>4 DEF Records
<1> HIDE DEF record
<1>6. DirTypeOK' /\ Decided' /\ Told' /\ Backed' /\ Left' /\ Taken' /\ FirstInDirectory'
  BY <1>2, <1>3, <1>5, RecordOfRun, NoteKeeps DEF Places, WritePlaces, AfterVerdict
<1>7. pc' = "task3" /\ log'[run] = record /\ UNCHANGED <<root, files, run, dir>>
  BY <1>2, NoteChanges
<1>8. Present'
  BY <1>2, <1>4, <1>5, <1>7 DEF DirInv, Present, BeforeJudged, BeforeStatus, BeforeFinal
<1>9. WrittenByBundle' /\ WrittenByPack'
  <2>1. WrittenByBundle /\ UNCHANGED foreign
    BY <1>2 DEF DirInv, Note, others
  <2>2. OfOthers(Scenario)
    <3>1. Scenario \in Names
      BY DEF Scenario, Names
    <3>2. run \in Runs /\ dir \in Dirs
      BY <1>2, NoteChanges
    <3> QED BY <1>3, <3>1, <3>2 DEF DirInv, Told, ToldBy, OfOthers
  <2> QED BY <1>2, <1>5, <1>7, <2>1, <2>2
          DEF WrittenByBundle, WrittenByPack, FromBundle, FromScenario, AfterVerdict, Own,
              OfOthers
<1> QED BY <1>6, <1>8, <1>9 DEF DirInv

(***************************************************************************)
(* The pack.  An earlier scenario.json is of another run.                  *)
(***************************************************************************)
LEMMA WriteScenarioKeeps ==
  ASSUME DirInv, WriteScenario
  PROVE  DirInv'
<1>0. RunFacts /\ pc = "scenario3"
  <2>1. pc = "scenario3"
    BY DEF WriteScenario
  <2> QED BY <2>1, RunFactsHold
<1>1. CASE Put("scenario3", Absent, "none", "result3")
  <2>1. /\ "scenario3" \in WritePlaces /\ NameAt["scenario3"] = Scenario
        /\ SameStage("scenario3", "result3")
    BY DEF WritePlaces, NameAt, Scenario, SameStage, BeforeJudged, BeforeStatus, BeforeFinal,
           Places
  <2>2. DirTypeOK' /\ Decided' /\ Present' /\ Told' /\ Left' /\ Taken' /\ FirstInDirectory'
    BY <1>0, <1>1, <2>1, PutKeeps DEF AfterVerdict, RunFacts, Verdict, Scenario
  <2>3. /\ File(run, Absent, "none") # Absent
        /\ ~File(run, Absent, "none").torn
    <3>1. run \in Runs
      BY <1>0, RunningTypes DEF DirInv
    <3> QED BY <1>0, <3>1, FilesAreThere DEF File, RunFacts
  <2>4. WrittenByBundle' /\ WrittenByPack'
    BY <1>0, <1>1, <2>1, <2>3, PutChanges
       DEF WrittenByBundle, WrittenByPack, FromBundle, FromScenario, AfterVerdict, Own,
           There, DirInv, Names, BundleNames, Results, Scenario
  <2>5. Backed'
    BY <1>1, <2>1, PutChanges, AuditedUntouched DEF Results, Scenario, Names, BundleNames
  <2> QED BY <2>2, <2>4, <2>5 DEF DirInv
<1>2. CASE files[dir]["scenario.json"] # Absent /\ Note("scenario3", log[run], "result3")
  <2>1. /\ pc' = "result3" /\ UNCHANGED <<root, files, run, dir, foreign>>
        /\ run \in Runs /\ dir \in Dirs
        /\ log'[run] = log[run]
    BY <1>2, NoteChanges
  <2>2. log[run].final \in {Absent, "BLOCK", log[run].status}
    BY <2>1 DEF DirInv, Decided
  <2>3. DirTypeOK' /\ Decided' /\ Told' /\ Backed' /\ Left' /\ Taken' /\ FirstInDirectory'
    BY <1>0, <1>2, <2>2, RecordOfRun, NoteKeeps DEF Places, WritePlaces, AfterVerdict
  <2>4. Present'
    BY <1>0, <2>1 DEF DirInv, Present, BeforeJudged, BeforeStatus, BeforeFinal
  <2>5. OfOthers(Scenario) /\ WrittenByBundle
    BY <1>0 DEF DirInv, WrittenByPack
  <2>6. There(Scenario)'
    BY <1>2, <2>1, <2>5 DEF There, OfOthers, Scenario
  <2>7. WrittenByBundle' /\ WrittenByPack'
    BY <1>0, <2>1, <2>5, <2>6
       DEF WrittenByBundle, WrittenByPack, FromBundle, FromScenario, AfterVerdict, Own
  <2> QED BY <2>3, <2>4, <2>7 DEF DirInv
<1> QED BY <1>1, <1>2 DEF WriteScenario

LEMMA FinalizePackKeeps ==
  ASSUME DirInv, FinalizePack
  PROVE  DirInv'
<1>0. RunFacts
  <2>1. pc # "idle"
    BY DEF FinalizePack, WriteScenario, Put, Note
  <2> QED BY <2>1, RunFactsHold
<1>1. CASE Put("task3", Absent, "none", "scenario3")
  <2>1. /\ "task3" \in WritePlaces /\ NameAt["task3"] = "task.json"
        /\ SameStage("task3", "scenario3")
    BY DEF WritePlaces, NameAt, Results, Verdict, SameStage, BeforeJudged, BeforeStatus,
           BeforeFinal, Places
  <2>2. pc = "task3"
    BY <1>1 DEF Put
  <2>4. DirTypeOK' /\ Decided' /\ Present' /\ Told' /\ Left' /\ Taken' /\ FirstInDirectory'
    BY <1>0, <1>1, <2>1, PutKeeps DEF AfterVerdict, RunFacts, Verdict, Results
  <2>5. WrittenByBundle' /\ WrittenByPack'
    BY <1>1, <2>1, <2>2, PutChanges
       DEF WrittenByBundle, WrittenByPack, FromBundle, FromScenario, AfterVerdict, Own,
           OfOthers, There, ProvisionalStatus, DirInv, Names, BundleNames, Results, Verdict,
           Scenario
  <2>6. Backed'
    BY <1>1, <2>1, PutChanges, AuditedUntouched DEF Results, Verdict, Names, BundleNames
  <2> QED BY <2>4, <2>5, <2>6 DEF DirInv
<1>2. CASE Put("result3", log[run].final, log[run].checks, "validation3")
  <2>1. /\ "result3" \in WritePlaces /\ NameAt["result3"] = "result.json"
        /\ SameStage("result3", "validation3")
    BY DEF WritePlaces, NameAt, Results, Verdict, SameStage, BeforeJudged, BeforeStatus,
           BeforeFinal, Places
  <2>2. pc = "result3"
    BY <1>2 DEF Put
  <2>3. log[run].final \in Verdicts
    BY <2>2 DEF DirInv, Present, BeforeJudged, BeforeStatus, BeforeFinal
  <2>4. DirTypeOK' /\ Decided' /\ Present' /\ Told' /\ Left' /\ Taken' /\ FirstInDirectory'
    BY <1>0, <1>2, <2>1, <2>3, PutKeeps DEF AfterVerdict, RunFacts, Verdict, Successes
  <2>5. WrittenByBundle' /\ WrittenByPack'
    BY <1>2, <2>1, <2>2, PutChanges
       DEF WrittenByBundle, WrittenByPack, FromBundle, FromScenario, AfterVerdict, Own,
           OfOthers, There, ProvisionalStatus, DirInv, Names, BundleNames, Results, Verdict,
           Scenario
  <2>6. Backed'
    BY <1>2, <2>1, PutChanges, AuditedUntouched DEF Results, Verdict, Names, BundleNames
  <2> QED BY <2>4, <2>5, <2>6 DEF DirInv
<1>3. CASE Put("validation3", log[run].final, log[run].checks, "results3")
  <2>1. /\ "validation3" \in WritePlaces /\ NameAt["validation3"] = "validation.json"
        /\ SameStage("validation3", "results3")
    BY DEF WritePlaces, NameAt, Results, Verdict, SameStage, BeforeJudged, BeforeStatus,
           BeforeFinal, Places
  <2>2. pc = "validation3"
    BY <1>3 DEF Put
  <2>3. log[run].final \in Verdicts
    BY <2>2 DEF DirInv, Present, BeforeJudged, BeforeStatus, BeforeFinal
  <2>4. DirTypeOK' /\ Decided' /\ Present' /\ Told' /\ Left' /\ Taken' /\ FirstInDirectory'
    BY <1>0, <1>3, <2>1, <2>3, PutKeeps DEF AfterVerdict, RunFacts, Verdict, Successes
  <2>5. WrittenByBundle' /\ WrittenByPack'
    BY <1>3, <2>1, <2>2, PutChanges
       DEF WrittenByBundle, WrittenByPack, FromBundle, FromScenario, AfterVerdict, Own,
           OfOthers, There, ProvisionalStatus, DirInv, Names, BundleNames, Results, Verdict,
           Scenario
  <2>6. Own("status.json", log[run].status, "none") /\ log[run].status \in Verdicts
    BY <2>2 DEF DirInv, WrittenByBundle, FromBundle, FromScenario, AfterVerdict, Present,
                BeforeStatus, BeforeJudged
  <2>7. dir \notin foreign /\ log[run].status \in Successes =>
          files'[dir][Results] = File(run, Absent, log[run].checks)
    BY <1>3, <2>1, <2>2, PutChanges DEF DirInv, WrittenByBundle, Own, Results, Names, BundleNames
  <2>8. Backed'
    BY <1>3, <2>1, <2>6, <2>7, PutChanges, StatusBacked DEF Own, Results, Names, BundleNames
  <2> QED BY <2>4, <2>5, <2>8 DEF DirInv
<1>4. CASE Put("results3", Absent, log[run].checks, "verdict3")
  <2>1. /\ "results3" \in WritePlaces /\ NameAt["results3"] = Results
        /\ SameStage("results3", "verdict3")
    BY DEF WritePlaces, NameAt, Results, Verdict, SameStage, BeforeJudged, BeforeStatus,
           BeforeFinal, Places
  <2>2. pc = "results3"
    BY <1>4 DEF Put
  <2>4. DirTypeOK' /\ Decided' /\ Present' /\ Told' /\ Left' /\ Taken' /\ FirstInDirectory'
    BY <1>0, <1>4, <2>1, PutKeeps DEF AfterVerdict, RunFacts, Verdict, Results
  <2>5. WrittenByBundle' /\ WrittenByPack'
    BY <1>4, <2>1, <2>2, PutChanges
       DEF WrittenByBundle, WrittenByPack, FromBundle, FromScenario, AfterVerdict, Own,
           OfOthers, There, ProvisionalStatus, DirInv, Names, BundleNames, Results, Verdict,
           Scenario
  <2>6. Own("status.json", log[run].status, "none") /\ log[run].status \in Verdicts
    BY <2>2 DEF DirInv, WrittenByBundle, FromBundle, FromScenario, AfterVerdict, Present,
                BeforeStatus, BeforeJudged
  <2>7. dir \notin foreign /\ log[run].status \in Successes =>
          files'[dir][Results] = File(run, Absent, log[run].checks)
    BY <1>4, <2>1, <2>2, PutChanges DEF DirInv, WrittenByBundle, Own, Results, Names, BundleNames
  <2>8. Backed'
    BY <1>4, <2>1, <2>6, <2>7, PutChanges, StatusBacked DEF Own, Results, Names, BundleNames
  <2> QED BY <2>4, <2>5, <2>8 DEF DirInv
<1>5. CASE Put("verdict3", log[run].final, log[run].checks, "page3")
  <2>1. /\ "verdict3" \in WritePlaces /\ NameAt["verdict3"] = Verdict
        /\ SameStage("verdict3", "page3")
    BY DEF WritePlaces, NameAt, Results, Verdict, SameStage, BeforeJudged, BeforeStatus,
           BeforeFinal, Places
  <2>2. pc = "verdict3"
    BY <1>5 DEF Put
  <2>3. log[run].final \in Verdicts
    BY <2>2 DEF DirInv, Present, BeforeJudged, BeforeStatus, BeforeFinal
  <2>4. DirTypeOK' /\ Decided' /\ Present' /\ Told' /\ Left' /\ Taken' /\ FirstInDirectory'
    BY <1>0, <1>5, <2>1, <2>3, PutKeeps DEF AfterVerdict, RunFacts, Verdict, Successes
  <2>5. WrittenByBundle' /\ WrittenByPack'
    BY <1>5, <2>1, <2>2, PutChanges
       DEF WrittenByBundle, WrittenByPack, FromBundle, FromScenario, AfterVerdict, Own,
           OfOthers, There, ProvisionalStatus, DirInv, Names, BundleNames, Results, Verdict,
           Scenario
  <2>6. Backed'
    BY <1>5, <2>1, PutChanges, AuditedUntouched DEF Results, Verdict, Names, BundleNames
  <2> QED BY <2>4, <2>5, <2>6 DEF DirInv
<1>6. CASE Put("status3", log[run].final, "none", "catalog3")
  <2>1. /\ "status3" \in WritePlaces /\ NameAt["status3"] = "status.json"
        /\ SameStage("status3", "catalog3")
    BY DEF WritePlaces, NameAt, Results, Verdict, SameStage, BeforeJudged, BeforeStatus,
           BeforeFinal, Places
  <2>2. pc = "status3"
    BY <1>6 DEF Put
  <2>3. log[run].final \in Verdicts
    BY <2>2 DEF DirInv, Present, BeforeJudged, BeforeStatus, BeforeFinal
  <2>4. DirTypeOK' /\ Decided' /\ Present' /\ Told' /\ Left' /\ Taken' /\ FirstInDirectory'
    BY <1>0, <1>6, <2>1, <2>3, PutKeeps DEF AfterVerdict, RunFacts, Verdict, Successes
  <2>5. WrittenByBundle' /\ WrittenByPack'
    BY <1>6, <2>1, <2>2, PutChanges
       DEF WrittenByBundle, WrittenByPack, FromBundle, FromScenario, AfterVerdict, Own,
           OfOthers, There, ProvisionalStatus, DirInv, Names, BundleNames, Results, Verdict,
           Scenario
  <2>6. log[run].final \in Successes => Own(Results, Absent, log[run].checks)
    BY <1>0, <2>2, FlagsAssumption
       DEF RunFacts, DirInv, WrittenByBundle, WrittenByPack, FromBundle, FromScenario,
           AfterVerdict
  <2>7. Backed'
    BY <1>6, <2>1, <2>3, <2>6, PutChanges, StatusBacked
       DEF Own, Results, Names, BundleNames
  <2> QED BY <2>4, <2>5, <2>7 DEF DirInv
<1>7. CASE Put("page3", log[run].final, log[run].checks, "status3")
  <2>1. /\ "page3" \in WritePlaces /\ NameAt["page3"] = "final-report.html"
        /\ SameStage("page3", "status3")
    BY DEF WritePlaces, NameAt, Results, Verdict, SameStage, BeforeJudged, BeforeStatus,
           BeforeFinal, Places
  <2>2. pc = "page3"
    BY <1>7 DEF Put
  <2>3. log[run].final \in Verdicts
    BY <2>2 DEF DirInv, Present, BeforeJudged, BeforeStatus, BeforeFinal
  <2>4. DirTypeOK' /\ Decided' /\ Present' /\ Told' /\ Left' /\ Taken' /\ FirstInDirectory'
    BY <1>0, <1>7, <2>1, <2>3, PutKeeps DEF AfterVerdict, RunFacts, Verdict, Successes
  <2>5. WrittenByBundle' /\ WrittenByPack'
    BY <1>7, <2>1, <2>2, PutChanges
       DEF WrittenByBundle, WrittenByPack, FromBundle, FromScenario, AfterVerdict, Own,
           OfOthers, There, ProvisionalStatus, DirInv, Names, BundleNames, Results, Verdict,
           Scenario
  <2>6. Backed'
    BY <1>7, <2>1, PutChanges, AuditedUntouched DEF Results, Verdict, Names, BundleNames
  <2> QED BY <2>4, <2>5, <2>6 DEF DirInv
<1>8. CASE Put("catalog3", log[run].final, "none", "report")
  <2>1. /\ "catalog3" \in WritePlaces /\ NameAt["catalog3"] = "evidence-manifest.json"
        /\ SameStage("catalog3", "report")
    BY DEF WritePlaces, NameAt, Results, Verdict, SameStage, BeforeJudged, BeforeStatus,
           BeforeFinal, Places
  <2>2. pc = "catalog3"
    BY <1>8 DEF Put
  <2>3. log[run].final \in Verdicts
    BY <2>2 DEF DirInv, Present, BeforeJudged, BeforeStatus, BeforeFinal
  <2>4. DirTypeOK' /\ Decided' /\ Present' /\ Told' /\ Left' /\ Taken' /\ FirstInDirectory'
    BY <1>0, <1>8, <2>1, <2>3, PutKeeps DEF AfterVerdict, RunFacts, Verdict, Successes
  <2>5. WrittenByBundle' /\ WrittenByPack'
    BY <1>8, <2>1, <2>2, PutChanges
       DEF WrittenByBundle, WrittenByPack, FromBundle, FromScenario, AfterVerdict, Own,
           OfOthers, There, ProvisionalStatus, DirInv, Names, BundleNames, Results, Verdict,
           Scenario
  <2>6. Backed'
    BY <1>8, <2>1, PutChanges, AuditedUntouched DEF Results, Verdict, Names, BundleNames
  <2> QED BY <2>4, <2>5, <2>6 DEF DirInv
<1>9. CASE WriteScenario
  BY <1>9, WriteScenarioKeeps
<1> QED BY <1>1, <1>2, <1>3, <1>4, <1>5, <1>6, <1>7, <1>8, <1>9 DEF FinalizePack

\* The run returns, and its files are what it leaves.
LEMMA ReturnKeeps ==
  ASSUME DirInv, Return
  PROVE  DirInv'
<1> DEFINE record == [log[run] EXCEPT !.returned = TRUE]
<1>1. Note("return", record, "idle") /\ pc = "return"
  BY DEF Return, Note
<1>2. log[run] \in Records /\ log[run].final \in Verdicts /\ log[run].dir = dir
      /\ ~log[run].returned
  BY <1>1, RecordOfRun DEF DirInv, Present, BeforeJudged, BeforeStatus, BeforeFinal
<1>3. /\ record \in Records
      /\ record.dir = log[run].dir /\ record.task = log[run].task
      /\ record.contended = log[run].contended /\ record.validator = log[run].validator
      /\ record.checks = log[run].checks /\ record.stop = log[run].stop
      /\ record.status = log[run].status /\ record.final = log[run].final
      /\ record.returned
  BY <1>2 DEF Records
<1> HIDE DEF record
<1>4. /\ pc' = "idle"
      /\ UNCHANGED <<root, files, run, dir, strangers, pending, foreign>>
      /\ run \in Runs /\ dir \in Dirs
      /\ log'[run] = record
      /\ \A r \in Runs : r # run => log'[r] = log[r]
  BY <1>1, NoteChanges
<1>5. \A r \in Runs : /\ log'[r].dir = log[r].dir /\ log'[r].validator = log[r].validator
                      /\ log'[r].checks = log[r].checks /\ log'[r].stop = log[r].stop
                      /\ log'[r].status = log[r].status /\ log'[r].final = log[r].final
  BY <1>3, <1>4
<1>6. DirTypeOK'
  BY <1>1, <1>3, <1>4 DEF Note, DirInv, DirTypeOK, Places
<1>7. Decided'
  <2>1. ASSUME NEW r \in Runs, r > run
        PROVE  log'[r] = NotStarted
    BY <1>4, <2>1, RunsAreNumbers DEF DirInv, Decided
  <2>2. ASSUME NEW r \in Runs, log'[r].returned
        PROVE  log'[r].final \in Verdicts
    BY <1>2, <1>3, <1>4, <2>2 DEF DirInv, Decided
  <2> QED BY <1>4, <1>5, <2>1, <2>2 DEF DirInv, Decided
<1>8. Present' /\ WrittenByBundle' /\ WrittenByPack' /\ Taken' /\ FirstInDirectory'
  BY <1>4 DEF DirInv, Taken, Present, WrittenByBundle, WrittenByPack, FromBundle,
              FromScenario, AfterVerdict, FirstInDirectory
<1>9. Told'
  <2>1. SUFFICES ASSUME NEW d \in Dirs \ foreign, NEW n \in Names, files[d][n] # Absent
                 PROVE  log'[files[d][n].run].dir = d /\ ToldBy(n, files[d][n])'
    BY <1>4 DEF Told, DirInv
  <2>2. files[d][n].run \in Runs /\ log[files[d][n].run].dir = d /\ ToldBy(n, files[d][n])
    BY <2>1 DEF DirInv, Told
  <2>3. files[d][n].run # run => log'[files[d][n].run] = log[files[d][n].run]
    BY <1>4, <2>2
  <2> QED BY <1>1, <1>4, <1>5, <2>2, <2>3 DEF ToldBy, AfterVerdict
<1>10. Backed'
  <2>1. \A d \in Dirs \ foreign :
          files[d]["status.json"] # Absent => files[d]["status.json"].run \in Runs
    BY DEF DirInv, Told, Names, BundleNames
  <2> QED BY <1>4, <1>5, <2>1 DEF DirInv, Backed, BackedIn, Readable, Audit, AuditedName
<1>11. Left'
  <2>1. SUFFICES ASSUME NEW r \in Runs, log'[r].returned, LastInDirectory(r)',
                        log'[r].dir \notin foreign
                 PROVE  LeftBy(r)'
    BY <1>4 DEF Left
  <2>2. CASE r = run
    <3>1. dir \notin foreign
      BY <1>2, <1>5, <2>1, <2>2
    <3>2. /\ \A n \in {"run-manifest.json", "summary.md"} : Own(n, log[run].status, "none")
          /\ Own("task.json", Absent, "none")
      BY <1>1 DEF DirInv, WrittenByBundle, FromBundle, FromScenario, AfterVerdict
    <3>3. /\ \A n \in {"status.json", "evidence-manifest.json"} :
               Own(n, log[run].final, "none")
          /\ Own(Results, Absent, log[run].checks)
          /\ \A n \in {Verdict, "result.json", "validation.json", "final-report.html",
                       "report.json"} :
               Own(n, log[run].final, log[run].checks)
          /\ There(Scenario)
      BY <1>1 DEF DirInv, WrittenByPack, FromScenario, AfterVerdict
    <3> QED BY <1>2, <1>4, <1>5, <2>2, <3>1, <3>2, <3>3 DEF LeftBy, Own, There
  <2>3. CASE r # run
    <3>1. log[r].returned /\ LastInDirectory(r) /\ log[r].dir \notin foreign
      BY <1>4, <1>5, <2>1, <2>3 DEF LastInDirectory
    <3>2. LeftBy(r)
      BY <3>1 DEF DirInv, Left
    <3> QED BY <1>4, <2>3, <3>2 DEF LeftBy
  <2> QED BY <2>2, <2>3
<1> QED BY <1>6, <1>7, <1>8, <1>9, <1>10, <1>11 DEF DirInv

-------------------------------------------------------------------------------
(***************************************************************************)
(* A run begins, makes its directory, meets another process or dies.       *)
(***************************************************************************)
LEMMA BeginKeeps ==
  ASSUME DirInv, NEW t \in Tasks, NEW d \in Dirs, NEW contended \in BOOLEAN,
         Begin(t, d, contended),
         d \notin Named /\ ~contended => d \notin root /\ pending = {}
  PROVE  DirInv'
<1> DEFINE record == [NotStarted EXCEPT !.task = t, !.dir = d, !.contended = contended]
<1>1. /\ pc = "idle" /\ pc' = "make" /\ run + strangers < MaxRuns /\ run' = run + 1 /\ dir' = d
      /\ log' = [log EXCEPT ![run + 1] = record]
      /\ UNCHANGED <<root, files, strangers, pending, foreign>>
  BY DEF Begin, others
<1>2. run \in Nat /\ run + 1 \in Runs /\ MaxRuns \in Nat
  BY <1>1, BoundsAssumption DEF DirInv, DirTypeOK, Runs
<1>3. /\ record \in Records /\ record.task = t /\ record.dir = d /\ record.contended = contended
      /\ record.validator = Absent /\ record.status = Absent /\ record.final = Absent
      /\ record.returned = FALSE
  BY DEF NotStarted, Records, CheckLists
<1> HIDE DEF record
<1>4. log'[run + 1] = record /\ \A r \in Runs : r # run + 1 => log'[r] = log[r]
  BY <1>1, <1>2 DEF DirInv, DirTypeOK
<1>5. Absent \notin Successes /\ Absent # "PASS"
  BY FlagsAssumption DEF Verdicts, Successes
<1>6. DirTypeOK'
  BY <1>1, <1>2, <1>3 DEF DirInv, DirTypeOK, Places
<1>7. Decided'
  <2>1. SUFFICES ASSUME NEW r \in Runs
                 PROVE  /\ r > run + 1 => log'[r] = NotStarted
                        /\ r <= run + 1 => log'[r].dir \in Dirs
                        /\ log'[r].validator = "PASS" => log'[r].checks = "passed"
                        /\ log'[r].status \in Successes =>
                             log'[r].status = log'[r].validator /\ log'[r].stop = Absent
                        /\ log'[r].final \in {Absent, "BLOCK", log'[r].status}
                        /\ log'[r].returned => log'[r].final \in Verdicts
    BY <1>1 DEF Decided
  <2>2. CASE r = run + 1
    BY <1>2, <1>3, <1>4, <1>5, <2>2
  <2>3. CASE r # run + 1
    <3>1. r \in Nat /\ log'[r] = log[r]
      BY <1>4, <2>3, RunsAreNumbers
    <3> QED BY <1>2, <2>3, <3>1 DEF DirInv, Decided
  <2> QED BY <2>2, <2>3
<1>8. Present'
  BY <1>1, <1>3, <1>4 DEF Present, BeforeJudged, BeforeStatus, BeforeFinal
<1>9. WrittenByBundle' /\ WrittenByPack'
  BY <1>1 DEF WrittenByBundle, WrittenByPack, FromBundle, FromScenario, AfterVerdict
<1>10. \A e \in Dirs \ foreign, n \in Names :
         files[e][n] # Absent =>
           /\ files[e][n].run \in Runs /\ files[e][n].run <= run
           /\ log'[files[e][n].run] = log[files[e][n].run]
  <2>1. SUFFICES ASSUME NEW e \in Dirs \ foreign, NEW n \in Names, files[e][n] # Absent
                 PROVE  /\ files[e][n].run \in Runs /\ files[e][n].run <= run
                        /\ log'[files[e][n].run] = log[files[e][n].run]
    OBVIOUS
  <2>2. files[e][n].run \in Runs /\ files[e][n].run <= run
    BY <2>1 DEF DirInv, Told
  <2>3. files[e][n].run # run + 1
    BY <1>2, <2>2, RunsAreNumbers
  <2> QED BY <1>4, <2>2, <2>3
<1>11. Told'
  <2>1. SUFFICES ASSUME NEW e \in Dirs \ foreign, NEW n \in Names, files[e][n] # Absent
                 PROVE  /\ e \in root
                        /\ files[e][n].run \in Runs /\ files[e][n].run <= run + 1
                        /\ log'[files[e][n].run].dir = e
                        /\ ToldBy(n, files[e][n])'
    BY <1>1 DEF Told
  <2>2. /\ e \in root /\ files[e][n].run \in Runs /\ files[e][n].run <= run
        /\ log[files[e][n].run].dir = e /\ ToldBy(n, files[e][n])
    BY <2>1 DEF DirInv, Told
  <2>3. files[e][n].run \in Nat /\ log'[files[e][n].run] = log[files[e][n].run]
    BY <1>10, <2>1, RunsAreNumbers
  <2>4. ToldBy(n, files[e][n])'
    BY <1>1, <2>2, <2>3 DEF ToldBy, AfterVerdict
  <2> QED BY <1>2, <2>2, <2>3, <2>4
<1>12. Backed'
  <2>1. SUFFICES ASSUME NEW e \in Dirs \ foreign
                 PROVE  BackedIn(e)'
    BY <1>1 DEF Backed
  <2>2. "status.json" \in Names /\ BackedIn(e)
    BY DEF Names, BundleNames, DirInv, Backed
  <2> QED BY <1>1, <1>10, <2>2 DEF BackedIn, Readable, Audit, AuditedName
<1>13. Left'
  <2>1. SUFFICES ASSUME NEW r \in Runs, log'[r].returned, LastInDirectory(r)',
                        log'[r].dir \notin foreign
                 PROVE  LeftBy(r)'
    BY <1>1 DEF Left
  <2>2. r # run + 1 /\ log'[r] = log[r]
    BY <1>3, <1>4, <2>1
  <2>3. r <= run
    <3>1. ~NotStarted.returned
      BY DEF NotStarted
    <3> QED BY <1>2, <2>1, <2>2, <3>1, RunsAreNumbers DEF DirInv, Decided
  <2>4. LastInDirectory(r)
    <3>1. SUFFICES ASSUME NEW q \in Runs, q > r
                   PROVE  log[q].dir # log[r].dir
      BY DEF LastInDirectory
    <3>2. CASE q = run + 1
      <4>1. NotStarted.dir = Absent
        BY DEF NotStarted
      <4>2. log[q] = NotStarted
        BY <1>2, <3>2 DEF DirInv, Decided
      <4> QED BY <2>3, <4>1, <4>2, AbsentIsNoDirectory DEF DirInv, Decided
    <3>3. CASE q # run + 1
      BY <1>4, <2>1, <2>2, <3>1, <3>3 DEF LastInDirectory
    <3> QED BY <3>2, <3>3
  <2>5. LeftBy(r)
    BY <2>1, <2>2, <2>4 DEF DirInv, Left
  <2> QED BY <1>1, <2>2, <2>5 DEF LeftBy
<1>14. FirstInDirectory'
  <2>1. SUFFICES ASSUME d \notin Named, ~contended
                 PROVE  /\ d \notin root /\ d \notin pending \cup foreign
                        /\ \A n \in Names : files[d][n] = Absent
    BY <1>1, <1>3, <1>4 DEF FirstInDirectory, Listing
  <2>2. d \notin root /\ d \notin pending \cup foreign
    BY <2>1 DEF DirInv, Taken
  <2> QED BY <2>2 DEF DirInv, Told
<1>15. Taken'
  BY <1>1 DEF DirInv, Taken
<1> QED BY <1>6, <1>7, <1>8, <1>9, <1>11, <1>12, <1>13, <1>14, <1>15 DEF DirInv

LEMMA MakeDirectoryKeeps ==
  ASSUME DirInv, MakeDirectory
  PROVE  DirInv'
<1>1. /\ pc = "make" /\ pc' = "agent" /\ root' = root \cup {dir}
      /\ UNCHANGED <<files, run, dir, log, strangers, pending, foreign>>
  BY DEF MakeDirectory, others
<1>2. run \in Runs /\ dir \in Dirs
  BY <1>1, RunningTypes DEF DirInv
<1>3. DirTypeOK'
  BY <1>1, <1>2 DEF DirInv, DirTypeOK, Places
<1>4. Decided' /\ Left' /\ Taken'
  BY <1>1 DEF DirInv, Decided, Left, LeftBy, LastInDirectory, Taken
<1>5. Present'
  BY <1>1 DEF DirInv, Present, BeforeJudged, BeforeStatus, BeforeFinal
<1>6. WrittenByBundle' /\ WrittenByPack'
  BY <1>1 DEF WrittenByBundle, WrittenByPack, FromBundle, FromScenario, AfterVerdict
<1>7. Told'
  BY <1>1 DEF DirInv, Told, ToldBy, AfterVerdict
<1>8. Backed'
  BY <1>1 DEF DirInv, Backed, BackedIn, Readable, Audit, AuditedName
<1>9. FirstInDirectory'
  BY <1>1 DEF DirInv, FirstInDirectory, Listing
<1> QED BY <1>3, <1>4, <1>5, <1>6, <1>7, <1>8, <1>9 DEF DirInv

(***************************************************************************)
(* Another process lists the root; some runs of the log are contended now. *)
(***************************************************************************)
LEMMA ContendKeeps ==
  ASSUME DirInv, NEW some \in SUBSET Runs, \A r \in some : r <= run,
         log' = [r \in Runs |-> IF r \in some THEN Contend(r) ELSE log[r]],
         UNCHANGED <<root, files, pc, run, dir, foreign>>,
         strangers' \in 0..MaxRuns, pending' \subseteq Numbers,
         pc # "idle" /\ dir \notin Named /\ ~log[run].contended /\ run \notin some
           => dir \notin pending'
  PROVE  DirInv'
<1>1. \A r \in Runs :
        /\ log'[r].task = log[r].task /\ log'[r].dir = log[r].dir
        /\ log'[r].stop = log[r].stop /\ log'[r].checks = log[r].checks
        /\ log'[r].validator = log[r].validator /\ log'[r].status = log[r].status
        /\ log'[r].final = log[r].final /\ log'[r].returned = log[r].returned
        /\ r \in some => log'[r].contended
        /\ r \notin some => log'[r] = log[r]
        /\ log'[r] \in Records
  <2>1. SUFFICES ASSUME NEW r \in Runs
                 PROVE  /\ log'[r].task = log[r].task /\ log'[r].dir = log[r].dir
                        /\ log'[r].stop = log[r].stop /\ log'[r].checks = log[r].checks
                        /\ log'[r].validator = log[r].validator
                        /\ log'[r].status = log[r].status
                        /\ log'[r].final = log[r].final
                        /\ log'[r].returned = log[r].returned
                        /\ r \in some => log'[r].contended
                        /\ r \notin some => log'[r] = log[r]
                        /\ log'[r] \in Records
    OBVIOUS
  <2>2. log[r] \in Records
    BY DEF DirInv, DirTypeOK
  <2>3. CASE r \in some
    <3>1. log'[r] = [log[r] EXCEPT !.contended = TRUE]
      BY <2>3 DEF Contend
    <3> QED BY <2>2, <2>3, <3>1 DEF Records
  <2>4. CASE r \notin some
    BY <2>2, <2>4
  <2> QED BY <2>3, <2>4
<1>2. DirTypeOK'
  <2>1. log' \in [Runs -> Records]
    BY <1>1
  <2> QED BY <2>1 DEF DirInv, DirTypeOK
<1>3. pc # "idle" => run \in Runs /\ dir \in Dirs
  BY DEF DirInv, DirTypeOK
<1>4. Decided'
  <2>1. ASSUME NEW r \in Runs, r > run
        PROVE  log'[r] = NotStarted
    <3>1. r \notin some
      BY <2>1, RunsAreNumbers DEF DirInv, DirTypeOK
    <3> QED BY <1>1, <2>1, <3>1 DEF DirInv, Decided
  <2> QED BY <1>1, <2>1 DEF DirInv, Decided
<1>5. Present' /\ Taken'
  BY <1>1, <1>3 DEF DirInv, Present, Taken
<1>6. WrittenByBundle' /\ WrittenByPack'
  <2>1. CASE pc = "idle"
    BY <2>1 DEF WrittenByBundle, WrittenByPack, FromBundle, FromScenario, AfterVerdict
  <2>2. CASE pc # "idle"
    <3>1. /\ log'[run].status = log[run].status /\ log'[run].final = log[run].final
          /\ log'[run].checks = log[run].checks /\ ProvisionalStatus' = ProvisionalStatus
      BY <1>1, <1>3, <2>2 DEF ProvisionalStatus
    <3> QED BY <3>1 DEF DirInv, WrittenByBundle, WrittenByPack, Own, OfOthers, There
  <2> QED BY <2>1, <2>2
<1>7. Told'
  <2>1. SUFFICES ASSUME NEW d \in Dirs \ foreign, NEW n \in Names, files[d][n] # Absent
                 PROVE  /\ d \in root
                        /\ files[d][n].run \in Runs /\ files[d][n].run <= run
                        /\ log'[files[d][n].run].dir = d
                        /\ ToldBy(n, files[d][n])'
    BY DEF Told
  <2>2. /\ d \in root /\ files[d][n].run \in Runs /\ files[d][n].run <= run
        /\ log[files[d][n].run].dir = d /\ ToldBy(n, files[d][n])
    BY <2>1 DEF DirInv, Told
  <2> QED BY <1>1, <2>2 DEF ToldBy
<1>8. Backed'
  <2>1. SUFFICES ASSUME NEW d \in Dirs \ foreign
                 PROVE  BackedIn(d)'
    BY DEF Backed
  <2>2. BackedIn(d) /\ (files[d]["status.json"] # Absent => files[d]["status.json"].run \in Runs)
    BY DEF DirInv, Backed, Told, Names, BundleNames
  <2> QED BY <1>1, <2>2 DEF BackedIn, Readable, Audit, AuditedName
<1>9. Left'
  BY <1>1 DEF DirInv, Left, LeftBy, LastInDirectory
<1>10. FirstInDirectory'
  <2>1. SUFFICES ASSUME pc # "idle", dir \notin Named, ~log'[run].contended
                 PROVE  /\ pc = "make" => dir \notin root
                        /\ dir \notin pending' \cup foreign
                        /\ \A n \in Listing(dir) : files[dir][n].run = run
    BY DEF FirstInDirectory, Listing
  <2>2. run \notin some /\ ~log[run].contended
    BY <1>1, <1>3, <2>1
  <2> QED BY <2>1, <2>2 DEF DirInv, FirstInDirectory
<1> QED BY <1>2, <1>4, <1>5, <1>6, <1>7, <1>8, <1>9, <1>10 DEF DirInv

\* What a process that lists takes is free, or the run that has it is contended.
LEMMA OtherListsKeeps ==
  ASSUME DirInv, OtherLists
  PROVE  DirInv'
<1> DEFINE some == {r \in Runs : r = run /\ pc = "make"}
<1>1. /\ NextSeq \in Numbers /\ strangers' = strangers + 1 /\ run + strangers < MaxRuns
      /\ pending' = pending \cup {NextSeq}
      /\ UNCHANGED <<root, files, pc, run, dir, foreign>>
      /\ log' = [r \in Runs |-> IF r = run /\ pc = "make" THEN Contend(r) ELSE log[r]]
  BY DEF OtherLists, OtherBegins
<1>2. NextSeq \notin root
  BY <1>1, NextSeqIsFree DEF DirInv, DirTypeOK
<1>3. strangers' \in 0..MaxRuns /\ pending' \subseteq Numbers
  BY <1>1, RunsAreNumbers DEF DirInv, DirTypeOK
<1>4. some \in SUBSET Runs /\ \A r \in some : r <= run
  BY RunsAreNumbers
<1>5. log' = [r \in Runs |-> IF r \in some THEN Contend(r) ELSE log[r]]
  BY <1>1
<1>6. ASSUME pc # "idle", dir \notin Named, ~log[run].contended, run \notin some
      PROVE  dir \notin pending'
  <2>1. run \in Runs /\ pc # "make" /\ dir \notin pending
    BY <1>6, RunningTypes DEF DirInv, FirstInDirectory
  <2>2. dir \in root
    BY <1>6, <2>1 DEF DirInv, Present
  <2> QED BY <1>1, <1>2, <2>1, <2>2
<1> HIDE DEF some
<1> QED BY <1>1, <1>3, <1>4, <1>5, <1>6, ContendKeeps

LEMMA OtherListsNothingKeeps ==
  ASSUME DirInv, OtherListsNothing
  PROVE  DirInv'
<1> DEFINE some == {r \in Runs : log[r].dir = 1}
<1>1. /\ 1 \in Numbers /\ strangers' = strangers + 1 /\ run + strangers < MaxRuns
      /\ pending' = pending \cup {1}
      /\ UNCHANGED <<root, files, pc, run, dir, foreign>>
      /\ log' = [r \in Runs |-> IF log[r].dir = 1 THEN Contend(r) ELSE log[r]]
  BY DEF OtherListsNothing, OtherBegins
<1>2. strangers' \in 0..MaxRuns /\ pending' \subseteq Numbers
  BY <1>1, RunsAreNumbers DEF DirInv, DirTypeOK
<1>3. \A r \in some : r <= run
  <2>1. NotStarted.dir = Absent /\ Absent # 1
    BY NamedAssumption DEF NotStarted
  <2> QED BY <2>1, RunsAreNumbers DEF DirInv, DirTypeOK, Decided
<1>4. log' = [r \in Runs |-> IF r \in some THEN Contend(r) ELSE log[r]]
  BY <1>1
<1>5. ASSUME pc # "idle", dir \notin Named, ~log[run].contended, run \notin some
      PROVE  dir \notin pending'
  <2>1. run \in Runs /\ log[run].dir = dir /\ dir \notin pending
    BY <1>5, RunningTypes DEF DirInv, FirstInDirectory, Present
  <2> QED BY <1>1, <1>5, <2>1
<1>6. some \in SUBSET Runs
  OBVIOUS
<1> HIDE DEF some
<1> QED BY <1>1, <1>2, <1>3, <1>4, <1>5, <1>6, ContendKeeps

\* It takes a directory, after which nothing is said of that one.
LEMMA OtherMakesKeeps ==
  ASSUME DirInv, OtherMakes
  PROVE  DirInv'
<1>1. PICK d \in pending :
        /\ pending' = pending \ {d} /\ root' = root \cup {d} /\ foreign' = foreign \cup {d}
        /\ UNCHANGED <<files, pc, run, dir, log, strangers>>
  BY DEF OtherMakes
<1>2. d \in Numbers /\ d \in Dirs
  BY DEF DirInv, DirTypeOK, Dirs
<1>3. DirTypeOK' /\ Decided' /\ Taken'
  BY <1>1, <1>2 DEF DirInv, DirTypeOK, Decided, Taken
<1>4. Present'
  BY <1>1 DEF DirInv, Present
<1>5. Told'
  BY <1>1 DEF DirInv, Told, ToldBy
<1>6. WrittenByBundle' /\ WrittenByPack'
  <2>1. ProvisionalStatus' = ProvisionalStatus
    BY <1>1 DEF ProvisionalStatus
  <2> QED BY <1>1, <2>1 DEF DirInv, WrittenByBundle, WrittenByPack, Own, OfOthers, There
<1>7. Backed' /\ Left'
  BY <1>1 DEF DirInv, Backed, BackedIn, Readable, Audit, AuditedName, Left, LeftBy,
              LastInDirectory
<1>8. FirstInDirectory'
  BY <1>1 DEF DirInv, FirstInDirectory, Listing
<1> QED BY <1>3, <1>4, <1>5, <1>6, <1>7, <1>8 DEF DirInv

\* It writes in a directory it has taken.
LEMMA OtherWritesKeeps ==
  ASSUME DirInv, OtherWrites
  PROVE  DirInv'
<1> DEFINE file == [run |-> 0, status |-> Absent, checks |-> "none", torn |-> FALSE]
<1>1. PICK d \in foreign, name \in ForeignNames :
        /\ files' = [files EXCEPT ![d][name] = file]
        /\ UNCHANGED <<root, pc, run, dir, log, strangers, pending, foreign>>
  BY DEF OtherWrites, others
<1>2. d \in Dirs /\ name \in Names /\ file \in Contents
  BY ForeignAssumption DEF DirInv, DirTypeOK, Dirs, Contents, CheckLists
<1> HIDE DEF file
<1>3. DirTypeOK'
  BY <1>1, <1>2 DEF DirInv, DirTypeOK
<1>4. \A e \in Dirs \ foreign : files'[e] = files[e]
  BY <1>1, <1>2 DEF DirInv, DirTypeOK
<1>5. pc # "idle" => run \in Runs /\ dir \in Dirs
  BY DEF DirInv, DirTypeOK
<1>6. Decided' /\ Present' /\ Taken'
  BY <1>1 DEF DirInv, Decided, Present, Taken
<1>7. Told'
  BY <1>1, <1>4 DEF DirInv, Told, ToldBy
<1>8. WrittenByBundle' /\ WrittenByPack'
  <2>1. CASE pc = "idle"
    BY <1>1, <2>1 DEF WrittenByBundle, WrittenByPack, FromBundle, FromScenario, AfterVerdict
  <2>2. CASE pc # "idle"
    <3>1. dir \in foreign \/ files'[dir] = files[dir]
      BY <1>4, <1>5, <2>2
    <3>2. ProvisionalStatus' = ProvisionalStatus
      BY <1>1 DEF ProvisionalStatus
    <3> QED BY <1>1, <3>1, <3>2
            DEF DirInv, WrittenByBundle, WrittenByPack, Own, OfOthers, There
  <2> QED BY <2>1, <2>2
<1>9. Backed'
  BY <1>1, <1>4 DEF DirInv, Backed, BackedIn, Readable, Audit, AuditedName
<1>10. Left'
  <2>1. SUFFICES ASSUME NEW r \in Runs, log[r].returned, LastInDirectory(r),
                        log[r].dir \notin foreign
                 PROVE  LeftBy(r)'
    BY <1>1 DEF Left, LastInDirectory
  <2>2. log[r].dir \in Dirs
    <3>1. ~NotStarted.returned
      BY DEF NotStarted
    <3> QED BY <2>1, <3>1, RunsAreNumbers DEF DirInv, DirTypeOK, Decided
  <2>3. LeftBy(r) /\ files'[log[r].dir] = files[log[r].dir]
    BY <1>4, <2>1, <2>2 DEF DirInv, Left
  <2> QED BY <1>1, <2>3 DEF LeftBy
<1>11. FirstInDirectory'
  <2>1. SUFFICES ASSUME pc # "idle", dir \notin Named, ~log[run].contended
                 PROVE  /\ pc = "make" => dir \notin root
                        /\ dir \notin pending \cup foreign
                        /\ \A n \in Names : files'[dir][n] # Absent => files'[dir][n].run = run
    BY <1>1 DEF FirstInDirectory, Listing
  <2>2. /\ pc = "make" => dir \notin root
        /\ dir \notin pending \cup foreign
        /\ \A n \in Names : files[dir][n] # Absent => files[dir][n].run = run
    BY <2>1 DEF DirInv, FirstInDirectory, Listing
  <2> QED BY <1>4, <1>5, <2>1, <2>2
<1> QED BY <1>3, <1>6, <1>7, <1>8, <1>9, <1>10, <1>11 DEF DirInv

LEMMA DiesKeeps ==
  ASSUME DirInv, Dies
  PROVE  DirInv'
<1>1. pc # "idle" /\ pc' = "idle"
      /\ UNCHANGED <<root, run, dir, log, strangers, pending, foreign>>
  BY DEF Dies, others
<1>2. run \in Runs /\ dir \in Dirs /\ "idle" \in Places
  BY <1>1, RunningTypes DEF DirInv, Places
<1>3. Present' /\ WrittenByBundle' /\ WrittenByPack' /\ Taken' /\ FirstInDirectory'
  BY <1>1 DEF DirInv, Taken, Present, WrittenByBundle, WrittenByPack, FromBundle,
              FromScenario, AfterVerdict, FirstInDirectory
<1>4. Decided'
  BY <1>1 DEF DirInv, Decided
<1>5. CASE UNCHANGED files
  <2>1. DirTypeOK'
    BY <1>1, <1>2, <1>5 DEF DirInv, DirTypeOK
  <2>2. Told' /\ Left'
    BY <1>1, <1>5 DEF DirInv, Told, ToldBy, AfterVerdict, Left, LeftBy, LastInDirectory
  <2>3. Backed'
    BY <1>1, <1>5 DEF DirInv, Backed, BackedIn, Readable, Audit, AuditedName
  <2> QED BY <1>3, <1>4, <2>1, <2>2, <2>3 DEF DirInv
<1>6. CASE /\ pc \in WritePlaces
           /\ files' = [files EXCEPT ![dir][NameAt[pc]] =
                          [run |-> run, status |-> Absent, checks |-> "none", torn |-> TRUE]]
  <2> DEFINE file == [run |-> run, status |-> Absent, checks |-> "none", torn |-> TRUE]
             name == NameAt[pc]
  <2>1. name \in Names
    BY <1>6, NameOfPlace
  <2>2. /\ file \in Contents /\ file # Absent /\ Absent \notin Successes
        /\ file.run = run /\ file.status = Absent /\ file.torn = TRUE
    <3>1. file \in Contents
      BY <1>2 DEF Contents, CheckLists
    <3> QED BY <3>1, AbsentAssumption, FlagsAssumption DEF Verdicts
  <2>3. /\ files'[dir][name] = file
        /\ \A d \in Dirs, n \in Names : <<d, n>> # <<dir, name>> => files'[d][n] = files[d][n]
        /\ \A d \in Dirs : d # dir => files'[d] = files[d]
    BY <1>2, <1>6, <2>1 DEF DirInv, DirTypeOK
  <2> HIDE DEF file
  <2>4. DirTypeOK'
    BY <1>1, <1>2, <1>6, <2>1, <2>2 DEF DirInv, DirTypeOK, file
  <2>5. ~log[run].returned /\ log[run].dir = dir /\ dir \in root
    <3>1. pc # "make"
      BY <1>6, WritePlacesRun
    <3> QED BY <1>1, <3>1 DEF DirInv, Present
  <2>6. Told'
    <3>1. SUFFICES ASSUME NEW d \in Dirs \ foreign, NEW n \in Names, files'[d][n] # Absent
                   PROVE  /\ d \in root
                          /\ files'[d][n].run \in Runs /\ files'[d][n].run <= run
                          /\ log[files'[d][n].run].dir = d
                          /\ ToldBy(n, files[d][n])'
      BY <1>1 DEF Told
    <3>2. CASE d = dir /\ n = name
      <4>1. files'[d][n] = file
        BY <2>3, <3>2
      <4>2. n = Scenario => log[run].final # Absent
        <5>1. n = Scenario => pc = "scenario3"
          BY <1>6, <3>2, PlaceOfScenario
        <5>2. Absent \notin Verdicts
          BY FlagsAssumption
        <5> QED BY <1>1, <5>1, <5>2
                DEF DirInv, Present, BeforeFinal, BeforeStatus, BeforeJudged
      <4>3. ToldBy(n, files[d][n])'
        BY <1>1, <2>2, <2>5, <4>1, <4>2 DEF ToldBy, AfterVerdict
      <4> QED BY <1>2, <2>2, <2>5, <3>2, <4>1, <4>3, RunsAreNumbers
    <3>3. CASE ~(d = dir /\ n = name)
      <4>1. files'[d][n] = files[d][n]
        BY <2>3, <3>3
      <4> QED BY <1>1, <3>1, <4>1 DEF DirInv, Told, ToldBy, AfterVerdict
    <3> QED BY <3>2, <3>3
  <2>7. Left'
    <3>1. SUFFICES ASSUME NEW r \in Runs, log[r].returned, LastInDirectory(r),
                          log[r].dir \notin foreign
                   PROVE  LeftBy(r)'
      BY <1>1 DEF Left, LastInDirectory
    <3>2. log[r].dir \in Dirs /\ log[r].dir # dir /\ LeftBy(r)
      BY <1>1, <3>1, FinishedElsewhere DEF DirInv, Left
    <3> QED BY <1>1, <2>3, <3>2 DEF LeftBy
  <2>8. ASSUME dir \notin foreign
        PROVE  BackedIn(dir)'
    <3>1. BackedIn(dir) /\ "status.json" \in Names /\ Results \in Names
          /\ "validation.json" \in Names
      BY <1>2, <2>8 DEF DirInv, Backed, Names, BundleNames, Results
    <3>2. CASE name = "status.json"
      BY <1>1, <2>2, <2>3, <3>2 DEF BackedIn
    <3>3. CASE name \notin {"status.json", Results, "validation.json"}
      <4>1. \A n \in {"status.json", Results, "validation.json"} :
              files'[dir][n] = files[dir][n]
        BY <1>2, <2>3, <3>1, <3>3
      <4> QED BY <1>1, <3>1, <4>1 DEF BackedIn, Readable, Audit, AuditedName, Results
    <3>4. CASE pc \in {"results1", "results3", "validation3"}
      <4>1. files'[dir]["status.json"] = files[dir]["status.json"]
        BY <1>2, <2>3, <3>1, <3>4 DEF NameAt
      <4>2. CASE pc = "results1"
        <5>1. files[dir]["status.json"].status = ProvisionalStatus
          BY <2>8, <4>2 DEF DirInv, WrittenByBundle, Own, File
        <5> QED BY <1>1, <4>1, <5>1, ProvisionalStatusStops DEF BackedIn
      <4>3. CASE pc \in {"results3", "validation3"}
        <5>1. Own("status.json", log[run].status, "none")
          BY <4>3 DEF DirInv, WrittenByBundle, FromBundle, FromScenario, AfterVerdict
        <5>2. files[dir]["status.json"].run = run
              /\ files[dir]["status.json"].status = log[run].status
          BY <2>8, <5>1 DEF Own, File
        <5>3. CASE pc = "validation3" /\ log[run].status \in Successes
          <6>1. Own(Results, Absent, log[run].checks)
            BY <5>3 DEF DirInv, WrittenByBundle
          <6>2. files'[dir][Results] = files[dir][Results]
            BY <1>2, <2>3, <3>1, <5>3 DEF NameAt, Results
          <6>3. files[dir][Results] # Absent /\ ~files[dir][Results].torn
                /\ files[dir][Results].run = run
                /\ files[dir][Results].checks = log[run].checks
            <7>1. log[run].checks \in CheckLists
              BY <1>2 DEF DirInv, DirTypeOK, Records
            <7> QED BY <1>2, <2>8, <6>1, <7>1, FilesAreThere DEF Own, File
          <6> QED BY <1>1, <4>1, <5>2, <6>2, <6>3
                  DEF BackedIn, Readable, Audit, AuditedName, Results
        <5>4. CASE pc = "results3"
          <6>1. Own("validation.json", log[run].final, log[run].checks)
            BY <5>4 DEF DirInv, WrittenByPack
          <6>2. files'[dir]["validation.json"] = files[dir]["validation.json"]
                /\ files'[dir][Results] = file
            BY <1>2, <2>3, <3>1, <5>4 DEF NameAt, Results
          <6>3. files[dir]["validation.json"] # Absent /\ ~files[dir]["validation.json"].torn
                /\ files[dir]["validation.json"].run = run
                /\ files[dir]["validation.json"].checks = log[run].checks
            <7>1. log[run].checks \in CheckLists /\ log[run].final \in Verdicts \cup {Absent}
              BY <1>2 DEF DirInv, DirTypeOK, Records
            <7> QED BY <1>2, <2>8, <6>1, <7>1, FilesAreThere DEF Own, File
          <6> QED BY <1>1, <2>2, <4>1, <5>2, <6>2, <6>3
                  DEF BackedIn, Readable, Audit, AuditedName, Results
        <5>5. CASE log[run].status \notin Successes
          BY <1>1, <4>1, <5>2, <5>5 DEF BackedIn
        <5> QED BY <4>3, <5>3, <5>4, <5>5
      <4> QED BY <3>4, <4>2, <4>3
    <3> QED BY <1>6, <3>2, <3>3, <3>4 DEF WritePlaces, NameAt, Results
  <2>9. Backed'
    BY <1>1, <2>3, <2>8, BackedElsewhere
  <2> QED BY <1>3, <1>4, <2>4, <2>6, <2>7, <2>9 DEF DirInv
<1> QED BY <1>5, <1>6 DEF Dies

LEMMA StutterKeeps ==
  ASSUME DirInv, UNCHANGED dirVars
  PROVE  DirInv'
<1> USE DEF dirVars, others
<1>1. DirTypeOK' /\ Decided' /\ Present' /\ Told' /\ Taken'
  BY DEF DirInv, DirTypeOK, Decided, Present, Told, ToldBy, Taken
<1>2. WrittenByBundle' /\ WrittenByPack'
  BY DEF DirInv, WrittenByBundle, WrittenByPack, Own, OfOthers, There, ProvisionalStatus
<1>3. Backed' /\ FirstInDirectory'
  BY DEF DirInv, Backed, BackedIn, Readable, Audit, AuditedName, FirstInDirectory, Listing
<1>4. Left'
  BY DEF DirInv, Left, LeftBy, LastInDirectory
<1> QED BY <1>1, <1>2, <1>3, <1>4 DEF DirInv

-------------------------------------------------------------------------------
LEMMA DirStepKeepsInv ==
  ASSUME DirInv, [DirNext]_dirVars
  PROVE  DirInv'
<1>1. CASE \E t \in Tasks : BeginListed(t)
  <2>1. PICK t \in Tasks : BeginListed(t)
    BY <1>1
  <2>2. root \subseteq Dirs
    BY DEF DirInv, DirTypeOK
  <2>3. CASE NextSeq \in Numbers /\ Begin(t, NextSeq, pending # {})
    BY <2>2, <2>3, NextSeqIsFree, BeginKeeps DEF Dirs
  <2>4. CASE NextSeq # 1 /\ 1 \in Numbers /\ Begin(t, 1, TRUE)
    BY <2>4, BeginKeeps DEF Dirs
  <2> QED BY <2>1, <2>3, <2>4 DEF BeginListed
<1>2. CASE \E t \in Tasks, d \in Named : BeginNamed(t, d)
  BY <1>2, BeginKeeps DEF BeginNamed, Dirs
<1>3. CASE RunStep
  BY <1>3, MakeDirectoryKeeps, LoopEndsKeeps, SafeStopKeeps, ProvisionalBundleKeeps,
     ValidateKeeps, ValidatorFilesKeeps, SettleKeeps, FinalBundleKeeps,
     ExtendedStagesKeep, FinalizePackKeeps, WriteReportKeeps DEF RunStep
<1>4. CASE OtherProcess
  BY <1>4, OtherListsKeeps, OtherListsNothingKeeps, OtherMakesKeeps, OtherWritesKeeps
     DEF OtherProcess
<1> QED BY <1>1, <1>2, <1>3, <1>4, ReturnKeeps, DiesKeeps, StutterKeeps DEF DirNext

(***************************************************************************)
(* The inductive invariant holds of every reachable state.                 *)
(***************************************************************************)
THEOREM DirInvariance == DirSpec => []DirInv
BY InitiallyInv, DirStepKeepsInv, PTL DEF DirSpec

(***************************************************************************)
(* What the invariant means for a reader of the files.                     *)
(***************************************************************************)
LEMMA SuccessFollows == DirInv => SuccessInFilesIsJudged
<1>1. SUFFICES ASSUME DirInv, NEW d \in Dirs \ foreign, NEW n \in Names,
                      files[d][n] # Absent, files[d][n].status \in Successes
               PROVE  /\ files[d][n].status = log[files[d][n].run].validator
                      /\ n # "validator-verdict.json" \/ log[files[d][n].run].returned =>
                           log[files[d][n].run].stop = Absent
  BY DEF SuccessInFilesIsJudged
<1>2. ToldBy(n, files[d][n]) /\ files[d][n].run \in Runs
  BY <1>1 DEF DirInv, Told
<1>3. "BLOCK" \notin Successes /\ Absent \notin Successes
  BY FlagsAssumption DEF Successes, Verdicts
<1>4. log[files[d][n].run].final \in Successes => log[files[d][n].run].stop = Absent
  BY <1>1, <1>2, <1>3 DEF DirInv, Decided
<1> QED BY <1>1, <1>2, <1>4 DEF ToldBy, Verdict

LEMMA AcceptedFollows == DirInv => AcceptedIsJudged
<1>1. SUFFICES ASSUME DirInv, NEW d \in Dirs \ foreign, Accepts(d)
               PROVE  LET file == files[d]["status.json"]
                      IN  /\ log[file.run].validator = file.status
                          /\ log[file.run].stop = Absent
                          /\ log[file.run].dir = d
                          /\ Readable(d, AuditedName(d)) /\ Audit(d).run = file.run
                          /\ Audit(d).checks = log[file.run].checks
  BY DEF AcceptedIsJudged
<1>2. "status.json" \in Names /\ "status.json" # Verdict
  BY DEF Names, BundleNames, Verdict
<1>3. files[d]["status.json"] # Absent /\ files[d]["status.json"].status \in Successes
  BY <1>1 DEF Accepts, Readable
<1>4. /\ ToldBy("status.json", files[d]["status.json"])
      /\ log[files[d]["status.json"].run].dir = d
      /\ BackedIn(d)
  BY <1>1, <1>2, <1>3 DEF DirInv, Told, Backed
<1> QED BY <1>2, <1>3, <1>4 DEF ToldBy, BackedIn

\* The scenario of a directory a run has left, against the log of its writer.
LEMMA ScenarioFollows ==
  ASSUME DirInv, NEW r \in Runs, log[r].returned, LastInDirectory(r),
         log[r].dir \notin foreign
  PROVE  ScenarioIsFirst(r, log[r].dir)
<1> DEFINE d == log[r].dir
           scenario == files[d][Scenario]
<1>1. d \in Dirs \ foreign /\ Scenario \in Names
  <2>1. ~NotStarted.returned
    BY DEF NotStarted
  <2> QED BY <2>1, RunsAreNumbers DEF DirInv, DirTypeOK, Decided, Scenario, Names
<1>2. LeftBy(r)
  BY DEF DirInv, Left
<1>3. scenario # Absent /\ (scenario.run = r => ~scenario.torn)
  BY <1>2 DEF LeftBy
<1>4. scenario.run \in Runs /\ log[scenario.run].dir = d /\ log[scenario.run].final # Absent
  BY <1>1, <1>3 DEF DirInv, Told, ToldBy
<1>5. scenario.run # r => scenario.run \in 1..(r - 1)
  <2>1. ~(scenario.run > r)
    BY <1>4 DEF LastInDirectory
  <2> QED BY <1>4, <2>1, RunsAreNumbers DEF Runs
<1> QED BY <1>3, <1>4, <1>5 DEF ScenarioIsFirst, CameToPack, Scenario

LEMMA ReturnedFollows == DirInv => ReturnedDirectoryAgrees
<1>1. SUFFICES ASSUME DirInv, NEW r \in Runs, log[r].returned, LastInDirectory(r),
                      log[r].dir \notin foreign
               PROVE  LET d == log[r].dir
                      IN  /\ \A n \in Listing(d) \ {"scenario.json"} :
                               /\ files[d][n].run = r /\ ~files[d][n].torn
                               /\ files[d][n].status \in {Absent, LastStatus(r, n)}
                          /\ ScenarioIsFirst(r, d)
                          /\ Accepts(d) <=> /\ log[r].final \in Successes
                                            /\ log[r].task.required \subseteq Listing(d)
  BY DEF ReturnedDirectoryAgrees
<1> DEFINE d == log[r].dir
<1>2. LeftBy(r)
  BY <1>1 DEF DirInv, Left
<1>3. /\ log[r].checks \in CheckLists
      /\ log[r].status \in Verdicts \cup {Absent} /\ log[r].final \in Verdicts \cup {Absent}
  BY <1>1 DEF DirInv, DirTypeOK, Records
<1>4. \A n \in Names \ {"scenario.json"} :
        \E status \in {Absent, LastStatus(r, n)}, checks \in CheckLists :
          files[d][n] = File(r, status, checks)
  <2>1. \A n \in {"run-manifest.json", "summary.md"} :
          files[d][n] = File(r, LastStatus(r, n), "none")
    BY <1>2 DEF LeftBy, LastStatus
  <2>2. \A n \in {"status.json", "evidence-manifest.json"} :
          files[d][n] = File(r, LastStatus(r, n), "none")
    BY <1>2 DEF LeftBy, LastStatus
  <2>3. /\ files[d]["task.json"] = File(r, Absent, "none")
        /\ files[d][Results] = File(r, Absent, log[r].checks)
    BY <1>2 DEF LeftBy
  <2>4. \A n \in {Verdict, "result.json", "validation.json", "final-report.html",
                  "report.json"} :
          files[d][n] = File(r, LastStatus(r, n), log[r].checks)
    BY <1>2 DEF LeftBy, LastStatus, Verdict
  <2>5. Names \ {"scenario.json"} =
          {"run-manifest.json", "summary.md"} \cup {"status.json", "evidence-manifest.json"}
          \cup {"task.json", Results}
          \cup {Verdict, "result.json", "validation.json", "final-report.html", "report.json"}
    BY DEF Names, BundleNames, Results, Verdict
  <2> QED BY <1>3, <2>1, <2>2, <2>3, <2>4, <2>5, CheckListsHaveNone
<1>5. \A n \in Names \ {"scenario.json"} :
        /\ files[d][n] # Absent
        /\ files[d][n].run = r /\ ~files[d][n].torn
        /\ files[d][n].status \in {Absent, LastStatus(r, n)}
  <2>1. SUFFICES ASSUME NEW n \in Names \ {"scenario.json"}
                 PROVE  /\ files[d][n] # Absent
                        /\ files[d][n].run = r /\ ~files[d][n].torn
                        /\ files[d][n].status \in {Absent, LastStatus(r, n)}
    OBVIOUS
  <2>2. PICK status \in {Absent, LastStatus(r, n)}, checks \in CheckLists :
               files[d][n] = File(r, status, checks)
    BY <1>4
  <2>3. status \in Verdicts \cup {Absent}
    BY <1>3 DEF LastStatus
  <2> HIDE DEF d
  <2> QED BY <2>2, <2>3, FilesAreThere DEF File
<1>6. /\ Readable(d, "status.json") /\ Readable(d, "task.json") /\ Readable(d, Results)
      /\ files[d]["task.json"].run = r
      /\ {"run-manifest.json", "status.json", "summary.md"} \subseteq Listing(d)
  BY <1>5 DEF Readable, Listing, Names, BundleNames, Results
<1>7. files[d]["status.json"].status = log[r].final /\ files[d][Results].checks = log[r].checks
  BY <1>2 DEF LeftBy, File
<1>8. log[r].final = "PASS" => log[r].checks = "passed"
  <2>1. Absent # "PASS" /\ "PASS" \in Successes
    BY FlagsAssumption DEF Verdicts, Successes
  <2> QED BY <1>1, <2>1 DEF DirInv, Decided
<1>9. Required(d) \subseteq Listing(d) <=> log[r].task.required \subseteq Listing(d)
  BY <1>6 DEF Required
<1>10. AuditedName(d) = Results
  BY <1>6 DEF AuditedName, Results
<1>11. Accepts(d) <=> log[r].final \in Successes /\ log[r].task.required \subseteq Listing(d)
  BY <1>6, <1>7, <1>8, <1>9, <1>10 DEF Accepts, Audit
<1>12. \A n \in Listing(d) : n \in Names
  BY DEF Listing
<1>13. ScenarioIsFirst(r, d)
  BY <1>1, ScenarioFollows
<1> QED BY <1>5, <1>11, <1>12, <1>13

\* A step that rewrites the pack, up to status.json.
LEMMA RewritingChanges ==
  ASSUME DirInv, pc \in PackPlaces, [DirNext]_dirVars, dir \notin foreign'
  PROVE  /\ dir' = dir /\ run' = run /\ dir \notin foreign
         /\ \A r \in Runs : log'[r].task = log[r].task
         /\ files'[dir]["status.json"] = files[dir]["status.json"]
         /\ \A n \in Names : files[dir][n] # Absent => files'[dir][n] # Absent
         /\ \/ files'[dir]["task.json"] = files[dir]["task.json"]
            \/ files'[dir]["task.json"].torn
            \/ files'[dir]["task.json"].run = run
<1>1. /\ pc \in WritePlaces /\ pc # "idle" /\ pc # "make" /\ pc # "status3"
      /\ NameAt[pc] # "status.json" /\ NameAt[pc] \in Names
      /\ {"status.json", "task.json"} \subseteq Names
  BY DEF PackPlaces, WritePlaces, NameAt, Names, BundleNames
<1>2. run \in Runs /\ dir \in Dirs
  BY <1>1, RunningTypes DEF DirInv
<1>3. CASE /\ files'[dir] = files[dir] /\ UNCHANGED <<run, dir>> /\ foreign \subseteq foreign'
           /\ \A r \in Runs : log'[r].task = log[r].task
  BY <1>3
<1>4. ASSUME NEW file, file # Absent, file.torn \/ file.run = run,
             files' = [files EXCEPT ![dir][NameAt[pc]] = file],
             UNCHANGED <<run, dir, log, foreign>>
      PROVE  /\ dir' = dir /\ run' = run /\ dir \notin foreign
             /\ \A r \in Runs : log'[r].task = log[r].task
             /\ files'[dir]["status.json"] = files[dir]["status.json"]
             /\ \A n \in Names : files[dir][n] # Absent => files'[dir][n] # Absent
             /\ \/ files'[dir]["task.json"] = files[dir]["task.json"]
                \/ files'[dir]["task.json"].torn
                \/ files'[dir]["task.json"].run = run
  <2>1. /\ files'[dir][NameAt[pc]] = file
        /\ \A n \in Names : n # NameAt[pc] => files'[dir][n] = files[dir][n]
    BY <1>1, <1>2, <1>4 DEF DirInv, DirTypeOK
  <2> QED BY <1>1, <1>4, <2>1
<1>5. CASE FinalizePack
  <2>1. CASE Note("scenario3", log[run], "result3")
    <3>1. /\ UNCHANGED <<files, run, dir, foreign>> /\ log'[run] = log[run]
          /\ \A r \in Runs : r # run => log'[r] = log[r]
      BY <2>1, NoteChanges
    <3> QED BY <1>3, <3>1
  <2>2. CASE ~Note("scenario3", log[run], "result3")
    <3>1. PICK status \in {Absent, log[run].final}, checks \in {"none", log[run].checks} :
            \E next : Put(pc, status, checks, next)
      BY <1>5, <2>2 DEF FinalizePack, WriteScenario, Put
    <3>2. status \in Verdicts \cup {Absent} /\ checks \in CheckLists
      BY <1>2, CheckListsHaveNone DEF DirInv, DirTypeOK, Records
    <3>3. File(run, status, checks) # Absent /\ File(run, status, checks).run = run
      BY <1>2, <3>2, FilesAreThere DEF File
    <3> QED BY <1>4, <3>1, <3>3 DEF Put, File, others
  <2> QED BY <2>1, <2>2
<1>6. CASE Dies
  <2> DEFINE file == [run |-> run, status |-> Absent, checks |-> "none", torn |-> TRUE]
  <2>1. CASE UNCHANGED files
    BY <1>3, <1>6, <2>1 DEF Dies, others
  <2>2. CASE files' = [files EXCEPT ![dir][NameAt[pc]] = file]
    <3>1. file \in Contents /\ file.torn
      BY <1>2, CheckListsHaveNone DEF Contents
    <3>2. file # Absent
      BY <3>1, AbsentAssumption
    <3> QED BY <1>4, <1>6, <2>2, <3>1, <3>2 DEF Dies, others
  <2> QED BY <1>6, <2>1, <2>2 DEF Dies
<1>7. CASE OtherProcess
  <2>1. CASE OtherLists \/ OtherListsNothing
    <3>1. /\ UNCHANGED <<files, run, dir, foreign>>
          /\ \A r \in Runs : log'[r] = log[r] \/ log'[r] = Contend(r)
      BY <2>1 DEF OtherLists, OtherListsNothing, OtherBegins
    <3>2. ASSUME NEW r \in Runs
          PROVE  log'[r].task = log[r].task
      <4>1. log[r] \in Records
        BY DEF DirInv, DirTypeOK
      <4>2. Contend(r).task = log[r].task
        BY <4>1 DEF Contend, Records
      <4> QED BY <3>1, <4>2
    <3> QED BY <1>3, <3>1, <3>2
  <2>2. CASE OtherMakes
    BY <1>3, <2>2 DEF OtherMakes
  <2>3. CASE OtherWrites
    <3>1. PICK d \in foreign, name \in ForeignNames : \E file :
             /\ files' = [files EXCEPT ![d][name] = file]
             /\ UNCHANGED <<run, dir, log, foreign>>
      BY <2>3 DEF OtherWrites, others
    <3>2. files'[dir] = files[dir]
      BY <1>2, <3>1 DEF DirInv, DirTypeOK
    <3> QED BY <1>3, <3>1, <3>2
  <2> QED BY <1>7, <2>1, <2>2, <2>3 DEF OtherProcess
<1>8. CASE UNCHANGED dirVars
  BY <1>3, <1>8 DEF dirVars, others
<1>9. FinalizePack \/ Dies \/ OtherProcess \/ UNCHANGED dirVars
  BY DEF PackPlaces, DirNext, RunStep, BeginListed, BeginNamed, Begin, MakeDirectory, LoopEnds,
         SafeStop, ProvisionalBundle, Validate, ValidatorFiles, Settle, FinalBundle,
         ExtendedStages, WriteReport, Return, Put, Note
<1> QED BY <1>5, <1>6, <1>7, <1>8, <1>9

LEMMA AnswerKept ==
  ASSUME DirInv, DirInv', [DirNext]_dirVars, dir \notin foreign', pc \in PackPlaces,
         Accepts(dir)
  PROVE  Accepts(dir)'
<1>1. /\ dir' = dir /\ run' = run /\ dir \notin foreign
      /\ \A r \in Runs : log'[r].task = log[r].task
      /\ files'[dir]["status.json"] = files[dir]["status.json"]
      /\ \A n \in Names : files[dir][n] # Absent => files'[dir][n] # Absent
      /\ \/ files'[dir]["task.json"] = files[dir]["task.json"]
         \/ files'[dir]["task.json"].torn
         \/ files'[dir]["task.json"].run = run
  BY RewritingChanges
<1>2. run \in Runs /\ dir \in Dirs
  BY RunningTypes DEF DirInv, PackPlaces
<1>3. Readable(dir, "status.json") /\ Required(dir) \subseteq Listing(dir)
      /\ files[dir]["status.json"].status \in Successes
  BY DEF Accepts
<1>4. Readable(dir, "status.json")'
  BY <1>1, <1>3 DEF Readable
<1>5. /\ Own("task.json", Absent, "none") /\ Own("run-manifest.json", log[run].status, "none")
      /\ Own("summary.md", log[run].status, "none")
  BY DEF DirInv, WrittenByBundle, FromBundle, FromScenario, AfterVerdict, PackPlaces
<1>6. Readable(dir, "task.json") /\ files[dir]["task.json"].run = run
      /\ files[dir]["run-manifest.json"] # Absent /\ files[dir]["summary.md"] # Absent
  <2>1. "none" \in CheckLists /\ log[run].status \in Verdicts \cup {Absent}
    BY <1>2, CheckListsHaveNone DEF DirInv, DirTypeOK, Records
  <2> QED BY <1>1, <1>2, <1>5, <2>1, FilesAreThere DEF Own, File, Readable
<1>7. {"run-manifest.json", "status.json", "summary.md"} \subseteq Listing(dir)
  BY <1>3, <1>6 DEF Readable, Listing, Names, BundleNames
<1>8. Listing(dir) \subseteq Listing(dir)'
  BY <1>1 DEF Listing
<1>9. Required(dir)' \subseteq
        Required(dir) \cup {"run-manifest.json", "status.json", "summary.md"}
  <2>1. Required(dir) = IF log[run].task.required # {} THEN log[run].task.required
                        ELSE {"run-manifest.json", "status.json", "summary.md"}
    BY <1>6 DEF Required
  <2>2. Readable(dir, "task.json")' => files'[dir]["task.json"].run = run
    BY <1>1, <1>6 DEF Readable
  <2>3. log'[run].task = log[run].task
    BY <1>1, <1>2
  <2> QED BY <1>1, <2>1, <2>2, <2>3 DEF Required
<1>10. Required(dir)' \subseteq Listing(dir)'
  BY <1>3, <1>7, <1>8, <1>9
<1>11. ASSUME files'[dir]["status.json"].status = "PASS"
       PROVE  Readable(dir, AuditedName(dir))' /\ Audit(dir)'.checks = "passed"
  <2>1. "PASS" \in Successes /\ "status.json" \in Names /\ "status.json" # Verdict
    BY DEF Successes, Names, BundleNames, Verdict
  <2>2. files'[dir]["status.json"] # Absent
    BY <1>1, <1>4 DEF Readable
  <2>3. /\ Readable(dir, AuditedName(dir))'
        /\ Audit(dir)'.checks = log'[files'[dir]["status.json"].run].checks
    BY <1>1, <1>2, <1>11, <2>1, <2>2 DEF DirInv, Backed, BackedIn
  <2>4. /\ files'[dir]["status.json"].run \in Runs
        /\ log'[files'[dir]["status.json"].run].validator = "PASS"
    BY <1>1, <1>2, <1>11, <2>1, <2>2 DEF DirInv, Told, ToldBy
  <2>5. log'[files'[dir]["status.json"].run].checks = "passed"
    BY <2>4 DEF DirInv, Decided
  <2> QED BY <2>3, <2>5
<1> QED BY <1>1, <1>3, <1>4, <1>10, <1>11 DEF Accepts

-------------------------------------------------------------------------------
(***************************************************************************)
(* Type correctness of directories, files and log.                         *)
(***************************************************************************)
THEOREM DirTypes == DirSpec => []DirTypeOK
BY DirInvariance, PTL DEF DirInv

(***************************************************************************)
(* Whatever run wrote what, and wherever a process died: what the artifact *)
(* validator accepts was judged so, on the checks that it audits.          *)
(***************************************************************************)
THEOREM AcceptedJudged == DirSpec => []AcceptedIsJudged
BY AcceptedFollows, DirInvariance, PTL

(***************************************************************************)
(* No file of any directory shows a success its run was not given.         *)
(***************************************************************************)
THEOREM FilesJudged == DirSpec => []SuccessInFilesIsJudged
BY SuccessFollows, DirInvariance, PTL

(***************************************************************************)
(* The files of a finished run are of one piece, but for scenario.json,    *)
(* until the next run or another process enters.                           *)
(***************************************************************************)
THEOREM ReturnedAgrees == DirSpec => []ReturnedDirectoryAgrees
BY ReturnedFollows, DirInvariance, PTL

(***************************************************************************)
(* An accepted directory stays accepted while the pack is written again    *)
(* and no other process has taken it.                                      *)
(***************************************************************************)
THEOREM AnswerStays == DirSpec => PackKeepsAnswer
<1>1. DirInv /\ DirInv' /\ [DirNext]_dirVars =>
        [(dir \notin foreign' /\ pc \in PackPlaces /\ Accepts(dir)) => Accepts(dir)']_dirVars
  BY AnswerKept
<1> QED BY <1>1, DirInvariance, PTL DEF DirSpec, PackKeepsAnswer

(***************************************************************************)
(* A run meets another, in the directory or on the way there, only under   *)
(* an id that is named, or when two listings were open at the same time or *)
(* one has failed.                                                         *)
(***************************************************************************)
THEOREM FirstThere == DirSpec => []FirstInDirectory
BY DirInvariance, PTL DEF DirInv

-------------------------------------------------------------------------------
(***************************************************************************)
(* The chain.                                                              *)
(***************************************************************************)
Placed ==
  /\ Len(outcomes) <= Len(cards)
  /\ chain = "none" => cards = <<>> /\ outcomes = <<>> /\ first = 1
  /\ chain = "lost" => outcomes = <<>> /\ pc = "idle"
  /\ chain = "ended" => pc = "idle" /\ Len(outcomes) = Len(cards) /\ exitCode = ChainExit
  /\ chain = "running" => first <= run + 1
  /\ chain = "running" /\ pc # "idle" =>
       /\ Len(outcomes) < Len(cards)
       /\ ~compileOnly
       /\ log[run].task = Card /\ log[run].dir \in Named
       /\ first <= run

\* No later run has the directory of this one, unless the id is pinned.
Alone(r) == pinned \/ \A q \in Runs : q > r => log[q].dir # log[r].dir

CollectedRun(i) ==
  LET r == outcomes[i].run
  IN  /\ r \in first..run
      /\ log[r].returned
      /\ log[r].task = cards[i] /\ log[r].dir \in Named
      /\ log[r].final = outcomes[i].status
      /\ outcomes[i].exit = ExitOf(outcomes[i].status)
      /\ Alone(r)

Collected ==
  \A i \in 1..Len(outcomes) :
    /\ outcomes[i].run = Absent => compileOnly \/ outcomes[i].exit = 1
    /\ outcomes[i].run # Absent => CollectedRun(i)

AllRan == ~compileOnly /\ \A i \in 1..Len(outcomes) : outcomes[i].run # Absent

Numbered ==
  AllRan =>
    /\ \A i \in 1..Len(outcomes) : outcomes[i].run = first + i - 1
    /\ chain = "running" =>
         run = first + Len(outcomes) - (IF pc = "idle" THEN 1 ELSE 0)

ChainInv ==
  /\ ChainTypeOK
  /\ Placed
  /\ Collected
  /\ Numbered

-------------------------------------------------------------------------------
(***************************************************************************)
(* The steps of a run, as a chain sees them.                               *)
(***************************************************************************)
\* What a step of the running run leaves alone in the log.
SameRuns ==
  /\ run' = run
  /\ \A r \in Runs : /\ log'[r].dir = log[r].dir /\ log'[r].task = log[r].task
                     /\ log[r].returned => log'[r] = log[r]

LEMMA NoteSameRuns ==
  ASSUME DirInv, NEW place, place # "idle", NEW record, NEW next, Note(place, record, next),
         record.dir = log[run].dir, record.task = log[run].task
  PROVE  SameRuns /\ pc # "idle" /\ pc' = next
<1>1. /\ pc = place /\ pc' = next /\ UNCHANGED run
      /\ run \in Runs /\ log'[run] = record
      /\ \A r \in Runs : r # run => log'[r] = log[r]
  BY NoteChanges
<1>2. ~log[run].returned
  BY <1>1 DEF DirInv, Present
<1> QED BY <1>1, <1>2 DEF SameRuns

LEMMA RunStepSameRuns ==
  ASSUME DirInv, RunStep
  PROVE  SameRuns /\ pc # "idle" /\ pc' # "idle"
<1>1. CASE ProvisionalBundle \/ ValidatorFiles \/ FinalBundle \/ WriteReport \/ MakeDirectory
  BY <1>1 DEF ProvisionalBundle, ValidatorFiles, FinalBundle, WriteReport, MakeDirectory, Put,
              SameRuns
<1>2. ASSUME pc # "idle"
      PROVE  log[run] \in Records
  BY <1>2, RunningTypes DEF DirInv
<1>3. CASE LoopEnds
  <2>1. PICK stop \in Flags \cup {Absent} :
          Note("agent", [log[run] EXCEPT !.stop = stop], "manifest1")
    BY <1>3 DEF LoopEnds
  <2>2. log[run] \in Records
    BY <1>2, <2>1 DEF Note
  <2> DEFINE record == [log[run] EXCEPT !.stop = stop]
  <2>3. record.dir = log[run].dir /\ record.task = log[run].task
    BY <2>2 DEF Records
  <2>4. Note("agent", record, "manifest1")
    BY <2>1
  <2> HIDE DEF record
  <2> QED BY <2>3, <2>4, NoteSameRuns
<1>4. CASE SafeStop
  <2> DEFINE record == [log[run] EXCEPT !.stop = "BLOCK", !.status = "BLOCK"]
  <2>1. Note("agent", record, "manifest2")
    BY <1>4 DEF SafeStop
  <2>2. log[run] \in Records
    BY <1>2, <2>1 DEF Note
  <2>3. record.dir = log[run].dir /\ record.task = log[run].task
    BY <2>2 DEF Records
  <2> HIDE DEF record
  <2> QED BY <2>1, <2>3, NoteSameRuns
<1>5. CASE Validate
  <2>1. PICK checks, status :
          Note("validate", [log[run] EXCEPT !.checks = checks, !.validator = status], "results1")
    BY <1>5 DEF Validate
  <2>2. log[run] \in Records
    BY <1>2, <2>1 DEF Note
  <2> DEFINE record == [log[run] EXCEPT !.checks = checks, !.validator = status]
  <2>3. record.dir = log[run].dir /\ record.task = log[run].task
    BY <2>2 DEF Records
  <2>4. Note("validate", record, "results1")
    BY <2>1
  <2> HIDE DEF record
  <2> QED BY <2>3, <2>4, NoteSameRuns
<1>6. CASE Settle
  <2>1. PICK status : Note("settle", [log[run] EXCEPT !.status = status], "manifest2")
    BY <1>6 DEF Settle
  <2>2. log[run] \in Records
    BY <1>2, <2>1 DEF Note
  <2> DEFINE record == [log[run] EXCEPT !.status = status]
  <2>3. record.dir = log[run].dir /\ record.task = log[run].task
    BY <2>2 DEF Records
  <2>4. Note("settle", record, "manifest2")
    BY <2>1
  <2> HIDE DEF record
  <2> QED BY <2>3, <2>4, NoteSameRuns
<1>7. CASE ExtendedStages
  <2>1. PICK final : Note("extended", [log[run] EXCEPT !.final = final], "task3")
    BY <1>7 DEF ExtendedStages
  <2>2. log[run] \in Records
    BY <1>2, <2>1 DEF Note
  <2> DEFINE record == [log[run] EXCEPT !.final = final]
  <2>3. record.dir = log[run].dir /\ record.task = log[run].task
    BY <2>2 DEF Records
  <2>4. Note("extended", record, "task3")
    BY <2>1
  <2> HIDE DEF record
  <2> QED BY <2>3, <2>4, NoteSameRuns
<1>8. CASE FinalizePack
  <2>1. CASE Note("scenario3", log[run], "result3")
    BY <2>1, NoteSameRuns
  <2>2. CASE ~Note("scenario3", log[run], "result3")
    BY <1>8, <2>2 DEF FinalizePack, WriteScenario, Put, SameRuns
  <2> QED BY <2>1, <2>2
<1> QED BY <1>1, <1>3, <1>4, <1>5, <1>6, <1>7, <1>8 DEF RunStep

LEMMA DiesSameRuns ==
  ASSUME Dies
  PROVE  SameRuns /\ pc # "idle" /\ pc' = "idle"
BY DEF Dies, SameRuns

\* The run that returns is done, the others stay as they are.
LEMMA ReturnEnds ==
  ASSUME DirInv, Return
  PROVE  /\ SameRuns /\ pc # "idle" /\ pc' = "idle" /\ run \in Runs
         /\ log'[run].returned /\ log'[run].final = log[run].final
         /\ log[run].final \in Verdicts
<1> DEFINE record == [log[run] EXCEPT !.returned = TRUE]
<1>1. Note("return", record, "idle") /\ pc = "return"
  BY DEF Return, Note
<1>2. log[run] \in Records /\ log[run].final \in Verdicts
  BY <1>1, RecordOfRun DEF DirInv, Present, BeforeJudged, BeforeStatus, BeforeFinal
<1>3. /\ record.dir = log[run].dir /\ record.task = log[run].task
      /\ record.returned /\ record.final = log[run].final
  BY <1>2 DEF Records
<1> HIDE DEF record
<1> QED BY <1>1, <1>2, <1>3, NoteSameRuns, NoteChanges

-------------------------------------------------------------------------------
(***************************************************************************)
(* A step of the chain is a step of RunDirectory, or none.                 *)
(***************************************************************************)
LEMMA CardFacts ==
  ASSUME ChainTypeOK
  PROVE  /\ cards \in Seq(Tasks \cup {Broken})
         /\ Len(outcomes) \in Nat /\ Len(cards) \in Nat
         /\ Len(outcomes) < Len(cards) => Card \in Tasks \cup {Broken}
<1>1. <<>> \in Seq(Tasks \cup {Broken})
  OBVIOUS
<1>2. cards \in Seq(Tasks \cup {Broken}) /\ outcomes \in Seq(Outcomes)
  BY <1>1, CardsAssumption DEF ChainTypeOK
<1> QED BY <1>2 DEF Card

LEMMA ChainStepIsDirStep ==
  ASSUME ChainTypeOK, [ChainNext]_vars
  PROVE  [DirNext]_dirVars
<1>1. CASE StartChain \/ RestartChain \/ CardBroken \/ CardCompiled \/ EndChain
           \/ UNCHANGED vars
  BY <1>1 DEF StartChain, RestartChain, CardBroken, CardCompiled, EndChain, vars
<1>2. CASE ExecuteCard
  <2>1. Card \in Tasks /\ BeginNamed(Card, SlotId) /\ SlotId \in Named
    BY <1>2, CardFacts DEF ExecuteCard, Due, BeginNamed
  <2> QED BY <2>1 DEF DirNext
<1>3. CASE CardReturns \/ LoseChain \/ (RunStep /\ UNCHANGED chainVars)
  BY <1>3 DEF CardReturns, LoseChain, DirNext
<1>4. CASE SingleRun
  BY <1>4, PinnedAssumption DEF SingleRun, DirNext
<1> QED BY <1>1, <1>2, <1>3, <1>4 DEF ChainNext, ChainStep

-------------------------------------------------------------------------------
(***************************************************************************)
(* Steps that collect nothing.                                             *)
(***************************************************************************)
LEMMA ChainNumbers ==
  ASSUME ChainTypeOK
  PROVE  /\ MaxRuns \in Nat /\ run \in 0..MaxRuns /\ first \in 1..(MaxRuns + 1)
         /\ Len(outcomes) \in Nat /\ Len(cards) \in Nat
         /\ first..run \subseteq Runs
BY CardFacts, BoundsAssumption DEF ChainTypeOK, DirTypeOK, Runs

LEMMA CollectedKept ==
  ASSUME DirInv, ChainInv, SameRuns, UNCHANGED <<cards, pinned, compileOnly, first, outcomes>>
  PROVE  Collected'
<1>1. SUFFICES ASSUME NEW i \in 1..Len(outcomes), outcomes[i].run # Absent
               PROVE  CollectedRun(i)'
  BY DEF Collected, ChainInv
<1> DEFINE r == outcomes[i].run
<1>2. CollectedRun(i)
  BY <1>1 DEF ChainInv, Collected
<1>3. r \in Runs /\ log'[r] = log[r]
  BY <1>2, ChainNumbers DEF ChainInv, CollectedRun, SameRuns
<1>4. Alone(r)'
  BY <1>2, <1>3 DEF CollectedRun, Alone, SameRuns
<1> QED BY <1>2, <1>3, <1>4 DEF CollectedRun, SameRuns, ExitOf

LEMMA StartKeeps ==
  ASSUME DirInv, DirInv', ChainInv, StartChain \/ RestartChain
  PROVE  ChainInv'
<1>1. /\ outcomes = <<>> /\ outcomes' = <<>> /\ chain' = "running" /\ pc' = "idle"
      /\ run' = run /\ exitCode' = exitCode /\ first' = run + 1
  <2>1. CASE StartChain
    <3>1. run = 0 /\ pc = "idle"
      BY <2>1, BoundsAssumption DEF StartChain, DirInv, DirTypeOK, Runs
    <3> QED BY <2>1, <3>1 DEF StartChain, dirVars, ChainInv, Placed
  <2>2. CASE RestartChain
    BY <2>2 DEF RestartChain, dirVars, ChainInv, Placed
  <2> QED BY <2>1, <2>2
<1>2. cards' \in CardLists \cup {<<>>} /\ pinned' \in BOOLEAN /\ compileOnly' \in BOOLEAN
  BY DEF StartChain, RestartChain, ChainInv, ChainTypeOK
<1>3. ChainTypeOK'
  BY <1>1, <1>2, ChainNumbers DEF ChainInv, ChainTypeOK, DirInv
<1>4. Len(cards') \in Nat /\ Len(outcomes') = 0
  <2>1. Len(cards)' \in Nat
    BY <1>3, CardFacts
  <2> QED BY <1>1, <2>1
<1>5. Placed'
  BY <1>1, <1>4 DEF Placed
<1>6. Collected' /\ Numbered'
  BY <1>1, <1>4, ChainNumbers DEF Collected, Numbered, ChainInv
<1> QED BY <1>3, <1>5, <1>6 DEF ChainInv

LEMMA RunOfChainKeeps ==
  ASSUME DirInv, DirInv', ChainInv, chain = "running", RunStep, UNCHANGED chainVars
  PROVE  ChainInv'
<1>1. UNCHANGED <<chain, cards, pinned, compileOnly, first, outcomes, exitCode>>
  BY DEF chainVars
<1>2. SameRuns /\ pc # "idle" /\ pc' # "idle"
  BY RunStepSameRuns
<1>3. ChainTypeOK'
  BY <1>1 DEF ChainInv, ChainTypeOK, DirInv
<1>4. Placed'
  <2>1. run \in Runs
    BY <1>2, RunningTypes DEF DirInv
  <2> QED BY <1>1, <1>2, <2>1 DEF ChainInv, Placed, SameRuns, Card
<1>5. Collected'
  BY <1>1, <1>2, CollectedKept
<1>6. Numbered'
  BY <1>1, <1>2 DEF ChainInv, Numbered, AllRan, SameRuns
<1> QED BY <1>3, <1>4, <1>5, <1>6 DEF ChainInv

LEMMA EndKeeps ==
  ASSUME DirInv, DirInv', ChainInv, EndChain
  PROVE  ChainInv'
<1>1. /\ UNCHANGED <<root, files, pc, run, dir, log, cards, pinned, compileOnly, first, outcomes>>
      /\ pc = "idle" /\ chain' = "ended" /\ exitCode' = ChainExit
      /\ Len(outcomes) = Len(cards)
  BY DEF EndChain, dirVars, others
<1>2. ChainExit \in {0, 1}
  BY DEF ChainExit
<1>3. ChainTypeOK'
  BY <1>1, <1>2 DEF ChainInv, ChainTypeOK, DirInv
<1>4. Placed'
  BY <1>1, ChainNumbers DEF ChainInv, Placed, ChainExit
<1>5. Collected'
  BY <1>1, CollectedKept DEF SameRuns
<1>6. Numbered'
  BY <1>1 DEF ChainInv, Numbered, AllRan
<1> QED BY <1>3, <1>4, <1>5, <1>6 DEF ChainInv

LEMMA NothingCollected ==
  ASSUME DirInv', ChainInv, outcomes' = <<>>,
         UNCHANGED <<cards, pinned, compileOnly, first, exitCode>>,
         \/ chain' = "lost" /\ pc' = "idle"
         \/ chain' = chain /\ chain = "none"
  PROVE  ChainInv'
<1>1. <<>> \in Seq(Outcomes) /\ Len(<<>>) = 0
  OBVIOUS
<1>2. ChainTypeOK'
  BY <1>1 DEF ChainInv, ChainTypeOK, DirInv
<1>3. Placed'
  BY <1>1, ChainNumbers DEF ChainInv, Placed
<1>4. Collected' /\ Numbered'
  BY <1>1 DEF Collected, Numbered
<1> QED BY <1>2, <1>3, <1>4 DEF ChainInv

LEMMA LoseKeeps ==
  ASSUME DirInv', ChainInv, LoseChain \/ SingleRun
  PROVE  ChainInv'
<1>1. CASE LoseChain
  BY <1>1, NothingCollected DEF LoseChain, Dies
<1>2. CASE SingleRun
  BY <1>2, NothingCollected DEF SingleRun, chainVars, ChainInv, Placed
<1> QED BY <1>1, <1>2

LEMMA ChainStutterKeeps ==
  ASSUME DirInv, DirInv', ChainInv, UNCHANGED vars
  PROVE  ChainInv'
<1>1. UNCHANGED <<root, files, pc, run, dir, log, chain, cards, pinned, compileOnly, first,
                  outcomes, exitCode>>
  BY DEF vars, dirVars, chainVars
<1>2. ChainTypeOK'
  BY <1>1 DEF ChainInv, ChainTypeOK, DirInv
<1>3. Placed' /\ Numbered'
  BY <1>1 DEF ChainInv, Placed, Numbered, AllRan, Card, ChainExit
<1>4. Collected'
  BY <1>1, CollectedKept DEF SameRuns
<1> QED BY <1>2, <1>3, <1>4 DEF ChainInv

-------------------------------------------------------------------------------
(***************************************************************************)
(* Steps that execute a card or collect an outcome.                        *)
(***************************************************************************)
LEMMA ExecuteKeeps ==
  ASSUME DirInv, DirInv', ChainInv, chain = "running", ExecuteCard
  PROVE  ChainInv'
<1>1. /\ pc = "idle" /\ Len(outcomes) < Len(cards) /\ ~compileOnly
      /\ UNCHANGED <<chain, cards, pinned, compileOnly, first, outcomes, exitCode>>
      /\ SlotId \in Named /\ Begin(Card, SlotId, FALSE)
      /\ pinned \/ SlotIdIsFree
  BY DEF ExecuteCard, Due, BeginNamed, chainVars
<1>2. /\ run' = run + 1 /\ pc' = "make"
      /\ run \in Nat /\ run + 1 \in Runs
      /\ log'[run + 1].task = Card /\ log'[run + 1].dir = SlotId
      /\ \A r \in Runs : r # run + 1 => log'[r] = log[r]
  <2>1. /\ run \in Nat /\ run + 1 \in Runs /\ log \in [Runs -> Records]
    BY <1>1, BoundsAssumption DEF Begin, DirInv, DirTypeOK, Runs
  <2>2. [NotStarted EXCEPT !.task = Card, !.dir = SlotId, !.contended = FALSE].task = Card
    BY DEF NotStarted
  <2>3. [NotStarted EXCEPT !.task = Card, !.dir = SlotId, !.contended = FALSE].dir = SlotId
    BY DEF NotStarted
  <2> QED BY <1>1, <2>1, <2>2, <2>3 DEF Begin
<1>3. ChainTypeOK'
  BY <1>1 DEF ChainInv, ChainTypeOK, DirInv
<1>4. Placed'
  <2>1. /\ first \in Nat /\ first <= run + 1
        /\ Len(outcomes) \in Nat /\ Len(cards) \in Nat
    BY ChainNumbers DEF ChainInv, Placed
  <2> QED BY <1>1, <1>2, <2>1 DEF Placed, Card
<1>5. ASSUME ~pinned, NEW r \in 1..run
      PROVE  log[r].dir # SlotId
  <2>1. \E d \in Named \ {PinnedId} : \A q \in 1..run : log[q].dir # d
    BY <1>1, <1>5 DEF SlotIdIsFree
  <2>2. SlotId = CHOOSE d \in Named \ {PinnedId} : \A q \in 1..run : log[q].dir # d
    BY <1>5 DEF SlotId
  <2> QED BY <1>5, <2>1, <2>2
<1>6. Collected'
  <2>1. SUFFICES ASSUME NEW i \in 1..Len(outcomes), outcomes[i].run # Absent
                 PROVE  CollectedRun(i)'
    BY <1>1 DEF Collected, ChainInv
  <2> DEFINE r == outcomes[i].run
  <2>2. CollectedRun(i) /\ r \in Runs /\ r \in 1..run
    BY <2>1, ChainNumbers DEF ChainInv, Collected, CollectedRun
  <2>3. log'[r] = log[r]
    BY <1>2, <2>2
  <2>4. Alone(r)'
    <3>1. SUFFICES ASSUME ~pinned, NEW q \in Runs, q > r
                   PROVE  log'[q].dir # log[r].dir
      BY <1>1, <2>3 DEF Alone
    <3>2. CASE q = run + 1
      BY <1>2, <1>5, <2>2, <3>1, <3>2
    <3>3. CASE q # run + 1
      BY <1>2, <2>2, <3>1, <3>3 DEF CollectedRun, Alone
    <3> QED BY <3>2, <3>3
  <2>5. r \in first..(run + 1)
    BY <1>2, <2>2, ChainNumbers DEF CollectedRun, ChainInv
  <2> QED BY <1>1, <1>2, <2>2, <2>3, <2>4, <2>5 DEF CollectedRun, ExitOf
<1>7. Numbered'
  <2>1. SUFFICES ASSUME AllRan
                 PROVE  /\ \A i \in 1..Len(outcomes) : outcomes[i].run = first + i - 1
                        /\ run + 1 = first + Len(outcomes) - 0
    BY <1>1, <1>2 DEF Numbered, AllRan
  <2>2. /\ \A i \in 1..Len(outcomes) : outcomes[i].run = first + i - 1
        /\ run = first + Len(outcomes) - 1
    BY <1>1, <2>1 DEF ChainInv, Numbered
  <2> QED BY <1>2, <2>2, ChainNumbers DEF ChainInv
<1> QED BY <1>3, <1>4, <1>6, <1>7 DEF ChainInv

\* What an outcome more changes in the list.
LEMMA OneMore ==
  ASSUME ChainTypeOK, NEW outcome \in Outcomes, Collect(outcome)
  PROVE  /\ outcomes' \in Seq(Outcomes) /\ Len(outcomes') = Len(outcomes) + 1
         /\ outcomes'[Len(outcomes) + 1] = outcome
         /\ \A i \in 1..Len(outcomes) : outcomes'[i] = outcomes[i]
         /\ UNCHANGED <<chain, cards, pinned, compileOnly, first, exitCode>>
BY DEF Collect, ChainTypeOK

LEMMA NotRunKeeps ==
  ASSUME DirInv, DirInv', ChainInv, chain = "running", CardBroken \/ CardCompiled
  PROVE  ChainInv'
<1>1. PICK outcome \in Outcomes :
        /\ Collect(outcome) /\ outcome.run = Absent
        /\ compileOnly \/ outcome.exit = 1
  <2>1. /\ [run |-> Absent, status |-> "BLOCK", exit |-> 1] \in Outcomes
        /\ [run |-> Absent, status |-> "COMPILED", exit |-> 0] \in Outcomes
    BY DEF Outcomes, Verdicts, Stops
  <2>2. CASE CardBroken
    BY <2>1, <2>2 DEF CardBroken
  <2>3. CASE CardCompiled
    BY <2>1, <2>3 DEF CardCompiled
  <2> QED BY <2>2, <2>3
<1>2. /\ pc = "idle" /\ Len(outcomes) < Len(cards)
      /\ UNCHANGED <<root, files, pc, run, dir, log>>
  BY DEF CardBroken, CardCompiled, Due, dirVars
<1>3. /\ outcomes' \in Seq(Outcomes) /\ Len(outcomes') = Len(outcomes) + 1
      /\ outcomes'[Len(outcomes) + 1] = outcome
      /\ \A i \in 1..Len(outcomes) : outcomes'[i] = outcomes[i]
      /\ UNCHANGED <<chain, cards, pinned, compileOnly, first, exitCode>>
  BY <1>1, OneMore DEF ChainInv
<1>4. ChainTypeOK'
  BY <1>3 DEF ChainInv, ChainTypeOK, DirInv
<1>5. Len(outcomes) \in Nat /\ Len(cards) \in Nat
  BY ChainNumbers DEF ChainInv
<1>6. Placed'
  <2>1. first <= run + 1
    BY DEF ChainInv, Placed
  <2> QED BY <1>2, <1>3, <1>5, <2>1 DEF Placed
<1>7. Collected'
  <2>1. SUFFICES ASSUME NEW i \in 1..(Len(outcomes) + 1)
                 PROVE  /\ outcomes'[i].run = Absent => compileOnly \/ outcomes'[i].exit = 1
                        /\ outcomes'[i].run # Absent => CollectedRun(i)'
    BY <1>3 DEF Collected
  <2>2. CASE i = Len(outcomes) + 1
    BY <1>1, <1>3, <2>2
  <2>3. CASE i \in 1..Len(outcomes)
    BY <1>2, <1>3, <2>3 DEF ChainInv, Collected, CollectedRun, Alone, ExitOf
  <2> QED BY <1>5, <2>1, <2>2, <2>3
<1>8. Numbered'
  <2>1. Len(outcomes') \in 1..Len(outcomes') /\ outcomes'[Len(outcomes')].run = Absent
    BY <1>1, <1>3, <1>5
  <2> QED BY <2>1 DEF Numbered, AllRan
<1> QED BY <1>4, <1>6, <1>7, <1>8 DEF ChainInv

LEMMA ReturnsKeeps ==
  ASSUME DirInv, DirInv', ChainInv, CardReturns
  PROVE  ChainInv'
<1> DEFINE outcome == [run |-> run, status |-> log[run].final, exit |-> ExitOf(log[run].final)]
<1>1. chain = "running" /\ Return /\ Collect(outcome)
  BY DEF CardReturns
<1>2. /\ SameRuns /\ pc # "idle" /\ pc' = "idle" /\ run \in Runs
      /\ log'[run].returned /\ log'[run].final = log[run].final
      /\ log[run].final \in Verdicts
  BY <1>1, ReturnEnds
<1>3. outcome \in Outcomes
  BY <1>2 DEF Outcomes, ExitOf
<1>4. /\ outcomes' \in Seq(Outcomes) /\ Len(outcomes') = Len(outcomes) + 1
      /\ outcomes'[Len(outcomes) + 1] = outcome
      /\ \A i \in 1..Len(outcomes) : outcomes'[i] = outcomes[i]
      /\ UNCHANGED <<chain, cards, pinned, compileOnly, first, exitCode>>
  <2> HIDE DEF outcome
  <2> QED BY <1>1, <1>3, OneMore DEF ChainInv
<1>5. /\ outcome.run = run /\ outcome.status = log[run].final
      /\ outcome.exit = ExitOf(log[run].final) /\ run # Absent
  BY <1>2, RunsAreNumbers, NamedAssumption
<1> HIDE DEF outcome
<1>6. Len(outcomes) \in Nat /\ Len(cards) \in Nat /\ Len(outcomes) < Len(cards)
  BY <1>1, <1>2, ChainNumbers DEF ChainInv, Placed
<1>7. ChainTypeOK'
  BY <1>4 DEF ChainInv, ChainTypeOK, DirInv
<1>8. Placed'
  <2>1. first <= run + 1
    BY <1>1 DEF ChainInv, Placed
  <2> QED BY <1>1, <1>2, <1>4, <1>6, <2>1 DEF Placed, SameRuns
<1>9. Collected'
  <2>1. SUFFICES ASSUME NEW i \in 1..(Len(outcomes) + 1)
                 PROVE  /\ outcomes'[i].run = Absent => compileOnly \/ outcomes'[i].exit = 1
                        /\ outcomes'[i].run # Absent => CollectedRun(i)'
    BY <1>4 DEF Collected
  <2>2. CASE i = Len(outcomes) + 1
    <3>1. outcomes'[i].run = run /\ outcomes'[i].status = log[run].final
          /\ outcomes'[i].exit = ExitOf(log[run].final)
      BY <1>4, <1>5, <2>2
    <3>2. run \in first..run
      BY <1>1, <1>2, ChainNumbers DEF ChainInv, Placed
    <3>3. log'[run].task = cards[i] /\ log'[run].dir \in Named
      BY <1>1, <1>2, <2>2 DEF ChainInv, Placed, Card, SameRuns
    <3>4. Alone(run)'
      <4>1. SUFFICES ASSUME NEW q \in Runs, q > run
                     PROVE  log'[q].dir # log'[run].dir
        BY <1>2 DEF Alone, SameRuns
      <4>2. NotStarted.dir = Absent
        BY DEF NotStarted
      <4>3. log[q].dir = Absent /\ log[run].dir \in Dirs
        <5>1. DirInv /\ Decided /\ q > run
          BY <4>1 DEF DirInv
        <5> QED BY <1>2, <4>2, <5>1, RunsAreNumbers DEF Decided
      <4> QED BY <1>2, <4>1, <4>3, AbsentIsNoDirectory DEF SameRuns
    <3> QED BY <1>2, <1>4, <1>5, <3>1, <3>2, <3>3, <3>4 DEF CollectedRun, SameRuns, ExitOf
  <2>3. CASE i \in 1..Len(outcomes)
    <3>1. /\ outcomes[i].run = Absent => compileOnly \/ outcomes[i].exit = 1
          /\ outcomes[i].run # Absent => CollectedRun(i)
      BY <2>3 DEF ChainInv, Collected
    <3>2. outcomes[i].run # Absent => outcomes[i].run \in Runs
      BY <3>1, ChainNumbers DEF ChainInv, CollectedRun
    <3>3. outcomes'[i] = outcomes[i]
      BY <1>4, <2>3
    <3>4. ASSUME outcomes[i].run # Absent
          PROVE  log'[outcomes[i].run] = log[outcomes[i].run] /\ Alone(outcomes[i].run)'
      <4>1. outcomes[i].run \in Runs /\ log[outcomes[i].run].returned /\ Alone(outcomes[i].run)
        BY <3>1, <3>2, <3>4 DEF CollectedRun
      <4>2. log'[outcomes[i].run] = log[outcomes[i].run]
        BY <1>2, <4>1 DEF SameRuns
      <4>3. \A q \in Runs : log'[q].dir = log[q].dir
        BY <1>2 DEF SameRuns
      <4> QED BY <1>4, <3>3, <4>1, <4>2, <4>3 DEF Alone
    <3> QED BY <1>2, <1>4, <3>1, <3>4, <3>3 DEF CollectedRun, SameRuns, ExitOf
  <2> QED BY <1>6, <2>1, <2>2, <2>3
<1>10. Numbered'
  <2>1. SUFFICES ASSUME AllRan'
                 PROVE  /\ \A i \in 1..(Len(outcomes) + 1) : outcomes'[i].run = first + i - 1
                        /\ run = first + (Len(outcomes) + 1) - 1
    BY <1>2, <1>4 DEF Numbered, SameRuns
  <2>2. AllRan
    BY <1>4, <1>6, <2>1 DEF AllRan
  <2>3. /\ \A i \in 1..Len(outcomes) : outcomes[i].run = first + i - 1
        /\ run = first + Len(outcomes)
    BY <1>1, <1>2, <1>6, <2>2, ChainNumbers DEF ChainInv, Numbered
  <2>4. first \in Nat /\ run \in Nat
    BY ChainNumbers DEF ChainInv
  <2>5. ASSUME NEW i \in 1..(Len(outcomes) + 1)
        PROVE  outcomes'[i].run = first + i - 1
    <3>1. CASE i = Len(outcomes) + 1
      BY <1>4, <1>5, <1>6, <2>3, <2>4, <3>1
    <3>2. CASE i \in 1..Len(outcomes)
      BY <1>4, <2>3, <3>2
    <3> QED BY <1>6, <2>5, <3>1, <3>2
  <2> QED BY <1>6, <2>3, <2>4, <2>5
<1> QED BY <1>7, <1>8, <1>9, <1>10 DEF ChainInv

-------------------------------------------------------------------------------
LEMMA ChainInitInv ==
  ASSUME ChainInit
  PROVE  DirInv /\ ChainInv
<1>1. DirInv
  BY InitiallyInv DEF ChainInit
<1>2. Len(<<>>) = 0 /\ <<>> \in Seq(Outcomes)
  OBVIOUS
<1>3. ChainTypeOK
  <2>1. DirTypeOK /\ first \in 1..(MaxRuns + 1)
    BY <1>1, BoundsAssumption DEF ChainInit, DirInv
  <2>2. cards \in CardLists \cup {<<>>} /\ outcomes \in Seq(Outcomes)
    BY <1>2 DEF ChainInit
  <2> QED BY <2>1, <2>2 DEF ChainInit, ChainTypeOK
<1>4. Placed /\ Collected /\ Numbered
  BY <1>2 DEF ChainInit, Placed, Collected, Numbered
<1> QED BY <1>1, <1>3, <1>4 DEF ChainInv

LEMMA ChainStepKeepsInv ==
  ASSUME DirInv, ChainInv, [ChainNext]_vars
  PROVE  DirInv' /\ ChainInv' /\ [DirNext]_dirVars
<1>1. [DirNext]_dirVars
  BY ChainStepIsDirStep DEF ChainInv
<1>2. DirInv'
  BY <1>1, DirStepKeepsInv
<1>3. CASE chain = "running" /\ ChainStep
  <2>1. CASE CardBroken \/ CardCompiled
    BY <1>1, <1>2, <1>3, <2>1, NotRunKeeps
  <2>2. CASE ExecuteCard
    BY <1>1, <1>2, <1>3, <2>2, ExecuteKeeps
  <2>3. CASE CardReturns
    BY <1>1, <1>2, <2>3, ReturnsKeeps
  <2>4. CASE EndChain
    BY <1>1, <1>2, <2>4, EndKeeps
  <2>5. CASE RunStep /\ UNCHANGED chainVars
    BY <1>1, <1>2, <1>3, <2>5, RunOfChainKeeps
  <2> QED BY <1>1, <1>2, <1>3, <2>1, <2>2, <2>3, <2>4, <2>5 DEF ChainStep
<1>4. CASE StartChain \/ RestartChain \/ LoseChain \/ SingleRun \/ UNCHANGED vars
  <2>1. CASE StartChain \/ RestartChain
    BY <1>1, <1>2, <2>1, StartKeeps
  <2>2. CASE LoseChain \/ SingleRun
    BY <1>1, <1>2, <2>2, LoseKeeps
  <2>3. CASE UNCHANGED vars
    BY <1>1, <1>2, <2>3, ChainStutterKeeps
  <2> QED BY <1>1, <1>2, <1>4, <2>1, <2>2, <2>3
<1> QED BY <1>1, <1>2, <1>3, <1>4 DEF ChainNext

(***************************************************************************)
(* The runs of a chain, and those the operator starts instead, behave as   *)
(* RunDirectory says, so that its theorems are theorems of the chain.      *)
(***************************************************************************)
THEOREM ChainInvariance == ChainSpec => [](DirInv /\ ChainInv) /\ DirSpec
<1>1. ChainInit => DirInit
  BY DEF ChainInit
<1> QED BY <1>1, ChainInitInv, ChainStepKeepsInv, PTL DEF ChainSpec, DirSpec

(***************************************************************************)
(* Type correctness of the chain.                                          *)
(***************************************************************************)
THEOREM ChainTypes == ChainSpec => []ChainTypeOK
BY ChainInvariance, PTL DEF ChainInv

(***************************************************************************)
(* A chain of any length that exits with 0 rests on one run for each card, *)
(* in their order, returned with a success of its validator.               *)
(***************************************************************************)
THEOREM GreenChain == ChainSpec => []GreenChainIsJudged
<1>1. ASSUME DirInv, ChainInv, chain = "ended", exitCode = 0, ~compileOnly
      PROVE  /\ Len(outcomes) = Len(cards) /\ cards # <<>>
             /\ \A i \in 1..Len(cards) :
                  LET r == outcomes[i].run
                  IN  /\ r = first + i - 1
                      /\ log[r].task = cards[i]
                      /\ log[r].returned
                      /\ log[r].validator = outcomes[i].status
  <2>1. /\ Len(outcomes) = Len(cards) /\ cards # <<>>
        /\ \A i \in 1..Len(outcomes) : outcomes[i].exit = 0
    BY <1>1 DEF ChainInv, Placed, ChainExit
  <2>2. \A i \in 1..Len(outcomes) : outcomes[i].run # Absent /\ CollectedRun(i)
    BY <1>1, <2>1 DEF ChainInv, Collected
  <2>3. \A i \in 1..Len(outcomes) : outcomes[i].run = first + i - 1
    BY <1>1, <2>2 DEF ChainInv, Numbered, AllRan
  <2>4. ASSUME NEW i \in 1..Len(outcomes)
        PROVE  log[outcomes[i].run].validator = outcomes[i].status
    <3>1. outcomes[i].status \in Successes /\ log[outcomes[i].run].final = outcomes[i].status
      BY <2>1, <2>2, <2>4 DEF CollectedRun, ExitOf
    <3>2. outcomes[i].run \in Runs
      BY <1>1, <2>2, <2>4, ChainNumbers DEF CollectedRun, ChainInv
    <3>3. Absent \notin Successes /\ "BLOCK" \notin Successes
      BY FlagsAssumption DEF Successes, Verdicts
    <3> QED BY <1>1, <3>1, <3>2, <3>3 DEF DirInv, Decided
  <2> QED BY <2>1, <2>2, <2>3, <2>4 DEF CollectedRun
<1>2. DirInv /\ ChainInv => GreenChainIsJudged
  BY <1>1 DEF GreenChainIsJudged
<1> QED BY <1>2, ChainInvariance, PTL

(***************************************************************************)
(* Whatever a chain has collected is on disk with the same answer.         *)
(***************************************************************************)
THEOREM CollectedOnDisk == ChainSpec => []CollectedIsOnDisk
<1>1. ASSUME DirInv, ChainInv, NEW i \in 1..Len(outcomes), outcomes[i].run # Absent
      PROVE  LET r == outcomes[i].run
             IN  /\ log[r].returned /\ log[r].final = outcomes[i].status
                 /\ pinned \/ LastInDirectory(r)
                 /\ LastInDirectory(r) /\ log[r].task.required \subseteq Listing(log[r].dir)
                      => (Accepts(log[r].dir) <=> outcomes[i].exit = 0)
  <2>1. CollectedRun(i) /\ outcomes[i].run \in Runs
    BY <1>1, ChainNumbers DEF ChainInv, Collected, CollectedRun
  <2>2. pinned \/ LastInDirectory(outcomes[i].run)
    BY <2>1 DEF CollectedRun, Alone, LastInDirectory
  <2>3. outcomes[i].exit = 0 <=> log[outcomes[i].run].final \in Successes
    <3>1. outcomes[i].exit = ExitOf(log[outcomes[i].run].final)
      BY <2>1 DEF CollectedRun
    <3>2. \A status : ExitOf(status) = 0 <=> status \in Successes
      BY DEF ExitOf, Successes
    <3> QED BY <3>1, <3>2
  <2>4. ReturnedDirectoryAgrees
    BY <1>1, ReturnedFollows
  <2>5. log[outcomes[i].run].dir \notin foreign
    BY <1>1, <2>1, AbsentIsNoDirectory DEF CollectedRun, DirInv, DirTypeOK
  <2> QED BY <2>1, <2>2, <2>3, <2>4, <2>5 DEF CollectedRun, ReturnedDirectoryAgrees
<1>2. DirInv /\ ChainInv => CollectedIsOnDisk
  BY <1>1 DEF CollectedIsOnDisk
<1> QED BY <1>2, ChainInvariance, PTL

(***************************************************************************)
(* The theorems about single directories hold of chains.                   *)
(***************************************************************************)
THEOREM ChainFilesJudged ==
  ChainSpec =>
    /\ [](AcceptedIsJudged /\ SuccessInFilesIsJudged)
    /\ [](ReturnedDirectoryAgrees /\ FirstInDirectory)
    /\ PackKeepsAnswer
BY ChainInvariance, AcceptedJudged, FilesJudged, ReturnedAgrees, FirstThere, AnswerStays, PTL
=============================================================================
