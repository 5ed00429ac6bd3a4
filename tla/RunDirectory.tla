---------------------------- MODULE RunDirectory ----------------------------
(***************************************************************************)
(* The directories of the artifacts root and the files a reader later      *)
(* trusts.  Runs write them one after another: createExecutionContext      *)
(* takes or reuses a directory, PipelineController.run writes a            *)
(* provisional and a final bundle around the validator's own files,        *)
(* TaskRunner.execute runs the extended stages, and finalizeEvidencePack   *)
(* writes most of it again.  validateRunDir reads a directory at any       *)
(* moment, also one whose run has died in the middle of a file.            *)
(*                                                                         *)
(* The retries, the workspace and the rollback are in TaskRun.  Here the   *)
(* loop is one step that ends with a flag or without one, and log keeps    *)
(* what was decided in each run, to compare the files with.                *)
(*                                                                         *)
(* Other processes may use the same root.  They list it, make a directory  *)
(* and write there at any moment; pending and foreign are what they hold.  *)
(***************************************************************************)
EXTENDS Naturals, FiniteSets

CONSTANTS
  Absent,
  MaxRuns,  \* how many runs are started, those of other processes included
  MaxSeq,   \* the highest number of a directory
  Named,    \* run ids that a configuration names
  Tasks,    \* tasks: their mode and required evidence
  Flags,    \* flags the loop of attempts ends with
  ForeignNames  \* the files other processes are seen to write

ASSUME BoundsAssumption == MaxRuns \in Nat /\ MaxSeq \in Nat

Runs == 1..MaxRuns

Numbers == 1..MaxSeq

Dirs == Numbers \cup Named

ASSUME NamedAssumption == Named \cap Nat = {} /\ Absent \notin Named /\ Absent \notin Nat

\* The files that carry a status, the checks or the task.  final-report.html
\* stands for execution.log, test-results.json, recovery.json and summary.html too,
\* summary.md for the rest of the bundle.
BundleNames == {"run-manifest.json", "status.json", "task.json", "summary.md"}

Names == BundleNames \cup {"validation-results.json", "validator-verdict.json",
                           "scenario.json", "result.json", "validation.json",
                           "final-report.html", "evidence-manifest.json", "report.json"}

ASSUME ForeignAssumption == ForeignNames \subseteq Names

Modes == {"baseline", "acceptance"}

\* other.txt stands for a required file that no step writes.
ASSUME TasksAssumption ==
  \A t \in Tasks : t.mode \in Modes /\ t.required \subseteq Names \cup {"other.txt"}

Successes == {"PASS", "BASELINE_BLOCKED_EXPECTED"}

Stops == {"AUTH_REQUIRED", "CLIENT_DECISION", "BLOCK"}

Verdicts == Successes \cup Stops

ASSUME FlagsAssumption == Flags \subseteq Stops /\ Absent \notin Verdicts

\* The checks of a run: none, all of them PASS, or not (a FAIL or an ERROR).
CheckLists == {"none", "passed", "failed"}

\* run is the writer, 0 in another process; a torn file is one whose writer died in
\* the middle.
Contents == [run : Runs \cup {0}, status : Verdicts \cup {Absent},
             checks : CheckLists, torn : BOOLEAN]

ASSUME AbsentAssumption == Absent \notin Contents

VARIABLES
  root,     \* the directories that exist
  files,    \* files[d][name], Absent if there is none
  pc,       \* place of the running process
  run,      \* number of the last run
  dir,      \* its directory
  log,      \* what was decided in each run
  strangers,  \* how many runs other processes have started
  pending,  \* numbers other processes have found free, the directory not yet made
  foreign   \* directories other processes have taken

others == <<strangers, pending, foreign>>

dirVars == <<root, files, pc, run, dir, log, others>>

\* contended: a listing had failed, or that of another process and the one of this
\* run were both taken before the directory of either was made.
Records == [task : Tasks \cup {Absent}, dir : Dirs \cup {Absent}, contended : BOOLEAN,
            stop : Stops \cup {Absent}, checks : CheckLists,
            validator : Verdicts \cup {Absent}, status : Verdicts \cup {Absent},
            final : Verdicts \cup {Absent}, returned : BOOLEAN]

NotStarted == [task |-> Absent, dir |-> Absent, contended |-> FALSE,
               stop |-> Absent, checks |-> "none", validator |-> Absent,
               status |-> Absent, final |-> Absent, returned |-> FALSE]

\* The file that is written at a place; 1 is the provisional bundle and the
\* validator, 2 the final bundle, 3 the pack.
NameAt ==
  [manifest1   |-> "run-manifest.json",       status1   |-> "status.json",
   task1       |-> "task.json",               summary1  |-> "summary.md",
   results1    |-> "validation-results.json", verdict1  |-> "validator-verdict.json",
   manifest2   |-> "run-manifest.json",       status2   |-> "status.json",
   task2       |-> "task.json",               summary2  |-> "summary.md",
   task3       |-> "task.json",               scenario3 |-> "scenario.json",
   result3     |-> "result.json",             validation3 |-> "validation.json",
   results3    |-> "validation-results.json", verdict3  |-> "validator-verdict.json",
   page3       |-> "final-report.html",       status3   |-> "status.json",
   catalog3    |-> "evidence-manifest.json",  report    |-> "report.json"]

WritePlaces == {"manifest1", "status1", "task1", "summary1", "results1", "verdict1",
                "manifest2", "status2", "task2", "summary2",
                "task3", "scenario3", "result3", "validation3", "results3", "verdict3",
                "page3", "status3", "catalog3", "report"}

Places == WritePlaces \cup {"idle", "make", "agent", "validate", "settle", "extended",
                            "return"}

DirTypeOK ==
  /\ root \subseteq Dirs
  /\ files \in [Dirs -> [Names -> Contents \cup {Absent}]]
  /\ pc \in Places
  /\ run \in 0..MaxRuns
  /\ pc # "idle" => run \in Runs /\ dir \in Dirs
  /\ log \in [Runs -> Records]
  /\ strangers \in 0..MaxRuns
  /\ pending \subseteq Numbers /\ foreign \subseteq Numbers

DirInit ==
  /\ root = {}
  /\ files = [d \in Dirs |-> [n \in Names |-> Absent]]
  /\ pc = "idle"
  /\ run = 0
  /\ dir = Absent
  /\ log = [r \in Runs |-> NotStarted]
  /\ strangers = 0 /\ pending = {} /\ foreign = {}

-------------------------------------------------------------------------------
(***************************************************************************)
(* The run id, and the directory of the run.                               *)
(***************************************************************************)
\* Mutant: a number that is already there is not passed over.
NextSeqTaken ==
  CHOOSE n \in 1..(MaxSeq + 1) :
    /\ n = 1 \/ n \in root
    /\ \A m \in root \cap Numbers : m <= n

NextSeq ==
  CHOOSE n \in 1..(MaxSeq + 1) :
    /\ \A m \in root \cap Numbers : m < n
    /\ n = 1 \/ n - 1 \in root

Begin(t, d, contended) ==
  /\ pc = "idle"
  /\ run + strangers < MaxRuns
  /\ run' = run + 1
  /\ dir' = d
  /\ log' = [log EXCEPT ![run + 1] = [NotStarted EXCEPT !.task = t, !.dir = d,
                                                        !.contended = contended]]
  /\ pc' = "make"
  /\ UNCHANGED <<root, files, others>>

\* createRunId lists the root; without a list it starts from 1, which is what an
\* empty root gives too.
BeginListed(t) ==
  \/ NextSeq \in Numbers /\ Begin(t, NextSeq, pending # {})
  \/ NextSeq # 1 /\ 1 \in Numbers /\ Begin(t, 1, TRUE)

\* PIPELINE_RUN_ID, or the id of a slot of the long chain.
BeginNamed(t, d) == d \in Named /\ Begin(t, d, FALSE)

\* mkdirSync with recursive, which takes a directory that is there as its own.
MakeDirectory ==
  /\ pc = "make"
  /\ root' = root \cup {dir}
  /\ pc' = "agent"
  /\ UNCHANGED <<files, run, dir, log, others>>

-------------------------------------------------------------------------------
(***************************************************************************)
(* Other processes on the same root: createRunId, the mkdir, and whatever  *)
(* files a run writes.  What is in their files is left open.               *)
(***************************************************************************)
Contend(r) == [log[r] EXCEPT !.contended = TRUE]

OtherBegins(d) ==
  /\ run + strangers < MaxRuns
  /\ strangers' = strangers + 1
  /\ pending' = pending \cup {d}
  /\ UNCHANGED <<root, files, pc, run, dir, foreign>>

OtherLists ==
  /\ NextSeq \in Numbers /\ OtherBegins(NextSeq)
  /\ log' = [r \in Runs |-> IF r = run /\ pc = "make" THEN Contend(r) ELSE log[r]]

\* Its listing fails, and it takes 1.
OtherListsNothing ==
  /\ NextSeq # 1 /\ 1 \in Numbers /\ OtherBegins(1)
  /\ log' = [r \in Runs |-> IF log[r].dir = 1 THEN Contend(r) ELSE log[r]]

OtherMakes ==
  \E d \in pending :
    /\ pending' = pending \ {d}
    /\ root' = root \cup {d}
    /\ foreign' = foreign \cup {d}
    /\ UNCHANGED <<files, pc, run, dir, log, strangers>>

OtherWrites ==
  \E d \in foreign, name \in ForeignNames :
    /\ files' = [files EXCEPT ![d][name] = [run |-> 0, status |-> Absent, checks |-> "none",
                                            torn |-> FALSE]]
    /\ UNCHANGED <<root, pc, run, dir, log, others>>

OtherProcess == OtherLists \/ OtherListsNothing \/ OtherMakes \/ OtherWrites

-------------------------------------------------------------------------------
(***************************************************************************)
(* One run.  Put writes the file of a place and goes on to the next one.   *)
(***************************************************************************)
Put(place, status, checks, next) ==
  /\ pc = place
  /\ files' = [files EXCEPT ![dir][NameAt[place]] =
                 [run |-> run, status |-> status, checks |-> checks, torn |-> FALSE]]
  /\ pc' = next
  /\ UNCHANGED <<root, run, dir, log, others>>

Note(place, record, next) ==
  /\ pc = place
  /\ log' = [log EXCEPT ![run] = record]
  /\ pc' = next
  /\ UNCHANGED <<root, files, run, dir, others>>

\* The loop of agent attempts, with the flag it ends with.
LoopEnds ==
  \E stop \in Flags \cup {Absent} :
    Note("agent", [log[run] EXCEPT !.stop = stop], "manifest1")

\* A safe stop: one bundle, no validator.
SafeStop ==
  Note("agent", [log[run] EXCEPT !.stop = "BLOCK", !.status = "BLOCK"], "manifest2")

ProvisionalStatus ==
  IF log[run].stop \in {"AUTH_REQUIRED", "CLIENT_DECISION"} THEN log[run].stop
  ELSE "BLOCK"

\* Mutant: the provisional bundle leaves status.json to the final one.
ProvisionalBundleWithoutStatus ==
  \/ Put("manifest1", ProvisionalStatus, "none", "task1")
  \/ Put("task1", Absent, "none", "summary1")
  \/ Put("summary1", ProvisionalStatus, "none", "validate")

ProvisionalBundle ==
  \/ Put("manifest1", ProvisionalStatus, "none", "status1")
  \/ Put("status1", ProvisionalStatus, "none", "task1")
  \/ Put("task1", Absent, "none", "summary1")
  \/ Put("summary1", ProvisionalStatus, "none", "validate")

\* The check of the acceptance tests, if they ran, is to fail in baseline mode.
TestsFail(mode, exit) == exit = (IF mode = "baseline" THEN "zero" ELSE "nonzero")

DecideStatus(task, checks, exit) ==
  IF task.mode = "baseline"
    THEN IF task.required \subseteq BundleNames /\ exit # "zero"
           THEN "BASELINE_BLOCKED_EXPECTED" ELSE "BLOCK"
    ELSE IF checks = "passed" THEN "PASS" ELSE "BLOCK"

\* A task has at least one step, so that there is always a result.
Validate ==
  \E found \in {"passed", "failed"}, exit \in {"none", "zero", "nonzero"} :
    LET task == log[run].task
        checks == IF TestsFail(task.mode, exit) THEN "failed" ELSE found
    IN  Note("validate",
             [log[run] EXCEPT !.checks = checks,
                              !.validator = DecideStatus(task, checks, exit)],
             "results1")

ValidatorFiles ==
  \/ Put("results1", Absent, log[run].checks, "verdict1")
  \/ Put("verdict1", log[run].validator, log[run].checks, "settle")

\* Mutant: the validator's word stands against a flag.
SettleUnflagged ==
  Note("settle", [log[run] EXCEPT !.status = log[run].validator], "manifest2")

\* A flag of the loop overrides the validator.
Settle ==
  Note("settle",
       [log[run] EXCEPT !.status = IF log[run].stop = Absent THEN log[run].validator
                                   ELSE log[run].stop],
       "manifest2")

FinalBundle ==
  \/ Put("manifest2", log[run].status, "none", "status2")
  \/ Put("status2", log[run].status, "none", "task2")
  \/ Put("task2", Absent, "none", "summary2")
  \/ Put("summary2", log[run].status, "none", "extended")

\* The load and red-team stages keep the status or block it.
ExtendedStages ==
  \E blocks \in BOOLEAN :
    Note("extended",
         [log[run] EXCEPT !.final = IF blocks THEN "BLOCK" ELSE log[run].status],
         "task3")

\* writeScenarioJson: the runner gives it no scenario, and one that is there stays.
WriteScenario ==
  /\ pc = "scenario3"
  /\ \/ /\ files[dir]["scenario.json"] = Absent
        /\ Put("scenario3", Absent, "none", "result3")
     \/ /\ files[dir]["scenario.json"] # Absent
        /\ Note("scenario3", log[run], "result3")

\* Mutant: the list of the checks is written before validation.json.
FinalizePackResultsFirst ==
  \/ Put("task3", Absent, "none", "scenario3")
  \/ WriteScenario
  \/ Put("result3", log[run].final, log[run].checks, "results3")
  \/ Put("results3", Absent, log[run].checks, "validation3")
  \/ Put("validation3", log[run].final, log[run].checks, "verdict3")
  \/ Put("verdict3", log[run].final, log[run].checks, "page3")
  \/ Put("page3", log[run].final, log[run].checks, "status3")
  \/ Put("status3", log[run].final, "none", "catalog3")
  \/ Put("catalog3", log[run].final, "none", "report")

\* Mutant: validator-verdict.json keeps what the validator wrote.
FinalizePackKeepingVerdict ==
  \/ Put("task3", Absent, "none", "scenario3")
  \/ WriteScenario
  \/ Put("result3", log[run].final, log[run].checks, "validation3")
  \/ Put("validation3", log[run].final, log[run].checks, "results3")
  \/ Put("results3", Absent, log[run].checks, "page3")
  \/ Put("page3", log[run].final, log[run].checks, "status3")
  \/ Put("status3", log[run].final, "none", "catalog3")
  \/ Put("catalog3", log[run].final, "none", "report")

\* finalizeEvidencePack; summary.md is there.
FinalizePack ==
  \/ Put("task3", Absent, "none", "scenario3")
  \/ WriteScenario
  \/ Put("result3", log[run].final, log[run].checks, "validation3")
  \/ Put("validation3", log[run].final, log[run].checks, "results3")
  \/ Put("results3", Absent, log[run].checks, "verdict3")
  \/ Put("verdict3", log[run].final, log[run].checks, "page3")
  \/ Put("page3", log[run].final, log[run].checks, "status3")
  \/ Put("status3", log[run].final, "none", "catalog3")
  \/ Put("catalog3", log[run].final, "none", "report")

WriteReport == Put("report", log[run].final, log[run].checks, "return")

Return == Note("return", [log[run] EXCEPT !.returned = TRUE], "idle")

\* A call throws, or the process dies, perhaps in the middle of a file.
Dies ==
  /\ pc # "idle"
  /\ \/ UNCHANGED files
     \/ /\ pc \in WritePlaces
        /\ pc = "scenario3" => files[dir]["scenario.json"] = Absent
        /\ files' = [files EXCEPT ![dir][NameAt[pc]] =
                       [run |-> run, status |-> Absent, checks |-> "none", torn |-> TRUE]]
  /\ pc' = "idle"
  /\ UNCHANGED <<root, run, dir, log, others>>

RunStep ==
  \/ MakeDirectory
  \/ LoopEnds \/ SafeStop \/ ProvisionalBundle
  \/ Validate \/ ValidatorFiles \/ Settle \/ FinalBundle
  \/ ExtendedStages \/ FinalizePack \/ WriteReport

DirNext ==
  \/ \E t \in Tasks : BeginListed(t) \/ \E d \in Named : BeginNamed(t, d)
  \/ RunStep \/ Return \/ Dies
  \/ OtherProcess

DirSpec == DirInit /\ [][DirNext]_dirVars

-------------------------------------------------------------------------------
(***************************************************************************)
(* validateRunDir: whether the artifact validator accepts a directory      *)
(* (exit code 0).  Of the files it looks only at what is in them now.      *)
(***************************************************************************)
Readable(d, name) == files[d][name] # Absent /\ ~files[d][name].torn

Listing(d) == {n \in Names : files[d][n] # Absent}

Required(d) ==
  IF Readable(d, "task.json") /\ log[files[d]["task.json"].run].task.required # {}
    THEN log[files[d]["task.json"].run].task.required
    ELSE {"run-manifest.json", "status.json", "summary.md"}

AuditedName(d) ==
  IF Readable(d, "validation-results.json") THEN "validation-results.json"
  ELSE "validation.json"

Audit(d) == files[d][AuditedName(d)]

Accepts(d) ==
  /\ Readable(d, "status.json")
  /\ Required(d) \subseteq Listing(d)
  /\ files[d]["status.json"].status \in Successes
  /\ files[d]["status.json"].status = "PASS"
       => /\ Readable(d, AuditedName(d))
          /\ Audit(d).checks = "passed"

-------------------------------------------------------------------------------
(***************************************************************************)
(* Properties                                                              *)
(***************************************************************************)

(***************************************************************************)
(* Whenever the artifact validator accepts a directory, finished or not,   *)
(* rerun or not, and no other process has taken it: the run whose status   *)
(* it reads was judged so by its own validator, no flag of its loop stood  *)
(* against it, it worked in this directory, and the checks that are        *)
(* audited are the ones of this run.                                       *)
(***************************************************************************)
AcceptedIsJudged ==
  \A d \in Dirs \ foreign :
    Accepts(d) =>
      LET file == files[d]["status.json"]
      IN  /\ log[file.run].validator = file.status
          /\ log[file.run].stop = Absent
          /\ log[file.run].dir = d
          /\ Readable(d, AuditedName(d)) /\ Audit(d).run = file.run
          /\ Audit(d).checks = log[file.run].checks

(***************************************************************************)
(* A success in any file is one the validator gave the run that wrote it.  *)
(* Against a flag only validator-verdict.json can show it, which the       *)
(* validator writes before the flags are looked at, and no longer once the *)
(* run has returned.                                                       *)
(***************************************************************************)
SuccessInFilesIsJudged ==
  \A d \in Dirs \ foreign, n \in Names :
    files[d][n] # Absent /\ files[d][n].status \in Successes =>
      LET record == log[files[d][n].run]
      IN  /\ files[d][n].status = record.validator
          /\ n # "validator-verdict.json" \/ record.returned => record.stop = Absent

(***************************************************************************)
(* What a run that returned has left in its directory is of one piece      *)
(* until a later run or another process enters it: every file is its own   *)
(* and complete, all of them but those of the bundle show its last status, *)
(* and the artifact validator gives the same answer as the run, unless a   *)
(* file is required that no step writes.  The one exception is             *)
(* scenario.json: it is of the first run that came as far in this          *)
(* directory, complete or not.                                             *)
(***************************************************************************)
LastInDirectory(r) == \A q \in Runs : q > r => log[q].dir # log[r].dir

LastStatus(r, n) ==
  IF n \in {"run-manifest.json", "summary.md"} THEN log[r].status ELSE log[r].final

CameToPack(q, d) == log[q].dir = d /\ log[q].final # Absent

ScenarioIsFirst(r, d) ==
  LET scenario == files[d]["scenario.json"]
  IN  /\ scenario # Absent
      /\ \/ scenario.run = r /\ ~scenario.torn
         \/ scenario.run \in 1..(r - 1) /\ CameToPack(scenario.run, d)

ReturnedDirectoryAgrees ==
  \A r \in Runs :
    log[r].returned /\ LastInDirectory(r) /\ log[r].dir \notin foreign =>
      LET d == log[r].dir
      IN  /\ \A n \in Listing(d) \ {"scenario.json"} :
               /\ files[d][n].run = r /\ ~files[d][n].torn
               /\ files[d][n].status \in {Absent, LastStatus(r, n)}
          /\ ScenarioIsFirst(r, d)
          /\ Accepts(d) <=> /\ log[r].final \in Successes
                            /\ log[r].task.required \subseteq Listing(d)

(***************************************************************************)
(* While the pack is written again over the files of the run, up to        *)
(* status.json, an accepting answer stays one: at no moment, and at no     *)
(* place where the process dies in the middle of a file, does a reader     *)
(* miss the checks behind a PASS.                                          *)
(***************************************************************************)
PackPlaces == {"task3", "scenario3", "result3", "validation3", "results3", "verdict3", "page3"}

PackKeepsAnswer ==
  [][(dir \notin foreign' /\ pc \in PackPlaces /\ Accepts(dir)) => Accepts(dir)']_dirVars

(***************************************************************************)
(* A run whose number comes from a listing is alone in its directory and   *)
(* the first there, as long as no listing fails and no other process lists *)
(* the root between the listing and the mkdir of this run, nor this run    *)
(* between those of another: neither the mkdir nor any later step looks    *)
(* whether somebody is there.  Elsewhere a run meets the files of another  *)
(* only under an id that the configuration names.                          *)
(***************************************************************************)
FirstInDirectory ==
  pc # "idle" /\ dir \notin Named /\ ~log[run].contended =>
    /\ pc = "make" => dir \notin root
    /\ dir \notin pending \cup foreign
    /\ \A n \in Listing(dir) : files[dir][n].run = run
=============================================================================
