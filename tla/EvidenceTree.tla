---------------------------- MODULE EvidenceTree ----------------------------
(***************************************************************************)
(* The evidence of the checks and where it is put: validation/ and         *)
(* api-responses/, which the checks write, and api/, graphql/, playwright/ *)
(* and database/, which finalizeEvidencePack fills from them               *)
(* (src/validator/checks, src/evidence/evidence-pack.ts).                  *)
(*                                                                         *)
(* The directory is one that several runs use after each other, as with a  *)
(* configured run id.  A run may die at any moment, also in the middle of  *)
(* a file; an error that leaves the validator or the pack is the same.     *)
(* Status files are in RunDirectory, the meaning of a check in Validation. *)
(***************************************************************************)
EXTENDS Naturals, Sequences

CONSTANTS
  Absent,
  Journal,   \* playwright-results.json
  MaxRuns,   \* how many runs use the directory
  Checks,    \* names of checks
  KindOf,    \* what a check of this name does
  WordsOf,   \* the words the pack looks for that are in the name; "api" stands
             \* for health, api and http, "browser" for journey and playwright too
  Tasks      \* the sequences of checks; a name may come twice in one

Kinds == {"network", "journey", "other"}

Words == {"graphql", "database", "sql", "postgres", "browser", "order", "api"}

ASSUME CheckAssumption ==
  /\ MaxRuns \in Nat
  /\ Journal \notin Checks
  /\ KindOf \in [Checks -> Kinds]
  /\ WordsOf \in [Checks -> SUBSET Words]
  /\ Tasks \subseteq Seq(Checks) \ {<<>>}

Runs == 1 .. MaxRuns

Statuses == {"PASS", "FAIL", "ERROR"}

\* A file shows the status a run gave to a check, or breaks off.
Files == [run : Runs, shows : Statuses \cup {"torn"}]

ASSUME FilesAssumption == Absent \notin Files /\ Absent \notin Tasks

Torn(file) == [file EXCEPT !.shows = "torn"]

Buckets == {"api", "graphql", "playwright", "database"}

VARIABLES
  pc,
  run,
  task,
  done,         \* how many checks of the task have a result
  at,           \* place in the list of results the pack is going through
  validation,   \* validation/<name>.json
  responses,    \* api-responses/<name>.json
  journal,      \* playwright-results.json
  shelves,      \* <bucket>/<name>.json
  notes,        \* the run that wrote <bucket>/README.md, 0 if none did
  log,          \* log[r]: what the checks of run r returned
  packers       \* the runs that have begun to pack

checkFiles == <<validation, responses, journal>>
packFiles == <<shelves, notes>>
treeVars == <<pc, run, task, done, at, checkFiles, packFiles, log, packers>>

Places == {"idle", "checking", "responding", "collecting", "shelving", "journal",
           "mirroring", "noting", "done"}

Results == [check : Checks, status : Statuses]

TreeTypeOK ==
  /\ pc \in Places
  /\ run \in 0 .. MaxRuns
  /\ task \in Tasks \cup {Absent}
  /\ pc # "idle" => run \in Runs /\ task \in Tasks
  /\ done \in Nat
  /\ at \in Nat \ {0}
  /\ validation \in [Checks -> Files \cup {Absent}]
  /\ responses \in [Checks -> Files \cup {Absent}]
  /\ journal \in Files \cup {Absent}
  /\ shelves \in [Buckets -> [Checks \cup {Journal} -> Files \cup {Absent}]]
  /\ notes \in [Buckets -> 0 .. MaxRuns]
  /\ log \in [Runs -> SUBSET Results]
  /\ packers \subseteq Runs

TreeInit ==
  /\ pc = "idle"
  /\ run = 0
  /\ task = Absent
  /\ done = 0
  /\ at = 1
  /\ validation = [c \in Checks |-> Absent]
  /\ responses = [c \in Checks |-> Absent]
  /\ journal = Absent
  /\ shelves = [b \in Buckets |-> [n \in Checks \cup {Journal} |-> Absent]]
  /\ notes = [b \in Buckets |-> 0]
  /\ log = [r \in Runs |-> {}]
  /\ packers = {}

-------------------------------------------------------------------------------
(***************************************************************************)
(* The checks, one after the other.                                        *)
(***************************************************************************)
Begin ==
  /\ pc \in {"idle", "done"}
  /\ run < MaxRuns
  /\ run' = run + 1
  /\ task' \in Tasks
  /\ done' = 0
  /\ pc' = "checking"
  /\ UNCHANGED <<at, checkFiles, packFiles, log, packers>>

Due == task[done + 1]

Checking == pc = "checking" /\ done < Len(task)

Return(status) ==
  /\ log' = [log EXCEPT ![run] = @ \cup {[check |-> Due, status |-> status]}]
  /\ done' = done + 1
  /\ pc' = "checking"

\* createCheckResult of a check that has no response to keep: one of another
\* kind, one that the network is closed for, or one whose request failed.
RecordResult(status) ==
  /\ Checking
  /\ KindOf[Due] = "network" => status \in {"FAIL", "ERROR"}
  /\ validation' = [validation EXCEPT ![Due] = [run |-> run, shows |-> status]]
  /\ \/ UNCHANGED journal /\ ~(KindOf[Due] = "journey" /\ status = "PASS")
     \/ /\ KindOf[Due] = "journey"
        /\ journal' \in [run : {run}, shows : Statuses \cup {"torn"}]
        /\ status = "PASS" => journal'.shows = "PASS"
  /\ Return(status)
  /\ UNCHANGED <<run, task, at, responses, packFiles, packers>>

\* Mutant: the response is written before the result.
RecordAnswerAfterResponse(status) ==
  /\ Checking
  /\ KindOf[Due] = "network"
  /\ status # "ERROR"
  /\ responses' = [responses EXCEPT ![Due] = [run |-> run, shows |-> status]]
  /\ validation' = [validation EXCEPT ![Due] = [run |-> run, shows |-> status]]
  /\ pc' = "responding"
  /\ UNCHANGED <<run, task, done, at, journal, packFiles, log, packers>>

\* createCheckResult of a request that was answered.
RecordAnswer(status) ==
  /\ Checking
  /\ KindOf[Due] = "network"
  /\ status # "ERROR"
  /\ validation' = [validation EXCEPT ![Due] = [run |-> run, shows |-> status]]
  /\ pc' = "responding"
  /\ UNCHANGED <<run, task, done, at, responses, journal, packFiles, log, packers>>

\* writeApiResponse; the response quotes the result.
WriteApiResponse ==
  /\ pc = "responding"
  /\ responses' = [responses EXCEPT ![Due] = validation[Due]]
  /\ Return(validation[Due].shows)
  /\ UNCHANGED <<run, task, at, validation, journal, packFiles, packers>>

\* Its error, before the file is opened or in the middle of it, is caught like
\* one of the request, and the result written again.
ResponseFails ==
  /\ pc = "responding"
  /\ \/ UNCHANGED responses
     \/ responses' = [responses EXCEPT ![Due] = [run |-> run, shows |-> "torn"]]
  /\ validation' = [validation EXCEPT ![Due] = [run |-> run, shows |-> "ERROR"]]
  /\ Return("ERROR")
  /\ UNCHANGED <<run, task, at, journal, packFiles, packers>>

-------------------------------------------------------------------------------
(***************************************************************************)
(* finalizeEvidencePack.  Each step copies one file, if its place is free. *)
(* A copy that is not whole is the last thing its process does.            *)
(***************************************************************************)
BeginPack ==
  /\ pc = "checking"
  /\ done = Len(task)
  /\ packers' = packers \cup {run}
  /\ at' = 1
  /\ pc' = "collecting"
  /\ UNCHANGED <<run, task, done, checkFiles, packFiles, log>>

Copied(file, whole) == IF whole THEN file ELSE Torn(file)

\* On to the next of the results, or to the place after the last of them.
Advance(place, whole) ==
  /\ at' = IF whole /\ at < Len(task) THEN at + 1 ELSE 1
  /\ pc' = CASE ~whole         -> "idle"
             [] at < Len(task) -> pc
             [] OTHER          -> place

CollectedWords == {"api", "graphql", "database", "order"}

CollectApiResponse(whole) ==
  /\ pc = "collecting"
  /\ LET c == task[at]
     IN IF WordsOf[c] \cap CollectedWords # {} /\ responses[c] = Absent
        THEN responses' = [responses EXCEPT ![c] = Copied(validation[c], whole)]
        ELSE whole /\ UNCHANGED responses
  /\ Advance("shelving", whole)
  /\ UNCHANGED <<run, task, done, validation, journal, packFiles, log, packers>>

\* organizeClientEvidenceDirs goes by the words in the name; the first that
\* fits decides, and a name without any has no place of its own.
Bucket(c) ==
  IF "graphql" \in WordsOf[c] THEN "graphql"
  ELSE IF {"database", "postgres", "sql"} \cap WordsOf[c] # {} THEN "database"
  ELSE IF "browser" \in WordsOf[c] THEN "playwright"
  ELSE IF {"api", "order"} \cap WordsOf[c] # {} THEN "api"
  ELSE Absent

\* Put(b, n, file, whole): a copy of the file, if <b>/<n> is free.
Put(b, n, file, whole) ==
  IF shelves[b][n] = Absent
  THEN shelves' = [shelves EXCEPT ![b][n] = Copied(file, whole)]
  ELSE whole /\ UNCHANGED shelves

ShelveResult(whole) ==
  /\ pc = "shelving"
  /\ LET c == task[at]
     IN IF Bucket(c) = Absent
        THEN whole /\ UNCHANGED shelves
        ELSE Put(Bucket(c), c, validation[c], whole)
  /\ Advance("journal", whole)
  /\ UNCHANGED <<run, task, done, checkFiles, notes, log, packers>>

ShelveJournal(whole) ==
  /\ pc = "journal"
  /\ IF journal = Absent
     THEN whole /\ UNCHANGED shelves
     ELSE Put("playwright", Journal, journal, whole)
  /\ pc' = IF whole THEN "mirroring" ELSE "idle"
  /\ UNCHANGED <<run, task, done, at, checkFiles, notes, log, packers>>

\* The mirror of api-responses/ has a place for every name.
MirrorBucket(c) ==
  IF "graphql" \in WordsOf[c] THEN "graphql"
  ELSE IF {"database", "sql"} \cap WordsOf[c] # {} THEN "database"
  ELSE "api"

\* Mutant: a name without a word for a bucket is left out here too.
UnmirroredByWord ==
  {c \in Checks : /\ responses[c] # Absent
                  /\ Bucket(c) # Absent
                  /\ shelves[MirrorBucket(c)][c] = Absent}

Unmirrored ==
  {c \in Checks : responses[c] # Absent /\ shelves[MirrorBucket(c)][c] = Absent}

\* The order is that of the directory.
MirrorResponse(whole) ==
  /\ pc = "mirroring"
  /\ \E c \in Unmirrored : Put(MirrorBucket(c), c, responses[c], whole)
  /\ pc' = IF whole THEN "mirroring" ELSE "idle"
  /\ UNCHANGED <<run, task, done, at, checkFiles, notes, log, packers>>

MirrorIsWhole ==
  /\ pc = "mirroring"
  /\ Unmirrored = {}
  /\ pc' = "noting"
  /\ UNCHANGED <<run, task, done, at, checkFiles, packFiles, log, packers>>

Bare == {b \in Buckets : notes[b] = 0 /\ \A n \in DOMAIN shelves[b] : shelves[b][n] = Absent}

WriteNote ==
  /\ pc = "noting"
  /\ \E b \in Bare : notes' = [notes EXCEPT ![b] = run]
  /\ UNCHANGED <<pc, run, task, done, at, checkFiles, shelves, log, packers>>

\* The report and the manifest, which lists what is in the directories.
FinishPack ==
  /\ pc = "noting"
  /\ Bare = {}
  /\ pc' = "done"
  /\ UNCHANGED <<run, task, done, at, checkFiles, packFiles, log, packers>>

-------------------------------------------------------------------------------
\* The process dies between two files, or in the middle of one of the checks.
Dies ==
  /\ pc \notin {"idle", "done"}
  /\ \/ UNCHANGED <<validation, responses>>
     \/ /\ Checking
        /\ validation' = [validation EXCEPT ![Due] = [run |-> run, shows |-> "torn"]]
        /\ UNCHANGED responses
     \/ /\ pc = "responding"
        /\ responses' = [responses EXCEPT ![Due] = [run |-> run, shows |-> "torn"]]
        /\ validation' \in {validation,
                            [validation EXCEPT ![Due] = [run |-> run, shows |-> "torn"]]}
  /\ pc' = "idle"
  /\ at' = 1
  /\ UNCHANGED <<run, task, done, journal, packFiles, log, packers>>

CheckSteps ==
  \/ \E status \in Statuses : RecordResult(status) \/ RecordAnswer(status)
  \/ WriteApiResponse \/ ResponseFails

PackSteps ==
  \/ BeginPack
  \/ \E whole \in BOOLEAN :
       \/ CollectApiResponse(whole) \/ ShelveResult(whole)
       \/ ShelveJournal(whole) \/ MirrorResponse(whole)
  \/ MirrorIsWhole \/ WriteNote \/ FinishPack

TreeNext == Begin \/ CheckSteps \/ PackSteps \/ Dies

TreeSpec == TreeInit /\ [][TreeNext]_treeVars

-------------------------------------------------------------------------------
(***************************************************************************)
(* Properties                                                              *)
(***************************************************************************)

(***************************************************************************)
(* A file that a reader of the pack finds shows what the check returned in *)
(* the run it is from, or breaks off: a result that was replaced because   *)
(* its response could not be kept is shown nowhere (src/validator/checks,  *)
(* src/evidence/evidence-pack.ts).                                         *)
(***************************************************************************)
Returned(name, file) ==
  file # Absent /\ file.shows # "torn"
    => [check |-> name, status |-> file.shows] \in log[file.run]

ShelvesShowResults ==
  \A b \in Buckets, c \in Checks : Returned(c, shelves[b][c])

(***************************************************************************)
(* The pack never replaces a copy, so what an earlier pack left stays.     *)
(* When there was no earlier pack, every response a check of this run has  *)
(* kept is in a bucket when the pack is done, whatever the name of the     *)
(* check, and no bucket shows an older answer of it, also when runs before *)
(* this one died after their checks (src/evidence/evidence-pack.ts).       *)
(***************************************************************************)
AnswersAreShelved ==
  pc = "done" /\ packers = {run} =>
    \A c \in Checks :
      responses[c] # Absent /\ responses[c].run = run =>
        /\ \E b \in Buckets : shelves[b][c] # Absent
        /\ \A b \in Buckets : shelves[b][c] # Absent => shelves[b][c].run = run
=============================================================================
