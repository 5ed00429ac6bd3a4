------------------------- MODULE EvidenceTreeProofs -------------------------
(***************************************************************************)
(* Theorems about EvidenceTree, for every set of checks, of names and      *)
(* words in them, every set of tasks and every number of runs.             *)
(*                                                                         *)
(* The argument: a result stands in the log of its run before its file can *)
(* be copied (Logged); only the answer whose response is still to be       *)
(* written is ahead of the log.  Before a run packs, no copy is its own,   *)
(* and the first that packs finds the buckets empty (First, Own).          *)
(***************************************************************************)
EXTENDS EvidenceTree, TLAPS

Packing == {"collecting", "shelving", "journal", "mirroring", "noting", "done"}

\* Where the run is in its task.
Placed ==
  /\ pc # "idle" => done <= Len(task)
  /\ pc = "responding" => done < Len(task)
  /\ pc \in {"collecting", "shelving"} => done = Len(task) /\ at <= Len(task)

\* The results so far have files of this run; the answer on its way is whole.
Filed ==
  /\ pc # "idle" => \A i \in 1 .. done : /\ validation[task[i]] # Absent
                                         /\ validation[task[i]].run = run
  /\ pc = "responding" => /\ validation[Due] # Absent
                          /\ validation[Due].run = run
                          /\ validation[Due].shows \in Statuses

\* A response shows what was returned, and so does the file of a result of the
\* run, but for the answer on its way.
Logged ==
  /\ \A c \in Checks : Returned(c, responses[c])
  /\ pc # "idle" =>
       \A i \in 1 .. done : \/ pc = "responding" /\ task[i] = Due
                            \/ Returned(task[i], validation[task[i]])

\* The first run that packs finds nothing in the buckets.
First ==
  /\ packers \subseteq 1 .. run
  /\ pc \in {"checking", "responding"} => run \notin packers
  /\ pc \in Packing => run \in packers
  /\ packers = {} \/ (packers = {run} /\ pc = "collecting") =>
       \A b \in Buckets, c \in Checks : shelves[b][c] = Absent

Mine(c) == responses[c] # Absent /\ responses[c].run = run

Own ==
  packers = {run} /\ pc \in Packing =>
    \A c \in Checks : Mine(c) =>
      \A b \in Buckets : shelves[b][c] # Absent => shelves[b][c].run = run

Mirrored ==
  pc \in {"noting", "done"} =>
    \A c \in Checks : responses[c] # Absent => shelves[MirrorBucket(c)][c] # Absent

TreeInv ==
  /\ TreeTypeOK /\ Placed /\ Filed /\ Logged
  /\ First /\ Own /\ Mirrored /\ ShelvesShowResults

-------------------------------------------------------------------------------
LEMMA TaskFacts ==
  ASSUME NEW t \in Tasks
  PROVE  t \in Seq(Checks) /\ Len(t) \in Nat \ {0} /\ \A i \in 1 .. Len(t) : t[i] \in Checks
BY CheckAssumption

LEMMA BucketFacts ==
  ASSUME NEW c \in Checks
  PROVE  /\ Bucket(c) \in Buckets \cup {Absent}
         /\ MirrorBucket(c) \in Buckets
BY DEF Bucket, MirrorBucket, Buckets

LEMMA CopyFacts ==
  ASSUME NEW file \in Files, NEW whole \in BOOLEAN
  PROVE  /\ Copied(file, whole) \in Files
         /\ Copied(file, whole) # Absent
         /\ Copied(file, whole).run = file.run
         /\ Copied(file, whole).shows \in {file.shows, "torn"}
BY FilesAssumption DEF Copied, Torn, Files

LEMMA InitInv == ASSUME TreeInit PROVE TreeInv
<1> USE DEF TreeInit
<1>1. TreeTypeOK
  BY CheckAssumption DEF TreeTypeOK, Places, Runs
<1>2. First /\ Own /\ Mirrored
  BY DEF First, Own, Mirrored, Packing
<1>3. Placed /\ Filed
  BY DEF Placed, Filed
<1>4. Logged /\ ShelvesShowResults
  BY DEF Logged, ShelvesShowResults, Returned
<1> QED
  BY <1>1, <1>2, <1>3, <1>4 DEF TreeInv

-------------------------------------------------------------------------------
(***************************************************************************)
(* The checks.                                                             *)
(***************************************************************************)
LEMMA DueFacts ==
  ASSUME TreeTypeOK, pc # "idle", done < Len(task)
  PROVE  /\ Due \in Checks
         /\ run \in Runs
         /\ task \in Tasks
         /\ done + 1 \in 1 .. Len(task)
         /\ \A i \in 1 .. (done + 1) : task[i] \in Checks /\ (i # done + 1 => i \in 1 .. done)
         /\ \A i \in 1 .. done : task[i] \in Checks
<1>1. task \in Tasks /\ run \in Runs /\ done \in Nat
  BY DEF TreeTypeOK
<1>2. Len(task) \in Nat /\ \A i \in 1 .. Len(task) : task[i] \in Checks
  BY <1>1, TaskFacts
<1>3. done + 1 \in 1 .. Len(task)
  BY <1>1, <1>2
<1>4. \A i \in 1 .. (done + 1) : i \in 1 .. Len(task) /\ (i # done + 1 => i \in 1 .. done)
  BY <1>1, <1>3
<1>5. \A i \in 1 .. done : i \in 1 .. (done + 1)
  BY <1>1
<1> QED
  BY <1>1, <1>2, <1>3, <1>4, <1>5 DEF Due

\* A result of the running check: its file and its entry in the log.
LEMMA ReturnKeeps ==
  ASSUME TreeInv, pc \in {"checking", "responding"}, done < Len(task),
         NEW status \in Statuses, Return(status),
         validation' = [validation EXCEPT ![Due] = [run |-> run, shows |-> status]],
         \/ responses' = responses
         \/ responses' = [responses EXCEPT ![Due] = [run |-> run, shows |-> status]]
         \/ responses' = [responses EXCEPT ![Due] = [run |-> run, shows |-> "torn"]],
         journal' \in Files \cup {Absent},
         UNCHANGED <<run, task, at, packFiles, packers>>
  PROVE  TreeInv'
<1> USE DEF TreeInv
<1>1. /\ Due \in Checks /\ run \in Runs /\ task \in Tasks
      /\ \A i \in 1 .. (done + 1) : task[i] \in Checks /\ (i # done + 1 => i \in 1 .. done)
  BY DueFacts
<1>2. /\ pc' = "checking" /\ done' = done + 1 /\ done \in Nat
      /\ log' = [log EXCEPT ![run] = @ \cup {[check |-> Due, status |-> status]}]
      /\ UNCHANGED <<run, task, at, shelves, notes, packers>>
  BY DEF Return, packFiles, TreeTypeOK
<1>3. \A s \in Statuses \cup {"torn"} : [run |-> run, shows |-> s] \in Files
  BY <1>1 DEF Files
<1>4. log' \in [Runs -> SUBSET Results]
  <2>1. [check |-> Due, status |-> status] \in Results
    BY <1>1 DEF Results
  <2>2. log \in [Runs -> SUBSET Results]
    BY DEF TreeTypeOK
  <2> QED BY <1>1, <1>2, <2>1, <2>2
<1>5. validation' \in [Checks -> Files \cup {Absent}] /\ responses' \in [Checks -> Files \cup {Absent}]
  <2>1. validation \in [Checks -> Files \cup {Absent}] /\ responses \in [Checks -> Files \cup {Absent}]
    BY DEF TreeTypeOK
  <2>2. /\ [run |-> run, shows |-> status] \in Files
        /\ [run |-> run, shows |-> "torn"] \in Files
    BY <1>3
  <2>3. validation' \in [Checks -> Files \cup {Absent}]
    BY <1>1, <2>1, <2>2
  <2>4. responses' \in [Checks -> Files \cup {Absent}]
    BY <1>1, <2>1, <2>2
  <2> QED BY <2>3, <2>4
<1>6. TreeTypeOK'
  <2>1. pc' \in Places /\ done' \in Nat /\ run' \in Runs /\ task' \in Tasks
    BY <1>1, <1>2 DEF Places
  <2>2. run' \in 0 .. MaxRuns /\ packers' \subseteq Runs /\ at' \in Nat \ {0}
    BY <1>2 DEF TreeTypeOK
  <2>3. /\ shelves' \in [Buckets -> [Checks \cup {Journal} -> Files \cup {Absent}]]
        /\ notes' \in [Buckets -> 0 .. MaxRuns]
    BY <1>2 DEF TreeTypeOK
  <2> QED BY <1>4, <1>5, <2>1, <2>2, <2>3 DEF TreeTypeOK
<1>7. \A r \in Runs : log[r] \subseteq log'[r]
  BY <1>2 DEF TreeTypeOK
<1>8. [check |-> Due, status |-> status] \in log'[run]
  BY <1>1, <1>2 DEF TreeTypeOK
<1>9. Placed'
  BY <1>2, DueFacts DEF Placed
<1>10. Filed'
  <2> SUFFICES ASSUME NEW i \in 1 .. (done + 1)
               PROVE  validation'[task[i]] # Absent /\ validation'[task[i]].run = run
    BY <1>2 DEF Filed
  <2>1. CASE task[i] = Due
    <3>1. validation'[task[i]] = [run |-> run, shows |-> status]
      BY <1>1, <2>1 DEF TreeTypeOK
    <3> QED BY <1>3, <3>1, FilesAssumption
  <2>2. CASE task[i] # Due
    <3>1. i \in 1 .. done
      BY <1>1, <2>2 DEF Due
    <3>2. validation'[task[i]] = validation[task[i]]
      BY <1>1, <2>2 DEF TreeTypeOK
    <3> QED BY <3>1, <3>2 DEF Filed
  <2> QED BY <2>1, <2>2
<1>11. Logged'
  <2>1. ASSUME NEW c \in Checks
        PROVE  Returned(c, responses[c])'
    <3>1. Returned(c, responses[c]) /\ responses[c] \in Files \cup {Absent}
      BY DEF Logged, TreeTypeOK
    <3>2. \/ responses'[c] = responses[c]
          \/ c = Due /\ responses'[c] = [run |-> run, shows |-> status]
          \/ c = Due /\ responses'[c] = [run |-> run, shows |-> "torn"]
      BY <1>1 DEF TreeTypeOK
    <3> QED
      BY <1>7, <1>8, <3>1, <3>2 DEF Returned, Files
  <2>2. ASSUME NEW i \in 1 .. (done + 1)
        PROVE  Returned(task[i], validation[task[i]])'
    <3>1. CASE task[i] = Due
      <4>1. validation'[task[i]] = [run |-> run, shows |-> status]
        BY <1>1, <3>1 DEF TreeTypeOK
      <4> QED BY <1>2, <1>8, <3>1, <4>1 DEF Returned
    <3>2. CASE task[i] # Due
      <4>1. i \in 1 .. done
        BY <1>1, <3>2, <2>2 DEF Due
      <4>2. Returned(task[i], validation[task[i]])
        BY <3>2, <4>1 DEF Logged
      <4>3. validation'[task[i]] = validation[task[i]] /\ task'[i] = task[i]
        BY <1>1, <1>2, <3>2, <2>2 DEF TreeTypeOK
      <4>4. validation[task[i]] \in Files \cup {Absent}
        BY <1>1, <2>2 DEF TreeTypeOK
      <4> QED BY <1>7, <4>2, <4>3, <4>4 DEF Returned, Files
    <3> QED BY <3>1, <3>2
  <2> QED BY <1>2, <2>1, <2>2 DEF Logged
<1>12. ShelvesShowResults'
  <2> SUFFICES ASSUME NEW b \in Buckets, NEW c \in Checks
               PROVE  Returned(c, shelves[b][c])'
    BY DEF ShelvesShowResults
  <2>1. shelves[b][c] \in Files \cup {Absent} /\ Returned(c, shelves[b][c])
    BY DEF TreeTypeOK, ShelvesShowResults
  <2> QED BY <1>2, <1>7, <2>1 DEF Returned, Files
<1>13. First' /\ Own' /\ Mirrored'
  BY <1>2 DEF First, Own, Mirrored, Packing
<1> QED
  BY <1>6, <1>9, <1>10, <1>11, <1>12, <1>13

LEMMA CheckStepsKeep == ASSUME TreeInv, CheckSteps PROVE TreeInv'
<1> USE DEF TreeInv
<1>1. ASSUME NEW status \in Statuses, RecordResult(status)
      PROVE  TreeInv'
  <2>1. journal' \in Files \cup {Absent}
    <3>1. CASE UNCHANGED journal
      BY <3>1 DEF TreeTypeOK
    <3>2. CASE journal' \in [run : {run}, shows : Statuses \cup {"torn"}]
      <4>1. run \in Runs
        BY <1>1, DueFacts DEF RecordResult, Checking
      <4> QED BY <3>2, <4>1 DEF Files
    <3> QED BY <1>1, <3>1, <3>2 DEF RecordResult
  <2> QED BY <1>1, <2>1, ReturnKeeps DEF RecordResult, Checking
<1>2. ASSUME NEW status \in Statuses, RecordAnswer(status)
      PROVE  TreeInv'
  <2>1. /\ pc = "checking" /\ done < Len(task) /\ pc' = "responding"
        /\ validation' = [validation EXCEPT ![Due] = [run |-> run, shows |-> status]]
        /\ UNCHANGED <<run, task, done, at, responses, journal, shelves, notes, log, packers>>
    BY <1>2 DEF RecordAnswer, Checking, packFiles
  <2>2. Due \in Checks /\ run \in Runs /\ \A i \in 1 .. done : task[i] \in Checks
    BY <2>1, DueFacts
  <2>3. validation'[Due] = [run |-> run, shows |-> status] /\ [run |-> run, shows |-> status] \in Files
    BY <2>1, <2>2 DEF TreeTypeOK, Files
  <2>4. \A c \in Checks : c # Due => validation'[c] = validation[c]
    BY <2>1, <2>2 DEF TreeTypeOK
  <2>5. TreeTypeOK'
    BY <2>1, <2>2, <2>3 DEF TreeTypeOK, Places
  <2>6. Due' = Due
    BY <2>1 DEF Due
  <2>7. Filed'
    BY <2>1, <2>2, <2>3, <2>4, <2>6, FilesAssumption DEF Filed
  <2>8. Logged'
    <3>1. ASSUME NEW i \in 1 .. done
          PROVE  task[i] = Due \/ Returned(task[i], validation[task[i]])'
      BY <2>1, <2>2, <2>4 DEF Logged, Returned
    <3> QED BY <2>1, <2>6, <3>1 DEF Logged, Returned
  <2>9. Placed' /\ First' /\ Own' /\ Mirrored' /\ ShelvesShowResults'
    BY <2>1 DEF Placed, First, Own, Mirrored, Packing, ShelvesShowResults, Returned
  <2> QED BY <2>5, <2>7, <2>8, <2>9
<1>3. ASSUME WriteApiResponse \/ ResponseFails
      PROVE  TreeInv'
  <2>1. pc = "responding" /\ done < Len(task)
    BY <1>3 DEF WriteApiResponse, ResponseFails, Placed
  <2>2. journal' \in Files \cup {Absent}
    BY <1>3 DEF WriteApiResponse, ResponseFails, TreeTypeOK
  <2>3. CASE WriteApiResponse
    <3> DEFINE s == validation[Due].shows
    <3>1. Due \in Checks
      BY <2>1, DueFacts
    <3>2. validation[Due] \in Files /\ s \in Statuses /\ validation[Due].run = run
      BY <2>1, <3>1 DEF Filed, TreeTypeOK
    <3>3. validation[Due] = [run |-> run, shows |-> s]
      BY <3>2 DEF Files
    <3>4. validation = [validation EXCEPT ![Due] = [run |-> run, shows |-> s]]
      BY <3>1, <3>3 DEF TreeTypeOK
    <3> HIDE DEF s
    <3>5. /\ Return(s)
          /\ responses' = [responses EXCEPT ![Due] = [run |-> run, shows |-> s]]
          /\ UNCHANGED <<run, task, at, validation, packFiles, packers>>
      BY <2>3, <3>3 DEF WriteApiResponse, s
    <3> QED BY <2>1, <2>2, <3>2, <3>4, <3>5, ReturnKeeps
  <2>4. CASE ResponseFails
    BY <2>1, <2>2, <2>4, ReturnKeeps DEF ResponseFails, Statuses
  <2> QED BY <1>3, <2>3, <2>4
<1> QED
  BY <1>1, <1>2, <1>3 DEF CheckSteps

-------------------------------------------------------------------------------
(***************************************************************************)
(* The pack.                                                               *)
(***************************************************************************)

\* A step that goes on and copies nothing.
LEMMA WalkKeeps ==
  ASSUME TreeInv, pc \in {"shelving", "journal", "mirroring"},
         pc' \in {"shelving", "journal", "mirroring", "idle"},
         at' \in Nat \ {0}, pc' = "shelving" => at' <= Len(task) /\ done = Len(task),
         UNCHANGED <<run, task, done, checkFiles, packFiles, log, packers>>
  PROVE  TreeInv'
<1> USE DEF TreeInv, checkFiles, packFiles
<1>1. TreeTypeOK'
  BY DEF TreeTypeOK, Places
<1>2. Placed' /\ Filed'
  BY DEF Placed, Filed
<1>3. Logged' /\ ShelvesShowResults'
  BY DEF Logged, ShelvesShowResults, Returned
<1>4. First' /\ Own' /\ Mirrored'
  BY DEF First, Own, Mirrored, Mine, Packing
<1> QED BY <1>1, <1>2, <1>3, <1>4

\* A step that copies a file to a free place.
LEMMA PutKeeps ==
  ASSUME TreeInv, pc \in {"shelving", "journal", "mirroring"},
         pc' \in {"shelving", "journal", "mirroring", "idle"},
         at' \in Nat \ {0}, pc' = "shelving" => at' <= Len(task) /\ done = Len(task),
         NEW b \in Buckets, NEW n \in Checks \cup {Journal}, NEW file \in Files,
         NEW whole \in BOOLEAN,
         shelves' = [shelves EXCEPT ![b][n] = Copied(file, whole)],
         n \in Checks => Returned(n, file) /\ (Mine(n) => file.run = run),
         UNCHANGED <<run, task, done, checkFiles, notes, log, packers>>
  PROVE  TreeInv'
<1> USE DEF TreeInv, checkFiles
<1>1. /\ Copied(file, whole) \in Files
      /\ Copied(file, whole).run = file.run
      /\ Copied(file, whole).shows \in {file.shows, "torn"}
  BY CopyFacts
<1>2. shelves \in [Buckets -> [Checks \cup {Journal} -> Files \cup {Absent}]]
  BY DEF TreeTypeOK
<1>3. \A d \in Buckets, m \in Checks \cup {Journal} :
        shelves'[d][m] = IF d = b /\ m = n THEN Copied(file, whole) ELSE shelves[d][m]
  BY <1>2
<1>4. shelves' \in [Buckets -> [Checks \cup {Journal} -> Files \cup {Absent}]]
  BY <1>1, <1>2
<1>5. TreeTypeOK'
  BY <1>4 DEF TreeTypeOK, Places
<1>6. Placed' /\ Filed'
  BY DEF Placed, Filed
<1>7. Logged'
  BY DEF Logged, Returned
<1>8. ShelvesShowResults'
  <2> SUFFICES ASSUME NEW d \in Buckets, NEW c \in Checks
               PROVE  Returned(c, shelves[d][c])'
    BY DEF ShelvesShowResults
  <2>1. CASE d = b /\ c = n
    <3>1. Returned(c, file) /\ file # Absent
      BY <2>1, FilesAssumption
    <3>2. shelves'[d][c] = Copied(file, whole)
      BY <1>3, <2>1
    <3> QED BY <1>1, <3>1, <3>2 DEF Returned
  <2>2. CASE ~(d = b /\ c = n)
    <3>1. shelves'[d][c] = shelves[d][c] /\ Returned(c, shelves[d][c])
      BY <1>3, <2>2 DEF ShelvesShowResults
    <3> QED BY <3>1 DEF Returned
  <2> QED BY <2>1, <2>2
<1>9. Own'
  BY <1>1, <1>3 DEF Own, Mine, Packing
<1>10. First' /\ Mirrored'
  BY DEF First, Mirrored, Packing
<1> QED BY <1>5, <1>6, <1>7, <1>8, <1>9, <1>10

\* Where the pack goes from one result.
LEMMA AdvanceFacts ==
  ASSUME TreeTypeOK, Placed, pc \in {"collecting", "shelving"},
         NEW whole \in BOOLEAN, NEW place \in Places, Advance(place, whole)
  PROVE  /\ at' \in Nat \ {0}
         /\ pc' \in {pc, place, "idle"}
         /\ at' <= Len(task) /\ done = Len(task)
         /\ at \in 1 .. done
         /\ task \in Tasks
         /\ run \in Runs
<1>1. task \in Tasks /\ run \in Runs /\ done = Len(task) /\ at <= Len(task) /\ at \in Nat \ {0}
  BY DEF TreeTypeOK, Placed
<1>2. Len(task) \in Nat \ {0}
  BY <1>1, TaskFacts
<1> QED BY <1>1, <1>2 DEF Advance

LEMMA CollectKeeps ==
  ASSUME TreeInv, NEW whole \in BOOLEAN, CollectApiResponse(whole)
  PROVE  TreeInv'
<1> DEFINE c == task[at]
<1> USE DEF TreeInv, checkFiles, packFiles
<1>1. /\ pc = "collecting" /\ Advance("shelving", whole)
      /\ UNCHANGED <<run, task, done, validation, journal, shelves, notes, log, packers>>
  BY DEF CollectApiResponse
<1>2. /\ at' \in Nat \ {0} /\ pc' \in {"collecting", "shelving", "idle"}
      /\ at' <= Len(task) /\ done = Len(task)
      /\ at \in 1 .. done /\ task \in Tasks /\ run \in Runs
  BY <1>1, AdvanceFacts DEF Places
<1>3. c \in Checks
  BY <1>2, TaskFacts
<1>4. /\ validation[c] \in Files /\ validation[c].run = run
      /\ Returned(c, validation[c])
  BY <1>1, <1>2, <1>3 DEF Filed, Logged, TreeTypeOK
<1> DEFINE copy == Copied(validation[c], whole)
<1>5. /\ copy \in Files /\ copy.run = run
      /\ copy.shows \in {validation[c].shows, "torn"}
  BY <1>4, CopyFacts
<1>6. Returned(c, copy)
  <2>1. validation[c] # Absent
    BY <1>4, FilesAssumption
  <2>2. [check |-> c, status |-> validation[c].shows] \in log[run] \/ validation[c].shows = "torn"
    BY <1>4, <2>1 DEF Returned
  <2> HIDE DEF c, copy
  <2> QED BY <1>5, <2>2 DEF Returned
<1>7. responses' = responses \/ responses' = [responses EXCEPT ![c] = copy]
  BY DEF CollectApiResponse
<1> HIDE DEF c, copy
<1>8. /\ responses' \in [Checks -> Files \cup {Absent}]
      /\ \A d \in Checks : responses'[d] = responses[d] \/ (d = c /\ responses'[d] = copy)
  <2>1. responses \in [Checks -> Files \cup {Absent}]
    BY DEF TreeTypeOK
  <2> QED BY <1>3, <1>5, <1>7, <2>1
<1>9. TreeTypeOK'
  BY <1>1, <1>2, <1>8 DEF TreeTypeOK, Places
<1>10. Placed' /\ Filed'
  BY <1>1, <1>2 DEF Placed, Filed
<1>11. Logged'
  <2>1. ASSUME NEW d \in Checks
        PROVE  Returned(d, responses[d])'
    <3>1. Returned(d, responses[d])
      BY DEF Logged
    <3> QED BY <1>1, <1>6, <1>8, <3>1 DEF Returned
  <2> QED BY <1>1, <2>1 DEF Logged, Returned
<1>12. ShelvesShowResults'
  BY <1>1 DEF ShelvesShowResults, Returned
<1>13. First'
  BY <1>1, <1>2 DEF First, Packing
<1>14. Own'
  BY <1>1 DEF First, Own, Packing
<1>15. Mirrored'
  BY <1>2 DEF Mirrored
<1> QED BY <1>9, <1>10, <1>11, <1>12, <1>13, <1>14, <1>15

LEMMA ShelveKeeps ==
  ASSUME TreeInv, NEW whole \in BOOLEAN,
         ShelveResult(whole) \/ ShelveJournal(whole) \/ MirrorResponse(whole)
  PROVE  TreeInv'
<1> USE DEF TreeInv
<1>1. CASE ShelveResult(whole)
  <2> DEFINE c == task[at]
  <2>1. /\ pc = "shelving" /\ Advance("journal", whole)
        /\ UNCHANGED <<run, task, done, checkFiles, notes, log, packers>>
        /\ IF Bucket(c) = Absent THEN whole /\ UNCHANGED shelves
                                 ELSE Put(Bucket(c), c, validation[c], whole)
    BY <1>1 DEF ShelveResult
  <2>2. /\ at' \in Nat \ {0} /\ pc' \in {"shelving", "journal", "idle"}
        /\ at' <= Len(task) /\ done = Len(task)
        /\ at \in 1 .. done /\ task \in Tasks
    BY <2>1, AdvanceFacts DEF Places
  <2>3. c \in Checks
    BY <2>2, TaskFacts
  <2>4. validation[c] \in Files /\ validation[c].run = run /\ Returned(c, validation[c])
    BY <2>1, <2>2, <2>3 DEF Filed, Logged, TreeTypeOK
  <2> HIDE DEF c
  <2>5. CASE UNCHANGED shelves
    BY <2>1, <2>2, <2>5, WalkKeeps DEF packFiles
  <2>6. CASE /\ Bucket(c) # Absent
             /\ shelves' = [shelves EXCEPT ![Bucket(c)][c] = Copied(validation[c], whole)]
    BY <2>1, <2>2, <2>3, <2>4, <2>6, BucketFacts, PutKeeps
  <2> QED BY <2>1, <2>5, <2>6 DEF Put
<1>2. CASE ShelveJournal(whole)
  <2>1. /\ pc = "journal" /\ pc' \in {"mirroring", "idle"}
        /\ UNCHANGED <<run, task, done, at, checkFiles, notes, log, packers>>
    BY <1>2 DEF ShelveJournal
  <2>2. at' \in Nat \ {0} /\ journal \in Files \cup {Absent} /\ Journal \notin Checks
    BY <2>1, CheckAssumption DEF TreeTypeOK
  <2>3. CASE UNCHANGED shelves
    BY <2>1, <2>2, <2>3, WalkKeeps DEF packFiles
  <2>4. CASE /\ journal # Absent
             /\ shelves' = [shelves EXCEPT !["playwright"][Journal] = Copied(journal, whole)]
    BY <2>1, <2>2, <2>4, PutKeeps DEF Buckets
  <2> QED BY <1>2, <2>3, <2>4 DEF ShelveJournal, Put
<1>3. CASE MirrorResponse(whole)
  <2>1. /\ pc = "mirroring" /\ pc' \in {"mirroring", "idle"}
        /\ UNCHANGED <<run, task, done, at, checkFiles, notes, log, packers>>
    BY <1>3 DEF MirrorResponse
  <2>2. PICK c \in Unmirrored : Put(MirrorBucket(c), c, responses[c], whole)
    BY <1>3 DEF MirrorResponse
  <2>3. /\ c \in Checks /\ responses[c] \in Files
        /\ shelves' = [shelves EXCEPT ![MirrorBucket(c)][c] = Copied(responses[c], whole)]
    BY <2>2 DEF Unmirrored, Put, TreeTypeOK
  <2>4. Returned(c, responses[c]) /\ (Mine(c) => responses[c].run = run)
    BY <2>3 DEF Logged, Mine
  <2>5. at' \in Nat \ {0}
    BY <2>1 DEF TreeTypeOK
  <2> QED BY <2>1, <2>3, <2>4, <2>5, BucketFacts, PutKeeps
<1> QED BY <1>1, <1>2, <1>3

LEMMA PackStepsKeep == ASSUME TreeInv, PackSteps PROVE TreeInv'
<1> USE DEF TreeInv
<1>1. ASSUME NEW whole \in BOOLEAN,
             \/ CollectApiResponse(whole) \/ ShelveResult(whole)
             \/ ShelveJournal(whole) \/ MirrorResponse(whole)
      PROVE  TreeInv'
  BY <1>1, CollectKeeps, ShelveKeeps
<1>2. CASE BeginPack
  <2>1. /\ pc = "checking" /\ pc' = "collecting" /\ done = Len(task) /\ at' = 1
        /\ packers' = packers \cup {run}
        /\ UNCHANGED <<run, task, done, validation, responses, journal, shelves, notes, log>>
    BY <1>2 DEF BeginPack, checkFiles, packFiles
  <2>2. run \in Runs /\ task \in Tasks /\ run \notin packers /\ packers \subseteq 1 .. run
    BY <2>1 DEF TreeTypeOK, First
  <2>3. Len(task) \in Nat \ {0}
    BY <2>2, TaskFacts
  <2>4. TreeTypeOK'
    <3>1. pc' \in Places /\ at' \in Nat \ {0} /\ packers' \subseteq Runs
      BY <2>1, <2>2 DEF TreeTypeOK, Places
    <3> QED BY <2>1, <3>1 DEF TreeTypeOK
  <2>5. Placed' /\ Filed'
    BY <2>1, <2>3 DEF Placed, Filed
  <2>6. Logged' /\ ShelvesShowResults' /\ Mirrored'
    BY <2>1 DEF Logged, ShelvesShowResults, Mirrored, Returned
  <2>7. packers' = {run} => packers = {}
    BY <2>1, <2>2
  <2>8. packers' \subseteq 1 .. run /\ packers' # {} /\ run \in packers'
    BY <2>1, <2>2 DEF Runs
  <2>9. packers' = {run} => \A b \in Buckets, c \in Checks : shelves[b][c] = Absent
    BY <2>7 DEF First
  <2>10. First'
    BY <2>1, <2>8, <2>9 DEF First, Packing
  <2>11. Own'
    BY <2>1, <2>9 DEF Own
  <2> QED BY <2>4, <2>5, <2>6, <2>10, <2>11
<1>3. CASE MirrorIsWhole
  <2>1. /\ pc = "mirroring" /\ pc' = "noting" /\ Unmirrored = {}
        /\ UNCHANGED <<run, task, done, at, validation, responses, journal, shelves, notes, log, packers>>
    BY <1>3 DEF MirrorIsWhole, checkFiles, packFiles
  <2>2. TreeTypeOK' /\ Placed' /\ Filed'
    BY <2>1 DEF TreeTypeOK, Places, Placed, Filed
  <2>3. Logged' /\ ShelvesShowResults'
    BY <2>1 DEF Logged, ShelvesShowResults, Returned
  <2>4. Mirrored'
    BY <2>1 DEF Mirrored, Unmirrored, MirrorBucket
  <2>5. First' /\ Own'
    BY <2>1 DEF First, Own, Mine, Packing
  <2> QED BY <2>2, <2>3, <2>4, <2>5
<1>4. CASE WriteNote \/ FinishPack
  <2>1. /\ pc = "noting" /\ pc' \in {"noting", "done"}
        /\ UNCHANGED <<run, task, done, at, validation, responses, journal, shelves, log, packers>>
    BY <1>4 DEF WriteNote, FinishPack, checkFiles, packFiles
  <2>2. notes' \in [Buckets -> 0 .. MaxRuns]
    <3>1. notes \in [Buckets -> 0 .. MaxRuns] /\ run \in 0 .. MaxRuns
      BY DEF TreeTypeOK
    <3>2. notes' = notes \/ \E b \in Buckets : notes' = [notes EXCEPT ![b] = run]
      BY <1>4 DEF WriteNote, FinishPack, packFiles, Bare
    <3> QED BY <3>1, <3>2
  <2>3. TreeTypeOK'
    BY <2>1, <2>2 DEF TreeTypeOK, Places
  <2>4. Placed' /\ Filed' /\ Mirrored'
    BY <2>1 DEF Placed, Filed, Mirrored, MirrorBucket
  <2>5. Logged' /\ ShelvesShowResults'
    BY <2>1 DEF Logged, ShelvesShowResults, Returned
  <2>6. First' /\ Own'
    BY <2>1 DEF First, Own, Mine, Packing
  <2> QED BY <2>3, <2>4, <2>5, <2>6
<1> QED BY <1>1, <1>2, <1>3, <1>4 DEF PackSteps

-------------------------------------------------------------------------------
(***************************************************************************)
(* A run begins, and ends before its time.                                 *)
(***************************************************************************)
LEMMA BeginKeeps == ASSUME TreeInv, Begin PROVE TreeInv'
<1> USE DEF TreeInv
<1>1. /\ pc \in {"idle", "done"} /\ run < MaxRuns /\ run' = run + 1
      /\ task' \in Tasks /\ done' = 0 /\ pc' = "checking"
      /\ UNCHANGED <<at, validation, responses, journal, shelves, notes, log, packers>>
  BY DEF Begin, checkFiles, packFiles
<1>2. run \in Nat /\ run' \in Runs /\ run' \in 0 .. MaxRuns
  BY <1>1, CheckAssumption DEF TreeTypeOK, Runs
<1>3. TreeTypeOK'
  BY <1>1, <1>2 DEF TreeTypeOK, Places
<1>4. Placed' /\ Filed'
  <2>1. Len(task') \in Nat
    BY <1>1, TaskFacts
  <2> QED BY <1>1, <2>1 DEF Placed, Filed
<1>5. Logged' /\ ShelvesShowResults' /\ Mirrored'
  BY <1>1 DEF Logged, ShelvesShowResults, Mirrored, Returned
<1>6. packers \subseteq 1 .. run' /\ run' \notin packers
  BY <1>1, <1>2 DEF First
<1>7. First'
  <2>1. packers = {} \/ (packers = {run} /\ pc = "collecting") =>
          \A b \in Buckets, c \in Checks : shelves[b][c] = Absent
    BY DEF First
  <2> QED BY <1>1, <1>6, <2>1 DEF First, Packing
<1>8. Own'
  BY <1>1 DEF Own, Packing
<1> QED BY <1>3, <1>4, <1>5, <1>7, <1>8

LEMMA DiesKeeps == ASSUME TreeInv, Dies PROVE TreeInv'
<1> USE DEF TreeInv
<1> DEFINE torn == [run |-> run, shows |-> "torn"]
<1>1. /\ pc \notin {"idle", "done"} /\ pc' = "idle" /\ at' = 1
      /\ UNCHANGED <<run, task, done, journal, shelves, notes, log, packers>>
  BY DEF Dies, packFiles
<1>2. \/ UNCHANGED <<validation, responses>>
      \/ /\ Due \in Checks
         /\ validation' \in {validation, [validation EXCEPT ![Due] = torn]}
         /\ responses' \in {responses, [responses EXCEPT ![Due] = torn]}
         /\ pc = "responding" => responses' = [responses EXCEPT ![Due] = torn]
  BY <1>1, DueFacts DEF Dies, Checking, Placed
<1>3. run \in Runs /\ torn \in Files /\ torn.shows = "torn"
  BY <1>1 DEF TreeTypeOK, Files
<1> HIDE DEF torn
<1>4. /\ validation' \in [Checks -> Files \cup {Absent}]
      /\ responses' \in [Checks -> Files \cup {Absent}]
  <2>1. /\ validation \in [Checks -> Files \cup {Absent}]
        /\ responses \in [Checks -> Files \cup {Absent}]
    BY DEF TreeTypeOK
  <2> QED BY <1>2, <1>3, <2>1
<1>5. TreeTypeOK'
  <2>1. pc' \in Places /\ pc' = "idle" /\ at' \in Nat \ {0}
    BY <1>1 DEF Places
  <2> QED BY <1>1, <1>4, <2>1 DEF TreeTypeOK
<1>6. Placed' /\ Filed' /\ First' /\ Own' /\ Mirrored'
  BY <1>1 DEF Placed, Filed, First, Own, Mirrored, Packing
<1>7. ShelvesShowResults'
  BY <1>1 DEF ShelvesShowResults, Returned
<1>8. Logged'
  <2> SUFFICES ASSUME NEW c \in Checks
               PROVE  Returned(c, responses[c])'
    BY <1>1 DEF Logged
  <2>1. Returned(c, responses[c])
    BY DEF Logged
  <2>2. responses'[c] = responses[c] \/ responses'[c] = torn
    BY <1>2 DEF TreeTypeOK
  <2> QED BY <1>1, <1>3, <2>1, <2>2 DEF Returned
<1> QED BY <1>5, <1>6, <1>7, <1>8

LEMMA StepInv == ASSUME TreeInv, [TreeNext]_treeVars PROVE TreeInv'
<1>1. CASE TreeNext
  BY <1>1, BeginKeeps, CheckStepsKeep, PackStepsKeep, DiesKeeps DEF TreeNext
<1>2. CASE UNCHANGED treeVars
  <2> USE <1>2 DEF treeVars, checkFiles, packFiles
  <2>1. TreeTypeOK' /\ Placed' /\ ShelvesShowResults'
    BY DEF TreeInv, TreeTypeOK, Placed, ShelvesShowResults, Returned
  <2>2. Filed' /\ Logged'
    BY DEF TreeInv, Filed, Logged, Due, Returned
  <2>3. First' /\ Own' /\ Mirrored'
    BY DEF TreeInv, First, Own, Mine, Mirrored, MirrorBucket, Packing
  <2> QED BY <2>1, <2>2, <2>3 DEF TreeInv
<1> QED BY <1>1, <1>2

LEMMA TreeInvHolds == TreeSpec => []TreeInv
BY InitInv, StepInv, PTL DEF TreeSpec

-------------------------------------------------------------------------------
(***************************************************************************)
(* Every state is of the right type, whatever the tasks are.               *)
(***************************************************************************)
THEOREM TreeTypes == TreeSpec => []TreeTypeOK
<1>1. TreeInv => TreeTypeOK
  BY DEF TreeInv
<1> QED BY <1>1, TreeInvHolds, PTL

(***************************************************************************)
(* A file in a bucket shows what its check returned in the run the file is *)
(* from, or breaks off, for every set of names and every number of runs    *)
(* that died before (src/validator/checks, src/evidence/evidence-pack.ts). *)
(***************************************************************************)
THEOREM ShelvesShow == TreeSpec => []ShelvesShowResults
<1>1. TreeInv => ShelvesShowResults
  BY DEF TreeInv
<1> QED BY <1>1, TreeInvHolds, PTL

(***************************************************************************)
(* The first pack in a directory leaves a copy of every response of its    *)
(* run, and no older answer beside it, whatever words are in the names     *)
(* (organizeClientEvidenceDirs of src/evidence/evidence-pack.ts).          *)
(***************************************************************************)
THEOREM AnswersShelved == TreeSpec => []AnswersAreShelved
<1>1. TreeInv => AnswersAreShelved
  <2> SUFFICES ASSUME TreeInv, pc = "done", packers = {run},
                      NEW c \in Checks, responses[c] # Absent, responses[c].run = run
               PROVE  /\ \E b \in Buckets : shelves[b][c] # Absent
                      /\ \A b \in Buckets : shelves[b][c] # Absent => shelves[b][c].run = run
    BY DEF AnswersAreShelved
  <2>1. \E b \in Buckets : shelves[b][c] # Absent
    BY BucketFacts DEF TreeInv, Mirrored
  <2>2. \A b \in Buckets : shelves[b][c] # Absent => shelves[b][c].run = run
    BY DEF TreeInv, Own, Mine, Packing
  <2> QED BY <2>1, <2>2
<1> QED BY <1>1, TreeInvHolds, PTL
=============================================================================
