-------------------------- MODULE WorkspaceRollback --------------------------
(***************************************************************************)
(* The pre-agent checkpoint of a run and what becomes of the workspace     *)
(* afterwards (src/safety/git-checkpoint.ts, workspace-checkpoint.ts and   *)
(* the manual restore command of packages/validator/bin).                  *)
(*                                                                         *)
(* The workspace is a set of items: a file the run started with (Sources), *)
(* or something the agent made (Edits), which is a hunk in a file that git *)
(* tracks (Hunks), or a new file.  Two checkpoints are taken before the    *)
(* agent runs, a copy of the directory and a commit in the workspace's own *)
(* repository.  A successful run is preserved; after any other the         *)
(* workspace is reset to the commit or, if that fails, wiped and refilled  *)
(* from the copy, entry by entry.  The process may die between any two of  *)
(* these steps.                                                            *)
(*                                                                         *)
(* The repository lies in the workspace, where the agent may commit, start *)
(* it afresh or delete the checkpoint's reference.  Settings of it that    *)
(* make git reset or git clean do something else are left out, and so is a *)
(* repository that was in the workspace before the run.                    *)
(***************************************************************************)
CONSTANTS
  Sources,         \* what the workspace holds before the agent runs
  Edits,           \* what an agent may add
  Hunks,           \* the edits inside files git tracks
  Ignored,         \* items .gitignore matches
  NodeModules,     \* items under node_modules
  Nested,          \* items inside a repository of their own below the workspace
  AgentTrees,      \* trees an agent may have made HEAD or the checkpoint
  Statuses,        \* RunStatus
  Absent           \* a file, reference or directory that does not exist

Items == Sources \cup Edits

SuccessStatuses == {"PASS", "BASELINE_BLOCKED_EXPECTED"}

ASSUME ItemAssumption ==
  /\ Sources \cap Edits = {}
  /\ Hunks \subseteq Edits \ Ignored
  /\ Ignored \subseteq Items
  /\ NodeModules \subseteq Items
  /\ Nested \subseteq Items \ Hunks
  /\ AgentTrees \subseteq SUBSET (Items \ Nested)
  /\ SuccessStatuses \cup {"BLOCK"} \subseteq Statuses

Outcomes == [action : {"preserve", "rollback"}, status : Statuses,
             workspaceRestored : BOOLEAN]

\* What a diff file shows: no change, the changes the agent adapter saw, or
\* what git diff shows against the commit.
Diffs == {"nothing", "agent", "git"}

ASSUME AbsentAssumption ==
  /\ \A dir \in SUBSET Items : dir # Absent
  /\ \A s \in Statuses : s # Absent
  /\ \A o \in Outcomes : o # Absent
  /\ Absent \notin Diffs

VARIABLES
  workspace,       \* content of the run's workspace directory
  fsCheckpoint,    \* content of workspace-checkpoint/
  checkpointMeta,  \* checkpoint-meta.json exists
  repo,            \* the trees of refs/pipeline/checkpoint and of HEAD
  gitDiff,         \* what git-diff.patch shows
  diffPatch,       \* what diff.patch shows
  outcome,         \* rollback-outcome.json
  status,          \* the status applyRollbackPolicy is called with
  step             \* how far the checkpoint and the rollback have come

rollbackVars == <<workspace, fsCheckpoint, checkpointMeta, repo, gitDiff,
                  diffPatch, outcome, status, step>>

Steps == {"new", "copying", "committing", "ready", "captured", "wiping",
          "refilling", "restored", "failed", "settled", "dead",
          "manualRefill", "manualDone"}

Trees == (SUBSET Items) \cup {Absent}

Repos == [checkpoint : Trees, head : Trees]

NoRepo == [checkpoint |-> Absent, head |-> Absent]

RollbackTypeOK ==
  /\ workspace \in SUBSET Items
  /\ fsCheckpoint \in (SUBSET Items) \cup {Absent}
  /\ checkpointMeta \in BOOLEAN
  /\ repo \in Repos
  /\ gitDiff \in Diffs \cup {Absent}
  /\ diffPatch \in Diffs \cup {Absent}
  /\ outcome \in Outcomes \cup {Absent}
  /\ status \in Statuses \cup {Absent}
  /\ step \in Steps

RollbackInit ==
  /\ workspace = Sources
  /\ fsCheckpoint = Absent
  /\ checkpointMeta = FALSE
  /\ repo = NoRepo
  /\ gitDiff = Absent
  /\ diffPatch = Absent
  /\ outcome = Absent
  /\ status = Absent
  /\ step = "new"

-------------------------------------------------------------------------------
(***************************************************************************)
(* createPreAgentCheckpoint: the copy, its metadata, the commit.  Neither  *)
(* checkpoint holds everything: the copy leaves out node_modules and .git, *)
(* the commit what .gitignore matches and the content of a repository      *)
(* below the workspace, of which it names the commit only.                 *)
(***************************************************************************)
Copied(dir) == dir \ NodeModules
Committed(dir) == dir \ (Ignored \cup Nested)

\* Mutant: a checkpoint before each attempt.
BeginSnapshotAgain ==
  /\ step \in {"new", "ready"}
  /\ fsCheckpoint' = {}
  /\ step' = "copying"
  /\ UNCHANGED <<workspace, checkpointMeta, repo, gitDiff, diffPatch, outcome, status>>

BeginSnapshot ==
  /\ step = "new"
  /\ fsCheckpoint' = {}
  /\ step' = "copying"
  /\ UNCHANGED <<workspace, checkpointMeta, repo, gitDiff, diffPatch, outcome, status>>

CopyEntry ==
  /\ step = "copying"
  /\ \E item \in Copied(workspace) \ fsCheckpoint :
       fsCheckpoint' = fsCheckpoint \cup {item}
  /\ UNCHANGED <<workspace, checkpointMeta, repo, gitDiff, diffPatch, outcome,
                 status, step>>

\* Mutant: the copies are not awaited.
FinishSnapshotEarly ==
  /\ step = "copying"
  /\ checkpointMeta' = TRUE
  /\ step' = "committing"
  /\ UNCHANGED <<workspace, fsCheckpoint, repo, gitDiff, diffPatch, outcome, status>>

FinishSnapshot ==
  /\ step = "copying"
  /\ fsCheckpoint = Copied(workspace)
  /\ checkpointMeta' = TRUE
  /\ step' = "committing"
  /\ UNCHANGED <<workspace, fsCheckpoint, repo, gitDiff, diffPatch, outcome, status>>

\* ensureGitCheckpoint.  There is no repository to use without git, or when
\* nothing can be committed.  The result of "git add -A" is not looked at: when
\* it fails, the commit is made all the same (--allow-empty), with an empty tree.
\* And when the reference cannot be set, HEAD has to do.
CommitCheckpoint ==
  /\ step = "committing"
  /\ \/ repo' = NoRepo
     \/ \E tree \in {Committed(workspace), {}} :
          \E ref \in {tree, Absent} : repo' = [checkpoint |-> ref, head |-> tree]
  /\ step' = "ready"
  /\ UNCHANGED <<workspace, fsCheckpoint, checkpointMeta, gitDiff, diffPatch,
                 outcome, status>>

\* The agent or the tests leave the workspace as ws, and its repository as it
\* was, with a commit or a reference of theirs, or without.
LeftByAgent == [checkpoint : {repo.checkpoint, Absent} \cup AgentTrees,
                head       : {repo.head, Absent} \cup AgentTrees]

ChangeWorkspace(ws) ==
  /\ step = "ready"
  /\ workspace' = ws
  /\ repo' \in LeftByAgent
  /\ UNCHANGED <<fsCheckpoint, checkpointMeta, gitDiff, diffPatch, outcome, status, step>>

\* The two diff files of an evidence bundle.
WriteBundleDiff(diff) ==
  /\ diffPatch' = diff
  /\ gitDiff' = diff
  /\ UNCHANGED <<workspace, fsCheckpoint, checkpointMeta, repo, outcome, status, step>>

-------------------------------------------------------------------------------
(***************************************************************************)
(* applyRollbackPolicy.                                                    *)
(***************************************************************************)

\* inspectGit: the commit a rollback resets to.  Without the checkpoint's
\* reference it is HEAD, whoever has made it.
InspectGit == IF repo.checkpoint # Absent THEN repo.checkpoint ELSE repo.head

\* What the index holds, taken to be what HEAD does.
Indexed == IF repo.head = Absent THEN {} ELSE repo.head

\* preserveSuccessfulRun; its own commit leaves the checkpoint ref alone.
Preserve ==
  /\ step = "ready"
  /\ status \in SuccessStatuses
  /\ IF InspectGit = Absent
       THEN UNCHANGED repo
       ELSE \E tree \in {repo.head, Indexed, Committed(workspace) \cup (workspace \cap Indexed)} :
              repo' = [repo EXCEPT !.head = tree]
  /\ outcome' = [action |-> "preserve", status |-> status, workspaceRestored |-> FALSE]
  /\ step' = "settled"
  /\ UNCHANGED <<workspace, fsCheckpoint, checkpointMeta, gitDiff, diffPatch, status>>

\* rollbackUnrecoverableFailure, up to the reset: the agent's diff, or git's.
CaptureDiff(agentDiff) ==
  LET diffBody == IF agentDiff # "nothing" THEN agentDiff ELSE "git" IN
  /\ step = "ready"
  /\ status \in Statuses \ SuccessStatuses
  /\ gitDiff' = diffBody
  /\ diffPatch' = IF diffPatch = Absent THEN diffBody ELSE diffPatch
  /\ step' = "captured"
  /\ UNCHANGED <<workspace, fsCheckpoint, checkpointMeta, repo, outcome, status>>

\* git reset --hard <tree> puts tracked files back, and moves HEAD; git clean -fd
\* removes the files git does not track, except those it ignores and those of
\* another repository.
\* Mutant: git clean -n.
AfterCleanDry(ws, index) == ws

AfterReset(ws, tree) == tree \cup (ws \ (Hunks \cup Indexed))
AfterClean(ws, index) == ws \cap UNION {index, Hunks, Ignored, Nested}

ResetToRef ==
  /\ step = "captured"
  /\ InspectGit # Absent
  /\ \E reset, clean \in BOOLEAN :
       LET ws == IF reset THEN AfterReset(workspace, InspectGit) ELSE workspace
           index == IF reset THEN InspectGit ELSE Indexed
       IN
       /\ workspace' = IF clean THEN AfterClean(ws, index) ELSE ws
       /\ repo' = IF reset THEN [repo EXCEPT !.head = InspectGit] ELSE repo
       /\ step' = IF reset /\ clean THEN "restored" ELSE "wiping"
  /\ UNCHANGED <<fsCheckpoint, checkpointMeta, gitDiff, diffPatch, outcome, status>>

NoRefToReset ==
  /\ step = "captured"
  /\ InspectGit = Absent
  /\ step' = "wiping"
  /\ UNCHANGED <<workspace, fsCheckpoint, checkpointMeta, repo, gitDiff,
                 diffPatch, outcome, status>>

\* restoreWorkspaceCheckpoint: everything goes, .git with it, then the copy
\* comes back.  It refuses a workspace outside the allowed roots, and the
\* removal or the copy may fail part of the way.
\* Mutant: the copy is laid over what is there.
WipeNothing(done) ==
  /\ step' = done
  /\ UNCHANGED <<workspace, repo, fsCheckpoint, checkpointMeta, gitDiff, diffPatch,
                 outcome, status>>

Wipe(done) ==
  /\ workspace' = {}
  /\ repo' = NoRepo
  /\ step' = done
  /\ UNCHANGED <<fsCheckpoint, checkpointMeta, gitDiff, diffPatch, outcome, status>>

WipeForRollback == step = "wiping" /\ Wipe("refilling")

\* What a removal that was interrupted has left of the repository.
LeftOfRepo == [checkpoint : {repo.checkpoint, Absent}, head : {repo.head, Absent}]

WipePartly(after) ==
  /\ workspace' \in SUBSET workspace
  /\ repo' \in LeftOfRepo
  /\ step' = after
  /\ UNCHANGED <<fsCheckpoint, checkpointMeta, gitDiff, diffPatch, outcome, status>>

\* Mutant: a removal that failed is tried again.
WipeFailsAgain == step = "wiping" /\ WipePartly("wiping")

WipeFails == step = "wiping" /\ WipePartly("failed")

RefillEntry ==
  /\ step \in {"refilling", "manualRefill"}
  /\ \E item \in fsCheckpoint \ workspace : workspace' = workspace \cup {item}
  /\ UNCHANGED <<fsCheckpoint, checkpointMeta, repo, gitDiff, diffPatch,
                 outcome, status, step>>

FinishRefill ==
  /\ \/ step = "refilling" /\ step' = "restored"
     \/ step = "manualRefill" /\ step' = "manualDone"
  /\ fsCheckpoint \subseteq workspace
  /\ UNCHANGED <<workspace, fsCheckpoint, checkpointMeta, repo, gitDiff,
                 diffPatch, outcome, status>>

RefillFails ==
  /\ \/ step = "refilling" /\ step' = "failed"
     \/ step = "manualRefill" /\ step' = "dead"
  /\ UNCHANGED <<workspace, fsCheckpoint, checkpointMeta, repo, gitDiff,
                 diffPatch, outcome, status>>

WriteOutcome ==
  /\ step \in {"restored", "failed"}
  /\ outcome' = [action |-> "rollback", status |-> status,
                 workspaceRestored |-> step = "restored"]
  /\ step' = "settled"
  /\ UNCHANGED <<workspace, fsCheckpoint, checkpointMeta, repo, gitDiff,
                 diffPatch, status>>

\* The steps of applyRollbackPolicy after it has begun to roll back.
RollbackStep ==
  \/ ResetToRef
  \/ NoRefToReset
  \/ WipeForRollback
  \/ WipeFails
  \/ step = "refilling" /\ (RefillEntry \/ FinishRefill \/ RefillFails)
  \/ WriteOutcome

-------------------------------------------------------------------------------
(***************************************************************************)
(* The death of the process, and the command an operator restores with     *)
(* once no process works on the workspace.  Without --workspace it needs   *)
(* the metadata of the checkpoint; with it, a directory is enough.         *)
(***************************************************************************)
DieWiping == step = "wiping" /\ WipePartly("dead")

Die ==
  /\ step \notin {"settled", "dead", "manualRefill", "manualDone"}
  /\ step' = "dead"
  /\ UNCHANGED <<workspace, fsCheckpoint, checkpointMeta, repo, gitDiff,
                 diffPatch, outcome, status>>

ManualRestore ==
  /\ step \in {"settled", "dead"}
  /\ fsCheckpoint # Absent
  /\ Wipe("manualRefill") \/ WipePartly("dead")

\* Called by the pipeline: some agent or test, some verdict.
WorkspaceChanges == \E ws \in SUBSET Items : ChangeWorkspace(ws)

Judge ==
  /\ step = "ready"
  /\ status = Absent
  /\ status' \in Statuses
  /\ UNCHANGED <<workspace, fsCheckpoint, checkpointMeta, repo, gitDiff,
                 diffPatch, outcome, step>>

RollbackNext ==
  \/ BeginSnapshot \/ CopyEntry \/ FinishSnapshot \/ CommitCheckpoint
  \/ status = Absent /\ WorkspaceChanges
  \/ Judge
  \/ Preserve
  \/ \E agentDiff \in {"nothing", "agent"} : CaptureDiff(agentDiff)
  \/ ResetToRef \/ NoRefToReset
  \/ WipeForRollback \/ WipeFails \/ RefillEntry \/ FinishRefill \/ RefillFails
  \/ WriteOutcome
  \/ Die \/ DieWiping
  \/ ManualRestore

RollbackSpec == RollbackInit /\ [][RollbackNext]_rollbackVars

-------------------------------------------------------------------------------
(***************************************************************************)
(* Properties                                                              *)
(***************************************************************************)

(***************************************************************************)
(* Whatever the agent deletes and wherever the process dies, what the run  *)
(* started with is still in the workspace or in the copy, node_modules     *)
(* apart.  The exception is an operator who names the workspace of a run   *)
(* that died before its copy was complete: the command then wipes the      *)
(* workspace in favour of a part of it.                                    *)
(***************************************************************************)
Recoverable == Sources \ NodeModules \subseteq workspace
                 \/ (fsCheckpoint # Absent /\ Sources \ NodeModules \subseteq fsCheckpoint)

SourcesRecoverable == Recoverable \/ (step \notin {"new", "copying"} /\ ~checkpointMeta)

(***************************************************************************)
(* A rollback that reports the workspace restored has put back all that    *)
(* one of the two checkpoints holds, and has removed every hunk and every  *)
(* new file but these: what git ignores, what lies in a repository of its  *)
(* own, and what an agent had committed to the tree the workspace was      *)
(* reset to, in place of the checkpoint's or as HEAD when the reference    *)
(* was gone.  A workspace that was refilled from the copy keeps none.      *)
(***************************************************************************)
Restored == step = "restored" \/ (step = "settled" /\ outcome.workspaceRestored)

ResetTree == IF InspectGit = Absent THEN {} ELSE InspectGit

RestoredIsClean ==
  Restored =>
    /\ workspace \cap Edits
         \subseteq UNION {Ignored, Nested, ResetTree \cap UNION AgentTrees}
    /\ \/ InspectGit # Absent /\ ResetTree \subseteq workspace
       \/ fsCheckpoint \subseteq workspace /\ workspace \cap Edits = {}

(***************************************************************************)
(* The restore command, run to its end on a checkpoint whose metadata was  *)
(* written, brings the workspace back whatever the run and its rollback    *)
(* left there, and may be run again after it failed.                       *)
(***************************************************************************)
ManualRestoreWorks ==
  step = "manualDone" /\ checkpointMeta => workspace = Copied(Sources)

(***************************************************************************)
(* Once its metadata is written the copy never changes: no step of the     *)
(* run, the rollback or the restore command, however they are interrupted  *)
(* and repeated, touches what a restore has to start from.                 *)
(***************************************************************************)
CheckpointSealed ==
  [][checkpointMeta => checkpointMeta' /\ fsCheckpoint' = fsCheckpoint]_rollbackVars

(***************************************************************************)
(* Checkpoint, rollback and restore command implement the contract: the    *)
(* copy is whole before any agent works and final afterwards, a preserved  *)
(* workspace is untouched, a rollback puts back only originals and what    *)
(* the commit holds by then, however it fails, and reports success only    *)
(* when of hunks and new files nothing is left but what that commit holds. *)
(* The copy counts from the moment its metadata is written.                *)
(***************************************************************************)
CompleteCopy == IF checkpointMeta THEN fsCheckpoint ELSE Absent

WorkspacePhase ==
  CASE step \in {"new", "copying"}                  -> "preparing"
    [] step \in {"committing", "ready"}             -> "working"
    [] step \in {"captured", "wiping", "refilling"} -> "discarding"
    [] step = "settled" /\ outcome.action = "preserve" -> "kept"
    [] Restored /\ ~(step = "settled" /\ outcome.action = "preserve") -> "restored"
    [] step = "manualDone" /\ checkpointMeta        -> "recovered"
    [] OTHER                                        -> "abandoned"

Checkpoint == INSTANCE CheckpointContract WITH
  All       <- Items,
  Original  <- Sources,
  LeftOut   <- NodeModules,
  Removable <- Edits \ (Ignored \cup Nested),
  Commits   <- AgentTrees,
  None      <- Absent,
  phase     <- WorkspacePhase,
  copy      <- CompleteCopy,
  commit    <- ResetTree

ImplementsCheckpoint == Checkpoint!ContractSpec
==============================================================================
