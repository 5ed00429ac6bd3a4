----------------------- MODULE WorkspaceRollbackProofs -----------------------
(***************************************************************************)
(* Theorems about WorkspaceRollback, for every workspace and every pattern *)
(* of ignored files.                                                       *)
(*                                                                         *)
(* The argument: the metadata is written only when the copy is complete,   *)
(* and from then on nothing writes to the copy (Sealed); before that the   *)
(* agent has not run and the workspace is untouched (Untouched).  The      *)
(* restores only ever fill an emptied workspace from the copy (Refilling), *)
(* and until a run is preserved what the repository holds is original, or  *)
(* a commit of the agent's own (RepoKnown).                                *)
(***************************************************************************)
EXTENDS WorkspaceRollback, TLAPS

Untouched ==
  /\ step \in {"new", "copying", "committing"} => workspace = Sources
  /\ step = "copying" => fsCheckpoint # Absent /\ fsCheckpoint \subseteq Copied(Sources)
  /\ step \in {"new", "copying"} => ~checkpointMeta

Sealed ==
  /\ checkpointMeta => fsCheckpoint = Copied(Sources)
  /\ step \notin {"new", "copying", "dead", "manualRefill", "manualDone"} => checkpointMeta
  /\ fsCheckpoint # Absent => fsCheckpoint \subseteq Sources

Refilling ==
  /\ step \in {"refilling", "manualRefill", "manualDone"}
       => fsCheckpoint # Absent /\ workspace \subseteq fsCheckpoint
  /\ step = "manualDone" => workspace = fsCheckpoint

OldTrees == (SUBSET Sources) \cup AgentTrees \cup {Absent}

RepoKnown ==
  step \notin {"settled", "dead", "manualRefill", "manualDone"}
    \/ (step = "settled" /\ outcome.action = "rollback")
    => repo.checkpoint \in OldTrees /\ repo.head \in OldTrees

Settled == step = "settled" => outcome # Absent

\* A rollback is done for a status.
Verdictful ==
  step \in {"captured", "wiping", "refilling", "restored", "failed"} => status \in Statuses

CopyInv ==
  /\ RollbackTypeOK
  /\ Verdictful
  /\ Untouched
  /\ Sealed
  /\ Refilling
  /\ RepoKnown
  /\ Settled

RollbackInv == CopyInv /\ RestoredIsClean

USE DEF Items, Copied

LEMMA AbsentFacts ==
  /\ Absent \notin SUBSET Items
  /\ Absent \notin Statuses
  /\ Absent \notin Outcomes
BY AbsentAssumption

\* What an agent or an interrupted removal leaves, and where a reset goes.
LEMMA RepoFacts ==
  ASSUME repo \in Repos
  PROVE  /\ LeftByAgent \subseteq Repos
         /\ LeftOfRepo \subseteq Repos
         /\ NoRepo \in Repos
         /\ InspectGit \in Trees
         /\ Indexed \in SUBSET Items
BY ItemAssumption DEF Repos, Trees, LeftByAgent, LeftOfRepo, NoRepo, InspectGit, Indexed

RepoIsOld == repo.checkpoint \in OldTrees /\ repo.head \in OldTrees

LEMMA OldRepoFacts ==
  ASSUME repo \in Repos, RepoIsOld
  PROVE  /\ InspectGit \in OldTrees
         /\ \A r \in LeftByAgent \cup LeftOfRepo \cup {NoRepo} :
              r.checkpoint \in OldTrees /\ r.head \in OldTrees
BY DEF RepoIsOld, OldTrees, LeftByAgent, LeftOfRepo, NoRepo, InspectGit

LEMMA RollbackInit0 == RollbackInit => RollbackInv
<1>1. NoRepo \in Repos /\ NoRepo.checkpoint \in OldTrees /\ NoRepo.head \in OldTrees
  BY DEF NoRepo, Repos, Trees, OldTrees
<1> QED BY <1>1, AbsentFacts
    DEF RollbackInit, RollbackInv, CopyInv, RollbackTypeOK, Untouched, Sealed, Refilling,
        Verdictful, RepoKnown, Settled, RestoredIsClean, Restored, Steps

LEMMA CheckpointKeepsCopy ==
  ASSUME CopyInv,
         BeginSnapshot \/ CopyEntry \/ FinishSnapshot \/ CommitCheckpoint
  PROVE  CopyInv'
<1> USE AbsentFacts DEF CopyInv, RollbackTypeOK, Untouched, Sealed, Refilling, Verdictful, RepoKnown,
        Settled, Steps
<1>1. CASE BeginSnapshot
  BY <1>1 DEF BeginSnapshot
<1>2. CASE CopyEntry
  BY <1>2 DEF CopyEntry
<1>3. CASE FinishSnapshot
  BY <1>3 DEF FinishSnapshot
<1>4. CASE CommitCheckpoint
  <2>1. workspace = Sources
    BY <1>4 DEF CommitCheckpoint
  <2>2. repo' \in Repos /\ repo'.checkpoint \in OldTrees /\ repo'.head \in OldTrees
    <3>1. CASE repo' = NoRepo
      BY <3>1 DEF NoRepo, Repos, Trees, OldTrees
    <3>2. ASSUME NEW tree \in {Committed(workspace), {}}, NEW ref \in {tree, Absent},
                 repo' = [checkpoint |-> ref, head |-> tree]
          PROVE  repo' \in Repos /\ repo'.checkpoint \in OldTrees /\ repo'.head \in OldTrees
      BY <2>1, <3>2 DEF Committed, Repos, Trees, OldTrees
    <3> QED BY <1>4, <3>1, <3>2 DEF CommitCheckpoint
  <2> QED BY <1>4, <2>2 DEF CommitCheckpoint
<1> QED BY <1>1, <1>2, <1>3, <1>4

LEMMA WorkKeepsCopy ==
  ASSUME CopyInv,
         WorkspaceChanges \/ Judge \/ Preserve \/ (\E agentDiff \in {"nothing", "agent"} : CaptureDiff(agentDiff))
  PROVE  CopyInv'
<1> USE AbsentFacts DEF CopyInv, RollbackTypeOK, Untouched, Sealed, Refilling, Verdictful, RepoKnown,
        Settled, Steps
<1>1. CASE WorkspaceChanges
  <2>1. repo' \in LeftByAgent /\ RepoIsOld
    BY <1>1 DEF WorkspaceChanges, ChangeWorkspace, RepoIsOld
  <2>2. repo' \in Repos /\ repo'.checkpoint \in OldTrees /\ repo'.head \in OldTrees
    BY <2>1, RepoFacts, OldRepoFacts
  <2> QED BY <1>1, <2>2 DEF WorkspaceChanges, ChangeWorkspace
<1>2. CASE Judge
  BY <1>2 DEF Judge
<1>3. CASE Preserve
  <2>1. status \in Statuses
    BY <1>3, ItemAssumption DEF Preserve
  <2>2. /\ outcome' \in Outcomes
        /\ outcome'.action = "preserve"
        /\ outcome'.workspaceRestored = FALSE
    BY <1>3, <2>1 DEF Preserve, Outcomes
  <2>3. repo' \in Repos
    BY <1>3, RepoFacts DEF Preserve, Committed, Repos, Trees
  <2> QED BY <1>3, <2>2, <2>3 DEF Preserve
<1>4. ASSUME NEW agentDiff \in {"nothing", "agent"}, CaptureDiff(agentDiff)
      PROVE  CopyInv'
  BY <1>4, ItemAssumption DEF CaptureDiff, Diffs
<1> QED BY <1>1, <1>2, <1>3, <1>4

(***************************************************************************)
(* A reset with a clean leaves originals, what the tree it resets to holds *)
(* and what was in the workspace; when both succeed, of the edits only     *)
(* those in the tree, the ignored and the nested ones.                     *)
(***************************************************************************)
LEMMA ResetFacts ==
  ASSUME CopyInv, ResetToRef
  PROVE  /\ workspace' \in SUBSET Items
         /\ workspace' \subseteq UNION {workspace, Sources, ResetTree}
         /\ repo' \in Repos
         /\ repo'.checkpoint \in OldTrees /\ repo'.head \in OldTrees
         /\ InspectGit' = InspectGit
         /\ InspectGit \in OldTrees \ {Absent}
         /\ step' = "restored"
              => /\ workspace' \cap Edits \subseteq UNION {Ignored, Nested, InspectGit}
                 /\ InspectGit \subseteq workspace'
<1> USE DEF CopyInv, RollbackTypeOK
<1>1. /\ repo \in Repos /\ RepoIsOld
      /\ step = "captured" /\ InspectGit # Absent
  BY DEF ResetToRef, RepoKnown, RepoIsOld
<1>2. InspectGit \in OldTrees \ {Absent} /\ InspectGit \in SUBSET Items /\ Indexed \in SUBSET Items
  BY <1>1, RepoFacts, OldRepoFacts DEF Trees
<1>3. PICK reset \in BOOLEAN, clean \in BOOLEAN :
        LET ws == IF reset THEN AfterReset(workspace, InspectGit) ELSE workspace
            index == IF reset THEN InspectGit ELSE Indexed
        IN /\ workspace' = IF clean THEN AfterClean(ws, index) ELSE ws
           /\ repo' = IF reset THEN [repo EXCEPT !.head = InspectGit] ELSE repo
           /\ step' = IF reset /\ clean THEN "restored" ELSE "wiping"
  BY DEF ResetToRef
<1>4. /\ repo' \in Repos /\ InspectGit' = InspectGit
      /\ repo'.checkpoint \in OldTrees /\ repo'.head \in OldTrees
  BY <1>1, <1>2, <1>3 DEF Repos, Trees, InspectGit, RepoIsOld
<1>5. /\ workspace' \in SUBSET Items
      /\ workspace' \subseteq UNION {workspace, Sources, ResetTree}
  BY <1>1, <1>2, <1>3 DEF AfterReset, AfterClean, ResetTree
<1>6. ASSUME step' = "restored"
      PROVE  /\ workspace' \cap Edits \subseteq UNION {Ignored, Nested, InspectGit}
             /\ InspectGit \subseteq workspace'
  <2>1. workspace' = AfterClean(AfterReset(workspace, InspectGit), InspectGit)
    BY <1>3, <1>6
  <2> QED BY <2>1 DEF AfterClean, AfterReset
<1> QED BY <1>2, <1>4, <1>5, <1>6

LEMMA RestoreKeepsCopy ==
  ASSUME CopyInv,
         ResetToRef \/ NoRefToReset \/ WipeForRollback \/ WipeFails \/ RefillEntry
           \/ FinishRefill \/ RefillFails \/ WriteOutcome \/ Die \/ DieWiping \/ ManualRestore
  PROVE  CopyInv'
<1> USE AbsentFacts DEF CopyInv, RollbackTypeOK, Untouched, Sealed, Refilling, Verdictful, RepoKnown,
        Settled, Steps
<1>1. CASE ResetToRef
  BY <1>1, ResetFacts DEF ResetToRef
<1>2. CASE NoRefToReset
  BY <1>2 DEF NoRefToReset
<1>3. CASE WipeForRollback
  <2>1. repo' = NoRepo /\ NoRepo \in Repos
    BY <1>3, RepoFacts DEF WipeForRollback, Wipe
  <2> QED BY <1>3, <2>1 DEF WipeForRollback, Wipe, NoRepo, OldTrees
<1>4. CASE WipeFails
  <2>1. repo' \in LeftOfRepo /\ RepoIsOld
    BY <1>4 DEF WipeFails, WipePartly, RepoIsOld
  <2>2. repo' \in Repos /\ repo'.checkpoint \in OldTrees /\ repo'.head \in OldTrees
    BY <2>1, RepoFacts, OldRepoFacts
  <2> QED BY <1>4, <2>2 DEF WipeFails, WipePartly
<1>5. CASE RefillEntry
  BY <1>5 DEF RefillEntry
<1>6. CASE FinishRefill
  BY <1>6, ItemAssumption DEF FinishRefill
<1>7. CASE RefillFails
  BY <1>7 DEF RefillFails
<1>8. CASE WriteOutcome
  <2>1. status \in Statuses
    BY <1>8 DEF WriteOutcome
  <2>2. /\ outcome' \in Outcomes
        /\ outcome'.workspaceRestored <=> step = "restored"
    BY <1>8, <2>1 DEF WriteOutcome, Outcomes
  <2> QED BY <1>8, <2>2 DEF WriteOutcome
<1>9. CASE Die
  BY <1>9 DEF Die
<1>10. CASE DieWiping
  BY <1>10, RepoFacts DEF DieWiping, WipePartly
<1>11. CASE ManualRestore
  BY <1>11, RepoFacts DEF ManualRestore, Wipe, WipePartly
<1> QED BY <1>1, <1>2, <1>3, <1>4, <1>5, <1>6, <1>7, <1>8, <1>9, <1>10, <1>11

(***************************************************************************)
(* A restored workspace is clean: it comes from one of the two ways to     *)
(* finish a rollback, and nothing changes it but a restore by hand.        *)
(***************************************************************************)
LEMMA StaysClean ==
  ASSUME RollbackInv, RollbackNext
  PROVE  RestoredIsClean'
<1> USE AbsentFacts DEF RollbackInv, CopyInv, RollbackTypeOK, RestoredIsClean, Restored
<1> USE DEF InspectGit, ResetTree
<1>1. CASE BeginSnapshot \/ CopyEntry \/ FinishSnapshot \/ CommitCheckpoint
  BY <1>1 DEF BeginSnapshot, CopyEntry, FinishSnapshot, CommitCheckpoint
<1>2. CASE WorkspaceChanges \/ Judge
  BY <1>2 DEF WorkspaceChanges, ChangeWorkspace, Judge
<1>3. CASE Preserve
  <2>1. outcome'.workspaceRestored = FALSE
    BY <1>3 DEF Preserve
  <2> QED BY <1>3, <2>1 DEF Preserve
<1>4. ASSUME NEW agentDiff \in {"nothing", "agent"}, CaptureDiff(agentDiff)
      PROVE  RestoredIsClean'
  BY <1>4 DEF CaptureDiff
<1>5. CASE ResetToRef
  <2> HIDE DEF InspectGit, ResetTree
  <2>1. ASSUME step' = "restored"
        PROVE  /\ workspace' \cap Edits
                    \subseteq UNION {Ignored, Nested, InspectGit \cap UNION AgentTrees}
               /\ InspectGit' # Absent /\ ResetTree' = InspectGit /\ ResetTree' \subseteq workspace'
    <3>1. InspectGit \in SUBSET Sources \/ InspectGit \in AgentTrees
      BY <1>5, ResetFacts DEF OldTrees
    <3>2. InspectGit \cap Edits \subseteq UNION AgentTrees
      BY <3>1, ItemAssumption
    <3> QED BY <1>5, <2>1, <3>2, ResetFacts DEF ResetTree
  <2>2. step' \in {"restored", "wiping"}
    BY <1>5 DEF ResetToRef
  <2> QED BY <2>1, <2>2
<1>6. CASE FinishRefill
  BY <1>6, ItemAssumption DEF FinishRefill, Refilling, Sealed
<1>7. CASE NoRefToReset \/ WipeForRollback \/ WipeFails \/ RefillEntry \/ RefillFails
  BY <1>7 DEF NoRefToReset, WipeForRollback, Wipe, WipeFails, WipePartly, RefillEntry, RefillFails
<1>8. CASE WriteOutcome
  <2>1. outcome'.workspaceRestored <=> step = "restored"
    BY <1>8 DEF WriteOutcome
  <2> QED BY <1>8, <2>1 DEF WriteOutcome
<1>9. CASE Die \/ DieWiping \/ ManualRestore
  BY <1>9 DEF Die, DieWiping, ManualRestore, Wipe, WipePartly
<1> QED BY <1>1, <1>2, <1>3, <1>4, <1>5, <1>6, <1>7, <1>8, <1>9 DEF RollbackNext

-------------------------------------------------------------------------------
(***************************************************************************)
(* The inductive invariant holds of every reachable state.                 *)
(***************************************************************************)
THEOREM RollbackInvariance == RollbackSpec => []RollbackInv
<1>1. RollbackInv /\ [RollbackNext]_rollbackVars => RollbackInv'
  <2> SUFFICES ASSUME RollbackInv, [RollbackNext]_rollbackVars
               PROVE  RollbackInv'
    OBVIOUS
  <2>1. CASE RollbackNext
    BY <2>1, CheckpointKeepsCopy, WorkKeepsCopy, RestoreKeepsCopy, StaysClean
       DEF RollbackNext, RollbackInv
  <2>2. CASE UNCHANGED rollbackVars
    BY <2>2 DEF rollbackVars, RollbackInv, CopyInv, RollbackTypeOK, Untouched, Sealed, Refilling,
       Verdictful, RepoKnown, Settled, RestoredIsClean, Restored, InspectGit, ResetTree
  <2> QED BY <2>1, <2>2
<1> QED BY <1>1, RollbackInit0, PTL DEF RollbackSpec

(***************************************************************************)
(* Type correctness of the checkpoint and the rollback.                    *)
(***************************************************************************)
THEOREM RollbackTypes == RollbackSpec => []RollbackTypeOK
BY RollbackInvariance, PTL DEF RollbackInv, CopyInv

LEMMA CopyRecovers ==
  ASSUME CopyInv
  PROVE  SourcesRecoverable
BY AbsentFacts DEF CopyInv, RollbackTypeOK, Untouched, Sealed, SourcesRecoverable, Recoverable, Steps

(***************************************************************************)
(* What the run started with can be had back from the workspace or from    *)
(* the copy at every moment, wherever a process dies.                      *)
(***************************************************************************)
THEOREM AlwaysRecoverable == RollbackSpec => []SourcesRecoverable
<1>1. RollbackInv => SourcesRecoverable
  BY CopyRecovers DEF RollbackInv
<1> QED BY <1>1, RollbackInvariance, PTL

(***************************************************************************)
(* A rollback that reports success has put back what one of the two        *)
(* checkpoints holds by then, and left nothing of the agent but what git   *)
(* ignores, repositories of its own, and what it had committed itself to   *)
(* the tree git was reset to.                                              *)
(***************************************************************************)
THEOREM RestoredClean == RollbackSpec => []RestoredIsClean
BY RollbackInvariance, PTL DEF RollbackInv

(***************************************************************************)
(* With an agent that never commits, a restored workspace keeps nothing of *)
(* it but what git ignores and repositories of its own.                    *)
(***************************************************************************)
COROLLARY NothingCommitted ==
  ASSUME AgentTrees = {}
  PROVE  RollbackSpec => [](Restored => workspace \cap Edits \subseteq Ignored \cup Nested)
<1>1. RestoredIsClean => (Restored => workspace \cap Edits \subseteq Ignored \cup Nested)
  BY DEF RestoredIsClean
<1> QED BY <1>1, RestoredClean, PTL

(***************************************************************************)
(* The restore command brings the workspace back from any state.           *)
(***************************************************************************)
THEOREM ManualRestoreSound == RollbackSpec => []ManualRestoreWorks
<1>1. RollbackInv => ManualRestoreWorks
  BY DEF RollbackInv, CopyInv, Sealed, Refilling, ManualRestoreWorks
<1> QED BY <1>1, RollbackInvariance, PTL

(***************************************************************************)
(* A complete copy is never written to.                                    *)
(***************************************************************************)
THEOREM CopySealed == RollbackSpec => CheckpointSealed
<1>1. RollbackInv /\ [RollbackNext]_rollbackVars
        => [checkpointMeta => checkpointMeta' /\ fsCheckpoint' = fsCheckpoint]_rollbackVars
  <2> SUFFICES ASSUME RollbackInv, RollbackNext, checkpointMeta
               PROVE  checkpointMeta' /\ fsCheckpoint' = fsCheckpoint
    OBVIOUS
  <2>1. step \notin {"new", "copying"}
    BY DEF RollbackInv, CopyInv, Untouched
  <2> QED BY <2>1 DEF RollbackNext, BeginSnapshot, CopyEntry, FinishSnapshot, CommitCheckpoint,
        WorkspaceChanges, ChangeWorkspace, Judge, Preserve, CaptureDiff, ResetToRef, NoRefToReset,
        WipeForRollback, WipeFails, RefillEntry, FinishRefill, RefillFails, WriteOutcome, Die,
        DieWiping, ManualRestore, Wipe, WipePartly
<1> QED BY <1>1, RollbackInvariance, PTL DEF RollbackSpec, CheckpointSealed

-------------------------------------------------------------------------------
(***************************************************************************)
(* The refinement of the contract, action by action.  The lemmas need no   *)
(* more than CopyInv, which a task keeps as well.                          *)
(***************************************************************************)
PhaseOfStep ==
  /\ step \in {"new", "copying"} => WorkspacePhase = "preparing"
  /\ step \in {"committing", "ready"} => WorkspacePhase = "working"
  /\ step \in {"captured", "wiping", "refilling"} => WorkspacePhase = "discarding"
  /\ step = "restored" => WorkspacePhase = "restored"
  /\ step \in {"failed", "dead", "manualRefill"} => WorkspacePhase = "abandoned"
  /\ step = "manualDone" => WorkspacePhase = IF checkpointMeta THEN "recovered" ELSE "abandoned"
  /\ step = "settled" => WorkspacePhase = IF outcome.action = "preserve" THEN "kept"
                                          ELSE IF outcome.workspaceRestored THEN "restored"
                                          ELSE "abandoned"

LEMMA PhaseFacts == PhaseOfStep /\ PhaseOfStep'
<1>1. PhaseOfStep
  BY DEF PhaseOfStep, WorkspacePhase, Restored
<1>2. PhaseOfStep'
  BY DEF PhaseOfStep, WorkspacePhase, Restored
<1> QED BY <1>1, <1>2

\* The commit of the contract.
TreeOfRepo ==
  /\ repo \in Repos => ResetTree \in SUBSET Items
  /\ repo.checkpoint \in OldTrees /\ repo.head \in OldTrees => ResetTree \in Checkpoint!MayHold
  /\ repo = NoRepo => ResetTree = {}

LEMMA TreeFacts == TreeOfRepo /\ TreeOfRepo' /\ (repo' = repo => ResetTree' = ResetTree)
<1> USE DEF Repos, Trees, OldTrees, NoRepo, ResetTree, InspectGit, Checkpoint!MayHold
<1>1. TreeOfRepo
  BY DEF TreeOfRepo
<1>2. TreeOfRepo'
  BY DEF TreeOfRepo
<1> QED BY <1>1, <1>2

LEMMA ContractInitially ==
  ASSUME RollbackInit
  PROVE  Checkpoint!ContractInit
BY PhaseFacts, TreeFacts
   DEF PhaseOfStep, TreeOfRepo, RollbackInit, CompleteCopy, Checkpoint!ContractInit

LEMMA CheckpointMaps ==
  ASSUME CopyInv, BeginSnapshot \/ CopyEntry \/ FinishSnapshot \/ CommitCheckpoint
  PROVE  Checkpoint!ContractNext \/ UNCHANGED Checkpoint!contractVars
<1> USE PhaseFacts, TreeFacts DEF PhaseOfStep, CompleteCopy
<1>1. CASE BeginSnapshot \/ CopyEntry
  BY <1>1 DEF BeginSnapshot, CopyEntry, CopyInv, Untouched, Checkpoint!contractVars
<1>2. CASE FinishSnapshot
  BY <1>2 DEF FinishSnapshot, CopyInv, Untouched, Checkpoint!ContractNext, Checkpoint!Save
<1>3. CASE CommitCheckpoint
  <2>1. step = "committing" /\ step' = "ready"
        /\ UNCHANGED <<workspace, fsCheckpoint, checkpointMeta>>
    BY <1>3 DEF CommitCheckpoint
  <2>2. ResetTree' \in Checkpoint!MayHold
    BY <1>3, <2>1, CheckpointKeepsCopy DEF CopyInv, RepoKnown, TreeOfRepo
  <2>3. workspace' \in SUBSET Items
    BY <2>1 DEF CopyInv, RollbackTypeOK
  <2> QED BY <2>1, <2>2, <2>3 DEF Checkpoint!ContractNext, Checkpoint!Work
<1> QED BY <1>1, <1>2, <1>3

LEMMA WorkMaps ==
  ASSUME CopyInv,
         WorkspaceChanges \/ Judge \/ Preserve
           \/ (\E agentDiff \in {"nothing", "agent"} : CaptureDiff(agentDiff))
  PROVE  Checkpoint!ContractNext \/ UNCHANGED Checkpoint!contractVars
<1> USE PhaseFacts, TreeFacts DEF PhaseOfStep, CompleteCopy
<1>1. CASE WorkspaceChanges
  <2>1. step = "ready" /\ step' = "ready" /\ workspace' \in SUBSET Items
        /\ UNCHANGED <<fsCheckpoint, checkpointMeta>>
    BY <1>1 DEF WorkspaceChanges, ChangeWorkspace
  <2>2. ResetTree' \in Checkpoint!MayHold
    BY <1>1, <2>1, WorkKeepsCopy DEF CopyInv, RepoKnown, TreeOfRepo
  <2> QED BY <2>1, <2>2 DEF Checkpoint!ContractNext, Checkpoint!Work
<1>2. CASE Judge
  BY <1>2 DEF Judge, Checkpoint!contractVars
<1>3. CASE Preserve
  <2>1. /\ step = "ready" /\ step' = "settled"
        /\ outcome'.action = "preserve"
        /\ UNCHANGED <<workspace, fsCheckpoint, checkpointMeta>>
    BY <1>3 DEF Preserve
  <2>2. ResetTree' \in SUBSET Items
    BY <1>3, WorkKeepsCopy DEF CopyInv, RollbackTypeOK, TreeOfRepo
  <2> QED BY <2>1, <2>2 DEF Checkpoint!ContractNext, Checkpoint!Keep
<1>4. ASSUME NEW agentDiff \in {"nothing", "agent"}, CaptureDiff(agentDiff)
      PROVE  Checkpoint!ContractNext
  BY <1>4 DEF CaptureDiff, Checkpoint!ContractNext, Checkpoint!RollBack
<1> QED BY <1>1, <1>2, <1>3, <1>4

(***************************************************************************)
(* A rollback takes away, or puts back originals and what the commit       *)
(* holds, whichever way it goes.                                           *)
(***************************************************************************)
LEMMA RollbackMaps ==
  ASSUME CopyInv, RollbackStep
  PROVE  Checkpoint!ContractNext \/ UNCHANGED Checkpoint!contractVars
<1> USE PhaseFacts, TreeFacts DEF PhaseOfStep, CompleteCopy
<1>1. CASE ResetToRef
  <2>1. /\ workspace' \subseteq UNION {workspace, Sources, ResetTree}
        /\ ResetTree' = ResetTree
        /\ step' = "restored" => workspace' \cap (Edits \ (Ignored \cup Nested)) \subseteq ResetTree
    BY <1>1, ResetFacts DEF ResetTree
  <2>2. ResetTree' \in Checkpoint!MayHold
    BY <1>1, ResetFacts DEF TreeOfRepo
  <2>3. step = "captured" /\ step' \in {"restored", "wiping"} /\ UNCHANGED <<fsCheckpoint, checkpointMeta>>
    BY <1>1 DEF ResetToRef
  <2> QED BY <2>1, <2>2, <2>3 DEF Checkpoint!ContractNext, Checkpoint!Discard, Checkpoint!Succeed,
             Checkpoint!PutBack
<1>2. CASE NoRefToReset
  BY <1>2 DEF NoRefToReset, Checkpoint!contractVars
<1>3. CASE WipeForRollback \/ WipeFails
  <2>1. /\ step = "wiping" /\ step' \in {"refilling", "failed"}
        /\ workspace' \subseteq workspace
        /\ UNCHANGED <<fsCheckpoint, checkpointMeta>>
    BY <1>3 DEF WipeForRollback, Wipe, WipeFails, WipePartly
  <2>2. ResetTree' \in Checkpoint!MayHold
    BY <1>3, <2>1, RestoreKeepsCopy DEF CopyInv, RepoKnown, TreeOfRepo
  <2> QED BY <2>1, <2>2 DEF Checkpoint!ContractNext, Checkpoint!Discard, Checkpoint!PutBack
<1>4. CASE step = "refilling" /\ (RefillEntry \/ RefillFails)
  <2>1. /\ workspace' \subseteq workspace \cup Sources
        /\ step' \in {"refilling", "failed"}
        /\ UNCHANGED <<fsCheckpoint, checkpointMeta, repo>>
    BY <1>4, ItemAssumption DEF RefillEntry, RefillFails, CopyInv, Sealed
  <2>2. ResetTree' = ResetTree /\ ResetTree \in Checkpoint!MayHold
    BY <1>4, <2>1 DEF CopyInv, RepoKnown, TreeOfRepo
  <2> QED BY <1>4, <2>1, <2>2 DEF Checkpoint!ContractNext, Checkpoint!Discard, Checkpoint!PutBack
<1>5. CASE step = "refilling" /\ FinishRefill
  <2>1. workspace' \cap (Edits \ (Ignored \cup Nested)) = {}
    BY <1>5, ItemAssumption DEF FinishRefill, CopyInv, Sealed, Refilling
  <2> QED BY <1>5, <2>1 DEF FinishRefill, Checkpoint!ContractNext, Checkpoint!Succeed,
             Checkpoint!PutBack
<1>6. CASE WriteOutcome
  <2>1. /\ outcome'.action = "rollback"
        /\ outcome'.workspaceRestored = (step = "restored")
        /\ step \in {"restored", "failed"} /\ step' = "settled"
        /\ UNCHANGED <<workspace, fsCheckpoint, checkpointMeta, repo>>
    BY <1>6 DEF WriteOutcome
  <2> QED BY <2>1 DEF Checkpoint!contractVars
<1> QED BY <1>1, <1>2, <1>3, <1>4, <1>5, <1>6 DEF RollbackStep

LEMMA DeathMaps ==
  ASSUME CopyInv, Die \/ DieWiping
  PROVE  Checkpoint!ContractNext \/ UNCHANGED Checkpoint!contractVars
<1> USE PhaseFacts, TreeFacts DEF PhaseOfStep, CompleteCopy
<1>1. CASE Die
  BY <1>1 DEF Die, CopyInv, RollbackTypeOK, Steps, Checkpoint!ContractNext, Checkpoint!Abandon,
     Checkpoint!contractVars
<1>2. CASE DieWiping
  <2>1. /\ step = "wiping" /\ step' = "dead"
        /\ repo' \in LeftOfRepo /\ RepoIsOld
        /\ workspace' \subseteq workspace
        /\ UNCHANGED <<fsCheckpoint, checkpointMeta>>
    BY <1>2 DEF DieWiping, WipePartly, CopyInv, RepoKnown, RepoIsOld
  <2>2. ResetTree' \in Checkpoint!MayHold
    BY <2>1, OldRepoFacts DEF CopyInv, RollbackTypeOK, TreeOfRepo
  <2> QED BY <2>1, <2>2 DEF Checkpoint!ContractNext, Checkpoint!Discard, Checkpoint!PutBack
<1> QED BY <1>1, <1>2

LEMMA RestoreByHandMaps ==
  ASSUME CopyInv,
         ManualRestore \/ (step = "manualRefill" /\ (RefillEntry \/ FinishRefill \/ RefillFails))
  PROVE  Checkpoint!ContractNext \/ UNCHANGED Checkpoint!contractVars
<1> USE PhaseFacts, TreeFacts DEF PhaseOfStep, CompleteCopy
<1>1. CASE ManualRestore
  <2>1. /\ step \in {"settled", "dead"} /\ step' \in {"manualRefill", "dead"}
        /\ workspace' \subseteq workspace
        /\ UNCHANGED <<fsCheckpoint, checkpointMeta>>
    BY <1>1 DEF ManualRestore, Wipe, WipePartly
  <2>2. ResetTree' \in SUBSET Items
    BY <1>1, RestoreKeepsCopy DEF CopyInv, RollbackTypeOK, TreeOfRepo
  <2> QED BY <2>1, <2>2 DEF Checkpoint!ContractNext, Checkpoint!Reclaim
<1>2. CASE step = "manualRefill" /\ RefillEntry
  <2>1. /\ workspace' \subseteq workspace \cup Sources
        /\ step' = "manualRefill"
        /\ UNCHANGED <<fsCheckpoint, checkpointMeta, repo>>
    BY <1>2 DEF RefillEntry, CopyInv, Sealed, Refilling
  <2>2. ResetTree' \in SUBSET Items
    BY <2>1 DEF CopyInv, RollbackTypeOK, TreeOfRepo
  <2> QED BY <1>2, <2>1, <2>2 DEF Checkpoint!ContractNext, Checkpoint!Reclaim
<1>3. CASE step = "manualRefill" /\ FinishRefill
  <2>1. workspace = fsCheckpoint /\ fsCheckpoint # Absent
    BY <1>3 DEF FinishRefill, CopyInv, Refilling
  <2> QED BY <1>3, <2>1 DEF FinishRefill, Checkpoint!ContractNext, Checkpoint!Recover,
             Checkpoint!contractVars
<1>4. CASE step = "manualRefill" /\ RefillFails
  BY <1>4 DEF RefillFails, Checkpoint!contractVars
<1> QED BY <1>1, <1>2, <1>3, <1>4

(***************************************************************************)
(* Every behaviour of checkpoint, rollback, death and restore is one the   *)
(* contract allows.                                                        *)
(***************************************************************************)
THEOREM RollbackImplementsContract == RollbackSpec => ImplementsCheckpoint
<1>1. RollbackInv /\ [RollbackNext]_rollbackVars
        => [Checkpoint!ContractNext]_(Checkpoint!contractVars)
  <2> SUFFICES ASSUME RollbackInv, [RollbackNext]_rollbackVars
               PROVE  Checkpoint!ContractNext \/ UNCHANGED Checkpoint!contractVars
    OBVIOUS
  <2>1. CASE RollbackNext
    <3>1. CASE RefillEntry \/ FinishRefill \/ RefillFails
      <4>1. step \in {"refilling", "manualRefill"}
        BY <3>1 DEF RefillEntry, FinishRefill, RefillFails
      <4> QED BY <3>1, <4>1, RollbackMaps, RestoreByHandMaps DEF RollbackInv, RollbackStep
    <3>2. CASE ~(RefillEntry \/ FinishRefill \/ RefillFails)
      BY <2>1, <3>2, CheckpointMaps, WorkMaps, RollbackMaps, DeathMaps, RestoreByHandMaps
         DEF RollbackNext, RollbackInv, RollbackStep
    <3> QED BY <3>1, <3>2
  <2>2. CASE UNCHANGED rollbackVars
    BY <2>2 DEF rollbackVars, Checkpoint!contractVars, WorkspacePhase, Restored, CompleteCopy,
       ResetTree, InspectGit
  <2> QED BY <2>1, <2>2
<1> QED BY <1>1, ContractInitially, RollbackInvariance, PTL
    DEF RollbackSpec, ImplementsCheckpoint, Checkpoint!ContractSpec

-------------------------------------------------------------------------------
(***************************************************************************)
(* The contract is strong enough to be used instead of the code: it alone  *)
(* gives that the copy is the original, that no agent works before there   *)
(* is one, that nothing of the work outlives a recovery, and a successful  *)
(* rollback only what a commit of the agent's own holds.                   *)
(***************************************************************************)
THEOREM ContractSuffices == ImplementsCheckpoint => []Checkpoint!ContractKept
<1> USE DEF Checkpoint!ContractKept, Checkpoint!CopyIsOriginal, Checkpoint!WorkIsCovered,
            Checkpoint!CommitIsKnown, Checkpoint!WorkIsGone, Checkpoint!MayHold
<1>1. Checkpoint!ContractInit => Checkpoint!ContractKept
  BY DEF Checkpoint!ContractInit
<1>2. Checkpoint!ContractKept /\ [Checkpoint!ContractNext]_(Checkpoint!contractVars)
        => Checkpoint!ContractKept'
  <2> SUFFICES ASSUME Checkpoint!ContractKept,
                      [Checkpoint!ContractNext]_(Checkpoint!contractVars)
               PROVE  Checkpoint!ContractKept'
    OBVIOUS
  <2> HIDE DEF WorkspacePhase, CompleteCopy, ResetTree
  <2>1. CASE Checkpoint!Save
    <3>1. Sources \ NodeModules # Absent
      BY AbsentFacts
    <3> QED BY <2>1, <3>1 DEF Checkpoint!Save
  <2>2. CASE Checkpoint!Work \/ Checkpoint!Keep \/ Checkpoint!RollBack
    BY <2>2 DEF Checkpoint!Work, Checkpoint!Keep, Checkpoint!RollBack
  <2>3. CASE Checkpoint!Discard \/ Checkpoint!Succeed
    BY <2>3 DEF Checkpoint!Discard, Checkpoint!Succeed
  <2>4. CASE Checkpoint!Abandon \/ Checkpoint!Reclaim \/ Checkpoint!Recover \/ Checkpoint!Retire
    BY <2>4 DEF Checkpoint!Abandon, Checkpoint!Reclaim, Checkpoint!Recover, Checkpoint!Retire
  <2>5. CASE UNCHANGED Checkpoint!contractVars
    BY <2>5 DEF Checkpoint!contractVars
  <2> QED BY <2>1, <2>2, <2>3, <2>4, <2>5 DEF Checkpoint!ContractNext
<1> QED BY <1>1, <1>2, PTL DEF ImplementsCheckpoint, Checkpoint!ContractSpec

(***************************************************************************)
(* What the contract gives therefore holds of checkpoint, rollback, death  *)
(* and restore.                                                            *)
(***************************************************************************)
COROLLARY RollbackKeepsContract == RollbackSpec => []Checkpoint!ContractKept
BY RollbackImplementsContract, ContractSuffices, PTL
==============================================================================
