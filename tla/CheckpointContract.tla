-------------------------- MODULE CheckpointContract --------------------------
(***************************************************************************)
(* What a run promises about the workspace it lets an agent work in,       *)
(* without references, files or the order in which anything is copied      *)
(* (createPreAgentCheckpoint, applyRollbackPolicy, the restore command,    *)
(* cleanupWorkspace).  Nobody works before the copy is whole, and nothing  *)
(* changes the copy afterwards; what is kept is kept as the work left it;  *)
(* a rollback only takes from the work, or puts back originals and what    *)
(* the commit holds; it is called a success only when of what it must      *)
(* remove nothing is left but what that commit holds; and from wherever a  *)
(* run was abandoned the copy can be laid out again.                       *)
(*                                                                         *)
(* The copy is out of the work's reach and the commit is not: the work may *)
(* replace it by a commit of its own.  That a success puts everything back *)
(* is not promised here: the commit may hold less than the copy.           *)
(***************************************************************************)
CONSTANTS
  All,        \* what a workspace may hold
  Original,   \* what it holds before the work
  LeftOut,    \* what the copy leaves out
  Removable,  \* what a rollback has to remove
  Commits,    \* what the work may put in the place of the commit
  None        \* no copy

VARIABLES
  phase,      \* "preparing", "working", "kept", "discarding", "restored",
              \* "abandoned", "recovered" or "retired"
  workspace,
  copy,
  commit      \* what the commit a rollback would reset to holds

contractVars == <<phase, workspace, copy, commit>>

MayHold == (SUBSET Original) \cup Commits

ContractInit ==
  /\ phase = "preparing"
  /\ workspace = Original
  /\ copy = None
  /\ commit = {}

Save ==
  /\ phase = "preparing"
  /\ copy' = Original \ LeftOut
  /\ phase' = "working"
  /\ UNCHANGED <<workspace, commit>>

Work ==
  /\ phase = "working"
  /\ workspace' \in SUBSET All
  /\ commit' \in MayHold
  /\ UNCHANGED <<phase, copy>>

Keep ==
  /\ phase = "working"
  /\ phase' = "kept"
  /\ commit' \in SUBSET All
  /\ UNCHANGED <<workspace, copy>>

RollBack ==
  /\ phase = "working"
  /\ phase' = "discarding"
  /\ UNCHANGED <<workspace, copy, commit>>

PutBack == workspace' \in SUBSET UNION {workspace, Original, commit}

\* Whatever fails on the way.
Discard ==
  /\ phase = "discarding"
  /\ PutBack
  /\ phase' \in {"discarding", "abandoned"}
  /\ commit' \in MayHold
  /\ UNCHANGED copy

Succeed ==
  /\ phase = "discarding"
  /\ PutBack
  /\ workspace' \cap Removable \subseteq commit
  /\ phase' = "restored"
  /\ UNCHANGED <<copy, commit>>

\* The process dies.
Abandon ==
  /\ phase \in {"preparing", "working", "kept", "discarding", "restored", "retired"}
  /\ phase' = "abandoned"
  /\ UNCHANGED <<workspace, copy, commit>>

\* An operator has the copy laid out again.
Reclaim ==
  /\ phase \in {"kept", "restored", "abandoned"}
  /\ workspace' \in SUBSET (workspace \cup Original)
  /\ commit' \in SUBSET All
  /\ phase' = "abandoned"
  /\ UNCHANGED copy

Recover ==
  /\ phase = "abandoned"
  /\ copy # None
  /\ workspace' = copy
  /\ phase' = "recovered"
  /\ UNCHANGED <<copy, commit>>

\* The caller has no more use for the workspace.
Retire ==
  /\ phase \in {"kept", "restored", "abandoned"}
  /\ workspace' \in SUBSET workspace
  /\ commit' \in SUBSET All
  /\ phase' = "retired"
  /\ UNCHANGED copy

ContractNext ==
  \/ Save \/ Work \/ Keep \/ RollBack \/ Discard \/ Succeed
  \/ Abandon \/ Reclaim \/ Recover \/ Retire

ContractSpec == ContractInit /\ [][ContractNext]_contractVars

(***************************************************************************)
(* What a caller may conclude from the contract alone: whoever has worked  *)
(* on the workspace, or given up on it, a copy that exists is the whole    *)
(* original; nobody has worked without one; a recovery leaves nothing of   *)
(* the work behind; and a rollback called a success leaves only what was   *)
(* in the commit it reset to, an original or a commit of the work's own.   *)
(***************************************************************************)
CopyIsOriginal == copy = None \/ copy = Original \ LeftOut

WorkIsCovered ==
  phase \in {"working", "kept", "discarding", "restored", "recovered"} => copy # None

CommitIsKnown ==
  phase \in {"preparing", "working", "discarding", "restored"} => commit \in MayHold

WorkIsGone ==
  /\ phase = "restored" => workspace \cap Removable \subseteq commit
  /\ phase = "recovered" => workspace = Original \ LeftOut

ContractKept == CopyIsOriginal /\ WorkIsCovered /\ CommitIsKnown /\ WorkIsGone
===============================================================================
