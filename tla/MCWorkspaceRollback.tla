------------------------- MODULE MCWorkspaceRollback -------------------------
(***************************************************************************)
(* Instances of WorkspaceRollback for TLC: a tracked source file, an       *)
(* ignored one and an installed package; a hunk, a new file, a new file    *)
(* that .gitignore matches and one in a repository of its own.  An agent   *)
(* may commit the source with its hunk and the new file, or nothing.       *)
(***************************************************************************)
EXTENDS WorkspaceRollback

CONSTANTS source, dotenv, package, hunk, newFile, buildOutput, clone

MCSources == {source, dotenv, package}
MCEdits == {hunk, newFile, buildOutput, clone}
MCHunks == {hunk}
MCIgnored == {dotenv, package, buildOutput}
MCNodeModules == {package}
MCNested == {clone}
MCAgentTrees == {{source, hunk, newFile}, {}}
MCStatuses == {"PASS", "BASELINE_BLOCKED_EXPECTED", "BLOCK"}
==============================================================================
