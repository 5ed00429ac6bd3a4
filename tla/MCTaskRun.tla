------------------------------ MODULE MCTaskRun ------------------------------
(***************************************************************************)
(* Instances of TaskRun for TLC.  One source file, a hunk in it and a new  *)
(* file; an agent that commits commits the hunk; failures that retry by    *)
(* kind, by a row of the client table, and that stop in each of the four   *)
(* ways.                                                                   *)
(***************************************************************************)
EXTENDS TaskRun

CONSTANTS plain, browserTimeout, pathTimeout, unclear, source, hunk, newFile

MCMessages == {plain, browserTimeout, pathTimeout, unclear}

MCSays == [m \in MCMessages |->
             CASE m = plain          -> {}
               [] m = browserTimeout -> {"browser", "timeout"}
               [] m = pathTimeout    -> {"timeout"}
               [] m = unclear        -> {"ambiguity"}]

Outcome(class, code, message) == [class |-> class, code |-> code, message |-> message]

Claimed == Outcome("recoverable", "OPENHANDS_EXIT_0", plain)
UnsafeClaim == Outcome("non_recoverable", "NOOP_AGENT", plain)

MCClaims == {Claimed, UnsafeClaim}

\* The adapters of src/agent claim success only with a recoverable outcome.
MCAdapterClaims == {Claimed}

MCFailures ==
  {Claimed, UnsafeClaim,
   Outcome("recoverable", "OPENHANDS_EXIT_NONZERO", browserTimeout),
   Outcome("non_recoverable", "PATH_ESCAPE", pathTimeout),
   Outcome("recoverable", "OPENHANDS_EXIT_NONZERO", unclear),
   Outcome("auth_required", "NONE", plain)}

MCSources == {source}
MCEdits == {hunk, newFile}
MCHunks == {hunk}
MCAgentTrees == {{source, hunk}}
MCStatuses == {"PASS", "BASELINE_BLOCKED_EXPECTED", "BLOCK", "AUTH_REQUIRED",
               "CLIENT_DECISION"}
==============================================================================
