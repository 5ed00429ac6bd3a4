---------------------------- MODULE MCRetryPolicy ----------------------------
(***************************************************************************)
(* Instances of RetryPolicy for TLC.  The failures are outcomes the agent  *)
(* adapters of src/agent produce: the summary of an OpenHands run is free  *)
(* text, so that any keyword family can occur in it.                       *)
(***************************************************************************)
EXTENDS RetryPolicy

CONSTANTS plain, freshBug, browserTimeout, pathTimeout, unclear

MCMessages == {plain, freshBug, browserTimeout, pathTimeout, unclear}

MCFreshMessages == {freshBug}

MCSays == [m \in MCMessages |->
             CASE m = plain          -> {}
               [] m = freshBug       -> {"bug"}
               [] m = browserTimeout -> {"browser", "timeout"}
               [] m = pathTimeout    -> {"timeout"}
               [] m = unclear        -> {"ambiguity", "bug"}]

Outcome(class, code, message) == [class |-> class, code |-> code, message |-> message]

\* Four failures that get another attempt, by a row of the client table or by
\* kind; the last of these is a report that is no JSON: the error quotes its
\* beginning, which says "timeout".  And three that must stop the run, whatever
\* else their text suggests.
MCFailures ==
  {Outcome("recoverable", "OPENHANDS_EXIT_NONZERO", freshBug),
   Outcome("recoverable", "OPENHANDS_EXIT_0", browserTimeout),
   Outcome("recoverable", "TOOL_CRASH", plain),
   Outcome("non_recoverable", "MALFORMED_OUTPUT", pathTimeout),
   Outcome("non_recoverable", "PATH_ESCAPE", pathTimeout),
   Outcome("recoverable", "NONE", unclear),
   Outcome("auth_required", "NONE", browserTimeout)}
==============================================================================
