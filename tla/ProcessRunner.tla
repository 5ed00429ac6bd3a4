---------------------------- MODULE ProcessRunner ----------------------------
(***************************************************************************)
(* SpawnProcessRunner.run: one child process, its output, a timer and a    *)
(* promise (src/agent/process-runner.ts).  The operating system and the    *)
(* event loop decide in which order the child ends, its pipes close, the   *)
(* timer fires and chunks arrive; the callbacks below are all the runner   *)
(* does about it.                                                          *)
(*                                                                         *)
(* A chunk of output is a line.  A limit is a number of lines.             *)
(***************************************************************************)
EXTENDS Naturals, Sequences

CONSTANTS
  Lines,          \* what a line of output can be
  CaptureLimit,   \* HARD_CAPTURE_LIMIT
  LogLimit,       \* MAX_CAPTURED_LOG_BYTES
  Absent          \* no result yet

ASSUME LimitAssumption ==
  /\ CaptureLimit \in Nat
  /\ LogLimit \in 1 .. CaptureLimit

VARIABLES
  child,       \* the process, as far as its events have been delivered
  exit,        \* exitCode and signal of the child
  held,        \* a descendant of the child keeps its pipes open
  killed,      \* SIGKILL was sent
  timer,
  timedOut,
  truncated,
  stdout,
  result       \* what the promise was resolved with

runnerVars == <<child, exit, held, killed, timer, timedOut, truncated, stdout, result>>

\* "none" stands for an exit code and a signal that are both null, "signal" for
\* a null exit code.
Exits == {"none", "zero", "nonzero", "signal"}

Results == [exit : Exits, timedOut : BOOLEAN]

ASSUME ResultAssumption == \A r \in Results : r # Absent

RunnerTypeOK ==
  /\ child \in {"none", "failed", "errored", "running", "exited", "closed"}
  /\ exit \in Exits
  /\ held \in BOOLEAN
  /\ killed \in BOOLEAN
  /\ timer \in {"armed", "fired", "cleared"}
  /\ timedOut \in BOOLEAN
  /\ truncated \in BOOLEAN
  /\ stdout \in Seq(Lines)
  /\ result \in Results \cup {Absent}

RunnerInit ==
  /\ child = "none"
  /\ exit = "none"
  /\ held = FALSE
  /\ killed = FALSE
  /\ timer = "cleared"
  /\ timedOut = FALSE
  /\ truncated = FALSE
  /\ stdout = <<>>
  /\ result = Absent

-------------------------------------------------------------------------------
\* run(): the variables of a call are its own.  The command may not exist.
Spawn ==
  /\ child' \in {"running", "failed"}
  /\ exit' = "none"
  /\ held' = FALSE
  /\ killed' = FALSE
  /\ timer' = "armed"
  /\ timedOut' = FALSE
  /\ truncated' = FALSE
  /\ stdout' = <<>>
  /\ result' = Absent

\* truncateAndRedactLog keeps the head of a long log.
Retained(lines) ==
  IF Len(lines) <= LogLimit THEN lines ELSE SubSeq(lines, 1, LogLimit \div 2)

\* Mutant: a run stopped for its output is no timeout.
FinishTruncated(e) ==
  IF result # Absent THEN UNCHANGED <<timer, result>>
  ELSE /\ timer' = "cleared"
       /\ result' = [exit |-> e, timedOut |-> timedOut]

\* finish(): the promise is resolved once; settled is result # Absent.  The
\* output in the result is Retained(stdout): none comes after this.
Finish(e) ==
  IF result # Absent THEN UNCHANGED <<timer, result>>
  ELSE /\ timer' = "cleared"
       /\ result' = [exit |-> e, timedOut |-> timedOut \/ truncated]

\* child.on('error') of a command that could not be started.
ErrorEvent ==
  /\ child = "failed"
  /\ child' = "errored"
  /\ Finish("none")
  /\ UNCHANGED <<exit, held, killed, timedOut, truncated, stdout>>

\* Mutant: the promise is thought to end with the timer.
TimeoutWithoutKill ==
  /\ timer = "armed" /\ child # "failed"
  /\ timer' = "fired"
  /\ timedOut' = TRUE
  /\ UNCHANGED <<child, exit, held, killed, truncated, stdout, result>>

\* setTimeout: the timer also fires for a child that has ended but whose pipes
\* are open.  The error of a failed start comes before any timer.
Timeout ==
  /\ timer = "armed" /\ child # "failed"
  /\ timer' = "fired"
  /\ timedOut' = TRUE
  /\ killed' = TRUE
  /\ UNCHANGED <<child, exit, held, truncated, stdout, result>>

\* append() on either stream.  Lines beyond the limit need no place in stdout:
\* nothing reads them, and only that there were some matters.
StdoutData ==
  /\ child \in {"running", "exited"}
  /\ \E line \in Lines : stdout' = Append(stdout, line)
  /\ Len(stdout) <= CaptureLimit
  /\ LET over == Len(stdout') > CaptureLimit IN
     /\ truncated' = (truncated \/ over)
     /\ killed' = (killed \/ over)
  /\ UNCHANGED <<child, exit, held, timer, timedOut, result>>

StderrOverflow ==
  /\ child \in {"running", "exited"}
  /\ truncated' = TRUE
  /\ killed' = TRUE
  /\ UNCHANGED <<child, exit, held, timer, timedOut, stdout, result>>

\* The child ends, by itself or by a signal, and may leave a descendant.
ChildExits ==
  /\ child = "running"
  /\ child' = "exited"
  /\ exit' \in Exits \ {"none"}
  /\ held' \in BOOLEAN
  /\ UNCHANGED <<killed, timer, timedOut, truncated, stdout, result>>

DescendantEnds ==
  /\ held
  /\ held' = FALSE
  /\ UNCHANGED <<child, exit, killed, timer, timedOut, truncated, stdout, result>>

\* Mutant: finish on 'exit' instead of 'close'.
CloseOnExit ==
  /\ \/ child = "exited" /\ Finish(exit)
     \/ child = "errored" /\ Finish("nonzero")
  /\ child' = "closed"
  /\ UNCHANGED <<exit, held, killed, timedOut, truncated, stdout>>

\* Mutant: the signal is not passed on.
CloseWithoutSignal ==
  /\ \/ child = "exited" /\ ~held /\ Finish(IF exit = "signal" THEN "none" ELSE exit)
     \/ child = "errored" /\ Finish("nonzero")
  /\ child' = "closed"
  /\ UNCHANGED <<exit, held, killed, timedOut, truncated, stdout>>

\* child.on('close') comes once the child and all its pipes are done; it also
\* follows the error of a command that was not started.
Close ==
  /\ \/ child = "exited" /\ ~held /\ Finish(exit)
     \/ child = "errored" /\ Finish("nonzero")
  /\ child' = "closed"
  /\ UNCHANGED <<exit, held, killed, timedOut, truncated, stdout>>

RunnerStep ==
  \/ ErrorEvent \/ Timeout \/ StdoutData \/ StderrOverflow
  \/ ChildExits \/ DescendantEnds \/ Close
==============================================================================
