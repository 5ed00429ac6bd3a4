------------------------------ MODULE LongChain ------------------------------
(***************************************************************************)
(* runLongChainTasks (src/long-chain/run-long-chain.ts): the cards of a    *)
(* directory one after another, each compiled and executed by a TaskRunner *)
(* of its own.  A card that does not compile is a BLOCK and the chain goes *)
(* on; a run that throws ends the chain, and what it had collected is      *)
(* lost.  The directories and files of the runs are those of RunDirectory. *)
(* Instead of chains the operator may start single runs.                   *)
(***************************************************************************)
EXTENDS RunDirectory, Sequences

CONSTANTS
  CardLists,  \* the lists of cards a chain may find: tasks, or Broken
  Broken,     \* a card that does not compile
  PinnedId    \* the id that PIPELINE_RUN_ID names, if it is set

ASSUME CardsAssumption == CardLists \subseteq Seq(Tasks \cup {Broken})

ASSUME PinnedAssumption == PinnedId \in Named /\ Broken \notin Tasks

VARIABLES
  chain,        \* the chain: not started, running, ended or lost
  cards,        \* what discoverLongChainTasks found
  pinned,       \* PIPELINE_RUN_ID is set
  compileOnly,
  first,        \* number of the first run of the chain
  outcomes,     \* one for each card that is through
  exitCode      \* of the chain, Absent before it ended

chainVars == <<chain, cards, pinned, compileOnly, first, outcomes, exitCode>>
vars == <<dirVars, chainVars>>

Outcomes == [run : Runs \cup {Absent}, status : Verdicts \cup {"COMPILED"}, exit : 0..2]

ChainTypeOK ==
  /\ DirTypeOK
  /\ chain \in {"none", "running", "ended", "lost"}
  /\ cards \in CardLists \cup {<<>>}
  /\ pinned \in BOOLEAN
  /\ compileOnly \in BOOLEAN
  /\ first \in 1..(MaxRuns + 1)
  /\ outcomes \in Seq(Outcomes)
  /\ exitCode \in {0, 1, Absent}

ChainInit ==
  /\ DirInit
  /\ chain = "none"
  /\ cards = <<>>
  /\ pinned = FALSE
  /\ compileOnly = FALSE
  /\ first = 1
  /\ outcomes = <<>>
  /\ exitCode = Absent

-------------------------------------------------------------------------------
StartChain ==
  /\ chain = "none" /\ run = 0
  /\ chain' = "running"
  /\ cards' \in CardLists
  /\ pinned' \in BOOLEAN
  /\ compileOnly' \in BOOLEAN
  /\ UNCHANGED <<dirVars, first, outcomes, exitCode>>

\* The operator starts a lost chain again, if MaxRuns leaves room for it.
RestartChain ==
  /\ chain = "lost"
  /\ run + strangers + Cardinality({i \in 1..Len(cards) : cards[i] # Broken}) <= MaxRuns
  /\ chain' = "running"
  /\ first' = run + 1
  /\ UNCHANGED <<dirVars, cards, pinned, compileOnly, outcomes, exitCode>>

Due == chain = "running" /\ pc = "idle" /\ Len(outcomes) < Len(cards)

Card == cards[Len(outcomes) + 1]

Collect(outcome) ==
  /\ outcomes' = Append(outcomes, outcome)
  /\ UNCHANGED <<chain, cards, pinned, compileOnly, first, exitCode>>

CardBroken ==
  /\ Due
  /\ Card = Broken
  /\ Collect([run |-> Absent, status |-> "BLOCK", exit |-> 1])
  /\ UNCHANGED dirVars

CardCompiled ==
  /\ Due
  /\ Card # Broken /\ compileOnly
  /\ Collect([run |-> Absent, status |-> "COMPILED", exit |-> 0])
  /\ UNCHANGED dirVars

\* Mutant: all slots share one id.
SlotIdOfChain == PinnedId

\* Names of the time a card is started at, new each time.
SlotId ==
  IF pinned THEN PinnedId
  ELSE CHOOSE d \in Named \ {PinnedId} : \A r \in 1..run : log[r].dir # d

SlotIdIsFree == \E d \in Named \ {PinnedId} : \A r \in 1..run : log[r].dir # d

ExecuteCard ==
  /\ Due
  /\ Card # Broken /\ ~compileOnly
  /\ pinned \/ SlotIdIsFree
  /\ BeginNamed(Card, SlotId)
  /\ UNCHANGED chainVars

ExitOf(status) ==
  CASE status \in Successes -> 0
    [] status = "AUTH_REQUIRED" -> 2
    [] OTHER -> 1

CardReturns ==
  /\ chain = "running"
  /\ Return
  /\ Collect([run |-> run, status |-> log[run].final, exit |-> ExitOf(log[run].final)])

\* Mutant: the last card decides.
ChainExitOfLast ==
  IF cards # <<>> /\ outcomes[Len(outcomes)].exit = 0 THEN 0 ELSE 1

ChainExit ==
  IF cards # <<>> /\ \A i \in 1..Len(outcomes) : outcomes[i].exit = 0 THEN 0 ELSE 1

EndChain ==
  /\ chain = "running"
  /\ pc = "idle"
  /\ Len(outcomes) = Len(cards)
  /\ chain' = "ended"
  /\ exitCode' = ChainExit
  /\ UNCHANGED <<dirVars, cards, pinned, compileOnly, first, outcomes>>

\* The error of a run leaves runLongChainTasks, or the process dies.
LoseChain ==
  /\ chain = "running"
  /\ Dies
  /\ chain' = "lost"
  /\ outcomes' = <<>>
  /\ UNCHANGED <<cards, pinned, compileOnly, first, exitCode>>

ChainStep ==
  \/ CardBroken \/ CardCompiled \/ ExecuteCard \/ CardReturns \/ EndChain
  \/ RunStep /\ UNCHANGED chainVars

\* A run of the command line, with a number or with the pinned id.
SingleRun ==
  /\ chain = "none"
  /\ \/ \E t \in Tasks : BeginListed(t) \/ BeginNamed(t, PinnedId)
     \/ RunStep \/ Return \/ Dies
     \/ OtherProcess
  /\ UNCHANGED chainVars

ChainNext ==
  \/ StartChain \/ RestartChain
  \/ chain = "running" /\ ChainStep
  \/ LoseChain
  \/ SingleRun

ChainSpec == ChainInit /\ [][ChainNext]_vars

-------------------------------------------------------------------------------
(***************************************************************************)
(* Properties                                                              *)
(***************************************************************************)

(***************************************************************************)
(* A chain that exits with 0 rests on one run for each card, in the order  *)
(* of the cards, each of them returned with a success of its validator.    *)
(***************************************************************************)
GreenChainIsJudged ==
  chain = "ended" /\ exitCode = 0 /\ ~compileOnly =>
    /\ Len(outcomes) = Len(cards) /\ cards # <<>>
    /\ \A i \in 1..Len(cards) :
         LET r == outcomes[i].run
         IN  /\ r = first + i - 1
             /\ log[r].task = cards[i]
             /\ log[r].returned
             /\ log[r].validator = outcomes[i].status

(***************************************************************************)
(* What a chain has collected is on disk, so that a run that throws, or a  *)
(* crash, loses the list but no verdict: every collected run has returned  *)
(* with the collected status, and in a directory no later run has entered  *)
(* (any directory of a chain whose id is not pinned) the artifact          *)
(* validator gives the same answer, if the required files are there.       *)
(***************************************************************************)
CollectedIsOnDisk ==
  \A i \in 1..Len(outcomes) :
    outcomes[i].run # Absent =>
      LET r == outcomes[i].run
      IN  /\ log[r].returned /\ log[r].final = outcomes[i].status
          /\ pinned \/ LastInDirectory(r)
          /\ LastInDirectory(r) /\ log[r].task.required \subseteq Listing(log[r].dir)
               => (Accepts(log[r].dir) <=> outcomes[i].exit = 0)
==============================================================================
