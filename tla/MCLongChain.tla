----------------------------- MODULE MCLongChain -----------------------------
(***************************************************************************)
(* Instances of LongChain for TLC: two cards and a card that does not      *)
(* compile, one pinned id and an id for each slot.                         *)
(***************************************************************************)
EXTENDS LongChain

CONSTANTS pin, slot1, slot2

MCNamed == {pin, slot1, slot2}

Task(mode, required) == [mode |-> mode, required |-> required]

Plain == Task("acceptance", {"status.json", "validation-results.json"})
Baseline == Task("baseline", {})

MCTasks == {Plain, Baseline}

MCCardLists == {<<>>, <<Plain, Broken>>, <<Baseline, Plain>>}
==============================================================================
