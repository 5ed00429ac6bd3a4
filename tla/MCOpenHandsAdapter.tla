------------------------- MODULE MCOpenHandsAdapter -------------------------
(***************************************************************************)
(* Instances of OpenHandsAdapter for TLC: two attempts, a file on the      *)
(* allowlist and one that is not, lines without meaning, with a claim and  *)
(* with a verdict.                                                         *)
(***************************************************************************)
EXTENDS OpenHandsAdapter

CONSTANTS inside, outside

MCFiles == {inside, outside}
MCAllowed == {inside}
MCLines == {"log", "success", "verdict"}
==============================================================================
