--------------------------- MODULE MCFailureDemo ---------------------------
(***************************************************************************)
(* Instances of FailureDemo for TLC: the fixtures of the repository, and   *)
(* fixtures where the reference is wrong in one way or the bug is none.    *)
(***************************************************************************)
EXTENDS FailureDemo

CONSTANTS some, other

MCReadings == {some, other}

MCMessages == Details

MCSays == [message \in MCMessages |-> {}]

MCFailures == {StillFailing(detail) : detail \in MCMessages}

Pair(buggy, reference) == [content \in {"buggy", "reference"} |->
                             IF content = "buggy" THEN buggy ELSE reference]

MCFixtures ==
  {Pair({"sku"}, Facts \ wrong) :
     wrong \in {{}, {"sku"}, {"acceptance-tests"}, {"storefront-products"}, TargetedChecks}}
  \cup {Pair(Facts, Facts)}
=============================================================================
