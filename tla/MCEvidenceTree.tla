--------------------------- MODULE MCEvidenceTree ---------------------------
(***************************************************************************)
(* An instance of EvidenceTree for TLC.  Two of the names are those of the *)
(* checkout scenario, graphql-query-order and database-order-by-code; the  *)
(* journey is there too, and a response whose name has no word for a       *)
(* bucket.  The second task has one name twice, as a card has whose        *)
(* bullets begin alike.                                                    *)
(***************************************************************************)
EXTENDS EvidenceTree

CONSTANTS graphqlOrder, databaseOrder, productPage, checkoutJourney

MCChecks == {graphqlOrder, databaseOrder, productPage, checkoutJourney}

MCKindOf ==
  [c \in MCChecks |-> CASE c = checkoutJourney -> "journey"
                        [] c = databaseOrder   -> "other"
                        [] OTHER               -> "network"]

MCWordsOf ==
  [c \in MCChecks |-> CASE c = graphqlOrder    -> {"graphql", "order"}
                        [] c = databaseOrder   -> {"database", "order"}
                        [] c = checkoutJourney -> {"browser"}
                        [] OTHER               -> {}]

MCTasks == {<<databaseOrder, checkoutJourney>>,
            <<graphqlOrder, productPage, graphqlOrder>>}
=============================================================================
