---------------------------- MODULE MCValidation ----------------------------
(***************************************************************************)
(* Instances of Validation for TLC: a card with a bullet for every rule,   *)
(* one whose bullets match several patterns or none, and the tasks of the  *)
(* scenarios and of two task cards.                                        *)
(***************************************************************************)
EXTENDS Validation

Bullet(name, matches) == [text |-> name, matches |-> matches]

Shop == <<Bullet("storefront loads", {"load"}),
          Bullet("product is visible", {"listed"}),
          Bullet("checkout can be started", {"checkout"})>>

Orders == <<Bullet("product can be added to cart", {"cart"}),
            Bullet("order is created", {"created"}),
            Bullet("backend contains the order", {"backend"})>>

Mixed == <<Bullet("shop is open, catalog listed", {"load", "listed"}),
           Bullet("checkout creates an order", {"checkout", "created"}),
           Bullet("mails are sent", {})>>

MCTasks ==
  {TechnicalScenarioToTask(card) : card \in {Shop, Orders, Mixed}}
    \cup {BuildBrowserCheckoutTask, BuildScenarioTask, NailPatternsTask, StackTask}
=============================================================================
