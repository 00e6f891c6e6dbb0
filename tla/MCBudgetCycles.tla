--------------------------- MODULE MCBudgetCycles ---------------------------
(* Instances of BudgetCycles for TLC. *)
EXTENDS BudgetCycles, TLC

MCWidth    == <<1, 3>>
MCBudget   == <<1, 2>>
MCSymmetry == Permutations(Clients)
=============================================================================
