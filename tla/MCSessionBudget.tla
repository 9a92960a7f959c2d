--------------------------- MODULE MCSessionBudget --------------------------
(* Interchangeable runs whose calls are estimated at one or two units.     *)
EXTENDS SessionBudget, TLC
OneOrTwo == {1, 2}
Symmetry == Permutations(Runs)
=============================================================================
