----------------------- MODULE MCSelectionTranslator -----------------------
(* SelectionTranslator for TLC: requests are interchangeable. *)
EXTENDS SelectionTranslator, TLC

Symmetry == Permutations(Requests)
=============================================================================
