--------------------------- MODULE MCListingCycle ---------------------------
(* ListingCycle with editors that are alike. *)
EXTENDS ListingCycle, TLC

EditorSymmetry == Permutations(Editor)
=============================================================================
