--------------------------- MODULE MCCardFetcher ----------------------------
(* An instance of CardFetcher for TLC. *)
EXTENDS CardFetcher, TLC

Symmetry == Permutations(Fetches)
=============================================================================
