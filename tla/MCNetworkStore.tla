--------------------------- MODULE MCNetworkStore ---------------------------
(* Adders and keys are interchangeable. *)
EXTENDS NetworkStore, TLC

Interchangeable == Permutations(Adders) \union Permutations(Keys)
=============================================================================
