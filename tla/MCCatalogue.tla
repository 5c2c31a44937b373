---- MODULE MCCatalogue ----
(* Small instances of Catalogue for TLC. *)
EXTENDS Catalogue, TLC
CONSTANTS r1, r2, p1, p2, p3
Symmetry == Permutations(Sessions) \cup Permutations(Images)
====
