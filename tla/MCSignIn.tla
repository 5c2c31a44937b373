---- MODULE MCSignIn ----
(* Small instances of SignIn for TLC. *)
EXTENDS SignIn, TLC
CONSTANTS b1, b2
Symmetry == Permutations(Browsers)
====
