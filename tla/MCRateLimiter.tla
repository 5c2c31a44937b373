---- MODULE MCRateLimiter ----
(* Small instances of RateLimiter for TLC. *)
EXTENDS RateLimiter, TLC
CONSTANTS t1, t2
Symmetry == Permutations(Threads)
====
