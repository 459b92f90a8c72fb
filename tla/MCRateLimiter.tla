--------------------------- MODULE MCRateLimiter ---------------------------
(* Instances of RateLimiter for TLC.  Handlers are interchangeable. *)
EXTENDS RateLimiter, TLC

Symmetry == Permutations(Handlers)
=============================================================================
