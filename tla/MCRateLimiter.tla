--------------------------- MODULE MCRateLimiter ---------------------------
(***************************************************************************)
(* One bucket, requests of two processes.                                  *)
(***************************************************************************)
EXTENDS RateLimiter, TLC

CONSTANTS r1, r2

RequestSymmetry == Permutations({r1, r2})

=============================================================================
