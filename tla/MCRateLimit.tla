----------------------------- MODULE MCRateLimit -----------------------------
(***************************************************************************)
(* Values for model checking RateLimit: requests are interchangeable.      *)
(***************************************************************************)
EXTENDS RateLimit, TLC

MCSymmetry == Permutations(Requests)
=============================================================================
