--------------------------- MODULE MCRateLimiter ---------------------------
(* Instances of RateLimiter for TLC; the .cfg files choose the constants. *)
EXTENDS RateLimiter, TLC

\* Settings on both sides of zero and of a whole second (two ticks).
MCLimits     == {-1, 0, 2}
MCIntervals  == {-3, 1, 3, 5}
MCBlockTimes == {-2, 0, 1, 3, 7}

Symmetry == Permutations(Address)
=============================================================================
