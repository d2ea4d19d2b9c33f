--------------------------- MODULE MCAuthService ---------------------------
(* Instances of AuthService for TLC; the .cfg files choose the constants. *)
EXTENDS AuthService, TLC

\* Requests and pairs are interchangeable; safety runs only.
Symmetry == Permutations(Request) \cup Permutations(Pair)
=============================================================================
