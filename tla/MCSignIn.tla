------------------------------ MODULE MCSignIn ------------------------------
(* TLC instance of SignIn: two chains, so that every pair of preparations,   *)
(* logins and reloads overlaps.                                              *)
EXTENDS SignIn, TLC

\* No definition tells two nonces or two chains apart.
Symmetry == Permutations(Nonces) \cup Permutations(Tasks)
=============================================================================
