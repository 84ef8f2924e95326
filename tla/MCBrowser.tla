------------------------------ MODULE MCBrowser ------------------------------
(* TLC instances of Browser.                                                 *)
EXTENDS Browser, TLC

\* No definition tells two slots, opaques, nonces or users apart.
Symmetry == Permutations(Requests) \cup Permutations(Opaques)
                \cup Permutations(Nonces) \cup Permutations(Users)
=============================================================================
