---------------------------- MODULE MCAuthService ----------------------------
(* TLC instances of AuthService.                                             *)
EXTENDS AuthService, TLC

\* No definition tells two slots, opaques, nonces or users apart.
Symmetry == Permutations(Requests) \cup Permutations(Opaques)
                \cup Permutations(Nonces) \cup Permutations(Users)
=============================================================================
