----------------------------- MODULE MCSession -----------------------------
(* TLC instance of Session: a service whose clock is ahead of TAuth's, one   *)
(* whose clock is behind by more than the slack, and half-second ticks.      *)
EXTENDS Session, TLC

CONSTANTS fast, slow

MCOffset == TAuth :> 0 @@ fast :> 1 @@ slow :> -3

\* Handlers, requests and users are interchangeable.
Symmetry == Permutations(Mints) \cup Permutations(Calls)
                \cup Permutations(Users)
=============================================================================
