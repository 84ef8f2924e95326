---------------------------- MODULE OneTimeNonce ----------------------------
(* What the nonce endpoints of TAuth promise, with no table, purge or lock:  *)
(* a nonce is accepted at most once, never later than TTL after it was       *)
(* issued, and only for as long as the process that issued it lives.  A      *)
(* nonce presented in time to the process that issued it, and not accepted   *)
(* before, is never refused.                                                 *)
EXTENDS Naturals

CONSTANTS Nonces,   \* the values crypto/rand can return
          NonceTTL  \* life of a nonce, in clock ticks

VARIABLES now,      \* the clock
          phase,    \* phase[n]: where nonce n is in its life
          issuedAt, \* issuedAt[n]: when n was issued (0 until then)
          answer    \* the last answer given to a caller

vars == <<now, phase, issuedAt, answer>>

Phases == {"unissued", "outstanding", "accepted", "dead"}

Init ==
    /\ now = 0
    /\ phase = [n \in Nonces |-> "unissued"]
    /\ issuedAt = [n \in Nonces |-> 0]
    /\ answer = "none"

Overdue(n) == now > issuedAt[n] + NonceTTL

\* The tokens of a set of nonces, all overdue, are forgotten.
Forget(S) == [n \in Nonces |-> IF n \in S THEN "dead" ELSE phase[n]]

Forgettable == {n \in Nonces : phase[n] = "outstanding" /\ Overdue(n)}

Issue(n) ==
    /\ phase[n] = "unissued"
    /\ \E S \in SUBSET Forgettable :
           phase' = [Forget(S) EXCEPT ![n] = "outstanding"]
    /\ issuedAt' = [issuedAt EXCEPT ![n] = now]
    /\ answer' = "issued"
    /\ UNCHANGED now

Accept(n) ==
    /\ phase[n] = "outstanding"
    /\ ~Overdue(n)
    /\ \E S \in SUBSET Forgettable :
           phase' = [Forget(S) EXCEPT ![n] = "accepted"]
    /\ answer' = "accepted"
    /\ UNCHANGED <<now, issuedAt>>

Refuse(n) ==
    /\ phase[n] = "outstanding" => Overdue(n)
    /\ \E S \in SUBSET Forgettable : phase' = Forget(S)
    /\ answer' = "refused"
    /\ UNCHANGED <<now, issuedAt>>

\* The process stops: every outstanding nonce dies with it.
Restart ==
    /\ phase' = Forget({n \in Nonces : phase[n] = "outstanding"})
    /\ answer' = "none"
    /\ UNCHANGED <<now, issuedAt>>

Tick ==
    /\ now' = now + 1
    /\ UNCHANGED <<phase, issuedAt, answer>>

Next ==
    \/ \E n \in Nonces : Issue(n) \/ Accept(n) \/ Refuse(n)
    \/ Restart
    \/ Tick

Spec == Init /\ [][Next]_vars
=============================================================================
