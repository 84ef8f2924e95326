---------------------------- MODULE RefreshGrants ----------------------------
(* What POST /auth/google, /auth/refresh and /auth/logout promise about the  *)
(* refresh tokens clients get, with no store, no handler and no half-done    *)
(* call: a sign-in is good for one Google credential; a refresh gives out    *)
(* one token for the same user and the same sign-in, if the token it was     *)
(* sent was good when it began, and in the same instant puts an end to that  *)
(* one; nobody ends a token that has not reached a client.  Time is left     *)
(* out: that a token has expired is a reason to give up a refresh.           *)
EXTENDS GoMaps

CONSTANTS Opaques, Users, Nonces,
          Requests,         \* slots: refreshes that overlap
          NoToken, NoUser

VARIABLES granted, \* what each token clients have, or are being sent, is worth
          held,    \* those that have arrived
          begun,   \* begun[r]: the refresh under way in slot r
          spent    \* the nonces of the credentials exchanged so far

vars == <<granted, held, begun, spent>>

\* user is whom the token signs in, NoUser once it is dead; login is the first
\* token of its chain, and the nonce of the credential that one was given for.
Grant(user, login) == [user |-> user, login |-> login]

NoRefresh == [token |-> NoToken, user |-> NoUser]

Init ==
    /\ granted = EmptyMap /\ held = {}
    /\ begun = [r \in Requests |-> NoRefresh]
    /\ spent = {}

\* The grants once token p is dead.
Without(p) == [granted EXCEPT ![p].user = NoUser]

SignIn(o, user, n) ==
    /\ o \notin DOMAIN granted
    /\ n \notin spent
    /\ granted' = Put(granted, o, Grant(user, [root |-> o, nonce |-> n]))
    /\ spent' = spent \cup {n}
    /\ UNCHANGED <<held, begun>>

\* The credential is gone, and nothing came of it.
SignInFails(n) ==
    /\ n \notin spent
    /\ spent' = spent \cup {n}
    /\ UNCHANGED <<granted, held, begun>>

Begin(r, p) ==
    /\ begun[r] = NoRefresh
    /\ p \in held /\ granted[p].user # NoUser
    /\ begun' = [begun EXCEPT ![r] = [token |-> p, user |-> granted[p].user]]
    /\ UNCHANGED <<granted, held, spent>>

Rotate(r, o) ==
    LET p == begun[r].token
    IN  /\ begun[r] # NoRefresh
        /\ o \notin DOMAIN granted
        /\ granted' = Put(Without(p), o, Grant(begun[r].user, granted[p].login))
        /\ begun' = [begun EXCEPT ![r] = NoRefresh]
        /\ UNCHANGED <<held, spent>>

\* The refresh is refused after all; its token may be dead.
GiveUp(r) ==
    /\ begun[r] # NoRefresh
    /\ granted' \in {granted, Without(begun[r].token)}
    /\ begun' = [begun EXCEPT ![r] = NoRefresh]
    /\ UNCHANGED <<held, spent>>

SignOut(p) ==
    /\ p \in held
    /\ granted' = Without(p)
    /\ UNCHANGED <<held, begun, spent>>

Deliver(o) ==
    /\ o \in DOMAIN granted \ held
    /\ held' = held \cup {o}
    /\ UNCHANGED <<granted, begun, spent>>

Lose(o) ==
    /\ o \in DOMAIN granted \ held
    /\ granted' = Delete(granted, o)
    /\ UNCHANGED <<held, begun, spent>>

\* What clients hold outlives the process, and may be good or dead after it.
Restart ==
    /\ \/ granted' = [o \in held |-> granted[o]]
       \/ granted' = [o \in held |-> [granted[o] EXCEPT !.user = NoUser]]
    /\ begun' = [r \in Requests |-> NoRefresh]
    /\ UNCHANGED <<held, spent>>

Next ==
    \/ \E o \in Opaques, user \in Users, n \in Nonces : SignIn(o, user, n)
    \/ \E n \in Nonces : SignInFails(n)
    \/ \E r \in Requests, o \in Opaques : Begin(r, o) \/ Rotate(r, o)
    \/ \E r \in Requests : GiveUp(r)
    \/ \E o \in Opaques : SignOut(o) \/ Deliver(o) \/ Lose(o)
    \/ Restart

Spec == Init /\ [][Next]_vars
=============================================================================
