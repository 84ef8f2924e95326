----------------------------- MODULE NonceStore -----------------------------
(* The nonce store on its own: any calls, in any order, from any goroutine,  *)
(* and restarts of the process.  A rand.Read that fails returns before the   *)
(* lock is taken and changes nothing.                                        *)
EXTENDS NonceTable

VARIABLES issuedAt, \* history: when each token was issued
          accepted, \* history: the tokens Consume returned nil for
          answer    \* history: what the last call returned

vars == <<now, entries, issuedAt, accepted, answer>>
callVars == <<issuedAt, accepted, answer>>

TypeOK ==
    /\ now \in Nat
    /\ DOMAIN entries \subseteq DOMAIN issuedAt
    /\ entries \in [DOMAIN entries -> Nat]
    /\ DOMAIN issuedAt \subseteq Nonces
    /\ issuedAt \in [DOMAIN issuedAt -> Nat]
    /\ accepted \subseteq DOMAIN issuedAt
    /\ answer \in {"none", "issued", "ok", "not_found", "expired"}

Init ==
    /\ now = 0
    /\ entries = EmptyMap
    /\ issuedAt = EmptyMap
    /\ accepted = {}
    /\ answer = "none"

Issue(n) ==
    /\ n \notin DOMAIN issuedAt
    /\ entries' = AfterIssue(n)
    /\ issuedAt' = Put(issuedAt, n, now)
    /\ answer' = "issued"
    /\ UNCHANGED <<now, accepted>>

Consume(n) ==
    /\ entries' = AfterConsume(n)
    /\ answer' = Verdict(n)
    /\ accepted' = IF Verdict(n) = "ok" THEN accepted \cup {n} ELSE accepted
    /\ UNCHANGED <<now, issuedAt>>

\* A restarted process starts from NewMemoryNonceStore's empty map.
Restart ==
    /\ entries' = EmptyMap
    /\ answer' = "none"
    /\ UNCHANGED <<now, issuedAt, accepted>>

Tick ==
    /\ Advance
    /\ UNCHANGED <<entries, callVars>>

Next ==
    \/ \E n \in Nonces : Issue(n) \/ Consume(n)
    \/ Restart
    \/ Tick

Spec == Init /\ [][Next]_vars

-----------------------------------------------------------------------------
(* The abstract nonce this table implements.                                 *)

Phase(n) ==
    CASE n \in DOMAIN entries -> "outstanding"
      [] n \in accepted -> "accepted"
      [] n \in DOMAIN issuedAt \ (DOMAIN entries \cup accepted) -> "dead"
      [] OTHER -> "unissued"

OTN == INSTANCE OneTimeNonce WITH
    phase <- [n \in Nonces |-> Phase(n)],
    issuedAt <- [n \in Nonces |-> IF n \in DOMAIN issuedAt
                                  THEN issuedAt[n] ELSE 0],
    answer <- CASE answer = "ok" -> "accepted"
                [] answer \in {"not_found", "expired"} -> "refused"
                [] OTHER -> answer

\* The table implements the one-time nonce: no order of calls, expiries and
\* restarts makes Consume accept a nonce twice, late or from an earlier
\* process, or refuse one that is outstanding and in time (the guards and the
\* two deletes of Consume and of purgeExpiredLocked).
IsOneTimeNonce == OTN!Spec

\* An accepted nonce has left the table for good: neither a purge, a later
\* Issue nor a restart puts it back, so a replayed login cannot find it.
AcceptedIsGone == accepted \cap DOMAIN entries = {}

\* Whatever call last touched the table, it left no entry behind that had
\* already expired: the map never holds more than the nonces of one TTL.
PurgeKeepsUp ==
    [][entries' # entries =>
           \A n \in DOMAIN entries' : now <= entries'[n]]_vars
=============================================================================
