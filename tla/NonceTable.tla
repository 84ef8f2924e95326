----------------------------- MODULE NonceTable -----------------------------
(* The map of internal/authkit/nonce_store.go, and what Issue and Consume    *)
(* make of it.  Both hold the store's mutex throughout; the clock readings   *)
(* of one critical section are taken to be equal.                            *)
EXTENDS Clock, GoMaps

CONSTANTS Nonces,   \* the values crypto/rand can return; never drawn twice
          NonceTTL  \* store.ttl in clock ticks

ASSUME NonceAssumption == NonceTTL \in Nat

VARIABLE entries    \* store.entries: token -> expiry, a partial function

\* Slip: !now.Before(expiry), one instant early.
NotBefore(expiry) == now >= expiry

\* now.After(expiry): an entry is still good at the very instant it expires.
After(expiry) == now > expiry

\* Slip: the purge left out.
Unpurged(table) == table

\* purgeExpiredLocked, applied to a table.
PurgeExpired(table) ==
    Restrict(table, {n \in DOMAIN table : ~After(table[n])})

AfterIssue(n) == Put(PurgeExpired(entries), n, now + NonceTTL)

\* Slip: the token is looked up and left in the table.
StillThere(n) == PurgeExpired(entries)

\* The entry goes before its expiry is looked at, and every path purges.
AfterConsume(n) == PurgeExpired(Delete(entries, n))

\* Slip: `if ok && After(expiry)`, which lets an unknown token through.
UnknownPasses(n) ==
    IF n \in DOMAIN entries /\ After(entries[n]) THEN "expired" ELSE "ok"

\* The error Consume(n) returns, "ok" for nil.
Verdict(n) ==
    IF n \notin DOMAIN entries THEN "not_found"
    ELSE IF After(entries[n]) THEN "expired" ELSE "ok"
=============================================================================
