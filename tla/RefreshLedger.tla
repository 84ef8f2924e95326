---------------------------- MODULE RefreshLedger ----------------------------
(* The records behind authkit.RefreshTokenStore and what its three methods   *)
(* answer and change, for one call taken as a whole.  A token is its opaque  *)
(* value: the store's token id and its SHA-256 hash are other names of the   *)
(* same record here, and the store modules show that this is sound.          *)
EXTENDS Clock, GoMaps

CONSTANTS Opaques,        \* values generateRefreshOpaque can return
          NoToken,        \* the previousTokenID "" of a login
          Users

ASSUME LedgerAssumption == NoToken \notin Opaques

VARIABLE ledger           \* partial function from opaque to its record

Record == [user: Users, expires: Int, revoked: BOOLEAN,
           prev: Opaques \cup {NoToken}]

LedgerOK ==
    /\ now \in Nat
    /\ DOMAIN ledger \subseteq Opaques
    /\ ledger \in [DOMAIN ledger -> Record]

LedgerInit == now = 0 /\ ledger = EmptyMap

IsLive(o) ==
    /\ o \in DOMAIN ledger
    /\ ~ledger[o].revoked
    /\ ~Before(ledger[o].expires)

\* The ledger after Issue, and after Revoke.
WithIssued(o, user, expires, prev) ==
    Put(ledger, o, [user |-> user, expires |-> expires,
                    revoked |-> FALSE, prev |-> prev])

WithRevoked(o) ==
    IF o \in DOMAIN ledger THEN [ledger EXCEPT ![o].revoked = TRUE] ELSE ledger

\* Slip: the revocation column is never looked at.
ValidateIgnoresRevoked(o) ==
    IF o \notin DOMAIN ledger THEN "not_found"
    ELSE IF Before(ledger[o].expires) THEN "expired"
    ELSE "ok"

\* The error Validate(o) returns, "ok" for nil.
ValidateVerdict(o) ==
    IF o \notin DOMAIN ledger THEN "not_found"
    ELSE IF ledger[o].revoked THEN "revoked"
    ELSE IF Before(ledger[o].expires) THEN "expired"
    ELSE "ok"

\* The error Revoke(o) returns, "ok" for nil.
RevokeVerdict(o) ==
    IF o \notin DOMAIN ledger THEN "not_found"
    ELSE IF ledger[o].revoked THEN "already_revoked"
    ELSE "ok"
=============================================================================
