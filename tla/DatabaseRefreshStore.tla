------------------------ MODULE DatabaseRefreshStore ------------------------
(* internal/authkit/database_refresh_store.go over one refresh_tokens table. *)
(* Nothing serialises the callers but the database, which runs each SQL      *)
(* statement atomically; between two statements of one call, and between a   *)
(* statement and a reading of the clock, other callers act.  A statement may *)
(* fail, before or after it took effect.                                     *)
EXTENDS Clock, GoMaps

CONSTANTS Opaques, NoToken, Users, Callers, Expiries,
          NoID,            \* the previousTokenID "" of a login
          StatementsFail  \* whether the database ever fails a statement

ASSUME DatabaseAssumption ==
    /\ NoToken \notin Opaques
    /\ NoID \notin Nat
    /\ Expiries \subseteq Int
    /\ StatementsFail \in BOOLEAN

VARIABLES table,  \* refresh_tokens: token_id -> row
          drawn,  \* the opaques generateRefreshOpaque has returned
          call,   \* call[c]: what c has in its local variables mid-call
          answer  \* answer[c]: what the last call of c returned

vars == <<now, table, drawn, call, answer>>

\* A token id is RFC3339Nano of the issuing instant, and nothing else.
IDs == Nat

refreshTokenRecord ==
    [user: Users, hash: Opaques, expires: Int, revoked: BOOLEAN,
     prev: IDs \cup {NoID}]

Idle == [at |-> "idle"]

Verdicts == {"ok", "revoked", "expired"}

\* seen is history: what was true of the row at the instant of the SELECT.
Calls ==
    {Idle}
    \cup [at: {"insert"}, id: IDs, row: refreshTokenRecord]
    \cup [at: {"judge"}, row: refreshTokenRecord, seen: Verdicts]
    \cup [at: {"find"}, id: IDs \cup {NoID}]

TypeOK ==
    /\ now \in Nat
    /\ \A id \in DOMAIN table : id \in IDs /\ table[id] \in refreshTokenRecord
    /\ drawn \subseteq Opaques
    /\ call \in [Callers -> Calls]

Answer(op, verdict, token) == [op |-> op, verdict |-> verdict, token |-> token]

Init ==
    /\ now = 0 /\ table = EmptyMap /\ drawn = {}
    /\ call = [c \in Callers |-> Idle]
    /\ answer = [c \in Callers |-> Answer("none", "none", NoToken)]

Return(c, op, verdict, token) ==
    /\ answer' = [answer EXCEPT ![c] = Answer(op, verdict, token)]
    /\ call' = [call EXCEPT ![c] = Idle]

Rows(o) == {id \in DOMAIN table : table[id].hash = o}

\* The token an id names.
Owner(id) == IF id \in DOMAIN table THEN table[id].hash ELSE NoToken

-----------------------------------------------------------------------------
(* Issue: the clock, the opaque, then one INSERT.                            *)

\* Slip: the row is built without its token id, which stays "".
IssuePrepareUnlinked(c, o, user, expires, prev) ==
    /\ call[c] = Idle
    /\ o \notin drawn
    /\ drawn' = drawn \cup {o}
    /\ call' = [call EXCEPT ![c] =
                  [at |-> "insert", id |-> NoID,
                   row |-> [user |-> user, hash |-> o, expires |-> expires,
                            revoked |-> FALSE, prev |-> prev]]]
    /\ UNCHANGED <<now, table, answer>>

IssuePrepare(c, o, user, expires, prev) ==
    /\ call[c] = Idle
    /\ o \notin drawn
    /\ drawn' = drawn \cup {o}
    /\ call' = [call EXCEPT ![c] =
                  [at |-> "insert", id |-> now,
                   row |-> [user |-> user, hash |-> o, expires |-> expires,
                            revoked |-> FALSE, prev |-> prev]]]
    /\ UNCHANGED <<now, table, answer>>

\* Slip: Save instead of Create, which overwrites the row of an id in use.
IssueSave(c) ==
    /\ call[c].at = "insert"
    /\ table' = Put(table, call[c].id, call[c].row)
    /\ Return(c, "issue", "ok", call[c].row.hash)
    /\ UNCHANGED <<now, drawn>>

\* The primary key rejects a second row for the same instant.
IssueCreate(c) ==
    /\ call[c].at = "insert"
    /\ \/ /\ call[c].id \in DOMAIN table
          /\ Return(c, "issue", "error", NoToken)
          /\ UNCHANGED table
       \/ /\ call[c].id \notin DOMAIN table
          /\ table' = Put(table, call[c].id, call[c].row)
          /\ Return(c, "issue", "ok", call[c].row.hash)
    /\ UNCHANGED <<now, drawn>>

IssueCreateFails(c) ==
    /\ StatementsFail
    /\ call[c].at = "insert"
    /\ \/ UNCHANGED table
       \/ /\ call[c].id \notin DOMAIN table
          /\ table' = Put(table, call[c].id, call[c].row)
    /\ Return(c, "issue", "error", NoToken)
    /\ UNCHANGED <<now, drawn>>

-----------------------------------------------------------------------------
(* Validate: one SELECT by hash; the clock is read when the row is back, and *)
(* the row may have been revoked since.                                      *)

RowVerdict(row) ==
    IF row.revoked THEN "revoked"
    ELSE IF Before(row.expires) THEN "expired" ELSE "ok"

ValidateTake(c, o) ==
    /\ call[c] = Idle
    /\ \/ /\ Rows(o) = {}
          /\ Return(c, "validate", "not_found", o)
       \/ /\ \E id \in Rows(o) :
                call' = [call EXCEPT ![c] =
                           [at |-> "judge", row |-> table[id],
                            seen |-> RowVerdict(table[id])]]
          /\ UNCHANGED answer
       \/ StatementsFail /\ Return(c, "validate", "error", o)
    /\ UNCHANGED <<now, table, drawn>>

\* Slip: an expired token is told from a good one by its row alone.
ValidateJudgeUndated(c) ==
    /\ call[c].at = "judge"
    /\ LET row == call[c].row
       IN  Return(c, "validate", IF row.revoked THEN "revoked" ELSE "ok", row.hash)
    /\ UNCHANGED <<now, table, drawn>>

ValidateJudge(c) ==
    /\ call[c].at = "judge"
    /\ Return(c, "validate", RowVerdict(call[c].row), call[c].row.hash)
    /\ UNCHANGED <<now, table, drawn>>

-----------------------------------------------------------------------------
(* Revoke: an UPDATE of the row if it is not revoked; when it touched no     *)
(* row, a SELECT that finds out why.                                         *)

Revocable(id) == id \in DOMAIN table /\ ~table[id].revoked

\* Slip: the WHERE clause names the token and not its state.
UpdateAny(c, id) ==
    /\ call[c] = Idle
    /\ \/ /\ id \in DOMAIN table
          /\ table' = [table EXCEPT ![id].revoked = TRUE]
          /\ Return(c, "revoke", "ok", Owner(id))
       \/ /\ id \notin DOMAIN table
          /\ call' = [call EXCEPT ![c] = [at |-> "find", id |-> id]]
          /\ UNCHANGED <<table, answer>>
    /\ UNCHANGED <<now, drawn>>

\* Slip: the WHERE clause also asks for a row that has not expired.
UpdateUnexpired(c, id) ==
    /\ call[c] = Idle
    /\ \/ /\ Revocable(id) /\ ~Before(table[id].expires)
          /\ table' = [table EXCEPT ![id].revoked = TRUE]
          /\ Return(c, "revoke", "ok", Owner(id))
       \/ /\ ~(Revocable(id) /\ ~Before(table[id].expires))
          /\ call' = [call EXCEPT ![c] = [at |-> "find", id |-> id]]
          /\ UNCHANGED <<table, answer>>
    /\ UNCHANGED <<now, drawn>>

RevokeUpdate(c, id) ==
    /\ call[c] = Idle
    /\ \/ /\ Revocable(id)
          /\ table' = [table EXCEPT ![id].revoked = TRUE]
          /\ Return(c, "revoke", "ok", Owner(id))
       \/ /\ ~Revocable(id)
          /\ call' = [call EXCEPT ![c] = [at |-> "find", id |-> id]]
          /\ UNCHANGED <<table, answer>>
    /\ UNCHANGED <<now, drawn>>

RevokeUpdateFails(c, id) ==
    /\ StatementsFail
    /\ call[c] = Idle
    /\ \/ UNCHANGED table
       \/ Revocable(id) /\ table' = [table EXCEPT ![id].revoked = TRUE]
    /\ Return(c, "revoke", "error", Owner(id))
    /\ UNCHANGED <<now, drawn>>

\* The last line of Revoke answers nil for a row that is there and not
\* revoked after all.
RevokeFind(c) ==
    /\ call[c].at = "find"
    /\ LET id == call[c].id
       IN  \/ /\ id \notin DOMAIN table
              /\ Return(c, "revoke", "not_found", NoToken)
           \/ /\ id \in DOMAIN table /\ table[id].revoked
              /\ Return(c, "revoke", "already_revoked", Owner(id))
           \/ /\ Revocable(id)
              /\ Return(c, "revoke", "ok", Owner(id))
           \/ StatementsFail /\ Return(c, "revoke", "error", Owner(id))
    /\ UNCHANGED <<now, table, drawn>>

-----------------------------------------------------------------------------

Tick ==
    /\ Advance
    /\ UNCHANGED <<table, drawn, call, answer>>

\* A caller names a token by an id an earlier call gave it: Validate's, which
\* is the id of a stored row, or the empty one.
Next ==
    \/ \E c \in Callers :
          \/ \E o \in Opaques, user \in Users, expires \in Expiries,
                prev \in DOMAIN table \cup {NoID} :
                IssuePrepare(c, o, user, expires, prev)
          \/ IssueCreate(c)
          \/ IssueCreateFails(c)
          \/ \E o \in Opaques : ValidateTake(c, o)
          \/ ValidateJudge(c)
          \/ \E id \in DOMAIN table \cup {NoID} :
                RevokeUpdate(c, id) \/ RevokeUpdateFails(c, id)
          \/ RevokeFind(c)
    \/ Tick

Spec == Init /\ [][Next]_vars

-----------------------------------------------------------------------------

\* Two rows never share an instant or a hash, and every row's predecessor is
\* a row of the same table issued at an earlier instant: the chain of
\* a login can be walked back to its root.
ChainsAreSound ==
    \A id \in DOMAIN table :
        /\ Rows(table[id].hash) = {id}
        /\ table[id].prev # NoID =>
               table[id].prev \in DOMAIN table /\ table[id].prev < id

\* The final `return nil` of Revoke is never the answer: a Revoke that
\* returns nil has revoked the row itself, in its UPDATE.
NilMeansRevokedHere ==
    [][\A c \in Callers :
           RevokeFind(c) => answer'[c].verdict # "ok"]_vars

\* The row a hash leads to, and the records as the contract sees them.
RowID(o) == CHOOSE id \in DOMAIN table : table[id].hash = o

Ledger ==
    [o \in {table[id].hash : id \in DOMAIN table} |->
        LET row == table[RowID(o)]
        IN  [user |-> row.user, expires |-> row.expires,
             revoked |-> row.revoked, prev |-> Owner(row.prev)]]

\* What a Validate between its SELECT and the clock has looked up.
Looked ==
    [c \in Callers |->
        IF call[c].at = "judge"
        THEN [token |-> call[c].row.hash, verdict |-> call[c].seen]
        ELSE [token |-> NoToken, verdict |-> "none"]]

RS == INSTANCE RefreshStore WITH ledger <- Ledger, looked <- Looked

\* The calls implement the contract.  An Issue and a Revoke take effect at one
\* instant between call and return, so of two racing Revokes of a token exactly
\* one is answered nil, and an id clash in the same instant never damages a
\* row, it only fails the later Issue.  A Validate tells what its SELECT saw,
\* or that the token has expired since, which may hide that it was revoked.
IsRefreshStore == RS!Spec
=============================================================================
