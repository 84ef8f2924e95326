--------------------- MODULE DatabaseRefreshStore_proofs ---------------------
(* TLAPS proofs about DatabaseRefreshStore, for any number of goroutines     *)
(* that interleave their SQL statements, any tokens, users, expiries and     *)
(* clock, with failing statements: the type of its table, that chains of     *)
(* rows are sound, that a Revoke answered nil has revoked the row itself,    *)
(* that a Validate which reads the clock after its SELECT never refuses a    *)
(* good token nor accepts what was bad at the SELECT, and that the calls     *)
(* implement RefreshStore.                                                   *)
EXTENDS DatabaseRefreshStore, TLAPS

Inserting(c) == call[c].at = "insert"

\* Rows were issued in the past, with an opaque of their own.
RowsArePast ==
    \A id \in DOMAIN table : id <= now /\ table[id].hash \in drawn

\* A row on its way to its INSERT has an opaque nobody else has, and its
\* predecessor is stored.  That one may have been issued in the same instant;
\* then the row clashes with it and is rejected.
InsertsOK ==
    \A c \in Callers : Inserting(c) =>
        /\ call[c].id <= now
        /\ call[c].row.hash \in drawn
        /\ call[c].row.expires \in Expiries /\ ~call[c].row.revoked
        /\ \A id \in DOMAIN table : table[id].hash # call[c].row.hash
        /\ \A d \in Callers \ {c} :
               Inserting(d) => call[d].row.hash # call[c].row.hash
        /\ call[c].row.prev # NoID =>
               call[c].row.prev \in DOMAIN table /\ call[c].row.prev <= call[c].id

\* Whoever looks for the reason of an UPDATE that touched no row has asked for
\* the empty id or for a row that was revoked, and rows stay revoked.
FindsOK ==
    \A c \in Callers :
        call[c].at = "find" /\ call[c].id # NoID =>
            call[c].id \in DOMAIN table /\ table[call[c].id].revoked

\* What a Validate has read is its row as it was: the row is still stored,
\* under the same hash and with the same expiry, and what was true of it at
\* the SELECT can only have become worse.
LooksOK ==
    \A c \in Callers : call[c].at = "judge" =>
        /\ \E id \in DOMAIN table :
               /\ table[id].hash = call[c].row.hash
               /\ table[id].expires = call[c].row.expires
               /\ call[c].row.revoked => table[id].revoked
        /\ call[c].row.revoked <=> call[c].seen = "revoked"
        /\ call[c].seen = "expired" => Before(call[c].row.expires)

IInv ==
    TypeOK /\ ChainsAreSound /\ RowsArePast /\ InsertsOK /\ FindsOK /\ LooksOK

-----------------------------------------------------------------------------
(* The inductive invariant.                                                  *)

\* What call[c] holds, by where c stands.
LEMMA CallTypes ==
    ASSUME TypeOK, NEW c \in Callers
    PROVE  /\ Inserting(c) => /\ call[c].id \in IDs
                              /\ call[c].row \in refreshTokenRecord
           /\ call[c].at = "find" => call[c].id \in IDs \cup {NoID}
           /\ call[c].at = "judge" => /\ call[c].row \in refreshTokenRecord
                                      /\ call[c].seen \in Verdicts
  BY DEF TypeOK, Calls, Idle, Inserting

\* One hash, one row: the part of ChainsAreSound about hashes.
LEMMA RowsDiffer ==
    ChainsAreSound <=>
        /\ \A id, other \in DOMAIN table :
               table[id].hash = table[other].hash => id = other
        /\ \A id \in DOMAIN table :
               table[id].prev # NoID =>
                   table[id].prev \in DOMAIN table /\ table[id].prev < id
  BY DEF ChainsAreSound, Rows

LEMMA RowsDifferNext ==
    ChainsAreSound' <=>
        /\ \A id, other \in DOMAIN table' :
               table'[id].hash = table'[other].hash => id = other
        /\ \A id \in DOMAIN table' :
               table'[id].prev # NoID =>
                   table'[id].prev \in DOMAIN table' /\ table'[id].prev < id
  BY DEF ChainsAreSound, Rows

\* A call that returns and leaves the table alone.
LEMMA ReturnStep ==
    ASSUME IInv, NEW c \in Callers, call' = [call EXCEPT ![c] = Idle],
           UNCHANGED <<now, table, drawn>>
    PROVE  IInv'
  <1>1. call' \in [Callers -> Calls]
    BY DEF IInv, TypeOK, Calls
  <1>2. \A d \in Callers :
            /\ d # c => call'[d] = call[d]
            /\ d = c => call'[d] = Idle
    BY DEF IInv, TypeOK
  <1>3. TypeOK'
    BY <1>1 DEF IInv, TypeOK
  <1>4. ChainsAreSound' /\ RowsArePast'
    BY DEF IInv, ChainsAreSound, RowsArePast, Rows
  <1>5. InsertsOK' /\ FindsOK' /\ LooksOK'
    BY <1>2 DEF IInv, InsertsOK, FindsOK, LooksOK, Inserting, Idle, Before
  <1>6. QED
    BY <1>3, <1>4, <1>5 DEF IInv

LEMMA PrepareStep ==
    ASSUME IInv, NEW c \in Callers, NEW o \in Opaques, NEW user \in Users,
           NEW expires \in Expiries, NEW prev \in DOMAIN table \cup {NoID},
           IssuePrepare(c, o, user, expires, prev)
    PROVE  IInv'
  <1> DEFINE row == [user |-> user, hash |-> o, expires |-> expires,
                     revoked |-> FALSE, prev |-> prev]
             insert == [at |-> "insert", id |-> now, row |-> row]
  <1>1. /\ row \in refreshTokenRecord
        /\ row.hash = o /\ ~row.revoked /\ row.prev = prev
        /\ row.expires \in Expiries
    BY DatabaseAssumption DEF IInv, TypeOK, refreshTokenRecord
  <1>2. /\ call' = [call EXCEPT ![c] = insert]
        /\ o \notin drawn /\ drawn' = drawn \cup {o}
        /\ UNCHANGED <<now, table>>
    BY DEF IssuePrepare
  <1> HIDE DEF row
  <1>3. /\ insert \in Calls /\ insert.at = "insert"
        /\ insert.id = now /\ insert.row = row
    BY <1>1 DEF IInv, TypeOK, Calls, IDs
  <1> HIDE DEF insert
  <1>4. \A d \in Callers :
            /\ d # c => call'[d] = call[d]
            /\ d = c => call'[d] = insert
    BY <1>2 DEF IInv, TypeOK
  <1>5. TypeOK'
    BY <1>2, <1>3 DEF IInv, TypeOK
  <1>6. ChainsAreSound' /\ RowsArePast'
    BY <1>2 DEF IInv, ChainsAreSound, RowsArePast, Rows
  <1>7. InsertsOK'
    <2> SUFFICES ASSUME NEW d \in Callers, Inserting(d)'
                 PROVE  /\ call'[d].id <= now'
                        /\ call'[d].row.hash \in drawn'
                        /\ call'[d].row.expires \in Expiries
                        /\ ~call'[d].row.revoked
                        /\ \A id \in DOMAIN table' :
                               table'[id].hash # call'[d].row.hash
                        /\ \A e \in Callers \ {d} :
                               Inserting(e)' =>
                                   call'[e].row.hash # call'[d].row.hash
                        /\ call'[d].row.prev # NoID =>
                               /\ call'[d].row.prev \in DOMAIN table'
                               /\ call'[d].row.prev <= call'[d].id
      BY DEF InsertsOK
    <2>1. \A e \in Callers \ {c} :
              Inserting(e)' => Inserting(e) /\ call'[e].row.hash \in drawn
      BY <1>4 DEF IInv, InsertsOK, Inserting
    <2>2. CASE d = c
      <3>1. now <= now /\ \A id \in DOMAIN table : id <= now
        BY DEF IInv, TypeOK, RowsArePast
      <3>2. \A id \in DOMAIN table : table[id].hash # o
        BY <1>2 DEF IInv, RowsArePast
      <3>3. QED
        BY <1>1, <1>2, <1>3, <1>4, <2>1, <2>2, <3>1, <3>2
    <2>3. CASE d # c
      BY <1>1, <1>2, <1>3, <1>4, <2>1, <2>3 DEF IInv, InsertsOK, Inserting
    <2>4. QED
      BY <2>2, <2>3
  <1>8. FindsOK' /\ LooksOK'
    BY <1>2, <1>3, <1>4 DEF IInv, FindsOK, LooksOK, Before
  <1>9. QED
    BY <1>5, <1>6, <1>7, <1>8 DEF IInv

\* What an INSERT leaves in the table.
LEMMA InsertTable ==
    ASSUME NEW id, NEW row, table' = Put(table, id, row)
    PROVE  /\ DOMAIN table' = DOMAIN table \cup {id}
           /\ table'[id] = row
           /\ \A other \in DOMAIN table \ {id} : table'[other] = table[other]
  BY DEF Put

LEMMA InsertStep ==
    ASSUME IInv, NEW c \in Callers, Inserting(c),
           call[c].id \notin DOMAIN table,
           table' = Put(table, call[c].id, call[c].row),
           call' = [call EXCEPT ![c] = Idle], UNCHANGED <<now, drawn>>
    PROVE  IInv'
  <1> DEFINE id == call[c].id
             row == call[c].row
  <1>1. /\ id \in IDs /\ row \in refreshTokenRecord /\ id \notin DOMAIN table
        /\ id <= now /\ row.hash \in drawn
        /\ \A other \in DOMAIN table : table[other].hash # row.hash
        /\ \A d \in Callers \ {c} :
               Inserting(d) => call[d].row.hash # row.hash
        /\ row.prev # NoID => row.prev \in DOMAIN table /\ row.prev <= id
    BY CallTypes DEF IInv, InsertsOK
  <1>2. /\ DOMAIN table' = DOMAIN table \cup {id}
        /\ table'[id] = row
        /\ \A other \in DOMAIN table : table'[other] = table[other]
    BY InsertTable
  <1>3. \A d \in Callers :
            /\ d # c => call'[d] = call[d]
            /\ d = c => call'[d] = Idle
    BY DEF IInv, TypeOK
  <1> HIDE DEF id, row
  <1>4. TypeOK'
    <2>1. call' \in [Callers -> Calls]
      BY DEF IInv, TypeOK, Calls
    <2>2. \A other \in DOMAIN table' :
              other \in IDs /\ table'[other] \in refreshTokenRecord
      BY <1>1, <1>2 DEF IInv, TypeOK
    <2>3. QED
      BY <2>1, <2>2 DEF IInv, TypeOK
  <1>5. ChainsAreSound'
    <2>1. row.prev # NoID => row.prev < id
      BY <1>1 DEF IInv, TypeOK, IDs
    <2>2. \A x, y \in DOMAIN table' :
              table'[x].hash = table'[y].hash => x = y
      BY <1>1, <1>2, RowsDiffer DEF IInv
    <2>3. \A x \in DOMAIN table' :
              table'[x].prev # NoID =>
                  table'[x].prev \in DOMAIN table' /\ table'[x].prev < x
      BY <1>1, <1>2, <2>1, RowsDiffer DEF IInv
    <2>4. QED
      BY <2>2, <2>3, RowsDifferNext
  <1>6. RowsArePast'
    BY <1>1, <1>2 DEF IInv, RowsArePast
  <1>7. InsertsOK'
    BY <1>1, <1>2, <1>3 DEF IInv, InsertsOK, Inserting, Idle
  <1>8. FindsOK' /\ LooksOK'
    BY <1>2, <1>3 DEF IInv, FindsOK, LooksOK, Idle, Before
  <1>9. QED
    BY <1>4, <1>5, <1>6, <1>7, <1>8 DEF IInv

\* What an UPDATE leaves in the table.
LEMMA UpdateTable ==
    ASSUME TypeOK, NEW id \in DOMAIN table,
           table' = [table EXCEPT ![id].revoked = TRUE]
    PROVE  /\ DOMAIN table' = DOMAIN table
           /\ \A other \in DOMAIN table \ {id} : table'[other] = table[other]
           /\ table'[id] \in refreshTokenRecord
           /\ table'[id].user = table[id].user
           /\ table'[id].hash = table[id].hash
           /\ table'[id].expires = table[id].expires
           /\ table'[id].prev = table[id].prev
           /\ table'[id].revoked
  <1>1. table[id] \in refreshTokenRecord
    BY DEF TypeOK
  <1>2. table'[id] = [table[id] EXCEPT !.revoked = TRUE]
    OBVIOUS
  <1>3. QED
    BY <1>1, <1>2 DEF refreshTokenRecord

LEMMA UpdateStep ==
    ASSUME IInv, NEW c \in Callers, NEW id \in DOMAIN table,
           table' = [table EXCEPT ![id].revoked = TRUE],
           call' = [call EXCEPT ![c] = Idle], UNCHANGED <<now, drawn>>
    PROVE  IInv'
  <1>1. /\ DOMAIN table' = DOMAIN table
        /\ \A x \in DOMAIN table :
               /\ table'[x] \in refreshTokenRecord
               /\ table'[x].hash = table[x].hash
               /\ table'[x].expires = table[x].expires
               /\ table'[x].prev = table[x].prev
               /\ table[x].revoked => table'[x].revoked
    BY UpdateTable DEF IInv, TypeOK
  <1>2. \A d \in Callers :
            /\ d # c => call'[d] = call[d]
            /\ d = c => call'[d] = Idle
    BY DEF IInv, TypeOK
  <1>3. TypeOK'
    <2>1. call' \in [Callers -> Calls]
      BY DEF IInv, TypeOK, Calls
    <2>2. QED
      BY <1>1, <2>1 DEF IInv, TypeOK
  <1>4. ChainsAreSound'
    BY <1>1, RowsDiffer, RowsDifferNext DEF IInv
  <1>5. RowsArePast'
    BY <1>1 DEF IInv, RowsArePast
  <1>6. InsertsOK'
    BY <1>1, <1>2 DEF IInv, InsertsOK, Inserting, Idle
  <1>7. FindsOK' /\ LooksOK'
    BY <1>1, <1>2 DEF IInv, FindsOK, LooksOK, Idle, Before
  <1>8. QED
    BY <1>3, <1>4, <1>5, <1>6, <1>7 DEF IInv

\* An UPDATE that touched no row: the call goes on to its SELECT.
LEMMA MissStep ==
    ASSUME IInv, NEW c \in Callers, NEW id \in DOMAIN table \cup {NoID},
           ~Revocable(id), call' = [call EXCEPT ![c] = [at |-> "find", id |-> id]],
           UNCHANGED <<now, table, drawn>>
    PROVE  IInv'
  <1> DEFINE find == [at |-> "find", id |-> id]
  <1>1. find \in Calls /\ find.at = "find" /\ find.id = id
    BY DEF IInv, TypeOK, Calls
  <1>2. id # NoID => id \in DOMAIN table /\ table[id].revoked
    BY DEF Revocable
  <1> HIDE DEF find
  <1>3. \A d \in Callers :
            /\ d # c => call'[d] = call[d]
            /\ d = c => call'[d] = find
    BY DEF IInv, TypeOK, find
  <1>4. TypeOK'
    BY <1>1, <1>3 DEF IInv, TypeOK
  <1>5. ChainsAreSound' /\ RowsArePast'
    BY DEF IInv, ChainsAreSound, RowsArePast, Rows
  <1>6. InsertsOK' /\ FindsOK' /\ LooksOK'
    BY <1>1, <1>2, <1>3
       DEF IInv, InsertsOK, FindsOK, LooksOK, Inserting, Before
  <1>7. QED
    BY <1>4, <1>5, <1>6 DEF IInv

\* A SELECT that found the row: the call goes on to the clock.
LEMMA FoundStep ==
    ASSUME IInv, NEW c \in Callers, NEW id \in DOMAIN table,
           call' = [call EXCEPT ![c] = [at |-> "judge", row |-> table[id],
                                        seen |-> RowVerdict(table[id])]],
           UNCHANGED <<now, table, drawn>>
    PROVE  IInv'
  <1>1. PICK row \in refreshTokenRecord, seen \in Verdicts :
            /\ row = table[id] /\ seen = RowVerdict(row)
            /\ row.revoked <=> seen = "revoked"
            /\ seen = "expired" => Before(row.expires)
    BY DEF IInv, TypeOK, Verdicts, RowVerdict
  <1> DEFINE judge == [at |-> "judge", row |-> row, seen |-> seen]
  <1>2. /\ judge \in Calls /\ judge.at = "judge"
        /\ judge.row = row /\ judge.seen = seen
    BY <1>1 DEF Calls
  <1>3. call' = [call EXCEPT ![c] = judge]
    BY <1>1
  <1> HIDE DEF judge
  <1>4. \A d \in Callers :
            /\ d # c => call'[d] = call[d]
            /\ d = c => call'[d] = judge
    BY <1>3 DEF IInv, TypeOK
  <1>5. TypeOK'
    BY <1>2, <1>3 DEF IInv, TypeOK
  <1>6. ChainsAreSound' /\ RowsArePast'
    BY DEF IInv, ChainsAreSound, RowsArePast, Rows
  <1>7. InsertsOK' /\ FindsOK'
    BY <1>2, <1>4 DEF IInv, InsertsOK, FindsOK, Inserting
  <1>8. LooksOK'
    BY <1>1, <1>2, <1>4 DEF IInv, LooksOK, Before
  <1>9. QED
    BY <1>5, <1>6, <1>7, <1>8 DEF IInv

\* A step of a call, in one of the five ways the lemmas above are about.
LEMMA CallStep ==
    ASSUME IInv, NEW c \in Callers,
           \/ IssueCreate(c) \/ IssueCreateFails(c)
           \/ \E o \in Opaques : ValidateTake(c, o)
           \/ ValidateJudge(c)
           \/ \E id \in DOMAIN table \cup {NoID} :
                  RevokeUpdate(c, id) \/ RevokeUpdateFails(c, id)
           \/ RevokeFind(c)
    PROVE  IInv'
  <1>1. ASSUME IssueCreate(c) \/ IssueCreateFails(c) PROVE IInv'
    BY <1>1, ReturnStep, InsertStep
       DEF IssueCreate, IssueCreateFails, Return, Inserting
  <1>2. ASSUME NEW o \in Opaques, ValidateTake(c, o) PROVE IInv'
    BY <1>2, ReturnStep, FoundStep DEF ValidateTake, Return, Rows
  <1>3. ASSUME NEW id \in DOMAIN table \cup {NoID}, RevokeUpdate(c, id)
        PROVE  IInv'
    BY <1>3, UpdateStep, MissStep DEF RevokeUpdate, Return, Revocable
  <1>4. ASSUME NEW id \in DOMAIN table \cup {NoID}, RevokeUpdateFails(c, id)
        PROVE  IInv'
    BY <1>4, UpdateStep, ReturnStep DEF RevokeUpdateFails, Return, Revocable
  <1>5. ASSUME RevokeFind(c) \/ ValidateJudge(c) PROVE IInv'
    BY <1>5, ReturnStep DEF RevokeFind, ValidateJudge, Return
  <1>6. QED
    BY <1>1, <1>2, <1>3, <1>4, <1>5

LEMMA TickStep ==
    ASSUME IInv, Tick
    PROVE  IInv'
  <1>1. now \in Nat /\ now' = now + 1 /\ UNCHANGED <<table, drawn, call, answer>>
    BY DEF IInv, TypeOK, Tick, Advance
  <1>2. TypeOK' /\ ChainsAreSound' /\ FindsOK'
    BY <1>1 DEF IInv, TypeOK, ChainsAreSound, Rows, FindsOK
  <1>3. RowsArePast'
    BY <1>1 DEF IInv, TypeOK, RowsArePast, IDs
  <1>4. InsertsOK'
    BY <1>1, CallTypes DEF IInv, TypeOK, InsertsOK, Inserting, IDs
  <1>5. LooksOK'
    <2>1. ASSUME NEW e \in Int, Before(e) PROVE Before(e)'
      BY <1>1, <2>1, ClockAssumption DEF Before
    <2>2. ASSUME NEW c \in Callers, call[c].at = "judge"
          PROVE  call[c].row.expires \in Int
      BY <2>2, CallTypes DEF IInv, refreshTokenRecord
    <2>3. QED
      BY <1>1, <2>1, <2>2 DEF IInv, LooksOK
  <1>6. QED
    BY <1>2, <1>3, <1>4, <1>5 DEF IInv

LEMMA Invariance == Spec => []IInv
  <1>1. Init => IInv
    BY DEF Init, IInv, TypeOK, ChainsAreSound, Rows, RowsArePast, InsertsOK,
           FindsOK, LooksOK, Inserting, Idle, Calls, EmptyMap
  <1>2. IInv /\ [Next]_vars => IInv'
    <2> SUFFICES ASSUME IInv, [Next]_vars PROVE IInv'
      OBVIOUS
    <2>1. CASE Next
      BY <2>1, PrepareStep, CallStep, TickStep DEF Next
    <2>2. CASE UNCHANGED vars
      BY <2>2 DEF vars, IInv, TypeOK, ChainsAreSound, Rows, RowsArePast,
                  InsertsOK, FindsOK, LooksOK, Inserting, Before
    <2>3. QED
      BY <2>1, <2>2
  <1>3. QED
    BY <1>1, <1>2, PTL DEF Spec

\* Type correctness: no row is ever written with half of its columns, and a
\* call between two statements knows what it came for.
THEOREM DatabaseWellTyped == Spec => []TypeOK
  BY Invariance, PTL DEF IInv

\* However INSERTs of one instant clash and whatever statements fail, no two
\* rows share an instant or a hash, and every chain of predecessors runs back
\* in time through stored rows to a login.
THEOREM ChainsStaySound == Spec => []ChainsAreSound
  BY Invariance, PTL DEF IInv

\* Every caller has the answer of its last call.
AnswersKnown == DOMAIN answer = Callers

LEMMA AnswersKept == Spec => []AnswersKnown
  <1>1. Init => AnswersKnown
    BY DEF Init, AnswersKnown
  <1>2. AnswersKnown /\ [Next]_vars => AnswersKnown'
    <2>1. ASSUME NEW c, NEW op, NEW verdict, NEW token,
                 Return(c, op, verdict, token)
          PROVE  DOMAIN answer' = DOMAIN answer
      BY <2>1 DEF Return
    <2>2. QED
      BY <2>1 DEF AnswersKnown, Next, vars, IssuePrepare, IssueCreate,
                  IssueCreateFails, ValidateTake, ValidateJudge,
                  RevokeUpdate, RevokeUpdateFails, RevokeFind, Tick
  <1>3. QED
    BY <1>1, <1>2, PTL DEF Spec

\* However many Revokes race, the `return nil` at the end of Revoke is never
\* reached with a row that is not revoked: nil is the answer of the call whose
\* UPDATE revoked the row, and of no other.
THEOREM NilMeansRevoked == Spec => NilMeansRevokedHere
  <1>1. ASSUME IInv, AnswersKnown, NEW c \in Callers, RevokeFind(c)
        PROVE  answer'[c].verdict # "ok"
    <2>1. ~Revocable(call[c].id)
      BY <1>1, DatabaseAssumption DEF IInv, TypeOK, FindsOK, RevokeFind, Revocable, IDs
    <2>2. ASSUME NEW verdict, NEW token, Return(c, "revoke", verdict, token)
          PROVE  answer'[c].verdict = verdict
      BY <1>1, <2>2 DEF Return, Answer, AnswersKnown
    <2>3. QED
      BY <1>1, <2>1, <2>2 DEF RevokeFind
  <1>2. IInv /\ AnswersKnown =>
            [\A c \in Callers : RevokeFind(c) => answer'[c].verdict # "ok"]_vars
    BY <1>1
  <1>3. QED
    BY <1>2, Invariance, AnswersKept, PTL DEF Spec, NilMeansRevokedHere

\* An acceptance was true of the row when it was read; a refusal is true when
\* it is given: the row is then revoked or has expired.
VerdictStands(c) ==
    /\ answer'[c].verdict = "ok" => call[c].seen = "ok"
    /\ answer'[c].verdict # "ok" =>
           \E id \in DOMAIN table :
               /\ table[id].hash = call[c].row.hash
               /\ table[id].revoked \/ Before(table[id].expires)

VerdictsStand == [][\A c \in Callers : ValidateJudge(c) => VerdictStands(c)]_vars

\* Although a Validate reads the row and the clock at two instants, whoever
\* only asks whether the token is good may take it to act at one: an acceptance
\* at the SELECT and a refusal at the return.  The name of the refusal alone can
\* be false of every instant (a token called expired that was revoked first).
THEOREM VerdictsAreTrue == Spec => VerdictsStand
  <1>1. ASSUME IInv, AnswersKnown, NEW c \in Callers, ValidateJudge(c)
        PROVE  VerdictStands(c)
    <2>1. answer'[c].verdict = RowVerdict(call[c].row)
      BY <1>1 DEF ValidateJudge, Return, Answer, AnswersKnown
    <2>2. /\ call[c].at = "judge" /\ call[c].seen \in Verdicts
          /\ call[c].row.revoked <=> call[c].seen = "revoked"
          /\ call[c].seen = "expired" => Before(call[c].row.expires)
      BY <1>1, CallTypes DEF ValidateJudge, IInv, LooksOK
    <2>3. PICK id \in DOMAIN table :
              /\ table[id].hash = call[c].row.hash
              /\ table[id].expires = call[c].row.expires
              /\ call[c].row.revoked => table[id].revoked
      BY <1>1, <2>2 DEF IInv, LooksOK
    <2>4. \/ RowVerdict(call[c].row) = "ok" /\ call[c].seen = "ok"
          \/ call[c].row.revoked
          \/ Before(call[c].row.expires)
      BY <2>2 DEF RowVerdict, Verdicts
    <2>5. CASE call[c].row.revoked \/ Before(call[c].row.expires)
      BY <2>1, <2>3, <2>5 DEF RowVerdict, VerdictStands
    <2>6. CASE RowVerdict(call[c].row) = "ok" /\ call[c].seen = "ok"
      BY <2>1, <2>6 DEF VerdictStands
    <2>7. QED
      BY <2>4, <2>5, <2>6
  <1>2. IInv /\ AnswersKnown =>
            [\A c \in Callers : ValidateJudge(c) => VerdictStands(c)]_vars
    BY <1>1
  <1>3. QED
    BY <1>2, Invariance, AnswersKept, PTL DEF Spec, VerdictsStand

-----------------------------------------------------------------------------
(* The refinement.                                                           *)

\* Row id, as the contract sees it.
Entry(id) ==
    [user |-> table[id].user, expires |-> table[id].expires,
     revoked |-> table[id].revoked, prev |-> Owner(table[id].prev)]

\* The ledger has an entry for each row, under its hash.
LedgerHasRows ==
    /\ Ledger = [o \in DOMAIN Ledger |-> Ledger[o]]
    /\ DOMAIN Ledger = {table[id].hash : id \in DOMAIN table}
    /\ \A id \in DOMAIN table : Ledger[table[id].hash] = Entry(id)
    /\ NoToken \notin DOMAIN Ledger

LEMMA LedgerIs == IInv => LedgerHasRows
  <1> SUFFICES ASSUME IInv PROVE LedgerHasRows
    OBVIOUS
  <1>1. ASSUME NEW id \in DOMAIN table
        PROVE  RowID(table[id].hash) = id
    BY RowsDiffer DEF IInv, RowID
  <1>2. \A id \in DOMAIN table : table[id].hash \in Opaques
    BY DEF IInv, TypeOK, refreshTokenRecord
  <1>3. QED
    BY <1>1, <1>2, DatabaseAssumption DEF LedgerHasRows, Ledger, Entry

\* What a stored token's entry says of it.
LEMMA EntryOf ==
    ASSUME IInv, NEW id \in DOMAIN table
    PROVE  /\ table[id].hash \in DOMAIN Ledger
           /\ Ledger[table[id].hash].expires = table[id].expires
           /\ Ledger[table[id].hash].revoked <=> table[id].revoked
  <1>1. table[id].hash \in DOMAIN Ledger /\ Ledger[table[id].hash] = Entry(id)
    BY LedgerIs DEF LedgerHasRows
  <1>2. Entry(id).expires = table[id].expires
    BY DEF Entry
  <1>3. Entry(id).revoked <=> table[id].revoked
    <2>1. PICK t \in BOOLEAN : t = table[id].revoked
      BY DEF IInv, TypeOK, refreshTokenRecord
    <2>2. Entry(id) = [user |-> table[id].user, expires |-> table[id].expires,
                       revoked |-> t, prev |-> Owner(table[id].prev)]
      BY <2>1 DEF Entry
    <2>3. Entry(id).revoked = t
      BY <2>2
    <2>4. QED
      BY <2>1, <2>3
  <1>4. QED
    BY <1>1, <1>2, <1>3

LEMMA LedgerIsNext == IInv' => LedgerHasRows'
  BY LedgerIs, PTL

\* An id names a token of the ledger, and the empty id none.
LEMMA OwnerLemma ==
    ASSUME IInv
    PROVE  /\ \A id \in DOMAIN table :
                  /\ Owner(id) = table[id].hash
                  /\ Owner(id) \in DOMAIN Ledger \cap Opaques
           /\ NoID \notin DOMAIN table /\ Owner(NoID) = NoToken
  <1>1. NoID \notin DOMAIN table
    BY DatabaseAssumption DEF IInv, TypeOK, IDs
  <1>2. QED
    BY <1>1, LedgerIs DEF Owner, LedgerHasRows, IInv, TypeOK, refreshTokenRecord

\* Rows keep their hashes and predecessors, so ids keep their owners.
LEMMA OwnersStay ==
    ASSUME IInv, IInv', DOMAIN table \subseteq DOMAIN table',
           \A id \in DOMAIN table : table'[id].hash = table[id].hash
    PROVE  \A id \in DOMAIN table \cup {NoID} : Owner(id)' = Owner(id)
  <1>1. NoID \notin DOMAIN table /\ NoID \notin DOMAIN table'
    BY DatabaseAssumption DEF IInv, TypeOK, IDs
  <1>2. QED
    BY <1>1 DEF Owner

\* An entry stays as it is as long as its row does.
LEMMA EntriesStay ==
    ASSUME IInv, IInv', DOMAIN table \subseteq DOMAIN table',
           \A id \in DOMAIN table : /\ table'[id].hash = table[id].hash
                                    /\ table'[id].prev = table[id].prev,
           NEW id \in DOMAIN table
    PROVE  Entry(id)' = [user |-> table'[id].user, expires |-> table'[id].expires,
                         revoked |-> table'[id].revoked, prev |-> Entry(id).prev]
  <1>1. PICK k \in DOMAIN table \cup {NoID} : k = table[id].prev
    BY RowsDiffer DEF IInv
  <1>2. table'[id].prev = k
    BY <1>1
  <1>3. Owner(table[id].prev)' = Owner(k)'
    BY <1>2 DEF Owner
  <1>4. Owner(k)' = Owner(table[id].prev)
    BY <1>1, OwnersStay
  <1>5. QED
    BY <1>3, <1>4 DEF Entry

\* A row that is inserted is a token that is issued.
LEMMA InsertIssues ==
    ASSUME IInv, IInv', NEW c \in Callers, Inserting(c),
           call[c].id \notin DOMAIN table,
           table' = Put(table, call[c].id, call[c].row)
    PROVE  /\ call[c].row.hash \in Opaques \ DOMAIN Ledger
           /\ call[c].row.user \in Users /\ call[c].row.expires \in Expiries
           /\ Owner(call[c].row.prev) \in DOMAIN Ledger \cup {NoToken}
           /\ Ledger' = RS!WithIssued(call[c].row.hash, call[c].row.user,
                                     call[c].row.expires, Owner(call[c].row.prev))
  <1>1. PICK i \in IDs, row \in refreshTokenRecord :
            i = call[c].id /\ row = call[c].row
    BY CallTypes DEF IInv
  <1>2. /\ i \notin DOMAIN table
        /\ ~row.revoked /\ row.expires \in Expiries
        /\ \A id \in DOMAIN table : table[id].hash # row.hash
        /\ row.prev \in DOMAIN table \cup {NoID}
    BY <1>1 DEF IInv, InsertsOK
  <1>3. /\ DOMAIN table' = DOMAIN table \cup {i}
        /\ table'[i] = row
        /\ \A id \in DOMAIN table : table'[id] = table[id]
    BY <1>1, InsertTable
  <1>4. row.revoked = FALSE /\ row.hash \in Opaques /\ row.user \in Users
    BY <1>2 DEF refreshTokenRecord
  <1>5. PICK owner \in DOMAIN Ledger \cup {NoToken} : owner = Owner(row.prev)
    BY <1>2, OwnerLemma
  <1> DEFINE issued == [user |-> row.user, expires |-> row.expires,
                        revoked |-> FALSE, prev |-> owner]
  <1>6. \A id \in DOMAIN table : Entry(id)' = Entry(id)
    BY <1>3, EntriesStay DEF Entry
  <1>7. Entry(i)' = issued
    <2>1. Owner(table[i].prev)' = Owner(row.prev)'
      BY <1>3 DEF Owner
    <2>2. Owner(row.prev)' = owner
      BY <1>2, <1>3, <1>5, OwnersStay
    <2>3. QED
      BY <1>3, <1>4, <2>1, <2>2 DEF Entry
  <1>8. row.hash \notin DOMAIN Ledger
    BY <1>2, LedgerIs DEF LedgerHasRows
  <1> HIDE DEF issued
  <1>9. DOMAIN Ledger' = DOMAIN Ledger \cup {row.hash}
    <2>1. DOMAIN Ledger' = {table'[id].hash : id \in DOMAIN table \cup {i}}
      BY <1>3, LedgerIsNext DEF LedgerHasRows
    <2>2. DOMAIN Ledger = {table[id].hash : id \in DOMAIN table}
      BY LedgerIs DEF LedgerHasRows
    <2>3. QED
      BY <1>3, <2>1, <2>2
  <1>10. Ledger'[row.hash] = issued
    <2>1. Ledger'[table'[i].hash] = Entry(i)'
      BY <1>3, LedgerIsNext DEF LedgerHasRows
    <2>2. QED
      BY <1>3, <1>7, <2>1
  <1>11. ASSUME NEW o \in DOMAIN Ledger PROVE Ledger'[o] = Ledger[o]
    <2>1. PICK id \in DOMAIN table : o = table[id].hash /\ Ledger[o] = Entry(id)
      BY LedgerIs DEF LedgerHasRows
    <2>2. table'[id].hash = o /\ Ledger'[table'[id].hash] = Entry(id)'
      BY <1>3, <2>1, LedgerIsNext DEF LedgerHasRows
    <2>3. QED
      BY <1>6, <2>1, <2>2
  <1>12. Ledger' = [o \in DOMAIN Ledger \cup {row.hash} |->
                       IF o = row.hash THEN issued ELSE Ledger[o]]
    BY <1>8, <1>9, <1>10, <1>11, LedgerIsNext DEF LedgerHasRows
  <1>13. Ledger' = RS!WithIssued(row.hash, row.user, row.expires, owner)
    BY <1>12 DEF RS!WithIssued, RS!Put, issued
  <1>14. QED
    BY <1>1, <1>2, <1>4, <1>5, <1>8, <1>13

\* A row that is updated is a token that is revoked.
LEMMA UpdateRevokes ==
    ASSUME IInv, IInv', NEW id \in DOMAIN table,
           table' = [table EXCEPT ![id].revoked = TRUE]
    PROVE  Ledger' = RS!WithRevoked(Owner(id))
  <1>1. PICK o \in Opaques : o = table[id].hash
    BY DEF IInv, TypeOK, refreshTokenRecord
  <1>2. /\ DOMAIN table' = DOMAIN table
        /\ \A other \in DOMAIN table \ {id} : table'[other] = table[other]
        /\ table'[id].user = table[id].user
        /\ table'[id].hash = o
        /\ table'[id].expires = table[id].expires
        /\ table'[id].prev = table[id].prev
        /\ table'[id].revoked = TRUE
    <2>1. TypeOK
      BY DEF IInv
    <2>2. table'[id].revoked \in BOOLEAN /\ table'[id].revoked
      BY <2>1, UpdateTable DEF refreshTokenRecord
    <2>3. QED
      BY <1>1, <2>1, <2>2, UpdateTable
  <1>3. \A k \in DOMAIN table : /\ table'[k].hash = table[k].hash
                                /\ table'[k].prev = table[k].prev
    BY <1>1, <1>2
  <1>4. \A k \in DOMAIN table :
            Entry(k)' = [user |-> table'[k].user, expires |-> table'[k].expires,
                         revoked |-> table'[k].revoked, prev |-> Entry(k).prev]
    BY <1>2, <1>3, EntriesStay
  <1>5. \A k \in DOMAIN table \ {id} : Entry(k)' = Entry(k)
    BY <1>2, <1>4 DEF Entry
  <1>6. Entry(id)' = [Entry(id) EXCEPT !.revoked = TRUE]
    <2>1. PICK t \in BOOLEAN : t = TRUE
      OBVIOUS
    <2>2. [Entry(id) EXCEPT !.revoked = t]
              = [user |-> table[id].user, expires |-> table[id].expires,
                 revoked |-> t, prev |-> Entry(id).prev]
      BY DEF Entry
    <2>3. Entry(id)' = [Entry(id) EXCEPT !.revoked = t]
      BY <1>2, <1>4, <2>1, <2>2
    <2>4. QED
      BY <2>1, <2>3
  <1>7. Owner(id) = o /\ o \in DOMAIN Ledger /\ Ledger[o] = Entry(id)
    BY <1>1, OwnerLemma, LedgerIs DEF LedgerHasRows
  <1>8. \A k \in DOMAIN table : table[k].hash = o => k = id
    BY <1>1, RowsDiffer DEF IInv
  <1>9. DOMAIN Ledger' = DOMAIN Ledger
    BY <1>2, <1>3, LedgerIs, LedgerIsNext DEF LedgerHasRows
  <1>10. Ledger'[o] = Entry(id)'
    <2>1. Ledger'[table'[id].hash] = Entry(id)'
      BY <1>2, LedgerIsNext DEF LedgerHasRows
    <2>2. QED
      BY <1>2, <2>1
  <1>11. ASSUME NEW p \in DOMAIN Ledger, p # o
         PROVE  Ledger'[p] = Ledger[p]
    <2>1. PICK k \in DOMAIN table : p = table[k].hash /\ Ledger[p] = Entry(k)
      BY LedgerIs DEF LedgerHasRows
    <2>2. table'[k].hash = p /\ Ledger'[table'[k].hash] = Entry(k)'
      BY <1>2, <1>3, <2>1, LedgerIsNext DEF LedgerHasRows
    <2>3. QED
      BY <1>1, <1>5, <1>11, <2>1, <2>2
  <1>12. Ledger' = [p \in DOMAIN Ledger |->
                       IF p = o THEN [Ledger[o] EXCEPT !.revoked = TRUE]
                       ELSE Ledger[p]]
    BY <1>6, <1>7, <1>9, <1>10, <1>11, LedgerIsNext DEF LedgerHasRows
  <1>13. [Ledger EXCEPT ![o].revoked = TRUE]
             = [p \in DOMAIN Ledger |->
                   IF p = o THEN [Ledger[o] EXCEPT !.revoked = TRUE]
                   ELSE Ledger[p]]
    BY <1>7
  <1>14. QED
    BY <1>7, <1>12, <1>13 DEF RS!WithRevoked

\* To revoke what is revoked changes nothing.
LEMMA RevokedAlready ==
    ASSUME IInv, NEW id \in DOMAIN table, table[id].revoked
    PROVE  RS!WithRevoked(Owner(id)) = Ledger
  <1>1. /\ Owner(id) \in DOMAIN Ledger
        /\ Ledger[Owner(id)] = Entry(id)
    BY OwnerLemma, LedgerIs DEF LedgerHasRows
  <1>2. table[id].revoked = TRUE
    BY DEF IInv, TypeOK, refreshTokenRecord
  <1>3. [Entry(id) EXCEPT !.revoked = TRUE] = Entry(id)
    <2>1. PICK t \in BOOLEAN : t = table[id].revoked /\ t = TRUE
      BY <1>2
    <2>2. Entry(id) = [user |-> table[id].user, expires |-> table[id].expires,
                       revoked |-> t, prev |-> Owner(table[id].prev)]
      BY <2>1 DEF Entry
    <2>3. [Entry(id) EXCEPT !.revoked = t] = Entry(id)
      BY <2>2
    <2>4. QED
      BY <2>1, <2>3
  <1>4. [Ledger EXCEPT ![Owner(id)].revoked = TRUE] = Ledger
    BY <1>1, <1>3, LedgerIs DEF LedgerHasRows
  <1>5. QED
    BY <1>1, <1>4 DEF RS!WithRevoked

\* A step of a call that is not in the middle of a Validate, and does not put
\* it there.
LEMMA LookedStays ==
    ASSUME IInv, NEW c \in Callers, call[c].at # "judge",
           NEW next, next.at # "judge", call' = [call EXCEPT ![c] = next]
    PROVE  Looked' = Looked /\ Looked[c] = RS!NotLooking
  <1>1. \A d \in Callers :
            /\ d # c => call'[d] = call[d]
            /\ d = c => call'[d] = next
    BY DEF IInv, TypeOK
  <1>2. QED
    BY <1>1 DEF Looked, RS!NotLooking

LEMMA ReturnLooksNot ==
    ASSUME IInv, NEW c \in Callers, call[c].at # "judge",
           NEW op, NEW verdict, NEW token, Return(c, op, verdict, token)
    PROVE  Looked' = Looked /\ Looked[c] = RS!NotLooking
  BY LookedStays DEF Return, Idle

\* An INSERT that stored the row is an Issue, and any other an Issue that
\* failed.
LEMMA IssueRefines ==
    ASSUME IInv, NEW c \in Callers, IssueCreate(c) \/ IssueCreateFails(c)
    PROVE  RS!Next
  <1>1. IInv' /\ Inserting(c) /\ now' = now
    BY CallStep DEF IssueCreate, IssueCreateFails, Inserting
  <1>2. Looked' = Looked /\ Looked[c] = RS!NotLooking
    BY <1>1, ReturnLooksNot DEF IssueCreate, IssueCreateFails, Inserting
  <1>3. CASE /\ call[c].id \notin DOMAIN table
             /\ table' = Put(table, call[c].id, call[c].row)
    <2>1. PICK o \in Opaques \ DOMAIN Ledger, user \in Users,
               expires \in Expiries, prev \in DOMAIN Ledger \cup {NoToken} :
              /\ o = call[c].row.hash
              /\ Ledger' = RS!WithIssued(o, user, expires, prev)
      BY <1>1, <1>3, InsertIssues
    <2>2. \/ Return(c, "issue", "ok", o)
          \/ Return(c, "issue", "error", NoToken)
      BY <2>1 DEF IssueCreate, IssueCreateFails
    <2>3. RS!Issue(c, o, user, expires, prev)
      BY <1>1, <1>2, <2>1, <2>2
         DEF RS!Issue, Return, Answer, RS!Reply, RS!Answer
    <2>4. QED
      BY <1>2, <2>3 DEF RS!Next
  <1>4. CASE /\ table' = table
             /\ Return(c, "issue", "error", NoToken)
    <2>1. Ledger' = Ledger
      BY <1>4 DEF Ledger, RowID, Owner
    <2>2. RS!IssueFails(c)
      BY <1>1, <1>2, <1>4, <2>1
         DEF RS!IssueFails, Return, Answer, RS!Reply, RS!Answer
    <2>3. QED
      BY <1>2, <2>2 DEF RS!Next
  <1>5. QED
    BY <1>3, <1>4 DEF IssueCreate, IssueCreateFails

\* The row a SELECT by hash finds is the token's.
LEMMA VerdictIs ==
    ASSUME IInv, NEW o \in Opaques
    PROVE  /\ Rows(o) = {} => RS!ValidateVerdict(o) = "not_found"
           /\ \A id \in Rows(o) : RS!ValidateVerdict(o) = RowVerdict(table[id])
  <1>1. ASSUME Rows(o) = {} PROVE o \notin DOMAIN Ledger
    BY <1>1, LedgerIs DEF LedgerHasRows, Rows
  <1>2. ASSUME NEW id \in Rows(o)
        PROVE  /\ o \in DOMAIN Ledger
               /\ Ledger[o].revoked <=> table[id].revoked
               /\ Ledger[o].expires = table[id].expires
    BY EntryOf DEF Rows
  <1>3. QED
    BY <1>1, <1>2 DEF RS!ValidateVerdict, RowVerdict, RS!Before, Before

\* A SELECT that found no row, or failed, is a whole Validate; one that found
\* the row looks the token up.
LEMMA TakeRefines ==
    ASSUME IInv, NEW c \in Callers, NEW o \in Opaques, ValidateTake(c, o)
    PROVE  RS!Next
  <1>1. Ledger' = Ledger /\ now' = now /\ call[c].at # "judge"
    BY DEF ValidateTake, Ledger, RowID, Owner, Idle
  <1>2. Looked[c] = RS!NotLooking
    BY <1>1 DEF Looked, RS!NotLooking
  <1>3. CASE \/ Return(c, "validate", RS!ValidateVerdict(o), o)
             \/ Return(c, "validate", "error", o)
    <2>1. Looked' = Looked
      BY <1>1, <1>3, ReturnLooksNot
    <2>2. RS!Validate(c, o)
      BY <1>1, <1>3, <2>1 DEF RS!Validate, Return, Answer, RS!Reply, RS!Answer
    <2>3. QED
      BY <1>2, <2>2 DEF RS!Next
  <1>4. ASSUME UNCHANGED answer,
               NEW id \in Rows(o),
               call' = [call EXCEPT ![c] = [at |-> "judge", row |-> table[id],
                                            seen |-> RowVerdict(table[id])]]
        PROVE  RS!Next
    <2>1. id \in DOMAIN table /\ table[id].hash = o
      BY DEF Rows
    <2>2. /\ o \in DOMAIN Ledger
          /\ RowVerdict(table[id]) = RS!ValidateVerdict(o)
      BY <2>1, VerdictIs, EntryOf
    <2>3. PICK verdict : verdict = RS!ValidateVerdict(o)
      OBVIOUS
    <2>4. /\ \A d \in Callers \ {c} : call'[d] = call[d]
          /\ call'[c].at = "judge" /\ call'[c].row.hash = o
          /\ call'[c].seen = verdict
      BY <1>4, <2>1, <2>2, <2>3 DEF IInv, TypeOK
    <2>5. Looked' = [Looked EXCEPT ![c] = [token |-> o, verdict |-> verdict]]
      BY <2>4 DEF Looked
    <2>6. RS!LookUp(c, o)
      BY <1>1, <1>4, <2>2, <2>3, <2>5 DEF RS!LookUp
    <2>7. QED
      BY <1>2, <2>6 DEF RS!Next
  <1>5. QED
    BY <1>3, <1>4, VerdictIs DEF ValidateTake

\* The clock read after the row: what the SELECT saw, or that the token has
\* expired since.
LEMMA JudgeRefines ==
    ASSUME IInv, NEW c \in Callers, ValidateJudge(c)
    PROVE  RS!Next
  <1>1. PICK row \in refreshTokenRecord, seen \in Verdicts :
            /\ row = call[c].row /\ seen = call[c].seen
            /\ row.revoked <=> seen = "revoked"
            /\ seen = "expired" => Before(row.expires)
    BY CallTypes DEF IInv, LooksOK, ValidateJudge
  <1>2. /\ Ledger' = Ledger /\ UNCHANGED <<now, table>>
        /\ call[c].at = "judge"
        /\ Return(c, "validate", RowVerdict(row), row.hash)
    BY <1>1 DEF ValidateJudge, Ledger, RowID, Owner
  <1>3. /\ Looked[c].token = row.hash /\ Looked[c].verdict = seen
        /\ Looked[c] # RS!NotLooking
    BY <1>1, <1>2 DEF Looked, RS!NotLooking, Verdicts
  <1>4. Looked' = [Looked EXCEPT ![c] = RS!NotLooking]
    <2>1. \A d \in Callers :
              /\ d # c => call'[d] = call[d]
              /\ d = c => call'[d].at # "judge"
      BY <1>2 DEF Return, Idle, IInv, TypeOK
    <2>2. QED
      BY <2>1 DEF Looked, RS!NotLooking
  <1>5. Ledger[row.hash].expires = row.expires
    BY <1>1, <1>2, EntryOf DEF IInv, LooksOK
  <1>6. \/ RowVerdict(row) = seen
        \/ seen = "ok" /\ RowVerdict(row) = "expired" /\ Before(row.expires)
    BY <1>1 DEF RowVerdict, Verdicts
  <1>7. RS!Judge(c)
    BY <1>2, <1>3, <1>4, <1>5, <1>6
       DEF RS!Judge, Return, Answer, RS!Reply, RS!Answer, RS!Before, Before
  <1>8. QED
    BY <1>3, <1>7 DEF RS!Next

\* What the contract says of a Revoke, by the row the id names.
LEMMA RevokeVerdictIs ==
    ASSUME IInv, NEW id \in DOMAIN table \cup {NoID}
    PROVE  /\ Owner(id) \in Opaques \cup {NoToken}
           /\ id \notin DOMAIN table =>
                  /\ Owner(id) = NoToken
                  /\ RS!RevokeVerdict(Owner(id)) = "not_found"
                  /\ RS!WithRevoked(Owner(id)) = Ledger
           /\ id \in DOMAIN table =>
                  RS!RevokeVerdict(Owner(id)) =
                      IF table[id].revoked THEN "already_revoked" ELSE "ok"
  <1>1. CASE id \notin DOMAIN table
    <2>1. Owner(id) = NoToken /\ NoToken \notin DOMAIN Ledger
      BY <1>1, LedgerIs DEF LedgerHasRows, Owner
    <2>2. QED
      BY <1>1, <2>1 DEF RS!RevokeVerdict, RS!WithRevoked
  <1>2. CASE id \in DOMAIN table
    <2>1. /\ Owner(id) = table[id].hash /\ Owner(id) \in DOMAIN Ledger \cap Opaques
          /\ Ledger[table[id].hash].revoked <=> table[id].revoked
      BY <1>2, OwnerLemma, EntryOf
    <2>2. QED
      BY <1>2, <2>1 DEF RS!RevokeVerdict
  <1>3. QED
    BY <1>1, <1>2

LEMMA RevokeRefines ==
    ASSUME IInv, NEW c \in Callers, NEW id \in DOMAIN table \cup {NoID},
           RevokeUpdate(c, id) \/ RevokeUpdateFails(c, id)
    PROVE  RS!Next \/ UNCHANGED RS!vars
  <1>1. IInv' /\ now' = now /\ call[c].at # "judge"
    BY CallStep DEF RevokeUpdate, RevokeUpdateFails, Idle
  <1>2. PICK o \in Opaques \cup {NoToken} : o = Owner(id)
    BY RevokeVerdictIs
  <1>3. ASSUME table' = table PROVE Ledger' = Ledger
    BY <1>3 DEF Ledger, RowID, Owner
  <1>4. ASSUME Revocable(id), table' = [table EXCEPT ![id].revoked = TRUE]
        PROVE  Ledger' = RS!WithRevoked(o) /\ RS!RevokeVerdict(o) = "ok"
    BY <1>1, <1>2, <1>4, UpdateRevokes, RevokeVerdictIs DEF Revocable
  <1>5. Looked' = Looked /\ Looked[c] = RS!NotLooking
    BY <1>1, LookedStays DEF RevokeUpdate, RevokeUpdateFails, Return, Idle
  <1>6. \/ UNCHANGED RS!vars
        \/ RS!Revoke(c, o)
    <2>1. CASE RevokeUpdateFails(c, id)
      <3>1. Return(c, "revoke", "error", o)
        BY <1>2, <2>1 DEF RevokeUpdateFails
      <3>2. Ledger' = Ledger \/ Ledger' = RS!WithRevoked(o)
        BY <1>3, <1>4, <2>1 DEF RevokeUpdateFails
      <3>3. QED
        BY <1>1, <1>5, <3>1, <3>2 DEF RS!Revoke, Return, Answer, RS!Reply, RS!Answer
    <2>2. CASE /\ Revocable(id) /\ table' = [table EXCEPT ![id].revoked = TRUE]
               /\ Return(c, "revoke", "ok", Owner(id))
      BY <1>1, <1>2, <1>4, <1>5, <2>2
         DEF RS!Revoke, Return, Answer, RS!Reply, RS!Answer
    <2>3. CASE UNCHANGED <<now, table, answer>>
      BY <1>3, <1>5, <2>3 DEF RS!vars
    <2>4. QED
      BY <1>1, <2>1, <2>2, <2>3 DEF RevokeUpdate
  <1>7. QED
    BY <1>5, <1>6 DEF RS!Next

LEMMA FindRefines ==
    ASSUME IInv, NEW c \in Callers, RevokeFind(c)
    PROVE  RS!Next
  <1>1. PICK id \in DOMAIN table \cup {NoID} : id = call[c].id
    BY CallTypes DEF RevokeFind, IInv, FindsOK
  <1>2. ~Revocable(id)
    BY <1>1, OwnerLemma DEF RevokeFind, IInv, FindsOK, Revocable
  <1>3. PICK o \in Opaques \cup {NoToken} : o = Owner(id)
    BY RevokeVerdictIs
  <1>4. RS!WithRevoked(o) = Ledger
    BY <1>2, <1>3, RevokedAlready, RevokeVerdictIs DEF Revocable
  <1>5. Ledger' = Ledger /\ now' = now
    BY DEF RevokeFind, Ledger, RowID, Owner
  <1>6. \/ Return(c, "revoke", RS!RevokeVerdict(o), o)
        \/ Return(c, "revoke", "error", o)
    BY <1>1, <1>2, <1>3, RevokeVerdictIs DEF RevokeFind, Revocable
  <1>7. Looked' = Looked /\ Looked[c] = RS!NotLooking
    BY <1>6, ReturnLooksNot DEF RevokeFind
  <1>8. RS!Revoke(c, o)
    BY <1>4, <1>5, <1>6, <1>7
       DEF RS!Revoke, Return, Answer, RS!Reply, RS!Answer
  <1>9. QED
    BY <1>7, <1>8 DEF RS!Next

\* The database store implements the contract although nothing but the
\* database serialises its callers: an Issue takes effect in its INSERT, a
\* Revoke in the UPDATE that touched the row or in the SELECT that found out
\* why none did, and a statement that failed after it took effect is a call
\* that took effect and failed.  A Validate looks its token up in the SELECT
\* and judges it by the clock it reads afterwards.
THEOREM DatabaseImplementsRefreshStore == Spec => IsRefreshStore
  <1>1. Init => RS!Init
    <2>1. Init => Ledger = RS!EmptyMap
      BY DEF Init, Ledger, EmptyMap, RS!EmptyMap
    <2>2. QED
      BY <2>1 DEF Init, Answer, Looked, Idle, RS!Init, RS!LedgerInit,
                  RS!NoAnswer, RS!Answer, RS!NotLooking
  <1>2. IInv /\ [Next]_vars => [RS!Next]_(RS!vars)
    <2> SUFFICES ASSUME IInv, [Next]_vars
                 PROVE  [RS!Next]_(RS!vars)
      OBVIOUS
    <2>1. UNCHANGED table => Ledger' = Ledger
      BY DEF Ledger, RowID, Owner
    <2>2. ASSUME NEW c \in Callers, NEW o, NEW user, NEW expires, NEW prev,
                 IssuePrepare(c, o, user, expires, prev)
          PROVE  UNCHANGED RS!vars
      <3>1. PICK insert : insert.at = "insert" /\ call' = [call EXCEPT ![c] = insert]
        BY <2>2 DEF IssuePrepare
      <3>2. call[c].at # "judge"
        BY <2>2 DEF IssuePrepare, Idle
      <3>3. Looked' = Looked
        BY <3>1, <3>2, LookedStays
      <3>4. QED
        BY <2>1, <2>2, <3>3 DEF IssuePrepare, RS!vars
    <2>3. UNCHANGED call => Looked' = Looked
      BY DEF Looked
    <2>4. CASE Tick
      BY <2>1, <2>3, <2>4 DEF Tick, Advance, RS!Next, RS!Tick, RS!Advance
    <2>5. CASE UNCHANGED vars
      BY <2>1, <2>3, <2>5 DEF vars, RS!vars
    <2>6. QED
      BY <2>2, <2>4, <2>5, IssueRefines, TakeRefines, JudgeRefines,
         RevokeRefines, FindRefines DEF Next
  <1>3. QED
    BY <1>1, <1>2, Invariance, PTL DEF Spec, IsRefreshStore, RS!Spec

-----------------------------------------------------------------------------
(* What the contract makes of a record, and so the store.                    *)

RecordsEndure ==
    \A o \in DOMAIN Ledger :
        /\ o \in DOMAIN Ledger'
        /\ Ledger'[o] \in {Ledger[o], [Ledger[o] EXCEPT !.revoked = TRUE]}

LEMMA ContractEndures ==
    ASSUME [RS!Next]_(RS!vars)
    PROVE  RecordsEndure
  <1>1. ASSUME NEW o, NEW user, NEW expires, NEW prev, o \notin DOMAIN Ledger,
               Ledger' = RS!WithIssued(o, user, expires, prev)
        PROVE  RecordsEndure
    <2>1. /\ DOMAIN Ledger' = DOMAIN Ledger \cup {o}
          /\ \A p \in DOMAIN Ledger : Ledger'[p] = Ledger[p]
      BY <1>1 DEF RS!WithIssued, RS!Put
    <2>2. QED
      BY <2>1 DEF RecordsEndure
  <1>2. ASSUME NEW o, Ledger' = RS!WithRevoked(o)
        PROVE  RecordsEndure
    <2>1. CASE o \in DOMAIN Ledger
      <3>1. /\ DOMAIN Ledger' = DOMAIN Ledger
            /\ \A p \in DOMAIN Ledger :
                   Ledger'[p] = IF p = o THEN [Ledger[p] EXCEPT !.revoked = TRUE]
                                ELSE Ledger[p]
        BY <1>2, <2>1 DEF RS!WithRevoked
      <3>2. QED
        BY <3>1 DEF RecordsEndure
    <2>2. CASE o \notin DOMAIN Ledger
      BY <1>2, <2>2 DEF RS!WithRevoked, RecordsEndure
    <2>3. QED
      BY <2>1, <2>2
  <1>3. CASE Ledger' = Ledger
    BY <1>3 DEF RecordsEndure
  <1>4. QED
    BY <1>1, <1>2, <1>3
       DEF RS!Next, RS!vars, RS!Issue, RS!IssueFails, RS!Validate, RS!LookUp,
           RS!Judge, RS!Revoke, RS!Tick

\* No step of any goroutine loses a row, gives it to another token or user, or
\* takes its revocation back: the INSERT never overwrites and the UPDATE sets
\* one column of one row, however statements interleave, clash and fail.
THEOREM RowsEndure == Spec => [][RecordsEndure]_(RS!vars)
  <1>1. RS!Spec => [][RecordsEndure]_(RS!vars)
    BY ContractEndures, PTL DEF RS!Spec
  <1>2. QED
    BY <1>1, DatabaseImplementsRefreshStore DEF IsRefreshStore
=============================================================================
