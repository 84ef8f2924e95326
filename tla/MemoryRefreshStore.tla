------------------------- MODULE MemoryRefreshStore -------------------------
(* internal/authkit/memory_refresh_store.go.  Every method holds the store's *)
(* mutex from its first line to its last, so each is one action.  A hash is  *)
(* named by the opaque it is the SHA-256 of.  A token id is the instant of   *)
(* its issue (RFC3339Nano) and one byte of a counter.                        *)
EXTENDS Clock, GoMaps

CONSTANTS Opaques, NoToken, Users, Callers, Expiries,
          NoID,           \* the previousTokenID "" of a login
          SequenceMod,    \* the 255 of nextID
          MaxIssuesPerTick \* calls of nextID the machine fits in one tick

ASSUME MemoryAssumption ==
    /\ NoToken \notin Opaques
    /\ SequenceMod \in Nat \ {0}
    /\ MaxIssuesPerTick \in 1..SequenceMod
    /\ NoID \notin Nat \X (0 .. SequenceMod - 1)
    /\ Expiries \subseteq Int

VARIABLES byID, byHash, sequenceID, answer,
          issuesNow \* how often nextID was called since the last tick

vars == <<now, byID, byHash, sequenceID, issuesNow, answer>>
mapVars == <<byID, byHash, sequenceID, issuesNow>>

IDs == Nat \X (0 .. SequenceMod - 1)

memoryRecord ==
    [user: Users, hash: Opaques, expires: Int, revoked: BOOLEAN,
     prev: IDs \cup {NoID}]

Answer(op, verdict, token) == [op |-> op, verdict |-> verdict, token |-> token]

TypeOK ==
    /\ now \in Nat /\ sequenceID \in Nat /\ issuesNow \in 0..MaxIssuesPerTick
    /\ \A id \in DOMAIN byID : id \in IDs /\ byID[id] \in memoryRecord
    /\ \A o \in DOMAIN byHash : o \in Opaques /\ byHash[o] \in DOMAIN byID

Init ==
    /\ now = 0 /\ sequenceID = 0 /\ issuesNow = 0
    /\ byID = EmptyMap /\ byHash = EmptyMap
    /\ answer = [c \in Callers |-> Answer("none", "none", NoToken)]

Reply(c, op, verdict, token) ==
    answer' = [answer EXCEPT ![c] = Answer(op, verdict, token)]

\* Slip: the instant alone, as the database store names its rows.
InstantOnly == <<now, 0>>

\* The id nextID builds from the counter it has just incremented.
nextID == <<now, (sequenceID + 1) % SequenceMod>>

\* Slip: nextID is called once for each of the two maps.
IssueTwoIDs(c, o, user, expires, prev) ==
    /\ o \notin DOMAIN byHash
    /\ issuesNow < MaxIssuesPerTick
    /\ issuesNow' = issuesNow + 1
    /\ sequenceID' = sequenceID + 2
    /\ byID' = Put(byID, nextID,
                   [user |-> user, hash |-> o, expires |-> expires,
                    revoked |-> FALSE, prev |-> prev])
    /\ byHash' = Put(byHash, o, <<now, (sequenceID + 2) % SequenceMod>>)
    /\ Reply(c, "issue", "ok", o)
    /\ UNCHANGED now

Issue(c, o, user, expires, prev) ==
    /\ o \notin DOMAIN byHash
    /\ issuesNow < MaxIssuesPerTick
    /\ issuesNow' = issuesNow + 1
    /\ sequenceID' = sequenceID + 1
    /\ byID' = Put(byID, nextID,
                   [user |-> user, hash |-> o, expires |-> expires,
                    revoked |-> FALSE, prev |-> prev])
    /\ byHash' = Put(byHash, o, nextID)
    /\ Reply(c, "issue", "ok", o)
    /\ UNCHANGED now

\* generateRefreshOpaque fails: the id is spent, nothing is stored.
IssueNoEntropy(c) ==
    /\ issuesNow < MaxIssuesPerTick
    /\ issuesNow' = issuesNow + 1
    /\ sequenceID' = sequenceID + 1
    /\ Reply(c, "issue", "error", NoToken)
    /\ UNCHANGED <<now, byID, byHash>>

Validate(c, o) ==
    /\ Reply(c, "validate",
             IF o \notin DOMAIN byHash THEN "not_found"
             ELSE IF byID[byHash[o]].revoked THEN "revoked"
             ELSE IF Before(byID[byHash[o]].expires) THEN "expired"
             ELSE "ok", o)
    /\ UNCHANGED <<now, mapVars>>

\* The token an id names: the one whose hash is filed under it.
Owner(id) ==
    IF \E o \in DOMAIN byHash : byHash[o] = id
    THEN CHOOSE o \in DOMAIN byHash : byHash[o] = id
    ELSE NoToken

\* Slip: a second Revoke of the same token is answered nil again.
RevokeTwice(c, id) ==
    /\ byID' = IF id \in DOMAIN byID
               THEN [byID EXCEPT ![id].revoked = TRUE] ELSE byID
    /\ Reply(c, "revoke",
             IF id \in DOMAIN byID THEN "ok" ELSE "not_found", Owner(id))
    /\ UNCHANGED <<now, byHash, sequenceID, issuesNow>>

Revoke(c, id) ==
    /\ \/ /\ id \notin DOMAIN byID
          /\ Reply(c, "revoke", "not_found", Owner(id))
          /\ UNCHANGED byID
       \/ /\ id \in DOMAIN byID /\ byID[id].revoked
          /\ Reply(c, "revoke", "already_revoked", Owner(id))
          /\ UNCHANGED byID
       \/ /\ id \in DOMAIN byID /\ ~byID[id].revoked
          /\ byID' = [byID EXCEPT ![id].revoked = TRUE]
          /\ Reply(c, "revoke", "ok", Owner(id))
    /\ UNCHANGED <<now, byHash, sequenceID, issuesNow>>

Tick ==
    /\ Advance /\ issuesNow' = 0
    /\ UNCHANGED <<byID, byHash, sequenceID, answer>>

\* A caller names a token by an id it was given, or by one never given out.
Next ==
    \/ \E c \in Callers :
          \/ \E o \in Opaques, user \in Users, expires \in Expiries,
                prev \in DOMAIN byID \cup {NoID} :
                Issue(c, o, user, expires, prev)
          \/ IssueNoEntropy(c)
          \/ \E o \in Opaques : Validate(c, o)
          \/ \E id \in DOMAIN byID \cup {NoID} : Revoke(c, id)
    \/ Tick

Spec == Init /\ [][Next]_vars

-----------------------------------------------------------------------------

\* The two maps are one another's inverse: no id was ever given out twice, so
\* a hash never leads Validate or Revoke to the record of another token
\* (nextID's byte of the counter within one instant, its wrap included).
TwoMapsAgree ==
    /\ \A o \in DOMAIN byHash :
          byHash[o] \in DOMAIN byID => byID[byHash[o]].hash = o
    /\ \A id \in DOMAIN byID : byHash[byID[id].hash] = id

\* The records as the contract sees them, each under its token.
Ledger ==
    [o \in DOMAIN byHash |->
        LET record == byID[byHash[o]]
        IN  [user |-> record.user, expires |-> record.expires,
             revoked |-> record.revoked, prev |-> Owner(record.prev)]]

\* No Validate is ever between two instants.
RS == INSTANCE RefreshStore WITH
    ledger <- Ledger,
    looked <- [c \in Callers |-> [token |-> NoToken, verdict |-> "none"]]

\* The in-memory store implements the contract: whatever the order of calls,
\* each acts at one instant on the record of the token it names.
IsRefreshStore == RS!Spec
=============================================================================
