---------------------- MODULE MemoryRefreshStore_proofs ----------------------
(* TLAPS proofs about MemoryRefreshStore, for any tokens, users, callers,    *)
(* expiries, clock and modulus of the id counter: its two maps are inverse   *)
(* to each other, and it implements RefreshStore.                            *)
EXTENDS MemoryRefreshStore, TLAPS

\* An id given out in this instant carries one of the last issuesNow readings
\* of the counter, so the next one is still free.
RecentIDs ==
    /\ issuesNow <= sequenceID
    /\ \A id \in DOMAIN byID :
          /\ id[1] <= now
          /\ id[1] = now => \E j \in 0..(issuesNow - 1) :
                                id[2] = (sequenceID - j) % SequenceMod

\* Every record is reached by its hash and names a predecessor that exists.
Linked ==
    \A id \in DOMAIN byID :
        /\ byID[id].hash \in DOMAIN byHash
        /\ byID[id].prev \in DOMAIN byID \cup {NoID}

IInv == TypeOK /\ TwoMapsAgree /\ RecentIDs /\ Linked

-----------------------------------------------------------------------------
(* The counter.                                                              *)

\* Readings of a counter that lie less than m apart differ modulo m.
LEMMA ModDiffers ==
    ASSUME NEW a \in Nat, NEW m \in Nat \ {0}, NEW k \in 1..(m - 1)
    PROVE  (a + k) % m # a % m
  <1>1. a = m * (a \div m) + (a % m)
    OBVIOUS
  <1>2. a + k = m * ((a + k) \div m) + ((a + k) % m)
    OBVIOUS
  <1> DEFINE p == a \div m
             q == (a + k) \div m
  <1>3. p \in Int /\ q \in Int
    OBVIOUS
  <1> SUFFICES ASSUME (a + k) % m = a % m
               PROVE  FALSE
    OBVIOUS
  <1> HIDE DEF p, q
  <1>4. k = m * q - m * p
    BY <1>1, <1>2, <1>3 DEF p, q
  <1>5. k = m * (q - p)
    BY <1>3, <1>4
  <1>6. QED
    BY <1>3, <1>5

\* No record has the id nextID is about to give out.
LEMMA NextIDIsFree ==
    ASSUME IInv, issuesNow < MaxIssuesPerTick
    PROVE  nextID \in IDs /\ nextID \notin DOMAIN byID
  <1> USE MemoryAssumption DEF IInv, TypeOK
  <1>1. nextID \in IDs
    BY DEF nextID, IDs
  <1>2. SUFFICES ASSUME nextID \in DOMAIN byID
                 PROVE  FALSE
    BY <1>1
  <1>3. nextID[1] = now /\ nextID[2] = (sequenceID + 1) % SequenceMod
    BY DEF nextID
  <1>4. PICK j \in 0..(issuesNow - 1) :
            (sequenceID + 1) % SequenceMod = (sequenceID - j) % SequenceMod
    BY <1>2, <1>3 DEF RecentIDs
  <1>5. /\ sequenceID - j \in Nat
        /\ j + 1 \in 1..(SequenceMod - 1)
        /\ (sequenceID - j) + (j + 1) = sequenceID + 1
    BY <1>4 DEF RecentIDs
  <1>6. SequenceMod \in Nat \ {0}
    OBVIOUS
  <1>7. ((sequenceID - j) + (j + 1)) % SequenceMod
            # (sequenceID - j) % SequenceMod
    BY <1>5, <1>6, ModDiffers
  <1>8. QED
    BY <1>4, <1>5, <1>7

-----------------------------------------------------------------------------
(* What Issue and Revoke do to the maps.                                     *)

LEMMA IssueMaps ==
    ASSUME IInv, NEW c \in Callers, NEW o \in Opaques, NEW user \in Users,
           NEW expires \in Expiries, NEW prev \in DOMAIN byID \cup {NoID},
           Issue(c, o, user, expires, prev)
    PROVE  \E r \in memoryRecord :
             /\ r = [user |-> user, hash |-> o, expires |-> expires,
                     revoked |-> FALSE, prev |-> prev]
             /\ DOMAIN byID' = DOMAIN byID \cup {nextID}
             /\ byID'[nextID] = r
             /\ \A id \in DOMAIN byID : byID'[id] = byID[id]
             /\ DOMAIN byHash' = DOMAIN byHash \cup {o}
             /\ byHash'[o] = nextID
             /\ \A p \in DOMAIN byHash : byHash'[p] = byHash[p]
  <1>1. nextID \notin DOMAIN byID /\ o \notin DOMAIN byHash
    BY NextIDIsFree DEF Issue
  <1> DEFINE r == [user |-> user, hash |-> o, expires |-> expires,
                   revoked |-> FALSE, prev |-> prev]
  <1>2. r \in memoryRecord
    BY MemoryAssumption DEF memoryRecord, IInv, TypeOK
  <1>3. byID' = Put(byID, nextID, r) /\ byHash' = Put(byHash, o, nextID)
    BY DEF Issue
  <1> HIDE DEF r
  <1>4. QED
    BY <1>1, <1>2, <1>3 DEF Put, r

LEMMA RevokeMaps ==
    ASSUME IInv, NEW id \in DOMAIN byID,
           byID' = [byID EXCEPT ![id].revoked = TRUE]
    PROVE  /\ DOMAIN byID' = DOMAIN byID
           /\ \A k \in DOMAIN byID \ {id} : byID'[k] = byID[k]
           /\ byID'[id] \in memoryRecord
           /\ byID'[id].revoked = TRUE
           /\ byID'[id].user = byID[id].user
           /\ byID'[id].hash = byID[id].hash
           /\ byID'[id].expires = byID[id].expires
           /\ byID'[id].prev = byID[id].prev
  <1>1. PICK r \in memoryRecord : r = byID[id]
    BY DEF IInv, TypeOK
  <1>2. PICK s \in memoryRecord : s = [r EXCEPT !.revoked = TRUE]
    BY DEF memoryRecord
  <1>3. /\ s.revoked = TRUE /\ s.user = r.user /\ s.hash = r.hash
        /\ s.expires = r.expires /\ s.prev = r.prev
    BY <1>2 DEF memoryRecord
  <1>4. byID'[id] = s
    BY <1>1, <1>2
  <1>5. QED
    BY <1>1, <1>3, <1>4

-----------------------------------------------------------------------------
(* The invariant.                                                            *)

LEMMA IssueStep ==
    ASSUME IInv, NEW c \in Callers, NEW o \in Opaques, NEW user \in Users,
           NEW expires \in Expiries, NEW prev \in DOMAIN byID \cup {NoID},
           Issue(c, o, user, expires, prev)
    PROVE  IInv'
  <1>1. /\ now' = now /\ sequenceID' = sequenceID + 1
        /\ issuesNow' = issuesNow + 1 /\ issuesNow < MaxIssuesPerTick
        /\ o \notin DOMAIN byHash
    BY DEF Issue
  <1>2. PICK r \in memoryRecord :
             /\ r = [user |-> user, hash |-> o, expires |-> expires,
                     revoked |-> FALSE, prev |-> prev]
             /\ DOMAIN byID' = DOMAIN byID \cup {nextID}
             /\ byID'[nextID] = r
             /\ \A id \in DOMAIN byID : byID'[id] = byID[id]
             /\ DOMAIN byHash' = DOMAIN byHash \cup {o}
             /\ byHash'[o] = nextID
             /\ \A p \in DOMAIN byHash : byHash'[p] = byHash[p]
    BY IssueMaps
  <1>3. nextID \in IDs /\ nextID \notin DOMAIN byID
    BY <1>1, NextIDIsFree
  <1>4. r.hash = o /\ r.prev = prev
    BY <1>2
  <1>5. TypeOK'
    <2>1. /\ now' \in Nat /\ sequenceID' \in Nat
          /\ issuesNow' \in 0..MaxIssuesPerTick
      BY <1>1, MemoryAssumption DEF IInv, TypeOK
    <2>2. \A id \in DOMAIN byID' : id \in IDs /\ byID'[id] \in memoryRecord
      BY <1>2, <1>3 DEF IInv, TypeOK
    <2>3. \A p \in DOMAIN byHash' : p \in Opaques /\ byHash'[p] \in DOMAIN byID'
      BY <1>2 DEF IInv, TypeOK
    <2>4. QED
      BY <2>1, <2>2, <2>3 DEF TypeOK
  <1>6. TwoMapsAgree'
    BY <1>1, <1>2, <1>3, <1>4 DEF IInv, TypeOK, TwoMapsAgree, Linked
  <1>7. Linked'
    BY <1>2, <1>4 DEF IInv, Linked
  <1>8. RecentIDs'
    <2>1. issuesNow' <= sequenceID'
      BY <1>1 DEF IInv, RecentIDs, TypeOK
    <2>2. nextID[1] = now /\ nextID[2] = (sequenceID' - 0) % SequenceMod
      BY <1>1 DEF nextID, IInv, TypeOK
    <2>3. ASSUME NEW id \in DOMAIN byID, id[1] = now
          PROVE  \E j \in 0..(issuesNow' - 1) :
                     id[2] = (sequenceID' - j) % SequenceMod
      <3>1. PICK j \in 0..(issuesNow - 1) :
                id[2] = (sequenceID - j) % SequenceMod
        BY <2>3 DEF IInv, RecentIDs
      <3>2. /\ j + 1 \in 0..(issuesNow' - 1)
            /\ sequenceID' - (j + 1) = sequenceID - j
        BY <1>1 DEF IInv, TypeOK
      <3>3. QED
        BY <3>1, <3>2
    <2>4. 0 \in 0..(issuesNow' - 1)
      BY <1>1 DEF IInv, TypeOK
    <2>5. QED
      BY <1>1, <1>2, <2>1, <2>2, <2>3, <2>4 DEF IInv, RecentIDs, TypeOK
  <1>9. QED
    BY <1>5, <1>6, <1>7, <1>8 DEF IInv

LEMMA RevokeStep ==
    ASSUME IInv, NEW c \in Callers, NEW id \in DOMAIN byID \cup {NoID},
           Revoke(c, id)
    PROVE  IInv'
  <1>1. UNCHANGED <<now, byHash, sequenceID, issuesNow>>
    BY DEF Revoke
  <1>2. CASE byID' = byID
    BY <1>1, <1>2 DEF IInv, TypeOK, TwoMapsAgree, RecentIDs, Linked
  <1>3. CASE id \in DOMAIN byID /\ byID' = [byID EXCEPT ![id].revoked = TRUE]
    <2>1. /\ DOMAIN byID' = DOMAIN byID
          /\ \A k \in DOMAIN byID : /\ byID'[k] \in memoryRecord
                                    /\ byID'[k].hash = byID[k].hash
                                    /\ byID'[k].prev = byID[k].prev
      BY <1>3, RevokeMaps DEF IInv, TypeOK
    <2>2. TypeOK'
      BY <1>1, <2>1 DEF IInv, TypeOK
    <2>3. TwoMapsAgree'
      BY <1>1, <2>1 DEF IInv, TwoMapsAgree
    <2>4. RecentIDs' /\ Linked'
      BY <1>1, <2>1 DEF IInv, RecentIDs, Linked
    <2>5. QED
      BY <2>2, <2>3, <2>4 DEF IInv
  <1>4. QED
    BY <1>2, <1>3 DEF Revoke

LEMMA OtherSteps ==
    ASSUME IInv,
           \/ \E c \in Callers : IssueNoEntropy(c)
           \/ \E c \in Callers, o \in Opaques : Validate(c, o)
           \/ Tick
           \/ UNCHANGED vars
    PROVE  IInv'
  <1>1. byID' = byID /\ byHash' = byHash
    BY DEF IssueNoEntropy, Validate, Tick, vars, mapVars
  <1>2. TwoMapsAgree' /\ Linked'
    BY <1>1 DEF IInv, TwoMapsAgree, Linked
  <1>3. CASE \E c \in Callers : IssueNoEntropy(c)
    <2>1. /\ now' = now /\ sequenceID' = sequenceID + 1
          /\ issuesNow' = issuesNow + 1 /\ issuesNow < MaxIssuesPerTick
      BY <1>3 DEF IssueNoEntropy
    <2>2. TypeOK'
      BY <1>1, <2>1, MemoryAssumption DEF IInv, TypeOK
    <2>3. ASSUME NEW id \in DOMAIN byID, id[1] = now
          PROVE  \E j \in 0..(issuesNow' - 1) :
                     id[2] = (sequenceID' - j) % SequenceMod
      <3>1. PICK j \in 0..(issuesNow - 1) :
                id[2] = (sequenceID - j) % SequenceMod
        BY <2>3 DEF IInv, RecentIDs
      <3>2. /\ j + 1 \in 0..(issuesNow' - 1)
            /\ sequenceID' - (j + 1) = sequenceID - j
        BY <2>1 DEF IInv, TypeOK
      <3>3. QED
        BY <3>1, <3>2
    <2>4. RecentIDs'
      BY <1>1, <2>1, <2>3 DEF IInv, RecentIDs, TypeOK
    <2>5. QED
      BY <1>2, <2>2, <2>4 DEF IInv
  <1>4. CASE Tick
    <2>1. now' = now + 1 /\ sequenceID' = sequenceID /\ issuesNow' = 0
      BY <1>4 DEF Tick, Advance
    <2>2. TypeOK'
      BY <1>1, <2>1, MemoryAssumption DEF IInv, TypeOK
    <2>3. \A id \in DOMAIN byID : id[1] \in Nat /\ id[1] <= now
      BY DEF IInv, TypeOK, RecentIDs, IDs
    <2>4. RecentIDs'
      BY <1>1, <2>1, <2>3 DEF IInv, TypeOK, RecentIDs
    <2>5. QED
      BY <1>2, <2>2, <2>4 DEF IInv
  <1>5. CASE UNCHANGED <<now, sequenceID, issuesNow>>
    BY <1>1, <1>2, <1>5 DEF IInv, TypeOK, RecentIDs
  <1>6. QED
    BY <1>3, <1>4, <1>5 DEF Validate, vars, mapVars

LEMMA Invariance == Spec => []IInv
  <1>1. Init => IInv
    BY MemoryAssumption
       DEF Init, IInv, TypeOK, TwoMapsAgree, RecentIDs, Linked, EmptyMap
  <1>2. IInv /\ [Next]_vars => IInv'
    BY IssueStep, RevokeStep, OtherSteps DEF Next
  <1>3. QED
    BY <1>1, <1>2, PTL DEF Spec

\* Type correctness: in particular every hash leads to a record that exists, so
\* the nil check of Validate never fires.
THEOREM StoreWellTyped == Spec => []TypeOK
  BY Invariance, PTL DEF IInv

\* No id is given out twice, whatever the modulus of nextID's byte, as long as
\* no more ids than that are drawn from one reading of the clock: no hash ever
\* leads to the record of another token.
THEOREM MapsStayInverse == Spec => []TwoMapsAgree
  BY Invariance, PTL DEF IInv

-----------------------------------------------------------------------------
(* The refinement.                                                           *)

OwnersKnown ==
    /\ \A id \in DOMAIN byID : Owner(id) = byID[id].hash
    /\ Owner(NoID) = NoToken

\* The token an id names is the one its record is about, before a step and
\* after it.
LEMMA OwnerIsHash == IInv => OwnersKnown
  <1> SUFFICES ASSUME IInv PROVE OwnersKnown
    OBVIOUS
  <1>1. ASSUME NEW id \in DOMAIN byID
        PROVE  Owner(id) = byID[id].hash
    <2>1. byID[id].hash \in DOMAIN byHash /\ byHash[byID[id].hash] = id
      BY DEF IInv, TwoMapsAgree, Linked
    <2>2. \A o \in DOMAIN byHash : byHash[o] = id => o = byID[id].hash
      BY DEF IInv, TwoMapsAgree
    <2>3. QED
      BY <2>1, <2>2 DEF Owner
  <1>2. \A o \in DOMAIN byHash : byHash[o] # NoID
    BY MemoryAssumption DEF IInv, TypeOK, IDs
  <1>3. QED
    BY <1>1, <1>2 DEF Owner, OwnersKnown

LEMMA OwnerIsHashNext == IInv' => OwnersKnown'
  BY OwnerIsHash, PTL

\* An id keeps its owner while the records keep their hashes.
LEMMA OwnersStay ==
    ASSUME IInv, IInv', DOMAIN byID \subseteq DOMAIN byID',
           \A id \in DOMAIN byID : byID'[id].hash = byID[id].hash,
           NEW id \in DOMAIN byID \cup {NoID}
    PROVE  Owner(id)' = Owner(id)
  BY OwnerIsHash, OwnerIsHashNext DEF OwnersKnown

LEMMA OwnerIsToken ==
    ASSUME IInv, NEW id \in DOMAIN byID \cup {NoID}
    PROVE  Owner(id) \in DOMAIN byHash \cup {NoToken}
  BY OwnerIsHash DEF OwnersKnown, IInv, Linked

\* The record of token o, as the contract sees it.
Entry(o) ==
    [user |-> byID[byHash[o]].user, expires |-> byID[byHash[o]].expires,
     revoked |-> byID[byHash[o]].revoked, prev |-> Owner(byID[byHash[o]].prev)]

LEMMA LedgerIs == Ledger = [o \in DOMAIN byHash |-> Entry(o)]
  BY DEF Ledger, Entry

LEMMA LedgerIsNext == Ledger' = [o \in DOMAIN byHash' |-> Entry(o)']
  BY DEF Ledger, Entry

LEMMA IssueRefines ==
    ASSUME IInv, NEW c \in Callers, NEW o \in Opaques, NEW user \in Users,
           NEW expires \in Expiries, NEW prev \in DOMAIN byID \cup {NoID},
           Issue(c, o, user, expires, prev)
    PROVE  RS!Next
  <1>1. IInv'
    BY IssueStep
  <1>2. PICK r \in memoryRecord :
             /\ r = [user |-> user, hash |-> o, expires |-> expires,
                     revoked |-> FALSE, prev |-> prev]
             /\ DOMAIN byID' = DOMAIN byID \cup {nextID}
             /\ byID'[nextID] = r
             /\ \A id \in DOMAIN byID : byID'[id] = byID[id]
             /\ DOMAIN byHash' = DOMAIN byHash \cup {o}
             /\ byHash'[o] = nextID
             /\ \A p \in DOMAIN byHash : byHash'[p] = byHash[p]
    BY IssueMaps
  <1>3. \A id \in DOMAIN byID \cup {NoID} : Owner(id)' = Owner(id)
    BY <1>1, <1>2, OwnersStay
  <1>4. \A p \in DOMAIN byHash : Entry(p)' = Entry(p)
    <2> TAKE p \in DOMAIN byHash
    <2>1. byHash[p] \in DOMAIN byID /\ byHash'[p] = byHash[p]
      BY <1>2 DEF IInv, TypeOK
    <2>2. byID'[byHash[p]] = byID[byHash[p]]
      BY <1>2, <2>1
    <2>3. Owner(byID[byHash[p]].prev)' = Owner(byID[byHash[p]].prev)
      <3>1. PICK id \in DOMAIN byID \cup {NoID} : id = byID[byHash[p]].prev
        BY <2>1 DEF IInv, Linked
      <3>2. byID'[byHash'[p]].prev = id
        BY <2>1, <2>2, <3>1
      <3>3. Owner(byID[byHash[p]].prev)' = Owner(id)'
        BY <3>2 DEF Owner
      <3>4. QED
        BY <1>3, <3>1, <3>3
    <2>4. QED
      BY <2>1, <2>2, <2>3 DEF Entry
  <1>5. Entry(o)' = [user |-> user, expires |-> expires, revoked |-> FALSE,
                     prev |-> Owner(prev)]
    <2>1. byID'[byHash'[o]] = r
      BY <1>2
    <2>2. Owner(byID[byHash[o]].prev)' = Owner(prev)
      <3>1. byID'[byHash'[o]].prev = prev
        BY <1>2, <2>1
      <3>2. Owner(byID[byHash[o]].prev)' = Owner(prev)'
        BY <3>1 DEF Owner
      <3>3. QED
        BY <1>3, <3>2
    <2>3. Entry(o)' = [user |-> r.user, expires |-> r.expires,
                       revoked |-> r.revoked, prev |-> Owner(prev)]
      BY <2>1, <2>2 DEF Entry
    <2>4. r.user = user /\ r.expires = expires /\ r.revoked = FALSE
      BY <1>2
    <2>5. QED
      BY <2>3, <2>4
  <1>6. o \notin DOMAIN Ledger /\ now' = now
    BY LedgerIs DEF Issue
  <1>7. Ledger' = RS!WithIssued(o, user, expires, Owner(prev))
    BY <1>2, <1>4, <1>5, <1>6, LedgerIs, LedgerIsNext DEF RS!WithIssued, RS!Put
  <1>8. RS!Reply(c, "issue", "ok", o)
    BY DEF Issue, Reply, Answer, RS!Reply, RS!Answer
  <1>9. Owner(prev) \in DOMAIN Ledger \cup {NoToken}
    BY OwnerIsToken, LedgerIs
  <1>10. RS!Issue(c, o, user, expires, Owner(prev))
    BY <1>6, <1>7, <1>8 DEF RS!Issue
  <1>11. QED
    BY <1>9, <1>10 DEF RS!Next, RS!NotLooking

LEMMA ValidateRefines ==
    ASSUME IInv, NEW c \in Callers, NEW o \in Opaques, Validate(c, o)
    PROVE  RS!Next
  <1>1. UNCHANGED <<now, byID, byHash>>
    BY DEF Validate, mapVars
  <1>2. Ledger' = Ledger
    BY <1>1 DEF Ledger, Owner
  <1>3. RS!ValidateVerdict(o) =
            IF o \notin DOMAIN byHash THEN "not_found"
            ELSE IF byID[byHash[o]].revoked THEN "revoked"
            ELSE IF Before(byID[byHash[o]].expires) THEN "expired"
            ELSE "ok"
    BY LedgerIs DEF RS!ValidateVerdict, RS!Before, Before, Entry
  <1>4. RS!Reply(c, "validate", RS!ValidateVerdict(o), o)
    BY <1>3 DEF Validate, Reply, Answer, RS!Reply, RS!Answer
  <1>5. RS!Validate(c, o)
    BY <1>1, <1>2, <1>4 DEF RS!Validate
  <1>6. QED
    BY <1>5 DEF RS!Next, RS!NotLooking

LEMMA RevokeRefines ==
    ASSUME IInv, NEW c \in Callers, NEW id \in DOMAIN byID \cup {NoID},
           Revoke(c, id)
    PROVE  RS!Next
  <1>1. UNCHANGED <<now, byHash>>
    BY DEF Revoke
  <1>2. PICK o \in Opaques \cup {NoToken} : o = Owner(id)
    BY OwnerIsToken DEF IInv, TypeOK
  <1>3. CASE id \notin DOMAIN byID
    <2>1. o \notin DOMAIN Ledger
      BY <1>3, <1>2, OwnerIsHash, LedgerIs, MemoryAssumption
         DEF OwnersKnown, IInv, TypeOK
    <2>2. byID' = byID /\ Reply(c, "revoke", "not_found", o)
      BY <1>2, <1>3 DEF Revoke
    <2>3. Ledger' = Ledger
      BY <1>1, <2>2 DEF Ledger, Owner
    <2>4. RS!WithRevoked(o) = Ledger /\ RS!RevokeVerdict(o) = "not_found"
      BY <2>1 DEF RS!WithRevoked, RS!RevokeVerdict
    <2>5. RS!Revoke(c, o)
      BY <1>1, <2>2, <2>3, <2>4
         DEF RS!Revoke, Reply, Answer, RS!Reply, RS!Answer
    <2>6. QED
      BY <1>2, <2>5 DEF RS!Next, RS!NotLooking
  <1>4. CASE id \in DOMAIN byID
    <2>1. o \in DOMAIN byHash /\ byHash[o] = id
      BY <1>4, <1>2, OwnerIsHash DEF OwnersKnown, IInv, TwoMapsAgree, Linked
    <2>2. o \in DOMAIN Ledger /\ Ledger[o].revoked = byID[id].revoked
      BY <2>1, LedgerIs DEF Entry
    <2>3. CASE byID[id].revoked
      <3>1. byID' = byID /\ Reply(c, "revoke", "already_revoked", o)
        BY <1>2, <1>4, <2>3 DEF Revoke
      <3>2. Ledger' = Ledger
        BY <1>1, <3>1 DEF Ledger, Owner
      <3>3. RS!RevokeVerdict(o) = "already_revoked"
        BY <2>2, <2>3 DEF RS!RevokeVerdict
      <3>4. RS!WithRevoked(o) = Ledger
        BY <2>2, <2>3, LedgerIs DEF RS!WithRevoked, Entry
      <3>5. RS!Revoke(c, o)
        BY <1>1, <3>1, <3>2, <3>3, <3>4
           DEF RS!Revoke, Reply, Answer, RS!Reply, RS!Answer
      <3>6. QED
        BY <1>2, <3>5 DEF RS!Next, RS!NotLooking
    <2>4. CASE ~byID[id].revoked
      <3>1. /\ byID' = [byID EXCEPT ![id].revoked = TRUE]
            /\ Reply(c, "revoke", "ok", o)
        BY <1>2, <1>4, <2>4 DEF Revoke
      <3>2. /\ DOMAIN byID' = DOMAIN byID
            /\ \A k \in DOMAIN byID \ {id} : byID'[k] = byID[k]
            /\ byID'[id].revoked = TRUE
            /\ byID'[id].user = byID[id].user
            /\ byID'[id].hash = byID[id].hash
            /\ byID'[id].expires = byID[id].expires
            /\ byID'[id].prev = byID[id].prev
        BY <1>4, <3>1, RevokeMaps
      <3>3. IInv'
        BY RevokeStep
      <3>4. \A k \in DOMAIN byID \cup {NoID} : Owner(k)' = Owner(k)
        BY <3>2, <3>3, OwnersStay
      <3>5. \A p \in DOMAIN byHash :
                Owner(byID[byHash[p]].prev)' = Owner(byID[byHash[p]].prev)
        <4> TAKE p \in DOMAIN byHash
        <4>1. PICK k \in DOMAIN byID \cup {NoID} : k = byID[byHash[p]].prev
          BY DEF IInv, TypeOK, Linked
        <4>2. byID'[byHash'[p]].prev = k
          BY <1>1, <3>2, <4>1 DEF IInv, TypeOK
        <4>3. Owner(byID[byHash[p]].prev)' = Owner(k)'
          BY <4>2 DEF Owner
        <4>4. QED
          BY <3>4, <4>1, <4>3
      <3>6. \A p \in DOMAIN byHash \ {o} : Entry(p)' = Entry(p)
        <4> TAKE p \in DOMAIN byHash \ {o}
        <4>1. byHash[p] \in DOMAIN byID \ {id}
          BY <1>4, <1>2, OwnerIsHash DEF OwnersKnown, IInv, TypeOK, TwoMapsAgree
        <4>2. byID'[byHash'[p]] = byID[byHash[p]]
          BY <1>1, <3>2, <4>1
        <4>3. QED
          BY <3>5, <4>2 DEF Entry
      <3>7. Entry(o)' = [Entry(o) EXCEPT !.revoked = TRUE]
        <4>0. PICK t \in BOOLEAN : t = TRUE
          OBVIOUS
        <4>1. [Entry(o) EXCEPT !.revoked = t]
                  = [user |-> byID[id].user, expires |-> byID[id].expires,
                     revoked |-> t, prev |-> Owner(byID[id].prev)]
          BY <2>1 DEF Entry
        <4>2. Entry(o)' = [user |-> byID'[id].user,
                           expires |-> byID'[id].expires,
                           revoked |-> byID'[id].revoked,
                           prev |-> Owner(byID[byHash[o]].prev)']
          BY <1>1, <2>1 DEF Entry
        <4>3. Owner(byID[byHash[o]].prev)' = Owner(byID[id].prev)
          BY <2>1, <3>5
        <4>4. Entry(o)' = [Entry(o) EXCEPT !.revoked = t]
          BY <3>2, <4>0, <4>1, <4>2, <4>3
        <4>5. QED
          BY <4>0, <4>4
      <3>8. Ledger' = RS!WithRevoked(o)
        <4>1. RS!WithRevoked(o) = [Ledger EXCEPT ![o].revoked = TRUE]
          BY <2>2 DEF RS!WithRevoked
        <4>2. Ledger[o] = Entry(o)
          BY <2>1, LedgerIs
        <4>3. [Ledger EXCEPT ![o].revoked = TRUE]
                  = [p \in DOMAIN byHash |->
                        IF p = o THEN [Entry(o) EXCEPT !.revoked = TRUE]
                        ELSE Entry(p)]
          BY <2>1, <4>2, LedgerIs
        <4>4. Ledger' = [p \in DOMAIN byHash |-> Entry(p)']
          BY <1>1, LedgerIsNext
        <4>5. QED
          BY <3>6, <3>7, <4>1, <4>3, <4>4
      <3>9. RS!RevokeVerdict(o) = "ok"
        BY <2>2, <2>4 DEF RS!RevokeVerdict
      <3>10. RS!Revoke(c, o)
        BY <1>1, <3>1, <3>8, <3>9
           DEF RS!Revoke, Reply, Answer, RS!Reply, RS!Answer
      <3>11. QED
        BY <1>2, <3>10 DEF RS!Next, RS!NotLooking
    <2>5. QED
      BY <2>3, <2>4
  <1>5. QED
    BY <1>3, <1>4

\* The in-memory store implements the contract for any use of it: each call of
\* Issue, Validate and Revoke acts on the record of the token it names, at one
\* instant, and answers what the contract says.
THEOREM ImplementsRefreshStore == Spec => IsRefreshStore
  <1>1. Init => RS!Init
    <2>1. Init => Ledger = RS!EmptyMap
      BY DEF Init, Ledger, EmptyMap, RS!EmptyMap
    <2>2. QED
      BY <2>1 DEF Init, Answer, RS!Init, RS!LedgerInit, RS!NoAnswer, RS!Answer,
                       RS!NotLooking
  <1>2. IInv /\ [Next]_vars => [RS!Next]_(RS!vars)
    <2> SUFFICES ASSUME IInv, [Next]_vars
                 PROVE  [RS!Next]_(RS!vars)
      OBVIOUS
    <2>1. UNCHANGED <<byID, byHash>> => Ledger' = Ledger
      BY DEF Ledger, Owner
    <2>2. ASSUME NEW c \in Callers, IssueNoEntropy(c)
          PROVE  RS!Next
      BY <2>1, <2>2 DEF IssueNoEntropy, RS!Next, RS!NotLooking, RS!IssueFails,
                        Reply, Answer, RS!Reply, RS!Answer
    <2>3. CASE Tick
      BY <2>1, <2>3 DEF Tick, Advance, RS!Next, RS!Tick, RS!Advance
    <2>4. CASE UNCHANGED vars
      BY <2>1, <2>4 DEF vars, RS!vars
    <2>5. QED
      BY <2>2, <2>3, <2>4, IssueRefines, ValidateRefines, RevokeRefines DEF Next
  <1>3. QED
    BY <1>1, <1>2, Invariance, PTL DEF Spec, IsRefreshStore, RS!Spec

-----------------------------------------------------------------------------
(* What the contract makes of a record, and so the store.                    *)

RecordsEndure ==
    \A o \in DOMAIN Ledger :
        /\ o \in DOMAIN Ledger'
        /\ Ledger'[o] \in {Ledger[o], [Ledger[o] EXCEPT !.revoked = TRUE]}

LEMMA ContractEndures ==
    ASSUME [RS!Next]_(RS!vars)
    PROVE  RecordsEndure
  <1>1. ASSUME NEW o, NEW user, NEW expires, NEW prev, o \notin DOMAIN Ledger,
               Ledger' = RS!WithIssued(o, user, expires, prev)
        PROVE  RecordsEndure
    <2>1. /\ DOMAIN Ledger' = DOMAIN Ledger \cup {o}
          /\ \A p \in DOMAIN Ledger : Ledger'[p] = Ledger[p]
      BY <1>1 DEF RS!WithIssued, RS!Put
    <2>2. QED
      BY <2>1 DEF RecordsEndure
  <1>2. ASSUME NEW o, Ledger' = RS!WithRevoked(o)
        PROVE  RecordsEndure
    <2>1. CASE o \in DOMAIN Ledger
      <3>1. /\ DOMAIN Ledger' = DOMAIN Ledger
            /\ \A p \in DOMAIN Ledger :
                   Ledger'[p] = IF p = o THEN [Ledger[p] EXCEPT !.revoked = TRUE]
                                ELSE Ledger[p]
        BY <1>2, <2>1 DEF RS!WithRevoked
      <3>2. QED
        BY <3>1 DEF RecordsEndure
    <2>2. CASE o \notin DOMAIN Ledger
      BY <1>2, <2>2 DEF RS!WithRevoked, RecordsEndure
    <2>3. QED
      BY <2>1, <2>2
  <1>3. CASE Ledger' = Ledger
    BY <1>3 DEF RecordsEndure
  <1>4. QED
    BY <1>1, <1>2, <1>3
       DEF RS!Next, RS!vars, RS!Issue, RS!IssueFails, RS!Validate, RS!LookUp,
           RS!Judge, RS!Revoke, RS!Tick

\* No call loses a record, gives it to another token or user, or takes its
\* revocation back, also when the counter of ids wraps.
THEOREM RecordsStay == Spec => [][RecordsEndure]_(RS!vars)
  <1>1. RS!Spec => [][RecordsEndure]_(RS!vars)
    BY ContractEndures, PTL DEF RS!Spec
  <1>2. QED
    BY <1>1, ImplementsRefreshStore DEF IsRefreshStore
=============================================================================
