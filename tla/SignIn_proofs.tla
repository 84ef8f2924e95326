---------------------------- MODULE SignIn_proofs ----------------------------
(* TLAPS proofs about NonceStore and about SignIn, which is built over it.   *)
(* Of the store, for every set of tokens, TTL and clock bound: its type,     *)
(* that an accepted token never returns to the table, that a purge keeps up  *)
(* with the clock, and that it implements OneTimeNonce.  Of the page, for    *)
(* any number of chains, nonces and attempts of fetchWithRetry.              *)
EXTENDS SignIn, TLAPS

-----------------------------------------------------------------------------
(* The nonce store.                                                          *)

\* The expiry kept with an outstanding token is the one its Issue computed.
ExpiryIsIssuePlusTTL ==
    \A n \in DOMAIN entries : entries[n] = issuedAt[n] + NonceTTL

\* The inductive invariant: the type, the property of the code, and the link
\* between the table and the history that the refinement needs.
IInv == TypeOK /\ AcceptedIsGone /\ ExpiryIsIssuePlusTTL

-----------------------------------------------------------------------------

\* What a purge leaves: the part of the table that is still in time.
LEMMA PurgeLemma ==
    ASSUME NEW table
    PROVE  /\ DOMAIN PurgeExpired(table)
                  = {m \in DOMAIN table : ~After(table[m])}
           /\ \A m \in DOMAIN PurgeExpired(table) :
                  PurgeExpired(table)[m] = table[m]
  BY DEF PurgeExpired, Restrict

\* What Issue and Consume leave in the table.
LEMMA IssueTable ==
    ASSUME NEW n, Issue(n)
    PROVE  /\ DOMAIN entries' = {m \in DOMAIN entries : ~After(entries[m])} \cup {n}
           /\ entries'[n] = now + NonceTTL
           /\ \A m \in DOMAIN entries' \ {n} : entries'[m] = entries[m]
           /\ entries' = [m \in DOMAIN entries' |-> entries'[m]]
  <1> DEFINE kept == PurgeExpired(entries)
  <1>1. entries' = Put(kept, n, now + NonceTTL)
    BY DEF Issue, AfterIssue
  <1>2. /\ DOMAIN kept = {m \in DOMAIN entries : ~After(entries[m])}
        /\ \A m \in DOMAIN kept : kept[m] = entries[m]
    BY PurgeLemma
  <1> HIDE DEF kept
  <1>3. entries' = [m \in DOMAIN kept \cup {n} |->
                       IF m = n THEN now + NonceTTL ELSE kept[m]]
    BY <1>1 DEF Put
  <1>4. QED
    BY <1>2, <1>3

LEMMA ConsumeTable ==
    ASSUME NEW n, Consume(n)
    PROVE  /\ DOMAIN entries'
                  = {m \in DOMAIN entries \ {n} : ~After(entries[m])}
           /\ \A m \in DOMAIN entries' : entries'[m] = entries[m]
           /\ entries' = [m \in DOMAIN entries' |-> entries'[m]]
  <1> DEFINE rest == Delete(entries, n)
  <1>1. entries' = PurgeExpired(rest)
    BY DEF Consume, AfterConsume
  <1>2. /\ DOMAIN rest = DOMAIN entries \ {n}
        /\ \A m \in DOMAIN rest : rest[m] = entries[m]
    BY DEF Delete, Restrict
  <1> HIDE DEF rest
  <1>3. /\ DOMAIN entries' = {m \in DOMAIN rest : ~After(rest[m])}
        /\ \A m \in DOMAIN entries' : entries'[m] = rest[m]
        /\ entries' = [m \in DOMAIN entries' |-> entries'[m]]
    BY <1>1 DEF PurgeExpired, Restrict
  <1>4. QED
    BY <1>2, <1>3
-----------------------------------------------------------------------------

LEMMA StoreInit == Init => IInv
  BY NonceAssumption
     DEF Init, IInv, TypeOK, AcceptedIsGone, ExpiryIsIssuePlusTTL, EmptyMap

LEMMA StoreStep ==
    ASSUME IInv, [Next]_vars
    PROVE  IInv'
  <1> USE NonceAssumption
      DEF IInv, TypeOK, AcceptedIsGone, ExpiryIsIssuePlusTTL
  <1>1. ASSUME NEW n \in Nonces, Issue(n)
        PROVE  IInv'
    <2>0. /\ DOMAIN entries' = {m \in DOMAIN entries : ~After(entries[m])}
                               \cup {n}
          /\ entries'[n] = now + NonceTTL
          /\ \A m \in DOMAIN entries' \ {n} : entries'[m] = entries[m]
          /\ entries' = [m \in DOMAIN entries' |-> entries'[m]]
      BY <1>1, IssueTable
    <2>1. /\ n \notin DOMAIN issuedAt
          /\ issuedAt' = Put(issuedAt, n, now)
          /\ accepted' = accepted /\ now' = now /\ answer' = "issued"
      BY <1>1 DEF Issue
    <2>2. /\ DOMAIN issuedAt' = DOMAIN issuedAt \cup {n}
          /\ issuedAt'[n] = now
          /\ \A m \in DOMAIN issuedAt : issuedAt'[m] = issuedAt[m]
          /\ issuedAt' = [m \in DOMAIN issuedAt' |-> issuedAt'[m]]
      BY <2>1 DEF Put
    <2>3. DOMAIN entries' \subseteq DOMAIN entries \cup {n}
      BY <2>0
    <2>4. TypeOK'
      <3>1. \A m \in DOMAIN entries' : entries'[m] \in Nat
        <4> TAKE m \in DOMAIN entries'
        <4>1. CASE m = n
          BY <4>1, <2>0
        <4>2. CASE m # n
          BY <4>2, <2>0, <2>3
        <4>3. QED
          BY <4>1, <4>2
      <3>2. entries' \in [DOMAIN entries' -> Nat]
        BY <3>1, <2>0
      <3>3. issuedAt' \in [DOMAIN issuedAt' -> Nat]
        BY <2>2
      <3>4. QED
        BY <2>1, <2>2, <2>3, <3>2, <3>3
    <2>5. AcceptedIsGone'
      BY <2>1, <2>3
    <2>6. ExpiryIsIssuePlusTTL'
      <3> SUFFICES ASSUME NEW m \in DOMAIN entries'
                   PROVE  entries'[m] = issuedAt'[m] + NonceTTL
        OBVIOUS
      <3>1. CASE m = n
        BY <3>1, <2>0, <2>2
      <3>2. CASE m # n
        BY <3>2, <2>0, <2>2, <2>3
      <3>3. QED
        BY <3>1, <3>2
    <2>7. QED
      BY <2>4, <2>5, <2>6
  <1>2. ASSUME NEW n \in Nonces, Consume(n)
        PROVE  IInv'
    <2>1. /\ now' = now /\ issuedAt' = issuedAt
          /\ answer' = Verdict(n)
          /\ accepted' = IF Verdict(n) = "ok" THEN accepted \cup {n}
                                             ELSE accepted
      BY <1>2 DEF Consume
    <2>2. /\ Verdict(n) \in {"not_found", "expired", "ok"}
          /\ Verdict(n) = "ok" => n \in DOMAIN entries
      BY DEF Verdict
    <2>3. TypeOK'
      BY <1>2, <2>1, <2>2, ConsumeTable
    <2>4. AcceptedIsGone'
      BY <1>2, <2>1, ConsumeTable
    <2>5. ExpiryIsIssuePlusTTL'
      BY <1>2, <2>1, ConsumeTable
    <2>6. QED
      BY <2>3, <2>4, <2>5
  <1>3. CASE Restart
    BY <1>3 DEF Restart, EmptyMap
  <1>4. CASE Tick
    BY <1>4, ClockAssumption DEF Tick, Advance, callVars
  <1>5. CASE UNCHANGED vars
    BY <1>5 DEF vars
  <1>6. QED
    BY <1>1, <1>2, <1>3, <1>4, <1>5 DEF Next

LEMMA Typing == Spec => []IInv
  <1>1. IInv /\ [Next]_vars => IInv'
    BY StoreStep
  <1>2. QED
    BY <1>1, StoreInit, PTL DEF Spec

\* The type invariant holds of every run, whatever the TTL.
THEOREM TypeCorrect == Spec => []TypeOK
  BY Typing, PTL DEF IInv

\* A token Consume has accepted is never in the table again, whatever calls,
\* expiries and restarts follow: the replay protection of POST /auth/google.
THEOREM AcceptedNeverReturns == Spec => []AcceptedIsGone
  BY Typing, PTL DEF IInv

\* Every call that changes the table leaves nothing expired in it, so that it
\* never holds more than the nonces of one TTL, for any TTL: both loops purge.
THEOREM PurgesKeepUp == Spec => PurgeKeepsUp
  <1> DEFINE Clean == entries' # entries =>
                          \A n \in DOMAIN entries' : now <= entries'[n]
  <1>1. IInv /\ [Next]_vars => [Clean]_vars
    <2> SUFFICES ASSUME IInv, Next
                 PROVE  Clean
      OBVIOUS
    <2> USE NonceAssumption DEF IInv, TypeOK
    <2>1. ASSUME NEW n \in Nonces, Issue(n) PROVE Clean
      <3>1. \A m \in DOMAIN entries' : \/ m = n /\ entries'[m] = now + NonceTTL
                                       \/ /\ m \in DOMAIN entries
                                          /\ ~After(entries[m])
                                          /\ entries'[m] = entries[m]
        BY <2>1, IssueTable
      <3>2. now <= now + NonceTTL
        OBVIOUS
      <3>3. \A m \in DOMAIN entries : entries[m] \in Nat
        OBVIOUS
      <3>4. \A m \in DOMAIN entries : ~After(entries[m]) => now <= entries[m]
        BY <3>3 DEF After
      <3>5. \A m \in DOMAIN entries' : now <= entries'[m]
        <4> TAKE m \in DOMAIN entries'
        <4>1. CASE m = n /\ entries'[m] = now + NonceTTL
          BY <4>1, <3>2
        <4>2. CASE /\ m \in DOMAIN entries
                   /\ ~After(entries[m])
                   /\ entries'[m] = entries[m]
          BY <4>2, <3>4
        <4>3. QED
          BY <3>1, <4>1, <4>2
      <3>6. QED
        BY <3>5
    <2>2. ASSUME NEW n \in Nonces, Consume(n) PROVE Clean
      <3>1. /\ DOMAIN entries'
                   = {m \in DOMAIN entries \ {n} : ~After(entries[m])}
            /\ \A m \in DOMAIN entries' : entries'[m] = entries[m]
        BY <2>2, ConsumeTable
      <3>2. \A m \in DOMAIN entries : entries[m] \in Nat
        OBVIOUS
      <3>3. \A m \in DOMAIN entries : ~After(entries[m]) => now <= entries[m]
        BY <3>2 DEF After
      <3>4. QED
        BY <3>1, <3>3
    <2>3. CASE Restart
      BY <2>3 DEF Restart, EmptyMap
    <2>4. CASE Tick
      BY <2>4 DEF Tick
    <2>5. QED
      BY <2>1, <2>2, <2>3, <2>4 DEF Next
  <1>2. QED
    BY <1>1, Typing, PTL DEF Spec, PurgeKeepsUp

-----------------------------------------------------------------------------
(* The refinement.                                                           *)

Overdue == {m \in DOMAIN entries : After(entries[m])}

\* What the table calls overdue, the abstract nonce may forget.
LEMMA OverdueIsForgettable ==
    ASSUME IInv
    PROVE  /\ Overdue \in SUBSET OTN!Forgettable
           /\ \A m \in DOMAIN entries : After(entries[m]) <=> OTN!Overdue(m)
  <1>1. \A m \in DOMAIN entries : m \in Nonces /\ Phase(m) = "outstanding"
    BY DEF IInv, TypeOK, AcceptedIsGone, Phase
  <1>2. \A m \in DOMAIN entries : After(entries[m]) <=> OTN!Overdue(m)
    BY NonceAssumption
       DEF IInv, TypeOK, ExpiryIsIssuePlusTTL, After, OTN!Overdue
  <1>3. QED
    BY <1>1, <1>2 DEF Overdue, OTN!Forgettable

\* A call that purges, and moves n to the phase p, is Forget followed by that
\* move; n alone is dealt with by the caller.
LEMMA PhaseAfterPurge ==
    ASSUME IInv, NEW n \in Nonces,
           \A m \in Nonces \ {n} :
               /\ m \in DOMAIN entries' <=> m \in DOMAIN entries /\ m \notin Overdue
               /\ m \in accepted' <=> m \in accepted
               /\ m \in DOMAIN issuedAt' <=> m \in DOMAIN issuedAt
    PROVE  \A m \in Nonces \ {n} :
               Phase(m)' = IF m \in Overdue THEN "dead" ELSE Phase(m)
  BY DEF IInv, TypeOK, AcceptedIsGone, Phase, Overdue

LEMMA IssueRefines ==
    ASSUME IInv, NEW n \in Nonces, Issue(n)
    PROVE  OTN!Issue(n)
  <1> USE DEF IInv, TypeOK
  <1>1. /\ n \notin DOMAIN issuedAt
        /\ issuedAt' = Put(issuedAt, n, now)
        /\ accepted' = accepted /\ now' = now /\ answer' = "issued"
    BY DEF Issue
  <1>2. /\ DOMAIN issuedAt' = DOMAIN issuedAt \cup {n}
        /\ issuedAt'[n] = now
        /\ \A m \in DOMAIN issuedAt : issuedAt'[m] = issuedAt[m]
    BY <1>1 DEF Put
  <1>3. DOMAIN entries' = (DOMAIN entries \ Overdue) \cup {n}
    BY IssueTable DEF Overdue
  <1>4. Phase(n) = "unissued" /\ Phase(n)' = "outstanding"
    BY <1>1, <1>3 DEF Phase
  <1>5. \A m \in Nonces \ {n} :
            Phase(m)' = IF m \in Overdue THEN "dead" ELSE Phase(m)
    BY <1>1, <1>2, <1>3, PhaseAfterPurge
  <1>6. [m \in Nonces |-> Phase(m)']
            = [OTN!Forget(Overdue) EXCEPT ![n] = "outstanding"]
    BY <1>4, <1>5 DEF OTN!Forget
  <1>7. QED
    BY <1>1, <1>2, <1>4, <1>6, OverdueIsForgettable DEF OTN!Issue

LEMMA ConsumeRefines ==
    ASSUME IInv, NEW n \in Nonces, Consume(n)
    PROVE  OTN!Accept(n) \/ OTN!Refuse(n)
  <1> USE DEF IInv, TypeOK, AcceptedIsGone
  <1>1. /\ now' = now /\ issuedAt' = issuedAt
        /\ answer' = Verdict(n)
        /\ accepted' = IF Verdict(n) = "ok" THEN accepted \cup {n} ELSE accepted
    BY DEF Consume
  <1>2. DOMAIN entries' = (DOMAIN entries \ Overdue) \ {n}
    BY ConsumeTable DEF Overdue
  <1>3. \A m \in Nonces \ {n} :
            Phase(m)' = IF m \in Overdue THEN "dead" ELSE Phase(m)
    BY <1>1, <1>2, PhaseAfterPurge
  <1>4. CASE Verdict(n) = "ok"
    <2>1. n \in DOMAIN entries /\ ~After(entries[n])
      BY <1>4 DEF Verdict
    <2>2. Phase(n) = "outstanding" /\ ~OTN!Overdue(n)
      BY <2>1, OverdueIsForgettable DEF Phase
    <2>3. Phase(n)' = "accepted"
      BY <1>1, <1>2, <1>4 DEF Phase
    <2>4. [m \in Nonces |-> Phase(m)']
              = [OTN!Forget(Overdue) EXCEPT ![n] = "accepted"]
      BY <1>3, <2>3 DEF OTN!Forget
    <2>5. OTN!Accept(n)
      BY <1>1, <1>4, <2>2, <2>4, OverdueIsForgettable DEF OTN!Accept
    <2>6. QED
      BY <2>5
  <1>5. CASE Verdict(n) # "ok"
    <2>1. /\ n \in DOMAIN entries => n \in Overdue
          /\ Verdict(n) \in {"not_found", "expired"}
      BY <1>5 DEF Verdict, Overdue
    <2>2. Phase(n) = "outstanding" => OTN!Overdue(n)
      BY <2>1, OverdueIsForgettable DEF Phase, Overdue
    <2>3. Phase(n)' = IF n \in Overdue THEN "dead" ELSE Phase(n)
      BY <1>1, <1>2, <1>5, <2>1 DEF Phase, Overdue
    <2>4. [m \in Nonces |-> Phase(m)'] = OTN!Forget(Overdue)
      BY <1>3, <2>3 DEF OTN!Forget
    <2>5. OTN!Refuse(n)
      BY <1>1, <2>1, <2>2, <2>4, OverdueIsForgettable DEF OTN!Refuse
    <2>6. QED
      BY <2>5
  <1>6. QED
    BY <1>4, <1>5

LEMMA RestartRefines ==
    ASSUME IInv, Restart
    PROVE  OTN!Restart
  <1> USE DEF IInv, TypeOK, AcceptedIsGone
  <1>1. /\ DOMAIN entries' = {}
        /\ issuedAt' = issuedAt /\ accepted' = accepted
        /\ now' = now /\ answer' = "none"
    BY DEF Restart, EmptyMap
  <1>2. \A m \in Nonces :
            Phase(m)' = IF Phase(m) = "outstanding" THEN "dead" ELSE Phase(m)
    BY <1>1 DEF Phase
  <1>3. [m \in Nonces |-> Phase(m)']
            = OTN!Forget({m \in Nonces : Phase(m) = "outstanding"})
    BY <1>2 DEF OTN!Forget
  <1>4. QED
    BY <1>1, <1>3 DEF OTN!Restart

\* The nonce table of internal/authkit/nonce_store.go implements the one-time
\* nonce: Consume returns nil at most once per token, only from its Issue to
\* TTL later in the life of one process, and always then.
THEOREM ImplementsOneTimeNonce == Spec => IsOneTimeNonce
  <1>1. Init => OTN!Init
    BY DEF Init, OTN!Init, Phase, EmptyMap
  <1>2. IInv /\ [Next]_vars => [OTN!Next]_(OTN!vars)
    <2> SUFFICES ASSUME IInv, [Next]_vars
                 PROVE  [OTN!Next]_(OTN!vars)
      OBVIOUS
    <2>1. ASSUME NEW n \in Nonces, Issue(n) PROVE OTN!Next
      BY <2>1, IssueRefines DEF OTN!Next
    <2>2. ASSUME NEW n \in Nonces, Consume(n) PROVE OTN!Next
      BY <2>2, ConsumeRefines DEF OTN!Next
    <2>3. CASE Restart
      BY <2>3, RestartRefines DEF OTN!Next
    <2>4. CASE Tick
      BY <2>4 DEF Tick, Advance, callVars, Phase, OTN!Next, OTN!Tick
    <2>5. CASE UNCHANGED vars
      BY <2>5 DEF vars, Phase, OTN!vars
    <2>6. QED
      BY <2>1, <2>2, <2>3, <2>4, <2>5 DEF Next
  <1>3. QED
    BY <1>1, <1>2, Typing, PTL DEF Spec, IsOneTimeNonce, OTN!Spec

-----------------------------------------------------------------------------
(* The page.                                                                 *)

\* Whoever is past a nonce fetch, or sends a login, has a nonce.
NoncesHeld ==
    \A t \in Tasks :
        task[t].at \in {"given", "posting", "posted"} => task[t].nonce # NoNonce

\* NeverStuck, strengthened: a call of /api/me that is still under way is no way
\* on, for it may end and leave the page as it is.
Waiting == {"idle", "calling"}

WayOn ==
    ((\A t \in Tasks : task[t].at \in Waiting) /\ ~excused)
        => enabled \/ isAuthenticated

PageInv == PageOK /\ ReadyMeansMatching /\ WayOn /\ NoncesHeld

\* An exchange that has logged in is about a nonce the store accepted, and
\* nothing but an exchange has logins to its name.
LoginsAccepted ==
    \A t \in Tasks :
        \/ task[t].logins = 0
        \/ /\ task[t].logins = 1
           /\ task[t].at \in {"posting", "posted"}
           /\ task[t].nonce \in accepted

-----------------------------------------------------------------------------
(* The records of the chains.                                                *)

LEMMA IdleIsTask ==
    /\ IdleTask \in Task
    /\ IdleTask.at = "idle" /\ IdleTask.nonce = NoNonce
    /\ IdleTask.logins = 0 /\ IdleTask.tries = 0
  <1>1. 0 \in 0..Attempts /\ "idle" \in Labels
    BY SignInAssumption DEF Labels
  <1>2. QED
    BY <1>1 DEF Task, IdleTask

LEMMA BeginIsTask ==
    ASSUME NEW label \in Labels
    PROVE  /\ Begin(label) \in Task
           /\ Begin(label).at = label
           /\ Begin(label).nonce = NoNonce /\ Begin(label).logins = 0
           /\ Begin(label).tries = 0
  <1>1. PICK r \in Task : r = IdleTask
    BY IdleIsTask
  <1>2. Begin(label) = [r EXCEPT !.at = label]
    BY <1>1 DEF Begin
  <1>3. [r EXCEPT !.at = label] \in Task
    BY DEF Task
  <1>4. /\ [r EXCEPT !.at = label].at = label
        /\ [r EXCEPT !.at = label].nonce = r.nonce
        /\ [r EXCEPT !.at = label].logins = r.logins
        /\ [r EXCEPT !.at = label].tries = r.tries
    BY DEF Task
  <1>5. QED
    BY <1>1, <1>2, <1>3, <1>4, IdleIsTask

\* What Set does to the chains.
LEMMA SetMoves ==
    ASSUME task \in [Tasks -> Task], NEW t \in Tasks, NEW r \in Task, Set(t, r)
    PROVE  /\ task' \in [Tasks -> Task]
           /\ task'[t] = r
           /\ \A u \in Tasks \ {t} : task'[u] = task[u]
  BY DEF Set

\* A chain that goes on, whatever it does: nobody is stuck, and the others are
\* where they were.
LEMMA BeginMoves ==
    ASSUME task \in [Tasks -> Task], NEW t \in Tasks, NEW label \in Labels,
           Set(t, Begin(label))
    PROVE  /\ task' \in [Tasks -> Task]
           /\ task'[t].at = label
           /\ task'[t].nonce = NoNonce /\ task'[t].logins = 0
           /\ \A u \in Tasks \ {t} : task'[u] = task[u]
  BY BeginIsTask, SetMoves

LEMMA IdleMoves ==
    ASSUME task \in [Tasks -> Task], NEW t \in Tasks, Set(t, IdleTask)
    PROVE  /\ task' \in [Tasks -> Task]
           /\ task'[t].at = "idle" /\ task'[t].logins = 0
           /\ \A u \in Tasks \ {t} : task'[u] = task[u]
  BY IdleIsTask, SetMoves

\* The other ways to go on keep part of what the chain knows.
LEMMA WithNonceMoves ==
    ASSUME task \in [Tasks -> Task], NEW t \in Tasks, NEW label \in Labels,
           NEW n \in Nonces \cup {NoNonce},
           Set(t, [task[t] EXCEPT !.at = label, !.nonce = n])
    PROVE  /\ task' \in [Tasks -> Task]
           /\ task'[t].at = label /\ task'[t].nonce = n
           /\ task'[t].logins = task[t].logins
           /\ \A u \in Tasks \ {t} : task'[u] = task[u]
  <1>1. PICK r \in Task : r = task[t]
    OBVIOUS
  <1>2. PICK e \in Task : e = [r EXCEPT !.at = label, !.nonce = n]
    <2>1. [r EXCEPT !.at = label, !.nonce = n] \in Task
      BY DEF Task
    <2>2. QED
      BY <2>1
  <1>3. e.at = label /\ e.nonce = n /\ e.logins = r.logins
    BY <1>2 DEF Task
  <1>4. Set(t, e)
    BY <1>1, <1>2
  <1>5. QED
    BY <1>1, <1>3, <1>4, SetMoves

LEMMA ServedMoves ==
    ASSUME task \in [Tasks -> Task], NEW t \in Tasks, NEW ok \in BOOLEAN,
           NEW logins \in Nat,
           Set(t, [task[t] EXCEPT !.at = "posted", !.ok = ok, !.logins = logins])
    PROVE  /\ task' \in [Tasks -> Task]
           /\ task'[t].at = "posted" /\ task'[t].nonce = task[t].nonce
           /\ task'[t].logins = logins
           /\ \A u \in Tasks \ {t} : task'[u] = task[u]
  <1>1. PICK r \in Task : r = task[t]
    OBVIOUS
  <1>2. PICK label \in Labels : label = "posted"
    BY DEF Labels
  <1>3. PICK e \in Task :
            e = [r EXCEPT !.at = label, !.ok = ok, !.logins = logins]
    <2>1. [r EXCEPT !.at = label, !.ok = ok, !.logins = logins] \in Task
      BY DEF Task
    <2>2. QED
      BY <2>1
  <1>4. e.at = label /\ e.nonce = r.nonce /\ e.logins = logins
    BY <1>3 DEF Task
  <1>5. Set(t, e)
    BY <1>1, <1>2, <1>3
  <1>6. QED
    BY <1>1, <1>2, <1>4, <1>5, SetMoves

LEMMA RepostMoves ==
    ASSUME task \in [Tasks -> Task], NEW t \in Tasks, NEW tries \in 0..Attempts,
           Set(t, [task[t] EXCEPT !.at = "posting", !.ok = FALSE, !.tries = tries])
    PROVE  /\ task' \in [Tasks -> Task]
           /\ task'[t].at = "posting" /\ task'[t].nonce = task[t].nonce
           /\ task'[t].logins = task[t].logins
           /\ \A u \in Tasks \ {t} : task'[u] = task[u]
  <1>1. PICK r \in Task : r = task[t]
    OBVIOUS
  <1>2. PICK label \in Labels : label = "posting"
    BY DEF Labels
  <1>3. PICK e \in Task :
            e = [r EXCEPT !.at = label, !.ok = FALSE, !.tries = tries]
    <2>1. [r EXCEPT !.at = label, !.ok = FALSE, !.tries = tries] \in Task
      BY DEF Task
    <2>2. QED
      BY <2>1
  <1>4. e.at = label /\ e.nonce = r.nonce /\ e.logins = r.logins
    BY <1>3 DEF Task
  <1>5. Set(t, e)
    BY <1>1, <1>2, <1>3
  <1>6. QED
    BY <1>1, <1>2, <1>4, <1>5, SetMoves

LEMMA AskAgainMoves ==
    ASSUME task \in [Tasks -> Task], NEW t \in Tasks, NEW tries \in 0..Attempts,
           Set(t, [Begin("asking") EXCEPT !.tries = tries])
    PROVE  /\ task' \in [Tasks -> Task]
           /\ task'[t].at = "asking" /\ task'[t].logins = 0
           /\ \A u \in Tasks \ {t} : task'[u] = task[u]
  <1>1. "asking" \in Labels
    BY DEF Labels
  <1>2. PICK r \in Task : r = Begin("asking")
    BY <1>1, BeginIsTask
  <1>3. PICK e \in Task : e = [r EXCEPT !.tries = tries]
    BY DEF Task
  <1>4. e.at = r.at /\ e.logins = r.logins
    BY <1>3 DEF Task
  <1>5. Set(t, e)
    BY <1>2, <1>3
  <1>6. QED
    BY <1>1, <1>2, <1>4, <1>5, BeginIsTask, SetMoves

LEMMA PopupMoves ==
    ASSUME task \in [Tasks -> Task], NEW t \in Tasks,
           NEW n \in Nonces \cup {NoNonce},
           Set(t, [Begin("popup") EXCEPT !.credential = n])
    PROVE  /\ task' \in [Tasks -> Task]
           /\ task'[t].at = "popup" /\ task'[t].logins = 0
           /\ \A u \in Tasks \ {t} : task'[u] = task[u]
  <1>1. "popup" \in Labels
    BY DEF Labels
  <1>2. PICK r \in Task : r = Begin("popup")
    BY <1>1, BeginIsTask
  <1>3. PICK e \in Task : e = [r EXCEPT !.credential = n]
    BY DEF Task
  <1>4. e.at = r.at /\ e.logins = r.logins
    BY <1>3 DEF Task
  <1>5. Set(t, e)
    BY <1>2, <1>3
  <1>6. QED
    BY <1>1, <1>2, <1>4, <1>5, BeginIsTask, SetMoves

-----------------------------------------------------------------------------
(* The steps of the page.                                                    *)

\* What a chain may do to the page without harm: it keeps going or leaves
\* somebody a way on, and offers the button with one nonce behind it.
Harmless(t) ==
    /\ task' \in [Tasks -> Task]
    /\ \A u \in Tasks \ {t} : task'[u] = task[u]
    /\ task'[t].at \in {"given", "posting", "posted"} => task'[t].nonce # NoNonce
    /\ active' \in Nonces \cup {NoNonce}
    /\ google' \in Nonces \cup {NoNonce}
    /\ enabled' \in BOOLEAN /\ isAuthenticated' \in BOOLEAN
    /\ excused' \in BOOLEAN
    /\ isAuthenticated' => ~enabled'
    /\ \/ enabled' \/ isAuthenticated' \/ excused' \/ task'[t].at \notin Waiting
       \/ /\ task[t].at \in Waiting
          /\ UNCHANGED <<enabled, isAuthenticated, excused>>
    /\ \/ ~enabled'
       \/ active' # NoNonce /\ google' = active'
       \/ active' = NoNonce /\ task'[t].at = "refreshing"
       \/ /\ enabled /\ active' = active /\ google' = google
          /\ task[t].at # "refreshing"

\* ... and to its count of logins.
Counted(t) ==
    /\ accepted \subseteq accepted'
    /\ \/ task'[t].logins = 0
       \/ /\ task'[t].logins = 1
          /\ task'[t].at \in {"posting", "posted"}
          /\ task'[t].nonce \in accepted'

LEMMA ChainStep ==
    ASSUME PageInv, LoginsAccepted, NEW t \in Tasks, Harmless(t), Counted(t),
           gis' = gis
    PROVE  PageInv' /\ LoginsAccepted'
  <1> USE DEF PageInv
  <1>1. PageOK'
    BY DEF PageOK, Harmless
  <1>2. NoncesHeld'
    BY DEF NoncesHeld, Harmless
  <1>3. ReadyMeansMatching'
    BY DEF ReadyMeansMatching, Harmless, At
  <1>4. WayOn'
    BY DEF WayOn, Harmless
  <1>5. LoginsAccepted'
    BY DEF LoginsAccepted, Harmless, Counted
  <1>6. QED
    BY <1>1, <1>2, <1>3, <1>4, <1>5

\* prepareGoogleSignIn, whoever calls it.
LEMMA PrepareStep ==
    ASSUME PageInv, LoginsAccepted, NEW t \in Tasks, Prepare(t),
           UNCHANGED <<vars, gis, google, excused>>,
           active' \in {active, NoNonce}, isAuthenticated' \in BOOLEAN
    PROVE  PageInv' /\ LoginsAccepted'
  <1>1. "gis" \in Labels
    BY DEF Labels
  <1>2. /\ task' \in [Tasks -> Task]
        /\ task'[t].at = "gis" /\ task'[t].logins = 0
        /\ \A u \in Tasks \ {t} : task'[u] = task[u]
    BY <1>1, BeginMoves DEF PageInv, PageOK, Prepare
  <1>3. Harmless(t) /\ Counted(t)
    BY <1>2 DEF PageInv, PageOK, Prepare, Harmless, Waiting, Counted, vars
  <1>4. QED
    BY <1>3, ChainStep

LEMMA PrepareFailsStep ==
    ASSUME PageInv, LoginsAccepted, NEW t \in Tasks, PrepareFails(t),
           UNCHANGED <<vars, gis, google, isAuthenticated>>
    PROVE  PageInv' /\ LoginsAccepted'
  <1>1. /\ task' \in [Tasks -> Task]
        /\ task'[t].at = "idle" /\ task'[t].logins = 0
        /\ \A u \in Tasks \ {t} : task'[u] = task[u]
    BY IdleMoves DEF PageInv, PageOK, PrepareFails
  <1>2. Harmless(t) /\ Counted(t)
    BY <1>1 DEF PageInv, PageOK, PrepareFails, Harmless, Waiting, Counted, vars
  <1>3. QED
    BY <1>2, ChainStep

\* A chain that begins to wait for a fetch and leaves the button alone.
LEMMA BeginStep ==
    ASSUME PageInv, LoginsAccepted, NEW t \in Tasks,
           NEW label \in {"asking", "refreshing"}, Set(t, Begin(label)),
           UNCHANGED <<vars, gis, google, enabled, isAuthenticated, excused>>,
           \/ active' = active /\ task[t].at # "refreshing"
           \/ active' = NoNonce /\ label = "refreshing"
    PROVE  PageInv' /\ LoginsAccepted'
  <1>1. label \in Labels
    BY DEF Labels
  <1>2. /\ task' \in [Tasks -> Task]
        /\ task'[t].at = label /\ task'[t].logins = 0
        /\ \A u \in Tasks \ {t} : task'[u] = task[u]
    BY <1>1, BeginMoves DEF PageInv, PageOK
  <1>3. /\ Counted(t)
        /\ task'[t].at \notin {"given", "posting", "posted", "idle"}
    BY <1>2 DEF Counted, vars
  <1>4. Harmless(t)
    BY <1>2, <1>3 DEF PageInv, PageOK, Harmless, Waiting
  <1>5. QED
    BY <1>3, <1>4, ChainStep

LEMMA AwaitGoogleStep ==
    ASSUME PageInv, LoginsAccepted, NEW t \in Tasks, AwaitGoogle(t)
    PROVE  PageInv' /\ LoginsAccepted'
  <1>1. CASE PrepareFails(t)
    BY <1>1, PrepareFailsStep DEF AwaitGoogle
  <1>2. CASE Set(t, Begin("asking")) /\ UNCHANGED <<active, enabled, excused>>
    BY <1>2, BeginStep DEF AwaitGoogle, At
  <1>3. QED
    BY <1>1, <1>2 DEF AwaitGoogle

LEMMA ServeNonceStep ==
    ASSUME PageInv, LoginsAccepted, NEW t \in Tasks, NEW n \in Nonces,
           ServeNonce(t, n)
    PROVE  PageInv' /\ LoginsAccepted'
  <1>1. /\ task[t].at = "asking" /\ n # NoNonce
        /\ UNCHANGED <<gis, active, google, enabled, isAuthenticated, excused>>
        /\ accepted' = accepted
    BY SignInAssumption DEF ServeNonce, At, Issue
  <1>2. "given" \in Labels /\ Set(t, [task[t] EXCEPT !.at = "given", !.nonce = n])
    BY DEF Labels, ServeNonce
  <1>3. task[t].logins = 0
    BY <1>1 DEF LoginsAccepted
  <1>4. /\ task' \in [Tasks -> Task]
        /\ task'[t].at = "given" /\ task'[t].nonce = n
        /\ task'[t].logins = 0
        /\ \A u \in Tasks \ {t} : task'[u] = task[u]
    BY <1>2, <1>3, WithNonceMoves DEF PageInv, PageOK
  <1>5. Harmless(t) /\ Counted(t)
    BY <1>1, <1>4 DEF PageInv, PageOK, Harmless, Waiting, Counted
  <1>6. QED
    BY <1>1, <1>5, ChainStep

LEMMA NonceArrivesStep ==
    ASSUME PageInv, LoginsAccepted, NEW t \in Tasks, NonceArrives(t)
    PROVE  PageInv' /\ LoginsAccepted'
  <1>1. /\ task' \in [Tasks -> Task]
        /\ task'[t].at = "idle" /\ task'[t].logins = 0
        /\ \A u \in Tasks \ {t} : task'[u] = task[u]
    BY IdleMoves DEF PageInv, PageOK, NonceArrives
  <1>2. PICK r \in Task : r = task[t]
    BY DEF PageInv, PageOK
  <1>3. r.nonce \in Nonces \cup {NoNonce} /\ r.nonce # NoNonce
    BY <1>2 DEF Task, PageInv, NoncesHeld, NonceArrives, At
  <1>4. /\ active' = r.nonce /\ google' = r.nonce
        /\ enabled' = ~isAuthenticated /\ excused' = FALSE
        /\ UNCHANGED <<gis, isAuthenticated, accepted>>
    BY <1>2 DEF NonceArrives, vars
  <1>5. Counted(t)
    BY <1>1, <1>4 DEF Counted
  <1>6. Harmless(t)
    BY <1>1, <1>3, <1>4 DEF PageInv, PageOK, Harmless, Waiting
  <1>7. QED
    BY <1>4, <1>5, <1>6, ChainStep

LEMMA NonceLostStep ==
    ASSUME PageInv, LoginsAccepted, NEW t \in Tasks, NonceLost(t)
    PROVE  PageInv' /\ LoginsAccepted'
  <1>1. CASE PrepareFails(t)
    BY <1>1, PrepareFailsStep DEF NonceLost
  <1>2. CASE /\ task[t].tries + 1 < Attempts
             /\ Set(t, [Begin("asking") EXCEPT !.tries = task[t].tries + 1])
             /\ UNCHANGED <<active, enabled, excused>>
    <2>1. PICK r \in Task : r = task[t]
      BY DEF PageInv, PageOK
    <2>2. r.tries \in 0..Attempts
      BY DEF Task
    <2>3. task[t].tries + 1 \in 0..Attempts
      BY <1>2, <2>1, <2>2, SignInAssumption
    <2>4. /\ task' \in [Tasks -> Task]
          /\ task'[t].at = "asking" /\ task'[t].logins = 0
          /\ \A u \in Tasks \ {t} : task'[u] = task[u]
      BY <1>2, <2>3, AskAgainMoves DEF PageInv, PageOK
    <2>5. /\ UNCHANGED <<gis, google, isAuthenticated, accepted>>
          /\ task[t].at # "refreshing"
      BY DEF NonceLost, vars
    <2>6. Harmless(t) /\ Counted(t)
      BY <1>2, <2>4, <2>5 DEF PageInv, PageOK, Harmless, Waiting, Counted
    <2>7. QED
      BY <2>5, <2>6, ChainStep
  <1>3. QED
    BY <1>1, <1>2 DEF NonceLost

LEMMA ClickStep ==
    ASSUME PageInv, LoginsAccepted, NEW t \in Tasks, Click(t)
    PROVE  PageInv' /\ LoginsAccepted'
  <1>1. /\ task[t].at = "idle"
        /\ Set(t, [Begin("popup") EXCEPT !.credential = google])
        /\ UNCHANGED <<gis, active, google, enabled, isAuthenticated, excused>>
        /\ accepted' = accepted
    BY DEF Click, At, vars
  <1>2. /\ task' \in [Tasks -> Task]
        /\ task'[t].at = "popup" /\ task'[t].logins = 0
        /\ \A u \in Tasks \ {t} : task'[u] = task[u]
    BY <1>1, PopupMoves DEF PageInv, PageOK
  <1>3. Harmless(t) /\ Counted(t)
    BY <1>1, <1>2 DEF PageInv, PageOK, Harmless, Waiting, Counted
  <1>4. QED
    BY <1>1, <1>3, ChainStep

LEMMA HandleCredentialStep ==
    ASSUME PageInv, LoginsAccepted, NEW t \in Tasks, HandleCredential(t)
    PROVE  PageInv' /\ LoginsAccepted'
  <1>1. /\ task[t].at = "popup"
        /\ UNCHANGED <<gis, google, isAuthenticated, excused>>
        /\ UNCHANGED vars
    BY DEF HandleCredential, At
  <1>2. CASE active' = NoNonce /\ Prepare(t)
    BY <1>1, <1>2, PrepareStep DEF PageInv, PageOK
  <1>3. CASE /\ active # NoNonce
             /\ Set(t, [task[t] EXCEPT !.at = "posting", !.nonce = active])
             /\ UNCHANGED <<active, enabled>>
    <2>1. "posting" \in Labels /\ active \in Nonces \cup {NoNonce}
      BY DEF Labels, PageInv, PageOK
    <2>2. /\ task' \in [Tasks -> Task]
          /\ task'[t].at = "posting" /\ task'[t].nonce = active
          /\ task'[t].logins = task[t].logins
          /\ \A u \in Tasks \ {t} : task'[u] = task[u]
      BY <1>3, <2>1, WithNonceMoves DEF PageInv, PageOK
    <2>3. task[t].logins = 0
      BY <1>1 DEF LoginsAccepted
    <2>4. Harmless(t) /\ Counted(t)
      BY <1>1, <1>3, <2>2, <2>3 DEF PageInv, PageOK, Harmless, Waiting, Counted, vars
    <2>5. QED
      BY <1>1, <2>4, ChainStep
  <1>4. QED
    BY <1>2, <1>3 DEF HandleCredential

\* The store accepts no nonce that an attempt has logged in with.
LEMMA ServeLoginStep ==
    ASSUME PageInv, LoginsAccepted, AcceptedIsGone, NEW t \in Tasks,
           ServeLogin(t)
    PROVE  PageInv' /\ LoginsAccepted'
  <1>1. PICK ok \in BOOLEAN :
            /\ ok => Verdict(task[t].nonce) = "ok"
            /\ Set(t, [task[t] EXCEPT !.at = "posted", !.ok = ok,
                           !.logins = IF ok THEN task[t].logins + 1
                                      ELSE task[t].logins])
    BY DEF ServeLogin
  <1>2. /\ task[t].at = "posting" /\ Consume(task[t].nonce)
        /\ UNCHANGED <<gis, active, google, enabled, isAuthenticated, excused>>
    BY DEF ServeLogin, At
  <1>3. /\ accepted' = IF Verdict(task[t].nonce) = "ok"
                       THEN accepted \cup {task[t].nonce} ELSE accepted
        /\ Verdict(task[t].nonce) = "ok" => task[t].nonce \notin accepted
    BY <1>2 DEF Consume, Verdict, AcceptedIsGone
  <1>4. /\ task[t].logins \in {0, 1}
        /\ task[t].logins = 1 => task[t].nonce \in accepted
        /\ task[t].nonce # NoNonce
    BY <1>2 DEF LoginsAccepted, PageInv, NoncesHeld
  <1> DEFINE logins == IF ok THEN task[t].logins + 1 ELSE task[t].logins
  <1>5. /\ logins \in Nat
        /\ \/ logins = 0
           \/ logins = 1 /\ task[t].nonce \in accepted'
    <2>1. CASE ok
      <3>1. task[t].logins = 0 /\ task[t].nonce \in accepted'
        BY <1>1, <1>3, <1>4, <2>1
      <3>2. logins = 1
        BY <2>1, <3>1
      <3>3. QED
        BY <3>1, <3>2
    <2>2. CASE ~ok
      <3>1. logins = task[t].logins /\ accepted \subseteq accepted'
        BY <1>3, <2>2
      <3>2. QED
        BY <1>4, <3>1
    <2>3. QED
      BY <2>1, <2>2
  <1>6. Set(t, [task[t] EXCEPT !.at = "posted", !.ok = ok, !.logins = logins])
    BY <1>1
  <1> HIDE DEF logins
  <1>7. /\ task' \in [Tasks -> Task]
        /\ task'[t].at = "posted" /\ task'[t].nonce = task[t].nonce
        /\ task'[t].logins = logins
        /\ \A u \in Tasks \ {t} : task'[u] = task[u]
    BY <1>5, <1>6, ServedMoves DEF PageInv, PageOK
  <1>8. Counted(t)
    BY <1>3, <1>5, <1>7 DEF Counted
  <1>9. Harmless(t)
    BY <1>2, <1>4, <1>7 DEF PageInv, PageOK, Harmless, Waiting
  <1>10. QED
    BY <1>2, <1>8, <1>9, ChainStep

LEMMA LoginAnsweredStep ==
    ASSUME PageInv, LoginsAccepted, NEW t \in Tasks, LoginAnswered(t)
    PROVE  PageInv' /\ LoginsAccepted'
  <1>1. /\ task[t].at = "posted" /\ active' = NoNonce
        /\ UNCHANGED <<gis, google, isAuthenticated, excused>>
        /\ UNCHANGED vars
    BY DEF LoginAnswered, At
  <1>2. CASE Set(t, Begin("refreshing")) /\ UNCHANGED enabled
    BY <1>1, <1>2, BeginStep
  <1>3. CASE Prepare(t)
    BY <1>1, <1>3, PrepareStep DEF PageInv, PageOK
  <1>4. QED
    BY <1>2, <1>3 DEF LoginAnswered

LEMMA LoginLostStep ==
    ASSUME PageInv, LoginsAccepted, NEW t \in Tasks, LoginLost(t)
    PROVE  PageInv' /\ LoginsAccepted'
  <1>1. /\ task[t].at \in {"posting", "posted"}
        /\ UNCHANGED <<gis, google, isAuthenticated, excused>>
        /\ UNCHANGED vars
    BY DEF LoginLost
  <1>2. CASE active' = NoNonce /\ Prepare(t)
    BY <1>1, <1>2, PrepareStep DEF PageInv, PageOK
  <1>3. CASE /\ task[t].tries + 1 < Attempts
             /\ Set(t, [task[t] EXCEPT !.at = "posting", !.ok = FALSE,
                                       !.tries = task[t].tries + 1])
             /\ UNCHANGED <<active, enabled>>
    <2>1. PICK r \in Task : r = task[t]
      BY DEF PageInv, PageOK
    <2>2. r.tries \in 0..Attempts
      BY DEF Task
    <2>3. task[t].tries + 1 \in 0..Attempts
      BY <1>3, <2>1, <2>2, SignInAssumption
    <2>4. /\ task' \in [Tasks -> Task]
          /\ task'[t].at = "posting" /\ task'[t].nonce = task[t].nonce
          /\ task'[t].logins = task[t].logins
          /\ \A u \in Tasks \ {t} : task'[u] = task[u]
      BY <1>3, <2>3, RepostMoves DEF PageInv, PageOK
    <2>5. /\ task[t].nonce # NoNonce
          /\ accepted' = accepted
      BY <1>1 DEF PageInv, NoncesHeld, vars
    <2>6. Counted(t)
      BY <2>4, <2>5 DEF LoginsAccepted, Counted
    <2>7. Harmless(t)
      BY <1>1, <1>3, <2>4, <2>5 DEF PageInv, PageOK, Harmless, Waiting
    <2>8. QED
      BY <1>1, <2>6, <2>7, ChainStep
  <1>4. QED
    BY <1>2, <1>3 DEF LoginLost

LEMMA RefreshEndsStep ==
    ASSUME PageInv, LoginsAccepted, NEW t \in Tasks, RefreshEnds(t)
    PROVE  PageInv' /\ LoginsAccepted'
  <1>1. UNCHANGED <<vars, gis, active, google, excused>>
    BY DEF RefreshEnds
  <1>2. CASE isAuthenticated' = FALSE /\ Prepare(t)
    BY <1>1, <1>2, PrepareStep
  <1>3. CASE /\ isAuthenticated' = TRUE /\ enabled' = FALSE
             /\ Set(t, IdleTask)
    <2>1. /\ task' \in [Tasks -> Task]
          /\ task'[t].at = "idle" /\ task'[t].logins = 0
          /\ \A u \in Tasks \ {t} : task'[u] = task[u]
      BY <1>3, IdleMoves DEF PageInv, PageOK
    <2>2. Harmless(t) /\ Counted(t)
      BY <1>1, <1>3, <2>1 DEF PageInv, PageOK, Harmless, Waiting, Counted, vars
    <2>3. QED
      BY <1>1, <2>2, ChainStep
  <1>4. QED
    BY <1>2, <1>3 DEF RefreshEnds

LEMMA UserAndHeaderStep ==
    ASSUME PageInv, LoginsAccepted, NEW t \in Tasks,
           SignOut(t) \/ HeaderEvent(t)
    PROVE  PageInv' /\ LoginsAccepted'
  <1>1. /\ task[t].at = "idle"
        /\ UNCHANGED <<vars, gis, active, google, excused>>
    BY DEF SignOut, HeaderEvent, At
  <1>2. CASE Prepare(t) /\ isAuthenticated' \in BOOLEAN
    BY <1>1, <1>2, PrepareStep
  <1>3. CASE Set(t, Begin("refreshing")) /\ UNCHANGED <<enabled, isAuthenticated>>
    BY <1>1, <1>3, BeginStep
  <1>4. QED
    BY <1>2, <1>3 DEF SignOut, HeaderEvent, PageInv, PageOK

LEMMA CallApiStep ==
    ASSUME PageInv, LoginsAccepted, NEW t \in Tasks, CallApi(t)
    PROVE  PageInv' /\ LoginsAccepted'
  <1>1. /\ task[t].at = "idle"
        /\ Set(t, Begin("calling"))
        /\ UNCHANGED <<vars, gis, active, google, enabled, isAuthenticated, excused>>
    BY DEF CallApi, At
  <1>2. "calling" \in Labels
    BY DEF Labels
  <1>3. /\ task' \in [Tasks -> Task]
        /\ task'[t].at = "calling" /\ task'[t].logins = 0
        /\ \A u \in Tasks \ {t} : task'[u] = task[u]
    BY <1>1, <1>2, BeginMoves DEF PageInv, PageOK
  <1>4. Harmless(t) /\ Counted(t)
    BY <1>1, <1>3 DEF PageInv, PageOK, Harmless, Counted, Waiting, vars
  <1>5. QED
    BY <1>1, <1>4, ChainStep

LEMMA ApiAnsweredStep ==
    ASSUME PageInv, LoginsAccepted, NEW t \in Tasks, ApiAnswered(t)
    PROVE  PageInv' /\ LoginsAccepted'
  <1>1. /\ task[t].at = "calling"
        /\ UNCHANGED <<gis, active, google, accepted>>
    BY DEF ApiAnswered, At, vars
  <1>2. /\ task' \in [Tasks -> Task]
        /\ task'[t].at = "idle" /\ task'[t].logins = 0
        /\ \A u \in Tasks \ {t} : task'[u] = task[u]
    BY IdleMoves DEF PageInv, PageOK, ApiAnswered
  <1>3. Counted(t)
    BY <1>1, <1>2 DEF Counted
  <1>4. CASE UNCHANGED <<enabled, isAuthenticated, excused>>
    <2>1. Harmless(t)
      BY <1>1, <1>2, <1>4 DEF PageInv, PageOK, Harmless, Waiting
    <2>2. QED
      BY <1>1, <1>3, <2>1, ChainStep
  <1>5. CASE isAuthenticated' = FALSE /\ enabled' = FALSE /\ excused' = TRUE
    <2>1. Harmless(t)
      BY <1>1, <1>2, <1>5 DEF PageInv, PageOK, Harmless, Waiting
    <2>2. QED
      BY <1>1, <1>3, <2>1, ChainStep
  <1>6. QED
    BY <1>4, <1>5 DEF ApiAnswered

\* The steps of no chain.
LEMMA OneShotStep ==
    ASSUME PageInv, LoginsAccepted, GoogleReady \/ HeaderProfile
    PROVE  PageInv' /\ LoginsAccepted'
  <1>1. /\ task' = task /\ active' = active /\ google' = google
        /\ accepted' = accepted /\ excused' = excused
        /\ gis' \in {"loading", "ready", "failed"}
        /\ \/ UNCHANGED <<enabled, isAuthenticated>>
           \/ enabled' = FALSE /\ isAuthenticated' = TRUE
    BY DEF GoogleReady, HeaderProfile, PageInv, PageOK, vars
  <1>2. LoginsAccepted'
    BY <1>1 DEF LoginsAccepted
  <1>3. PageInv'
    <2>1. PageOK'
      <3>1. CASE UNCHANGED <<enabled, isAuthenticated>>
        BY <1>1, <3>1 DEF PageInv, PageOK
      <3>2. CASE enabled' = FALSE /\ isAuthenticated' = TRUE
        <4>1. enabled' \in BOOLEAN /\ isAuthenticated' \in BOOLEAN /\ ~enabled'
          BY <3>2
        <4>2. QED
          BY <1>1, <4>1 DEF PageInv, PageOK
      <3>3. QED
        BY <1>1, <3>1, <3>2
    <2>2. ReadyMeansMatching'
      BY <1>1 DEF PageInv, ReadyMeansMatching, At
    <2>3. WayOn' /\ NoncesHeld'
      BY <1>1 DEF PageInv, WayOn, NoncesHeld
    <2>4. QED
      BY <2>1, <2>2, <2>3 DEF PageInv
  <1>4. QED
    BY <1>2, <1>3

LEMMA PageStep ==
    ASSUME PageInv, LoginsAccepted, AcceptedIsGone, PageNext
    PROVE  PageInv' /\ LoginsAccepted'
  BY OneShotStep, AwaitGoogleStep, ServeNonceStep, NonceArrivesStep,
     NonceLostStep, ClickStep, HandleCredentialStep, ServeLoginStep,
     LoginAnsweredStep, LoginLostStep, RefreshEndsStep, UserAndHeaderStep,
     CallApiStep, ApiAnsweredStep
     DEF PageNext

-----------------------------------------------------------------------------
(* The page over the store.                                                  *)

\* A step of the page is a call of the store, or none.
LEMMA PageUsesStore ==
    ASSUME PageInv, [SignInNext]_signInVars
    PROVE  [Next]_vars
  <1>1. ASSUME NEW t \in Tasks, NEW n \in Nonces, ServeNonce(t, n)
        PROVE  Next
    BY <1>1 DEF ServeNonce, Next
  <1>2. ASSUME NEW t \in Tasks, ServeLogin(t)
        PROVE  Next
    <2>1. PICK r \in Task : r = task[t]
      BY DEF PageInv, PageOK
    <2>2. r.nonce \in Nonces
      BY <1>2, <2>1 DEF Task, PageInv, NoncesHeld, ServeLogin, At
    <2>3. QED
      BY <1>2, <2>1, <2>2 DEF ServeLogin, Next
  <1>3. ASSUME NEW t \in Tasks,
               \/ AwaitGoogle(t) \/ NonceArrives(t) \/ NonceLost(t)
               \/ Click(t) \/ HandleCredential(t) \/ LoginAnswered(t)
               \/ LoginLost(t) \/ RefreshEnds(t) \/ SignOut(t)
               \/ HeaderEvent(t) \/ CallApi(t) \/ ApiAnswered(t)
        PROVE  UNCHANGED vars
    BY <1>3 DEF AwaitGoogle, NonceArrives, NonceLost, Click, HandleCredential,
                LoginAnswered, LoginLost, RefreshEnds, SignOut, HeaderEvent,
                CallApi, ApiAnswered
  <1>4. GoogleReady \/ HeaderProfile => UNCHANGED vars
    BY DEF GoogleReady, HeaderProfile
  <1>5. UNCHANGED signInVars => UNCHANGED vars
    BY DEF signInVars
  <1>6. QED
    BY <1>1, <1>2, <1>3, <1>4, <1>5 DEF SignInNext, PageNext

\* What other clients do to the store never takes a nonce out of accepted.
LEMMA AcceptedGrows ==
    ASSUME [Next]_vars
    PROVE  accepted \subseteq accepted'
  BY DEF Next, Issue, Consume, Restart, Tick, callVars, vars

SignInInv == IInv /\ PageInv /\ LoginsAccepted

LEMMA SignInInvariance == SignInSpec => []SignInInv
  <1>1. SignInInit => SignInInv
    <2> SUFFICES ASSUME SignInInit PROVE SignInInv
      OBVIOUS
    <2>1. IInv
      BY StoreInit DEF SignInInit
    <2>2. PICK p \in Tasks, h \in Tasks :
              /\ p # h
              /\ task = [t \in Tasks |-> IF t = p THEN Begin("gis")
                                        ELSE IF t = h THEN Begin("refreshing")
                                        ELSE IdleTask]
      BY DEF SignInInit
    <2>3. "gis" \in Labels /\ "refreshing" \in Labels
      BY DEF Labels
    <2>4. /\ task \in [Tasks -> Task]
          /\ task[p].at = "gis"
          /\ \A t \in Tasks : /\ task[t].logins = 0
                             /\ task[t].at \in {"gis", "refreshing", "idle"}
      BY <2>2, <2>3, BeginIsTask, IdleIsTask
    <2>5. QED
      BY <2>1, <2>4 DEF SignInInit, SignInInv, PageInv, PageOK,
         ReadyMeansMatching, WayOn, Waiting, NoncesHeld, LoginsAccepted, At
  <1>2. SignInInv /\ [SignInNext]_signInVars => SignInInv'
    <2> SUFFICES ASSUME SignInInv, [SignInNext]_signInVars
                 PROVE  SignInInv'
      OBVIOUS
    <2>1. [Next]_vars
      BY PageUsesStore DEF SignInInv
    <2>2. IInv'
      BY <2>1, StoreStep DEF SignInInv
    <2>3. CASE PageNext
      BY <2>2, <2>3, PageStep DEF SignInInv, IInv
    <2>4. CASE UNCHANGED page
      <3>1. accepted \subseteq accepted'
        BY <2>1, AcceptedGrows
      <3>2. PageInv'
        BY <2>4 DEF SignInInv, PageInv, PageOK, ReadyMeansMatching, WayOn,
           NoncesHeld, At, page
      <3>3. LoginsAccepted'
        BY <2>4, <3>1 DEF SignInInv, LoginsAccepted, page
      <3>4. QED
        BY <2>2, <3>2, <3>3 DEF SignInInv
    <2>5. QED
      BY <2>3, <2>4 DEF SignInNext, signInVars, page
  <1>3. QED
    BY <1>1, <1>2, PTL DEF SignInSpec

\* Type correctness of the page, and no button for a signed-in user, for any
\* number of chains that overlap.
THEOREM PageWellTyped == SignInSpec => []PageOK
  <1>1. SignInInv => PageOK
    BY DEF SignInInv, PageInv
  <1>2. QED
    BY <1>1, SignInInvariance, PTL

\* The sign-in page and the clients beside it use the nonce store as it was
\* meant to be used: what is proved of the store holds under the page.
THEOREM PageIsAClient == SignInSpec => Spec
  <1>1. SignInInit => Init
    BY DEF SignInInit
  <1>2. SignInInv /\ [SignInNext]_signInVars => [Next]_vars
    BY PageUsesStore DEF SignInInv
  <1>3. QED
    BY <1>1, <1>2, SignInInvariance, PTL DEF SignInSpec, Spec

\* So the nonce store keeps its word behind the page: one-time nonces, gone
\* once accepted, and no table of expired ones.
COROLLARY StoreKeepsItsWord ==
    SignInSpec => IsOneTimeNonce /\ []AcceptedIsGone /\ PurgeKeepsUp
  BY PageIsAClient, ImplementsOneTimeNonce, AcceptedNeverReturns, PurgesKeepUp

\* fetchWithRetry may repeat a login any number of times, and lose any of the
\* responses: its attempts log in once, because the first one to be accepted
\* took the nonce they all carry out of the store.
THEOREM RetriesLogInOnce == SignInSpec => []RetryLogsInOnce
  <1>1. SignInInv => RetryLogsInOnce
    BY DEF SignInInv, LoginsAccepted, RetryLogsInOnce
  <1>2. QED
    BY <1>1, SignInInvariance, PTL

\* Whatever preparations, logins and failures overlap, a button that can be
\* clicked has one nonce behind it, the one the page is going to send.
THEOREM ButtonIsReady == SignInSpec => []ReadyMeansMatching
  <1>1. SignInInv => ReadyMeansMatching
    BY DEF SignInInv, PageInv
  <1>2. QED
    BY <1>1, SignInInvariance, PTL

\* The page never comes to rest signed out behind a disabled button, but for
\* the two ways NeverStuck names.
THEOREM PageNeverStuck == SignInSpec => []NeverStuck
  <1>1. SignInInv => NeverStuck
    BY DEF SignInInv, PageInv, WayOn, Waiting, NeverStuck, At
  <1>2. QED
    BY <1>1, SignInInvariance, PTL
=============================================================================
