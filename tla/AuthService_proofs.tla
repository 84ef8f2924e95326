-------------------------- MODULE AuthService_proofs --------------------------
(* TLAPS proofs about AuthService, for any number of overlapping requests,   *)
(* users, nonces and tokens, any lifetimes, crashes and store failures: its  *)
(* type, that a delivered successor's predecessor is dead, that a cookie on  *)
(* its way is good, that a Google credential logs in at most once, that a    *)
(* dead token stays dead, that the handlers keep to the contract of the      *)
(* refresh store, that the whole of it implements RefreshGrants, and hence   *)
(* that a sign-in never changes hands; and, while the store answers, that a  *)
(* logout kills its token and that refreshes racing for one token fork its   *)
(* chain only while they run.                                                *)
EXTENDS AuthService, FiniteSetTheorems, TLAPS

-----------------------------------------------------------------------------
(* The inductive invariant.                                                  *)

\* Where a handler is between its calls.
InLogin(r) == req[r].at \in {"verify", "upsert", "writing", "issue"}
HasUser(r) == req[r].at \in {"upsert", "writing", "issue",
                             "profile", "rotate", "retire"}
UsesToken(r) == req[r].at \in {"profile", "rotate", "retire", "revoke"}
SetsCookie(r) == /\ At(r, "answered") /\ req[r].status \in {200, 204}
                 /\ req[r].child # NoToken
HasChild(r) == At(r, "retire") \/ SetsCookie(r)

\* A handler past its first step works on values it was given by a store.
SlotsOK ==
    \A r \in Requests :
        /\ InLogin(r) => req[r].nonce \in Nonces
        /\ HasUser(r) => req[r].user \in Users
        /\ UsesToken(r) => /\ req[r].token \in held \cap DOMAIN ledger
                           /\ At(r, "revoke") => req[r].child = NoToken
        /\ HasChild(r) => req[r].child \in Opaques

\* Every token in the store or with a client was drawn before, so that a
\* fresh one differs from all of them.
AllDrawn == DOMAIN ledger \cup held \subseteq DOMAIN origin

\* A successor inside a handler or on its way is known to that handler alone,
\* and therefore nobody can have revoked it.
ChildrenPrivate ==
    \A r \in Requests :
        /\ HasChild(r) =>
               /\ req[r].child \in DOMAIN ledger \ held
               /\ ~ledger[req[r].child].revoked
               /\ ledger[req[r].child].user = req[r].user
        /\ At(r, "retire") => ledger[req[r].child].prev = req[r].token
        /\ \A q \in Requests \ {r} :
               HasChild(r) /\ HasChild(q) => req[r].child # req[q].child

\* The nonce of a login under way, or of any login there has been, is spent;
\* and the logins under way have nonces of their own.
NoncesSpent ==
    /\ \A o \in DOMAIN origin : origin[o].nonce \in issued \ DOMAIN entries
    /\ \A r \in Requests : InLogin(r) =>
           /\ req[r].nonce \in issued \ DOMAIN entries
           /\ \A o \in DOMAIN origin : origin[o].nonce # req[r].nonce
           /\ \A q \in Requests \ {r} :
                  InLogin(q) => req[q].nonce # req[r].nonce

IInv == /\ TypeOK /\ SlotsOK /\ AllDrawn
        /\ ChildrenPrivate /\ RotationRetiresParent
        /\ NoncesSpent /\ CredentialLogsInOnce

-----------------------------------------------------------------------------
(* What the building blocks of the handlers do.                              *)

LEMMA IdleIsSlot == IdleSlot \in Slot
  BY DEF IdleSlot, Slot, Kinds, Labels, Statuses

LEMMA GotoLemma ==
    ASSUME TypeOK, NEW r \in Requests, NEW slot \in Slot, Goto(r, slot)
    PROVE  /\ req' \in [Requests -> Slot]
           /\ req'[r] = slot
           /\ \A q \in Requests \ {r} : req'[q] = req[q]
  BY DEF TypeOK, Goto

LEMMA AnswerLemma ==
    ASSUME TypeOK, NEW r \in Requests, NEW status \in Statuses,
           Answer(r, status)
    PROVE  /\ req' \in [Requests -> Slot]
           /\ req'[r].at = "answered" /\ req'[r].status = status
           /\ req'[r].kind = req[r].kind /\ req'[r].token = req[r].token
           /\ req'[r].child = req[r].child /\ req'[r].user = req[r].user
           /\ req'[r].nonce = req[r].nonce
           /\ \A q \in Requests \ {r} : req'[q] = req[q]
  <1> DEFINE slot == [req[r] EXCEPT !.at = "answered", !.status = status]
  <1>1. slot \in Slot
    <2>1. req[r] \in Slot /\ "answered" \in Labels
      BY DEF TypeOK, Labels
    <2>2. QED
      BY <2>1 DEF Slot
  <1>2. /\ slot.at = "answered" /\ slot.status = status
        /\ slot.kind = req[r].kind /\ slot.token = req[r].token
        /\ slot.child = req[r].child /\ slot.user = req[r].user
        /\ slot.nonce = req[r].nonce
    BY DEF TypeOK, Slot
  <1>3. Goto(r, slot)
    BY DEF Answer
  <1> HIDE DEF slot
  <1>4. QED
    BY <1>1, <1>2, <1>3, GotoLemma

LEMMA AnswerAtOnceLemma ==
    ASSUME TypeOK, NEW r \in Requests, NEW kind \in {"login", "refresh", "logout"},
           NEW token \in Opaques \cup {NoToken}, NEW status \in Statuses,
           AnswerAtOnce(r, kind, token, status)
    PROVE  /\ req' \in [Requests -> Slot]
           /\ req'[r].at = "answered" /\ req'[r].status = status
           /\ req'[r].token = token /\ req'[r].child = NoToken
           /\ \A q \in Requests \ {r} : req'[q] = req[q]
  <1> DEFINE slot == [IdleSlot EXCEPT !.kind = kind, !.at = "answered",
                                      !.token = token, !.status = status]
  <1>1. slot \in Slot
    <2>1. kind \in Kinds /\ "answered" \in Labels
      BY DEF Kinds, Labels
    <2>2. QED
      BY <2>1, IdleIsSlot DEF Slot
  <1>2. /\ slot.at = "answered" /\ slot.status = status
        /\ slot.token = token /\ slot.child = NoToken
    BY DEF IdleSlot
  <1>3. Goto(r, slot)
    BY DEF AnswerAtOnce
  <1> HIDE DEF slot
  <1>4. QED
    BY <1>1, <1>2, <1>3, GotoLemma

-----------------------------------------------------------------------------
(* Steps that leave the tokens, or the nonces, as they are.                  *)

TokenInv == SlotsOK /\ AllDrawn /\ ChildrenPrivate /\ RotationRetiresParent
NonceInv == NoncesSpent /\ CredentialLogsInOnce

\* The delivered cookies, in terms of the handlers.
LEMMA DeliveredLemma ==
    \A o : o \in Delivered <=>
        o \in held \/ \E r \in Requests : SetsCookie(r) /\ o = req[r].child
  BY DEF Delivered, Cookie, SetsCookie, At

\* A step of slot r that touches no token and ends in a state where r has no
\* successor in hand keeps what is known of tokens, if r's token is a good one.
LEMMA QuietForTokens ==
    ASSUME IInv, NEW r \in Requests,
           ledger' = ledger, held' = held, origin' = origin,
           req' \in [Requests -> Slot],
           \A q \in Requests \ {r} : req'[q] = req[q],
           InLogin(r)' => req'[r].nonce \in Nonces,
           HasUser(r)' => req'[r].user \in Users,
           UsesToken(r)' => /\ req'[r].token \in held \cap DOMAIN ledger
                            /\ At(r, "revoke")' => req'[r].child = NoToken,
           ~HasChild(r)'
    PROVE  TokenInv'
  <1> USE DEF IInv
  <1>1. \A q \in Requests \ {r} :
            /\ InLogin(q)' <=> InLogin(q)
            /\ HasUser(q)' <=> HasUser(q)
            /\ UsesToken(q)' <=> UsesToken(q)
            /\ SetsCookie(q)' <=> SetsCookie(q)
            /\ HasChild(q)' <=> HasChild(q)
            /\ At(q, "retire")' <=> At(q, "retire")
            /\ At(q, "revoke")' <=> At(q, "revoke")
    BY DEF InLogin, HasUser, UsesToken, SetsCookie, HasChild, At
  <1>2. SlotsOK'
    BY <1>1 DEF SlotsOK
  <1>3. AllDrawn'
    BY DEF AllDrawn
  <1>4. ChildrenPrivate'
    BY <1>1 DEF ChildrenPrivate, HasChild
  <1>5. RotationRetiresParent'
    <2>1. ~SetsCookie(r)'
      BY DEF HasChild
    <2>2. Delivered' \subseteq Delivered
      BY <1>1, <2>1, DeliveredLemma DEF Delivered, Cookie, SetsCookie, At
    <2>3. QED
      BY <2>2 DEF RotationRetiresParent
  <1>6. QED
    BY <1>2, <1>3, <1>4, <1>5 DEF TokenInv

\* A step of slot r that draws no token and adds no nonce to the table keeps
\* what is known of nonces, if r's nonce is the one it had.
LEMMA QuietForNonces ==
    ASSUME IInv, NEW r \in Requests,
           origin' = origin, issued \subseteq issued',
           DOMAIN entries' \cap issued \subseteq DOMAIN entries,
           \A q \in Requests \ {r} : req'[q] = req[q],
           InLogin(r)' => InLogin(r) /\ req'[r].nonce = req[r].nonce
    PROVE  NonceInv'
  <1> USE DEF IInv
  <1>1. \A q \in Requests : InLogin(q)' => InLogin(q) /\ req'[q].nonce = req[q].nonce
    BY DEF InLogin
  <1>2. NoncesSpent'
    BY <1>1 DEF NoncesSpent
  <1>3. CredentialLogsInOnce'
    BY DEF CredentialLogsInOnce
  <1>4. QED
    BY <1>2, <1>3 DEF NonceInv

-----------------------------------------------------------------------------
(* Steps that store a token.                                                 *)

LEMMA DeadlineIsInt == ASSUME now \in Nat PROVE Unix(now + RefreshTTL) \in Int
  BY ClockAssumption, ServiceAssumption DEF Unix

LEMMA StoreLemma ==
    ASSUME TypeOK, NEW r \in Requests, NEW o \in Opaques,
           NEW prev \in Opaques \cup {NoToken}, NEW from \in Origin,
           req[r].user \in Users, Store(r, o, prev, from)
    PROVE  /\ DOMAIN ledger' = DOMAIN ledger \cup {o}
           /\ ledger'[o].user = req[r].user
           /\ ledger'[o].prev = prev
           /\ ~ledger'[o].revoked
           /\ \A p \in DOMAIN ledger \ {o} : ledger'[p] = ledger[p]
           /\ ledger' \in [DOMAIN ledger' -> Record]
           /\ DOMAIN origin' = DOMAIN origin \cup {o}
           /\ origin'[o] = from
           /\ \A p \in DOMAIN origin \ {o} : origin'[p] = origin[p]
           /\ origin' \in [DOMAIN origin' -> Origin]
  <1> DEFINE record == [user |-> req[r].user, expires |-> Unix(now + RefreshTTL),
                        revoked |-> FALSE, prev |-> prev]
  <1>1. record \in Record
    BY DeadlineIsInt DEF TypeOK, LedgerOK, Record
  <1>2. record.user = req[r].user /\ record.prev = prev /\ ~record.revoked
    OBVIOUS
  <1>3. ledger' = Put(ledger, o, record) /\ origin' = Put(origin, o, from)
    BY DEF Store, WithIssued
  <1> HIDE DEF record
  <1>4. /\ DOMAIN ledger' = DOMAIN ledger \cup {o}
        /\ ledger'[o] = record
        /\ \A p \in DOMAIN ledger \ {o} : ledger'[p] = ledger[p]
        /\ ledger' \in [DOMAIN ledger' -> Record]
    BY <1>1, <1>3 DEF Put, TypeOK, LedgerOK
  <1>5. /\ DOMAIN origin' = DOMAIN origin \cup {o}
        /\ origin'[o] = from
        /\ \A p \in DOMAIN origin \ {o} : origin'[p] = origin[p]
        /\ origin' \in [DOMAIN origin' -> Origin]
    BY <1>3 DEF Put, TypeOK
  <1>6. QED
    BY <1>2, <1>4, <1>5

\* A step of slot r that stores a fresh token o keeps what is known of tokens,
\* if it delivers o only as the first of a chain.
LEMMA StoreForTokens ==
    ASSUME IInv, NEW r \in Requests, NEW o \in Opaques, Fresh(o),
           NEW prev \in Opaques \cup {NoToken}, NEW from \in Origin,
           req[r].user \in Users, Store(r, o, prev, from),
           held' = held,
           req' \in [Requests -> Slot],
           \A q \in Requests \ {r} : req'[q] = req[q],
           ~InLogin(r)',
           req'[r].user = req[r].user,
           UsesToken(r)' => /\ req'[r].token \in held \cap DOMAIN ledger
                            /\ At(r, "revoke")' => req'[r].child = NoToken,
           HasChild(r)' => req'[r].child = o,
           At(r, "retire")' => prev = req'[r].token,
           SetsCookie(r)' => prev = NoToken
    PROVE  TokenInv'
  <1> USE DEF IInv
  <1>1. \A q \in Requests \ {r} :
            /\ InLogin(q)' <=> InLogin(q)
            /\ HasUser(q)' <=> HasUser(q)
            /\ UsesToken(q)' <=> UsesToken(q)
            /\ SetsCookie(q)' <=> SetsCookie(q)
            /\ HasChild(q)' <=> HasChild(q)
            /\ At(q, "retire")' <=> At(q, "retire")
            /\ At(q, "revoke")' <=> At(q, "revoke")
    BY DEF InLogin, HasUser, UsesToken, SetsCookie, HasChild, At
  <1>2. /\ DOMAIN ledger' = DOMAIN ledger \cup {o}
        /\ ledger'[o].user = req[r].user /\ ledger'[o].prev = prev
        /\ ~ledger'[o].revoked
        /\ \A p \in DOMAIN ledger \ {o} : ledger'[p] = ledger[p]
        /\ DOMAIN origin' = DOMAIN origin \cup {o}
    BY StoreLemma
  <1>3. o \notin DOMAIN ledger /\ o \notin held
    BY DEF AllDrawn, Fresh
  <1>4. SlotsOK'
    BY <1>1, <1>2 DEF SlotsOK
  <1>5. AllDrawn'
    BY <1>2 DEF AllDrawn
  <1>6. \A q \in Requests \ {r} : HasChild(q) => req[q].child # o
    BY <1>3 DEF ChildrenPrivate
  <1>7. ChildrenPrivate'
    <2>1. \A q \in Requests \ {r} :
              /\ HasChild(q)' =>
                     /\ req'[q].child \in DOMAIN ledger' \ held'
                     /\ ~ledger'[req'[q].child].revoked
                     /\ ledger'[req'[q].child].user = req'[q].user
              /\ At(q, "retire")' => ledger'[req'[q].child].prev = req'[q].token
      BY <1>1, <1>2, <1>3, <1>6 DEF ChildrenPrivate, HasChild
    <2>2. /\ HasChild(r)' =>
                 /\ req'[r].child \in DOMAIN ledger' \ held'
                 /\ ~ledger'[req'[r].child].revoked
                 /\ ledger'[req'[r].child].user = req'[r].user
          /\ At(r, "retire")' => ledger'[req'[r].child].prev = req'[r].token
      BY <1>2, <1>3 DEF HasChild
    <2>3. \A p, q \in Requests :
              p # q /\ HasChild(p)' /\ HasChild(q)'
                  => req'[p].child # req'[q].child
      BY <1>1, <1>6 DEF ChildrenPrivate
    <2>4. QED
      BY <2>1, <2>2, <2>3 DEF ChildrenPrivate
  <1>8. RotationRetiresParent'
    <2>1. \A p \in Delivered' : p \in Delivered \/ p = o
      BY <1>1, DeliveredLemma DEF Delivered, Cookie, SetsCookie, HasChild, At
    <2>2. o \in Delivered' => prev = NoToken
      BY <1>1, <1>3, <1>6, DeliveredLemma
         DEF Delivered, Cookie, SetsCookie, HasChild, At
    <2>3. QED
      BY <1>2, <1>3, <2>1, <2>2 DEF RotationRetiresParent
  <1>9. QED
    BY <1>4, <1>5, <1>7, <1>8 DEF TokenInv

\* A token stored in a login under way, for its nonce, or in a refresh, for
\* the login of its predecessor, starts no second chain from a nonce.
LEMMA StoreForNonces ==
    ASSUME IInv, NEW r \in Requests, NEW o \in Opaques, Fresh(o),
           NEW from \in Origin,
           DOMAIN origin' = DOMAIN origin \cup {o},
           origin'[o] = from,
           \A p \in DOMAIN origin \ {o} : origin'[p] = origin[p],
           issued' = issued, entries' = entries,
           \A q \in Requests \ {r} : req'[q] = req[q],
           ~InLogin(r)',
           \/ InLogin(r) /\ from = [root |-> o, nonce |-> req[r].nonce]
           \/ \E p \in DOMAIN origin : from = origin[p] /\ ~InLogin(r)
    PROVE  NonceInv'
  <1> USE DEF IInv, Fresh
  <1>1. \A q \in Requests \ {r} : InLogin(q)' <=> InLogin(q)
    BY DEF InLogin
  <1>2. CASE InLogin(r) /\ from = [root |-> o, nonce |-> req[r].nonce]
    <2>1. from.root = o /\ from.nonce = req[r].nonce
      BY <1>2
    <2>2. NoncesSpent'
      BY <1>1, <1>2, <2>1 DEF NoncesSpent
    <2>3. \A p \in DOMAIN origin : origin[p].nonce # from.nonce
      BY <1>2, <2>1 DEF NoncesSpent
    <2>4. CredentialLogsInOnce'
      BY <2>3 DEF CredentialLogsInOnce
    <2>5. QED
      BY <2>2, <2>4 DEF NonceInv
  <1>3. ASSUME NEW p \in DOMAIN origin, from = origin[p], ~InLogin(r)
        PROVE  NonceInv'
    <2>1. NoncesSpent'
      BY <1>1, <1>3 DEF NoncesSpent
    <2>2. CredentialLogsInOnce'
      BY <1>3 DEF CredentialLogsInOnce
    <2>3. QED
      BY <2>1, <2>2 DEF NonceInv
  <1>4. QED
    BY <1>2, <1>3

-----------------------------------------------------------------------------
(* Steps that revoke a token.                                                *)

LEMMA RevokeLemma ==
    ASSUME TypeOK, NEW o, ledger' \in {ledger, WithRevoked(o)}
    PROVE  /\ DOMAIN ledger' = DOMAIN ledger
           /\ ledger' \in [DOMAIN ledger' -> Record]
           /\ \A p \in DOMAIN ledger :
                  /\ ledger'[p].user = ledger[p].user
                  /\ ledger'[p].prev = ledger[p].prev
                  /\ ledger[p].revoked => ledger'[p].revoked
                  /\ p # o => ledger'[p] = ledger[p]
           /\ ledger' = WithRevoked(o) /\ o \in DOMAIN ledger
                  => ledger'[o].revoked
  <1>1. CASE ledger' = ledger /\ ledger' # WithRevoked(o)
    BY <1>1 DEF TypeOK, LedgerOK
  <1>2. CASE o \notin DOMAIN ledger
    BY <1>2 DEF TypeOK, LedgerOK, WithRevoked
  <1>3. CASE o \in DOMAIN ledger /\ ledger' = WithRevoked(o)
    <2> DEFINE record == [ledger[o] EXCEPT !.revoked = TRUE]
    <2>1. ledger[o] \in Record
      BY <1>3 DEF TypeOK, LedgerOK
    <2>2. /\ record \in Record /\ record.revoked
          /\ record.user = ledger[o].user /\ record.prev = ledger[o].prev
      BY <2>1 DEF Record
    <2>3. ledger' = [ledger EXCEPT ![o] = record]
      BY <1>3 DEF WithRevoked
    <2> HIDE DEF record
    <2>4. /\ ledger' = [p \in DOMAIN ledger |->
                          IF p = o THEN record ELSE ledger[p]]
          /\ ledger' \in [DOMAIN ledger -> Record]
      BY <2>2, <2>3 DEF TypeOK, LedgerOK
    <2>5. QED
      BY <1>3, <2>2, <2>4
  <1>4. QED
    BY <1>1, <1>2, <1>3

\* A step of slot r that may revoke the token o the handler was sent keeps
\* what is known of tokens, if it delivers a successor of o only once o is dead.
LEMMA RevokeForTokens ==
    ASSUME IInv, NEW r \in Requests, UsesToken(r),
           ledger' \in {ledger, WithRevoked(req[r].token)},
           held' = held, origin' = origin,
           req' \in [Requests -> Slot],
           \A q \in Requests \ {r} : req'[q] = req[q],
           At(r, "answered")',
           req'[r].token = req[r].token, req'[r].child = req[r].child,
           req'[r].user = req[r].user,
           SetsCookie(r)' => /\ At(r, "retire")
                             /\ ledger' = WithRevoked(req[r].token)
    PROVE  TokenInv'
  <1> USE DEF IInv
  <1> DEFINE o == req[r].token
  <1>1. \A q \in Requests \ {r} :
            /\ InLogin(q)' <=> InLogin(q)
            /\ HasUser(q)' <=> HasUser(q)
            /\ UsesToken(q)' <=> UsesToken(q)
            /\ SetsCookie(q)' <=> SetsCookie(q)
            /\ HasChild(q)' <=> HasChild(q)
            /\ At(q, "retire")' <=> At(q, "retire")
            /\ At(q, "revoke")' <=> At(q, "revoke")
    BY DEF InLogin, HasUser, UsesToken, SetsCookie, HasChild, At
  <1>2. /\ ~InLogin(r)' /\ ~HasUser(r)' /\ ~UsesToken(r)' /\ ~At(r, "retire")'
        /\ HasChild(r)' => SetsCookie(r)' /\ HasChild(r)
    BY DEF InLogin, HasUser, UsesToken, HasChild, At
  <1>3. o \in held /\ o \in DOMAIN ledger
    BY DEF SlotsOK
  <1>4. /\ DOMAIN ledger' = DOMAIN ledger
        /\ \A p \in DOMAIN ledger :
               /\ ledger'[p].user = ledger[p].user
               /\ ledger'[p].prev = ledger[p].prev
               /\ ledger[p].revoked => ledger'[p].revoked
               /\ p # o => ledger'[p] = ledger[p]
        /\ SetsCookie(r)' => ledger'[o].revoked
    BY <1>3, RevokeLemma
  <1>5. SlotsOK'
    BY <1>1, <1>2, <1>4 DEF SlotsOK
  <1>6. AllDrawn'
    BY <1>4 DEF AllDrawn
  <1>7. ChildrenPrivate'
    <2>1. \A q \in Requests : HasChild(q)' =>
              /\ HasChild(q) /\ req'[q].child = req[q].child
              /\ req'[q].user = req[q].user
      BY <1>1, <1>2
    <2>2. \A q \in Requests : HasChild(q) => req[q].child # o
      BY <1>3 DEF ChildrenPrivate
    <2>3. QED
      BY <1>1, <1>2, <1>4, <2>1, <2>2 DEF ChildrenPrivate, HasChild
  <1>8. RotationRetiresParent'
    <2>1. ASSUME NEW p \in Delivered', p \notin Delivered
          PROVE  SetsCookie(r)' /\ p = req[r].child
      BY <1>1, <2>1 DEF Delivered, Cookie, SetsCookie, At
    <2>2. SetsCookie(r)' => ledger[req[r].child].prev = o
      BY DEF ChildrenPrivate
    <2>3. QED
      BY <1>3, <1>4, <2>1, <2>2 DEF RotationRetiresParent
  <1>9. QED
    BY <1>5, <1>6, <1>7, <1>8 DEF TokenInv

-----------------------------------------------------------------------------
(* The steps of the handlers, one lemma for each.                            *)

\* A step of slot r that touches no token, no clock and no nonce.
Quiet(r) == /\ UNCHANGED <<now, ledger, entries, issued, held, origin, crashes>>
            /\ known' \subseteq Users
            /\ req' \in [Requests -> Slot]
            /\ \A q \in Requests \ {r} : req'[q] = req[q]

LEMMA QuietStep ==
    ASSUME IInv, NEW r \in Requests, Quiet(r),
           InLogin(r)' => InLogin(r) /\ req'[r].nonce = req[r].nonce,
           HasUser(r)' => req'[r].user \in Users,
           UsesToken(r)' => /\ req'[r].token \in held \cap DOMAIN ledger
                            /\ At(r, "revoke")' => req'[r].child = NoToken,
           ~HasChild(r)'
    PROVE  IInv'
  <1>1. TypeOK'
    BY DEF IInv, TypeOK, LedgerOK, Quiet
  <1>2. InLogin(r)' => req'[r].nonce \in Nonces
    BY DEF IInv, SlotsOK
  <1>3. TokenInv'
    BY <1>2, QuietForTokens DEF Quiet
  <1>4. NonceInv'
    BY QuietForNonces DEF Quiet
  <1>5. QED
    BY <1>1, <1>3, <1>4 DEF IInv, TokenInv, NonceInv

\* A handler that answers without a cookie.
LEMMA QuietAnswer ==
    ASSUME IInv, NEW r \in Requests, Quiet(r), At(r, "answered")',
           req'[r].child = NoToken \/ req'[r].status \notin {200, 204}
    PROVE  IInv'
  <1>1. ~InLogin(r)' /\ ~HasUser(r)' /\ ~UsesToken(r)' /\ ~HasChild(r)'
    BY DEF InLogin, HasUser, UsesToken, HasChild, SetsCookie, At
  <1>2. QED
    BY <1>1, QuietStep

LEMMA AnswersAtOnce ==
    ASSUME IInv, NEW r \in Requests,
           NEW kind \in {"login", "refresh", "logout"},
           NEW token \in Opaques \cup {NoToken}, NEW status \in Statuses,
           AnswerAtOnce(r, kind, token, status),
           UNCHANGED <<now, ledger, entries, issued, known, held, origin, crashes>>
    PROVE  IInv'
  <1>1. /\ req' \in [Requests -> Slot]
        /\ req'[r].at = "answered" /\ req'[r].child = NoToken
        /\ \A q \in Requests \ {r} : req'[q] = req[q]
    BY AnswerAtOnceLemma DEF IInv
  <1>2. Quiet(r)
    BY <1>1 DEF Quiet, IInv, TypeOK
  <1>3. QED
    BY <1>1, <1>2, QuietAnswer DEF At

LEMMA AnswersError ==
    ASSUME IInv, NEW r \in Requests, NEW status \in {401, 500},
           Answer(r, status),
           UNCHANGED <<now, ledger, entries, issued, known, held, origin, crashes>>
    PROVE  IInv'
  <1>1. /\ req' \in [Requests -> Slot]
        /\ req'[r].at = "answered" /\ req'[r].status = status
        /\ \A q \in Requests \ {r} : req'[q] = req[q]
    BY AnswerLemma DEF IInv, Statuses
  <1>2. Quiet(r)
    BY <1>1 DEF Quiet, IInv, TypeOK
  <1>3. QED
    BY <1>1, <1>2, QuietAnswer DEF At

LEMMA NonceIssueStep ==
    ASSUME IInv, NEW n \in Nonces, NonceIssue(n)
    PROVE  IInv'
  <1> USE DEF IInv
  <1>1. /\ n \notin issued /\ issued' = issued \cup {n}
        /\ entries' = AfterIssue(n)
        /\ UNCHANGED <<now, ledger, known, req, held, origin, crashes>>
    BY DEF NonceIssue
  <1>2. DOMAIN entries' \subseteq DOMAIN entries \cup {n}
    BY <1>1 DEF AfterIssue, PurgeExpired, Put, Restrict
  <1>3. TypeOK'
    BY <1>1, <1>2 DEF TypeOK, LedgerOK
  <1>4. NoncesSpent'
    BY <1>1, <1>2 DEF NoncesSpent, InLogin, TypeOK
  <1>5. SlotsOK' /\ AllDrawn' /\ ChildrenPrivate'
    BY <1>1 DEF SlotsOK, AllDrawn, ChildrenPrivate, InLogin, HasUser, UsesToken,
                HasChild, SetsCookie, At
  <1>6. RotationRetiresParent' /\ CredentialLogsInOnce'
    BY <1>1 DEF RotationRetiresParent, CredentialLogsInOnce, Delivered, Cookie, At
  <1>7. QED
    BY <1>3, <1>4, <1>5, <1>6

LEMMA LoginConsumeStep ==
    ASSUME IInv, NEW r \in Requests, NEW n \in Nonces, LoginConsume(r, n)
    PROVE  IInv'
  <1> USE DEF IInv
  <1>1. /\ At(r, "idle")
        /\ entries' = AfterConsume(n)
        /\ UNCHANGED <<now, ledger, issued, known, held, origin, crashes>>
    BY DEF LoginConsume
  <1>2. DOMAIN entries' \subseteq DOMAIN entries \ {n}
    BY <1>1 DEF AfterConsume, PurgeExpired, Delete, Restrict
  <1>3. ASSUME req' \in [Requests -> Slot],
               \A q \in Requests \ {r} : req'[q] = req[q],
               ~HasUser(r)', ~UsesToken(r)', ~HasChild(r)',
               InLogin(r)' => req'[r].nonce = n /\ n \in DOMAIN entries
        PROVE  IInv'
    <2>1. TypeOK'
      BY <1>1, <1>2, <1>3 DEF TypeOK, LedgerOK
    <2>2. TokenInv'
      BY <1>1, <1>3, QuietForTokens
    <2>3. \A q \in Requests \ {r} :
              /\ InLogin(q)' <=> InLogin(q)
              /\ InLogin(q) => req'[q].nonce = req[q].nonce
      BY <1>3 DEF InLogin
    <2>4. NoncesSpent'
      BY <1>1, <1>2, <1>3, <2>3 DEF NoncesSpent, TypeOK
    <2>5. CredentialLogsInOnce'
      BY <1>1 DEF CredentialLogsInOnce
    <2>6. QED
      BY <2>1, <2>2, <2>4, <2>5 DEF TokenInv
  <1>4. CASE \E status \in {400, 401} : AnswerAtOnce(r, "login", NoToken, status)
    <2>1. /\ req' \in [Requests -> Slot]
          /\ req'[r].at = "answered" /\ req'[r].child = NoToken
          /\ \A q \in Requests \ {r} : req'[q] = req[q]
      BY <1>4, AnswerAtOnceLemma DEF Statuses
    <2>2. ~InLogin(r)' /\ ~HasUser(r)' /\ ~UsesToken(r)' /\ ~HasChild(r)'
      BY <2>1 DEF InLogin, HasUser, UsesToken, HasChild, SetsCookie, At
    <2>3. QED
      BY <1>3, <2>1, <2>2
  <1>5. CASE /\ Verdict(n) = "ok"
             /\ Goto(r, [IdleSlot EXCEPT !.kind = "login", !.at = "verify",
                                         !.nonce = n])
    <2> DEFINE slot == [IdleSlot EXCEPT !.kind = "login", !.at = "verify",
                                        !.nonce = n]
    <2>1. slot \in Slot
      <3>1. "login" \in Kinds /\ "verify" \in Labels
        BY DEF Kinds, Labels
      <3>2. QED
        BY <3>1, IdleIsSlot DEF Slot
    <2>2. slot.at = "verify" /\ slot.nonce = n
      BY DEF IdleSlot
    <2>3. Goto(r, slot)
      BY <1>5
    <2> HIDE DEF slot
    <2>4. /\ req' \in [Requests -> Slot] /\ req'[r] = slot
          /\ \A q \in Requests \ {r} : req'[q] = req[q]
      BY <2>1, <2>3, GotoLemma
    <2>5. n \in DOMAIN entries
      BY <1>5 DEF Verdict
    <2>6. ~HasUser(r)' /\ ~UsesToken(r)' /\ ~HasChild(r)'
      BY <2>2, <2>4 DEF HasUser, UsesToken, HasChild, SetsCookie, At
    <2>7. QED
      BY <1>3, <2>2, <2>4, <2>5, <2>6
  <1>6. QED
    BY <1>4, <1>5 DEF LoginConsume

\* A handler that goes on to its next call with the values it has.
LEMMA MoveLemma ==
    ASSUME TypeOK, NEW r \in Requests, NEW label \in Labels,
           Goto(r, [req[r] EXCEPT !.at = label])
    PROVE  /\ req' \in [Requests -> Slot]
           /\ req'[r].at = label
           /\ req'[r].token = req[r].token /\ req'[r].child = req[r].child
           /\ req'[r].user = req[r].user /\ req'[r].nonce = req[r].nonce
           /\ \A q \in Requests \ {r} : req'[q] = req[q]
  <1> DEFINE slot == [req[r] EXCEPT !.at = label]
  <1>1. /\ slot \in Slot /\ slot.at = label
        /\ slot.token = req[r].token /\ slot.child = req[r].child
        /\ slot.user = req[r].user /\ slot.nonce = req[r].nonce
    BY DEF TypeOK, Slot
  <1>2. Goto(r, slot)
    OBVIOUS
  <1> HIDE DEF slot
  <1>3. QED
    BY <1>1, <1>2, GotoLemma

LEMMA LoginVerifyStep ==
    ASSUME IInv, NEW r \in Requests, NEW credential \in Credentials,
           LoginVerify(r, credential)
    PROVE  IInv'
  <1>1. /\ At(r, "verify")
        /\ UNCHANGED <<now, ledger, entries, issued, known, held, origin, crashes>>
    BY DEF LoginVerify
  <1>2. CASE Answer(r, 401) \/ Answer(r, 500)
    BY <1>1, <1>2, AnswersError
  <1>3. CASE /\ Accepts(credential, req[r].nonce)
             /\ Goto(r, [req[r] EXCEPT !.at = "upsert",
                                       !.user = credential.user,
                                       !.nonce = credential.nonce])
    <2> DEFINE slot == [req[r] EXCEPT !.at = "upsert",
                                      !.user = credential.user,
                                      !.nonce = credential.nonce]
    <2>1. /\ credential.user \in Users
          /\ credential.nonce = req[r].nonce
      BY <1>3 DEF Credentials, Accepts
    <2>2. req[r] \in Slot /\ "upsert" \in Labels
      BY DEF IInv, TypeOK, Labels
    <2>3. /\ slot \in Slot /\ slot.at = "upsert"
          /\ slot.user = credential.user /\ slot.nonce = credential.nonce
      BY <2>1, <2>2 DEF Slot
    <2>4. Goto(r, slot)
      BY <1>3
    <2> HIDE DEF slot
    <2>5. /\ req' \in [Requests -> Slot] /\ req'[r] = slot
          /\ \A q \in Requests \ {r} : req'[q] = req[q]
      BY <2>3, <2>4, GotoLemma DEF IInv
    <2>6. Quiet(r)
      BY <1>1, <2>5 DEF Quiet, IInv, TypeOK
    <2>7. InLogin(r) /\ ~UsesToken(r)' /\ ~HasChild(r)'
      BY <1>1, <2>3, <2>5 DEF InLogin, UsesToken, HasChild, SetsCookie, At
    <2>8. QED
      BY <2>1, <2>3, <2>5, <2>6, <2>7, QuietStep
  <1>4. QED
    BY <1>2, <1>3 DEF LoginVerify

LEMMA LoginUpsertStep ==
    ASSUME IInv, NEW r \in Requests, LoginUpsertBegin(r) \/ LoginUpsertEnd(r)
    PROVE  IInv'
  <1>1. PICK label \in {"writing", "issue"} :
            /\ req[r].at \in {"upsert", "writing"}
            /\ Goto(r, [req[r] EXCEPT !.at = label])
            /\ known' \in {known, known \cup {req[r].user}}
            /\ UNCHANGED <<now, ledger, entries, issued, held, origin, crashes>>
    BY DEF LoginUpsertBegin, LoginUpsertEnd, At
  <1>2. label \in Labels
    BY DEF Labels
  <1>3. /\ req' \in [Requests -> Slot]
        /\ req'[r].at = label
        /\ req'[r].user = req[r].user /\ req'[r].nonce = req[r].nonce
        /\ \A q \in Requests \ {r} : req'[q] = req[q]
    BY <1>1, <1>2, MoveLemma DEF IInv
  <1>4. HasUser(r) /\ InLogin(r) /\ req[r].user \in Users
    BY <1>1 DEF HasUser, InLogin, IInv, SlotsOK
  <1>5. ~UsesToken(r)' /\ ~HasChild(r)'
    BY <1>3 DEF UsesToken, HasChild, SetsCookie, At
  <1>6. Quiet(r)
    BY <1>1, <1>3, <1>4 DEF Quiet, IInv, TypeOK
  <1>7. QED
    BY <1>3, <1>4, <1>5, <1>6, QuietStep

LEMMA RefreshProfileStep ==
    ASSUME IInv, NEW r \in Requests, RefreshProfile(r)
    PROVE  IInv'
  <1>1. /\ At(r, "profile")
        /\ UNCHANGED <<now, ledger, entries, issued, known, held, origin, crashes>>
        /\ Answer(r, 401) \/ Goto(r, [req[r] EXCEPT !.at = "rotate"])
    BY DEF RefreshProfile
  <1>2. CASE Answer(r, 401)
    BY <1>1, <1>2, AnswersError
  <1>3. CASE Goto(r, [req[r] EXCEPT !.at = "rotate"])
    <2>1. "rotate" \in Labels
      BY DEF Labels
    <2>2. /\ req' \in [Requests -> Slot]
          /\ req'[r].at = "rotate"
          /\ req'[r].user = req[r].user /\ req'[r].token = req[r].token
          /\ \A q \in Requests \ {r} : req'[q] = req[q]
      BY <1>3, <2>1, MoveLemma DEF IInv
    <2>3. req[r].user \in Users /\ req[r].token \in held \cap DOMAIN ledger
      BY <1>1 DEF At, HasUser, UsesToken, IInv, SlotsOK
    <2>4. ~InLogin(r)' /\ ~HasChild(r)' /\ ~At(r, "revoke")'
      BY <2>2 DEF InLogin, HasChild, SetsCookie, At
    <2>5. Quiet(r)
      BY <1>1, <2>2 DEF Quiet, IInv, TypeOK
    <2>6. QED
      BY <2>2, <2>3, <2>4, <2>5, QuietStep
  <1>4. QED
    BY <1>1, <1>2, <1>3

\* The first step of a refresh or a logout with a cookie: either answers, or
\* goes on with a token that is in the store and with a client.
LEMMA ValidateStep ==
    ASSUME IInv, NEW r \in Requests, NEW o \in held,
           RefreshValidate(r, o) \/ LogoutValidate(r, o)
    PROVE  IInv'
  <1>1. /\ o \in Opaques
        /\ UNCHANGED <<now, ledger, entries, issued, known, held, origin, crashes>>
    BY DEF RefreshValidate, LogoutValidate, IInv, TypeOK
  <1>2. CASE AnswerAtOnce(r, "refresh", o, 401) \/ AnswerAtOnce(r, "logout", o, 204)
    BY <1>1, <1>2, AnswersAtOnce DEF Statuses
  <1> DEFINE refreshing == [IdleSlot EXCEPT !.kind = "refresh", !.at = "profile",
                                            !.token = o, !.user = ledger[o].user]
             leaving == [IdleSlot EXCEPT !.kind = "logout", !.at = "revoke",
                                         !.token = o]
  <1>3. ASSUME ValidateVerdict(o) = "ok",
               NEW slot \in Slot, Goto(r, slot),
               slot.at \in {"profile", "revoke"}, slot.token = o,
               slot.child = NoToken,
               slot.at = "profile" => slot.user = ledger[o].user
        PROVE  IInv'
    <2>1. o \in DOMAIN ledger
      BY <1>3 DEF ValidateVerdict
    <2>2. ledger[o].user \in Users
      BY <2>1 DEF IInv, TypeOK, LedgerOK, Record
    <2>3. /\ req' \in [Requests -> Slot] /\ req'[r] = slot
          /\ \A q \in Requests \ {r} : req'[q] = req[q]
      BY <1>3, GotoLemma DEF IInv
    <2>4. /\ ~InLogin(r)' /\ ~HasChild(r)'
          /\ HasUser(r)' => req'[r].user \in Users
          /\ req'[r].token = o /\ req'[r].child = NoToken
      BY <1>3, <2>2, <2>3 DEF InLogin, HasUser, HasChild, SetsCookie, At
    <2>5. Quiet(r)
      BY <1>1, <2>3 DEF Quiet, IInv, TypeOK
    <2>6. QED
      BY <1>3, <2>1, <2>3, <2>4, <2>5, QuietStep
  <1>4. CASE ValidateVerdict(o) = "ok" /\ Goto(r, refreshing)
    <2>1. ledger[o].user \in Users
      BY <1>4 DEF ValidateVerdict, IInv, TypeOK, LedgerOK, Record
    <2>2. "refresh" \in Kinds /\ "profile" \in Labels
      BY DEF Kinds, Labels
    <2>3. refreshing \in Slot
      BY <1>1, <2>1, <2>2, IdleIsSlot DEF Slot
    <2>4. /\ refreshing.at = "profile" /\ refreshing.token = o
          /\ refreshing.child = NoToken
          /\ refreshing.user = ledger[o].user
      BY DEF IdleSlot
    <2>5. QED
      BY <1>3, <1>4, <2>3, <2>4
  <1>5. CASE ValidateVerdict(o) = "ok" /\ Goto(r, leaving)
    <2>1. "logout" \in Kinds /\ "revoke" \in Labels
      BY DEF Kinds, Labels
    <2>2. leaving \in Slot
      BY <1>1, <2>1, IdleIsSlot DEF Slot
    <2>3. /\ leaving.at = "revoke" /\ leaving.token = o
          /\ leaving.child = NoToken
      BY DEF IdleSlot
    <2>4. QED
      BY <1>3, <1>5, <2>2, <2>3
  <1>6. QED
    BY <1>2, <1>4, <1>5 DEF RefreshValidate, LogoutValidate

\* The steps that store a token: a login's first, or a refresh's successor.
LEMMA LoginIssueStep ==
    ASSUME IInv, NEW r \in Requests, NEW o \in Opaques, LoginIssue(r, o)
    PROVE  IInv'
  <1> DEFINE from == [root |-> o, nonce |-> req[r].nonce]
             served == [req[r] EXCEPT !.at = "answered", !.status = 200,
                                      !.child = o]
  <1>1. /\ At(r, "issue") /\ Fresh(o)
        /\ Store(r, o, NoToken, from)
        /\ Goto(r, served) \/ Answer(r, 500)
        /\ UNCHANGED <<now, entries, issued, known, held, crashes>>
    BY DEF LoginIssue
  <1>2. /\ InLogin(r) /\ req[r].nonce \in Nonces /\ req[r].user \in Users
        /\ NoToken \in Opaques \cup {NoToken} /\ from \in Origin
    BY <1>1 DEF IInv, SlotsOK, InLogin, HasUser, At, Origin
  <1>3. /\ req' \in [Requests -> Slot]
        /\ req'[r].at = "answered" /\ req'[r].user = req[r].user
        /\ req'[r].status = 500 \/ req'[r].child = o
        /\ \A q \in Requests \ {r} : req'[q] = req[q]
    <2>1. CASE Answer(r, 500)
      BY <2>1, AnswerLemma DEF IInv, Statuses
    <2>2. CASE Goto(r, served)
      <3>1. req[r] \in Slot /\ "answered" \in Labels /\ 200 \in Statuses
        BY DEF IInv, TypeOK, Labels, Statuses
      <3>2. /\ served.at = "answered"
            /\ served.user = req[r].user /\ served.child = o
        BY <3>1 DEF Slot
      <3>3. served \in Slot
        BY <3>1 DEF Slot
      <3> HIDE DEF served
      <3>4. QED
        BY <2>2, <3>2, <3>3, GotoLemma DEF IInv
    <2>3. QED
      BY <1>1, <2>1, <2>2
  <1>4. /\ ~InLogin(r)' /\ ~UsesToken(r)' /\ ~At(r, "retire")'
        /\ HasChild(r)' => req'[r].child = o
    BY <1>3 DEF InLogin, UsesToken, HasChild, SetsCookie, At
  <1> HIDE DEF from
  <1>5. TypeOK'
    BY <1>1, <1>2, <1>3, StoreLemma DEF IInv, TypeOK, LedgerOK
  <1>6. TokenInv'
    BY <1>1, <1>2, <1>3, <1>4, StoreForTokens
  <1>7. NonceInv'
    <2>1. from = [root |-> o, nonce |-> req[r].nonce]
      BY DEF from
    <2>2. /\ DOMAIN origin' = DOMAIN origin \cup {o}
          /\ origin'[o] = from
          /\ \A p \in DOMAIN origin \ {o} : origin'[p] = origin[p]
      BY <1>1, <1>2, StoreLemma DEF IInv
    <2>3. QED
      BY <1>1, <1>2, <1>3, <1>4, <2>1, <2>2, StoreForNonces
  <1>8. QED
    BY <1>5, <1>6, <1>7 DEF IInv, TokenInv, NonceInv

LEMMA RefreshIssueStep ==
    ASSUME IInv, NEW r \in Requests, NEW o \in Opaques, RefreshIssue(r, o)
    PROVE  IInv'
  <1> DEFINE parent == req[r].token
             from == origin[parent]
             turned == [req[r] EXCEPT !.at = "retire", !.child = o]
  <1>1. /\ At(r, "rotate") /\ Fresh(o)
        /\ Store(r, o, parent, from)
        /\ Goto(r, turned) \/ Answer(r, 500)
        /\ UNCHANGED <<now, entries, issued, known, held, crashes>>
    BY DEF RefreshIssue
  <1>2. /\ ~InLogin(r) /\ req[r].user \in Users
        /\ parent \in held \cap DOMAIN ledger
        /\ parent \in Opaques \cup {NoToken}
    BY <1>1 DEF IInv, TypeOK, SlotsOK, InLogin, HasUser, UsesToken, At
  <1>3. /\ parent \in DOMAIN origin /\ from \in Origin
    BY <1>2 DEF IInv, TypeOK, AllDrawn
  <1>4. /\ req' \in [Requests -> Slot]
        /\ req'[r].user = req[r].user /\ req'[r].token = parent
        /\ \/ req'[r].at = "answered" /\ req'[r].status = 500
           \/ req'[r].at = "retire" /\ req'[r].child = o
        /\ \A q \in Requests \ {r} : req'[q] = req[q]
    <2>1. CASE Answer(r, 500)
      BY <2>1, AnswerLemma DEF IInv, Statuses
    <2>2. CASE Goto(r, turned)
      <3>1. req[r] \in Slot /\ "retire" \in Labels
        BY DEF IInv, TypeOK, Labels
      <3>2. /\ turned \in Slot /\ turned.at = "retire"
            /\ turned.user = req[r].user /\ turned.child = o
            /\ turned.token = parent
        BY <3>1 DEF Slot
      <3> HIDE DEF turned
      <3>3. QED
        BY <2>2, <3>2, GotoLemma DEF IInv
    <2>3. QED
      BY <1>1, <2>1, <2>2
  <1>5. /\ ~InLogin(r)' /\ ~SetsCookie(r)' /\ ~At(r, "revoke")'
        /\ HasChild(r)' => req'[r].child = o
    BY <1>4 DEF InLogin, HasChild, SetsCookie, At
  <1> HIDE DEF parent, turned, from
  <1>6. TypeOK'
    <2>1. /\ DOMAIN ledger' = DOMAIN ledger \cup {o}
          /\ ledger' \in [DOMAIN ledger' -> Record]
          /\ DOMAIN origin' = DOMAIN origin \cup {o}
          /\ origin' \in [DOMAIN origin' -> Origin]
      BY <1>1, <1>2, <1>3, StoreLemma DEF IInv
    <2>2. QED
      BY <1>1, <1>4, <2>1 DEF IInv, TypeOK, LedgerOK
  <1>7. TokenInv'
    BY <1>1, <1>2, <1>3, <1>4, <1>5, StoreForTokens
  <1>8. NonceInv'
    <2>1. /\ DOMAIN origin' = DOMAIN origin \cup {o}
          /\ origin'[o] = from
          /\ \A p \in DOMAIN origin \ {o} : origin'[p] = origin[p]
      BY <1>1, <1>2, <1>3, StoreLemma DEF IInv
    <2>2. from = origin[parent]
      BY DEF from
    <2>3. QED
      BY <1>1, <1>2, <1>3, <1>4, <1>5, <2>1, <2>2, StoreForNonces
  <1>9. QED
    BY <1>6, <1>7, <1>8 DEF IInv, TokenInv, NonceInv

\* The steps that revoke a token: the end of a rotation, and of a logout.
LEMMA RevokeStep ==
    ASSUME IInv, NEW r \in Requests, RefreshRevoke(r) \/ LogoutRevoke(r)
    PROVE  IInv'
  <1> DEFINE o == req[r].token
  <1>1. /\ At(r, "retire") \/ At(r, "revoke")
        /\ ledger' \in {ledger, WithRevoked(o)}
        /\ UNCHANGED <<now, entries, issued, known, held, origin, crashes>>
    BY DEF RefreshRevoke, LogoutRevoke
  <1>2. PICK status \in {204, 500} :
            /\ Answer(r, status)
            /\ status = 204 /\ At(r, "retire") => ledger' = WithRevoked(o)
    BY <1>1 DEF RefreshRevoke, LogoutRevoke, At
  <1>3. /\ req' \in [Requests -> Slot]
        /\ req'[r].at = "answered" /\ req'[r].status = status
        /\ req'[r].token = o /\ req'[r].child = req[r].child
        /\ req'[r].user = req[r].user
        /\ \A q \in Requests \ {r} : req'[q] = req[q]
    BY <1>2, AnswerLemma DEF IInv, Statuses
  <1>4. UsesToken(r) /\ ~InLogin(r)'
    BY <1>1, <1>3 DEF UsesToken, InLogin, At
  <1>5. SetsCookie(r)' => At(r, "retire") /\ ledger' = WithRevoked(o)
    BY <1>1, <1>2, <1>3, <1>4 DEF SetsCookie, IInv, SlotsOK, At
  <1>6. TypeOK'
    <2>1. /\ DOMAIN ledger' = DOMAIN ledger
          /\ ledger' \in [DOMAIN ledger' -> Record]
      BY <1>1, RevokeLemma DEF IInv
    <2>2. QED
      BY <1>1, <1>3, <2>1 DEF IInv, TypeOK, LedgerOK
  <1>7. TokenInv'
    BY <1>1, <1>3, <1>4, <1>5, RevokeForTokens DEF At
  <1>8. NonceInv'
    BY <1>1, <1>3, <1>4, QuietForNonces
  <1>9. QED
    BY <1>6, <1>7, <1>8 DEF IInv, TokenInv, NonceInv

LEMMA RespondStep ==
    ASSUME IInv, NEW r \in Requests, Respond(r)
    PROVE  IInv'
  <1> USE DEF IInv
  <1>1. /\ At(r, "answered") /\ held' \in {held, held \cup Cookie(r)}
        /\ Goto(r, IdleSlot)
        /\ UNCHANGED <<now, ledger, entries, issued, known, origin, crashes>>
    BY DEF Respond
  <1>2. /\ req' \in [Requests -> Slot]
        /\ req'[r].at = "idle" /\ req'[r].child = NoToken
        /\ \A q \in Requests \ {r} : req'[q] = req[q]
    BY <1>1, IdleIsSlot, GotoLemma DEF IdleSlot
  <1>3. \A q \in Requests \ {r} :
            /\ InLogin(q)' <=> InLogin(q)
            /\ HasUser(q)' <=> HasUser(q)
            /\ UsesToken(q)' <=> UsesToken(q)
            /\ SetsCookie(q)' <=> SetsCookie(q)
            /\ HasChild(q)' <=> HasChild(q)
            /\ At(q, "retire")' <=> At(q, "retire")
            /\ At(q, "revoke")' <=> At(q, "revoke")
    BY <1>2 DEF InLogin, HasUser, UsesToken, SetsCookie, HasChild, At
  <1>4. /\ ~InLogin(r)' /\ ~HasUser(r)' /\ ~UsesToken(r)' /\ ~HasChild(r)'
        /\ ~At(r, "retire")' /\ ~SetsCookie(r)'
    BY <1>2 DEF InLogin, HasUser, UsesToken, SetsCookie, HasChild, At
  <1>5. \A o \in held' : o \in held \/ (SetsCookie(r) /\ o = req[r].child)
    <2>1. \A o \in Cookie(r) : SetsCookie(r) /\ o = req[r].child
      BY DEF Cookie, SetsCookie, At
    <2>2. CASE held' = held
      BY <2>2
    <2>3. CASE held' = held \cup Cookie(r)
      BY <2>1, <2>3
    <2>4. QED
      BY <1>1, <2>2, <2>3
  <1>6. SetsCookie(r) => HasChild(r)
    BY DEF HasChild
  <1>7. held' \subseteq Opaques /\ held \subseteq held' /\ held' \subseteq DOMAIN origin
    BY <1>1, <1>5, <1>6 DEF SlotsOK, ChildrenPrivate, AllDrawn, TypeOK
  <1>8. TypeOK'
    BY <1>1, <1>2, <1>7 DEF TypeOK, LedgerOK
  <1>9. SlotsOK'
    BY <1>1, <1>2, <1>3, <1>4, <1>7 DEF SlotsOK
  <1>10. AllDrawn'
    BY <1>1, <1>7 DEF AllDrawn
  <1>11. ChildrenPrivate'
    BY <1>1, <1>2, <1>3, <1>4, <1>5, <1>6 DEF ChildrenPrivate
  <1>12. RotationRetiresParent'
    <2>1. Delivered' \subseteq Delivered
      BY <1>2, <1>3, <1>4, <1>5, DeliveredLemma
         DEF Delivered, Cookie, SetsCookie, At
    <2>2. QED
      BY <1>1, <2>1 DEF RotationRetiresParent
  <1>13. NonceInv'
    BY <1>1, <1>2, <1>4, QuietForNonces
  <1>14. QED
    BY <1>8, <1>9, <1>10, <1>11, <1>12, <1>13 DEF NonceInv

\* When no handler runs, what the handlers must respect holds by itself.
LEMMA CrashStep ==
    ASSUME IInv, Crash
    PROVE  IInv'
  <1> USE DEF IInv
  <1>1. /\ crashes' = crashes + 1
        /\ entries' = EmptyMap /\ known' = {}
        /\ ledger' \in {ledger, EmptyMap}
        /\ req' = [r \in Requests |-> IdleSlot]
        /\ UNCHANGED <<now, issued, held, origin>>
    BY DEF Crash
  <1>2. DOMAIN EmptyMap = {} /\ EmptyMap \in [{} -> Record]
    BY DEF EmptyMap
  <1>3. /\ req' \in [Requests -> Slot]
        /\ \A r \in Requests : req'[r].at = "idle"
    BY <1>1, IdleIsSlot DEF IdleSlot
  <1>4. \A r \in Requests : /\ ~InLogin(r)' /\ ~HasUser(r)' /\ ~UsesToken(r)'
                           /\ ~HasChild(r)' /\ ~At(r, "retire")'
    BY <1>3 DEF InLogin, HasUser, UsesToken, SetsCookie, HasChild, At
  <1>5. TypeOK'
    <2>1. LedgerOK'
      <3>1. DOMAIN ledger' \subseteq Opaques /\ ledger' \in [DOMAIN ledger' -> Record]
        <4>1. CASE ledger' = ledger
          BY <4>1 DEF TypeOK, LedgerOK
        <4>2. CASE ledger' = EmptyMap
          BY <1>2, <4>2
        <4>3. QED
          BY <1>1, <4>1, <4>2
      <3>2. QED
        BY <1>1, <3>1 DEF TypeOK, LedgerOK
    <2>2. QED
      BY <1>1, <1>2, <1>3, <2>1 DEF TypeOK
  <1>6. SlotsOK' /\ ChildrenPrivate'
    BY <1>4 DEF SlotsOK, ChildrenPrivate
  <1>7. AllDrawn'
    BY <1>1, <1>2 DEF AllDrawn
  <1>8. RotationRetiresParent'
    <2>1. Delivered' = held
      BY <1>1, <1>3 DEF Delivered, Cookie, At
    <2>2. held \subseteq Delivered
      BY DEF Delivered
    <2>3. QED
      BY <1>1, <1>2, <2>1, <2>2 DEF RotationRetiresParent
  <1>9. NoncesSpent' /\ CredentialLogsInOnce'
    BY <1>1, <1>2, <1>4 DEF NoncesSpent, CredentialLogsInOnce
  <1>10. QED
    BY <1>5, <1>6, <1>7, <1>8, <1>9

LEMMA TickStep ==
    ASSUME IInv, Tick
    PROVE  IInv'
  <1> USE DEF IInv
  <1>1. /\ now \in Nat /\ now' = now + 1
        /\ UNCHANGED <<ledger, entries, issued, known, req, held, origin, crashes>>
    BY DEF Tick, Advance, TypeOK, LedgerOK
  <1>2. TypeOK'
    BY <1>1 DEF TypeOK, LedgerOK
  <1>3. SlotsOK' /\ AllDrawn' /\ ChildrenPrivate'
    BY <1>1 DEF SlotsOK, AllDrawn, ChildrenPrivate, InLogin, HasUser, UsesToken,
                HasChild, SetsCookie, At
  <1>4. RotationRetiresParent'
    BY <1>1 DEF RotationRetiresParent, Delivered, Cookie, At
  <1>5. NoncesSpent' /\ CredentialLogsInOnce'
    BY <1>1 DEF NoncesSpent, CredentialLogsInOnce, InLogin
  <1>6. QED
    BY <1>2, <1>3, <1>4, <1>5

LEMMA StutterStep ==
    ASSUME IInv, UNCHANGED vars
    PROVE  IInv'
  BY DEF vars, IInv, TypeOK, LedgerOK, SlotsOK, AllDrawn, ChildrenPrivate,
         RotationRetiresParent, NoncesSpent, CredentialLogsInOnce, Delivered,
         Cookie, InLogin, HasUser, UsesToken, HasChild, SetsCookie, At

-----------------------------------------------------------------------------
(* The theorems.                                                             *)

LEMMA InitIInv == Init => IInv
  <1> SUFFICES ASSUME Init PROVE IInv
    OBVIOUS
  <1>1. /\ now = 0 /\ ledger = EmptyMap /\ entries = EmptyMap
        /\ issued = {} /\ known = {} /\ held = {} /\ origin = EmptyMap
        /\ crashes = 0 /\ req = [r \in Requests |-> IdleSlot]
    BY DEF Init, LedgerInit
  <1>2. DOMAIN EmptyMap = {} /\ EmptyMap \in [{} -> Record]
                           /\ EmptyMap \in [{} -> Origin]
    BY DEF EmptyMap
  <1>3. /\ req \in [Requests -> Slot]
        /\ \A r \in Requests : req[r].at = "idle"
    BY <1>1, IdleIsSlot DEF IdleSlot
  <1>4. \A r \in Requests : /\ ~InLogin(r) /\ ~HasUser(r) /\ ~UsesToken(r)
                           /\ ~HasChild(r) /\ ~At(r, "retire")
    BY <1>3 DEF InLogin, HasUser, UsesToken, SetsCookie, HasChild, At
  <1>5. TypeOK
    BY <1>1, <1>2, <1>3 DEF TypeOK, LedgerOK
  <1>6. SlotsOK /\ AllDrawn /\ ChildrenPrivate
    BY <1>1, <1>2, <1>4 DEF SlotsOK, AllDrawn, ChildrenPrivate
  <1>7. RotationRetiresParent
    BY <1>1, <1>2 DEF RotationRetiresParent
  <1>8. NoncesSpent /\ CredentialLogsInOnce
    BY <1>1, <1>2, <1>4 DEF NoncesSpent, CredentialLogsInOnce
  <1>9. QED
    BY <1>5, <1>6, <1>7, <1>8 DEF IInv

\* Every step of Next, or none, keeps the invariant.
LEMMA NextIInv == IInv /\ [Next]_vars => IInv'
  <1> SUFFICES ASSUME IInv, [Next]_vars PROVE IInv'
    OBVIOUS
  <1>1. ASSUME NEW n \in Nonces, NonceIssue(n) PROVE IInv'
    BY <1>1, NonceIssueStep
  <1>2. ASSUME NEW r \in Requests, LoginStep(r) PROVE IInv'
    <2>1. ASSUME LoginMalformed(r) PROVE IInv'
      BY <2>1, AnswersAtOnce DEF LoginMalformed, Statuses
    <2>2. ASSUME NEW n \in Nonces, LoginConsume(r, n) PROVE IInv'
      BY <2>2, LoginConsumeStep
    <2>3. ASSUME NEW credential \in Credentials, LoginVerify(r, credential)
          PROVE  IInv'
      BY <2>3, LoginVerifyStep
    <2>4. ASSUME LoginUpsertBegin(r) \/ LoginUpsertEnd(r) PROVE IInv'
      BY <2>4, LoginUpsertStep
    <2>5. ASSUME NEW o \in Opaques, LoginIssue(r, o) PROVE IInv'
      BY <2>5, LoginIssueStep
    <2>6. QED
      BY <1>2, <2>1, <2>2, <2>3, <2>4, <2>5 DEF LoginStep
  <1>3. ASSUME NEW r \in Requests, RefreshStep(r) PROVE IInv'
    <2>1. ASSUME RefreshNoCookie(r) PROVE IInv'
      BY <2>1, AnswersAtOnce DEF RefreshNoCookie, Statuses
    <2>2. ASSUME NEW o \in held, RefreshValidate(r, o) PROVE IInv'
      BY <2>2, ValidateStep
    <2>3. ASSUME RefreshProfile(r) PROVE IInv'
      BY <2>3, RefreshProfileStep
    <2>4. ASSUME NEW o \in Opaques, RefreshIssue(r, o) PROVE IInv'
      BY <2>4, RefreshIssueStep
    <2>5. ASSUME RefreshRevoke(r) PROVE IInv'
      BY <2>5, RevokeStep
    <2>6. QED
      BY <1>3, <2>1, <2>2, <2>3, <2>4, <2>5 DEF RefreshStep
  <1>4. ASSUME NEW r \in Requests, LogoutStep(r) PROVE IInv'
    <2>1. ASSUME LogoutNoCookie(r) PROVE IInv'
      BY <2>1, AnswersAtOnce DEF LogoutNoCookie, Statuses
    <2>2. ASSUME NEW o \in held, LogoutValidate(r, o) PROVE IInv'
      BY <2>2, ValidateStep
    <2>3. ASSUME LogoutRevoke(r) PROVE IInv'
      BY <2>3, RevokeStep
    <2>4. QED
      BY <1>4, <2>1, <2>2, <2>3 DEF LogoutStep
  <1>5. ASSUME NEW r \in Requests, IssueFails(r) PROVE IInv'
    BY <1>5, AnswersError DEF IssueFails
  <1>6. ASSUME NEW r \in Requests, Respond(r) PROVE IInv'
    BY <1>6, RespondStep
  <1>7. CASE Crash
    BY <1>7, CrashStep
  <1>8. CASE Tick
    BY <1>8, TickStep
  <1>9. CASE UNCHANGED vars
    BY <1>9, StutterStep
  <1>10. QED
    BY <1>1, <1>2, <1>3, <1>4, <1>5, <1>6, <1>7, <1>8, <1>9 DEF Next

THEOREM Inductive == Spec => []IInv
  BY InitIInv, NextIInv, PTL DEF Spec

\* Every reachable state of the service is well typed: in particular no handler
\* goes on with a user, a nonce or a token it was not given.
THEOREM TypeCorrect == Spec => []TypeOK
  <1>1. IInv => TypeOK
    BY DEF IInv
  <1>2. QED
    BY <1>1, Inductive, PTL

\* However many refreshes, logouts, crashes, lost answers and store failures
\* there are, whoever has or is being sent a successor, its predecessor is dead.
THEOREM RotationIsSafe == Spec => []RotationRetiresParent
  <1>1. IInv => RotationRetiresParent
    BY DEF IInv
  <1>2. QED
    BY <1>1, Inductive, PTL

\* What the invariant says of the cookie of an answer, for use in each state.
LEMMA InvCookieIsGood == IInv => FreshCookieIsGood
  <1> SUFFICES ASSUME IInv, NEW r \in Requests, NEW o \in Cookie(r)
               PROVE  /\ o \in DOMAIN ledger /\ ~ledger[o].revoked
                      /\ ledger[o].user = req[r].user
    BY DEF FreshCookieIsGood
  <1>1. SetsCookie(r) /\ o = req[r].child
    BY DEF Cookie, SetsCookie
  <1>2. QED
    BY <1>1 DEF IInv, ChildrenPrivate, HasChild

\* A cookie on its way names a record that is stored, not revoked and the
\* requesting user's: nobody can revoke a token before its client has it.
THEOREM CookiesAreGood == Spec => []FreshCookieIsGood
  BY InvCookieIsGood, Inductive, PTL

\* A Google credential starts at most one chain of refresh tokens, for any
\* number of overlapping logins, replays and restarts.
THEOREM CredentialsLogInOnce == Spec => []CredentialLogsInOnce
  <1>1. IInv => CredentialLogsInOnce
    BY DEF IInv
  <1>2. QED
    BY <1>1, Inductive, PTL

-----------------------------------------------------------------------------
(* Logout, while the store answers: a second invariant on top of the first.  *)

\* What is known of a logout handler: it is about to revoke a token, or it has
\* answered and the token it was sent is one that was drawn and is dead.
LogoutDone(r) == /\ req[r].token \in DOMAIN origin \cup {NoToken}
                 /\ ~IsLive(req[r].token)

LogoutOK(r) ==
    req[r].kind = "logout" => \/ At(r, "revoke")
                              \/ At(r, "answered") /\ LogoutDone(r)

LogoutInv == \A r \in Requests : LogoutOK(r)

\* A token that was drawn and is dead stays dead in this step.
DeadStays ==
    /\ DOMAIN origin \subseteq DOMAIN origin'
    /\ \A o \in DOMAIN origin \cup {NoToken} : IsLive(o)' => IsLive(o)

\* A step of slot r that lets the dead stay dead concerns no other logout.
LEMMA LogoutFrame ==
    ASSUME LogoutInv, DeadStays, NEW r \in Requests,
           \A q \in Requests \ {r} : req'[q] = req[q],
           LogoutOK(r)'
    PROVE  LogoutInv'
  <1> SUFFICES ASSUME NEW q \in Requests \ {r} PROVE LogoutOK(q)'
    BY DEF LogoutInv
  <1>1. LogoutOK(q) /\ req'[q] = req[q]
    BY DEF LogoutInv
  <1>2. LogoutDone(q) => LogoutDone(q)'
    BY <1>1 DEF LogoutDone, DeadStays
  <1>3. QED
    BY <1>1, <1>2 DEF LogoutOK, At

LEMMA NoTokenIsDead == IInv => ~IsLive(NoToken)
  BY LedgerAssumption DEF IInv, TypeOK, LedgerOK, IsLive

LEMMA QuietDead ==
    ASSUME UNCHANGED <<now, ledger, origin>>
    PROVE  DeadStays
  BY DEF DeadStays, IsLive, Before

LEMMA StoreDead ==
    ASSUME IInv, NEW r \in Requests, NEW o \in Opaques, Fresh(o),
           NEW prev \in Opaques \cup {NoToken}, NEW from \in Origin,
           req[r].user \in Users, Store(r, o, prev, from), now' = now
    PROVE  DeadStays
  <1>1. /\ DOMAIN ledger' = DOMAIN ledger \cup {o}
        /\ \A p \in DOMAIN ledger \ {o} : ledger'[p] = ledger[p]
        /\ DOMAIN origin' = DOMAIN origin \cup {o}
    BY StoreLemma DEF IInv
  <1>2. o \notin DOMAIN origin \cup {NoToken}
    BY LedgerAssumption DEF Fresh
  <1>3. QED
    BY <1>1, <1>2 DEF DeadStays, IsLive, Before

LEMMA RevokeDead ==
    ASSUME IInv, NEW o, ledger' \in {ledger, WithRevoked(o)},
           UNCHANGED <<now, origin>>
    PROVE  DeadStays
  <1>1. CASE ledger' = ledger
    BY <1>1, QuietDead
  <1>2. CASE ledger' = WithRevoked(o) /\ o \in DOMAIN ledger
    <2>1. /\ DOMAIN ledger' = DOMAIN ledger
          /\ ledger'[o].revoked
          /\ \A p \in DOMAIN ledger : p # o => ledger'[p] = ledger[p]
      BY <1>2, RevokeLemma DEF IInv
    <2>2. QED
      BY <2>1 DEF DeadStays, IsLive, Before
  <1>3. CASE ledger' = WithRevoked(o) /\ o \notin DOMAIN ledger
    BY <1>3, QuietDead DEF WithRevoked
  <1>4. QED
    BY <1>1, <1>2, <1>3

\* Time only brings expiry nearer.
LEMMA TickDead == ASSUME IInv, Tick PROVE DeadStays
  <1>1. /\ now \in Nat /\ now' = now + 1 /\ ledger' = ledger /\ origin' = origin
    BY DEF Tick, Advance, IInv, TypeOK, LedgerOK
  <1>2. ASSUME NEW o \in DOMAIN ledger, Before(ledger[o].expires)
        PROVE  Before(ledger[o].expires)'
    <2>1. PICK deadline \in Int : deadline = ledger[o].expires * TicksPerSecond
      <3>1. ledger[o].expires \in Int /\ TicksPerSecond \in Int
        BY ClockAssumption DEF IInv, TypeOK, LedgerOK, Record
      <3>2. QED
        BY <3>1
    <2>2. deadline < now /\ deadline < now + 1
      BY <1>1, <1>2, <2>1 DEF Before
    <2>3. QED
      BY <1>1, <2>1, <2>2 DEF Before
  <1>3. QED
    BY <1>1, <1>2 DEF DeadStays, IsLive

LEMMA NoLogout == ASSUME NEW r \in Requests, req'[r].kind # "logout"
                  PROVE  LogoutOK(r)'
  BY DEF LogoutOK

\* A handler that moves on keeps its kind, and leaves the others alone.
LEMMA GotoKind ==
    ASSUME TypeOK, NEW r \in Requests, NEW slot, Goto(r, slot)
    PROVE  /\ req'[r].kind = slot.kind
           /\ \A q \in Requests \ {r} : req'[q] = req[q]
  BY DEF TypeOK, Goto

\* What a handler does to the slots, kind apart from the rest.
KeepsKind(r) == /\ \A q \in Requests \ {r} : req'[q] = req[q]
                /\ req'[r].kind = req[r].kind

StartsAs(r, kind) == /\ \A q \in Requests \ {r} : req'[q] = req[q]
                     /\ req'[r].kind = kind

LEMMA AnswerKind ==
    ASSUME TypeOK, NEW r \in Requests, NEW status \in Statuses, Answer(r, status)
    PROVE  KeepsKind(r)
  BY AnswerLemma DEF KeepsKind

LEMMA AtOnceKind ==
    ASSUME TypeOK, NEW r \in Requests, NEW kind, NEW token, NEW status,
           AnswerAtOnce(r, kind, token, status)
    PROVE  StartsAs(r, kind)
  <1> DEFINE slot == [IdleSlot EXCEPT !.kind = kind, !.at = "answered",
                                      !.token = token, !.status = status]
  <1>1. slot.kind = kind
    BY DEF IdleSlot
  <1>2. Goto(r, slot)
    BY DEF AnswerAtOnce
  <1> HIDE DEF slot
  <1>3. QED
    BY <1>1, <1>2, GotoKind DEF StartsAs

LEMMA MoveKind ==
    ASSUME TypeOK, NEW r \in Requests, NEW label,
           Goto(r, [req[r] EXCEPT !.at = label])
    PROVE  KeepsKind(r)
  <1> DEFINE slot == [req[r] EXCEPT !.at = label]
  <1>1. slot.kind = req[r].kind
    BY DEF TypeOK, Slot
  <1>2. Goto(r, slot)
    OBVIOUS
  <1> HIDE DEF slot
  <1>3. QED
    BY <1>1, <1>2, GotoKind DEF KeepsKind

LEMMA LoginKind ==
    ASSUME IInv, NEW r \in Requests, LoginStep(r)
    PROVE  \/ At(r, "idle") /\ StartsAs(r, "login")
           \/ ~At(r, "idle") /\ KeepsKind(r)
  <1> USE DEF IInv
  <1> DEFINE Goal == \/ At(r, "idle") /\ StartsAs(r, "login")
                     \/ ~At(r, "idle") /\ KeepsKind(r)
  <1>0. req[r] \in Slot
    BY DEF TypeOK
  <1>1. CASE LoginMalformed(r)
    BY <1>1, AtOnceKind DEF LoginMalformed
  <1>2. ASSUME NEW n \in Nonces, LoginConsume(r, n) PROVE Goal
    <2> DEFINE slot == [IdleSlot EXCEPT !.kind = "login", !.at = "verify",
                                        !.nonce = n]
    <2>1. slot.kind = "login"
      BY DEF IdleSlot
    <2>2. At(r, "idle")
      BY <1>2 DEF LoginConsume
    <2>3. \/ AnswerAtOnce(r, "login", NoToken, 401)
          \/ AnswerAtOnce(r, "login", NoToken, 400)
          \/ Goto(r, slot)
      BY <1>2 DEF LoginConsume
    <2> HIDE DEF slot
    <2>4. StartsAs(r, "login")
      BY <2>1, <2>3, AtOnceKind, GotoKind DEF StartsAs
    <2>5. QED
      BY <2>2, <2>4
  <1>3. ASSUME NEW credential \in Credentials, LoginVerify(r, credential)
        PROVE  Goal
    <2> DEFINE slot == [req[r] EXCEPT !.at = "upsert",
                                      !.user = credential.user,
                                      !.nonce = credential.nonce]
    <2>1. slot.kind = req[r].kind
      BY <1>0 DEF Slot
    <2>2. ~At(r, "idle")
      BY <1>3 DEF LoginVerify, At
    <2>3. Answer(r, 401) \/ Answer(r, 500) \/ Goto(r, slot)
      BY <1>3 DEF LoginVerify
    <2> HIDE DEF slot
    <2>4. KeepsKind(r)
      BY <2>1, <2>3, AnswerKind, GotoKind DEF KeepsKind, Statuses
    <2>5. QED
      BY <2>2, <2>4
  <1>4. CASE LoginUpsertBegin(r) \/ LoginUpsertEnd(r)
    <2>1. PICK label \in {"writing", "issue"} :
              Goto(r, [req[r] EXCEPT !.at = label])
      BY <1>4 DEF LoginUpsertBegin, LoginUpsertEnd
    <2>2. ~At(r, "idle")
      BY <1>4 DEF LoginUpsertBegin, LoginUpsertEnd, At
    <2>3. QED
      BY <2>1, <2>2, MoveKind DEF KeepsKind
  <1>5. ASSUME NEW o \in Opaques, LoginIssue(r, o) PROVE Goal
    <2> DEFINE slot == [req[r] EXCEPT !.at = "answered", !.status = 200,
                                      !.child = o]
    <2>1. slot.kind = req[r].kind
      BY <1>0 DEF Slot
    <2>2. ~At(r, "idle")
      BY <1>5 DEF LoginIssue, At
    <2>3. Answer(r, 500) \/ Goto(r, slot)
      BY <1>5 DEF LoginIssue
    <2> HIDE DEF slot
    <2>4. KeepsKind(r)
      BY <2>1, <2>3, AnswerKind, GotoKind DEF KeepsKind, Statuses
    <2>5. QED
      BY <2>2, <2>4
  <1>6. QED
    BY <1>1, <1>2, <1>3, <1>4, <1>5 DEF LoginStep

LEMMA RefreshKind ==
    ASSUME IInv, NEW r \in Requests, RefreshStep(r)
    PROVE  \/ At(r, "idle") /\ StartsAs(r, "refresh")
           \/ ~At(r, "idle") /\ KeepsKind(r)
  <1> USE DEF IInv
  <1> DEFINE Goal == \/ At(r, "idle") /\ StartsAs(r, "refresh")
                     \/ ~At(r, "idle") /\ KeepsKind(r)
  <1>0. req[r] \in Slot
    BY DEF TypeOK
  <1>1. CASE RefreshNoCookie(r)
    BY <1>1, AtOnceKind DEF RefreshNoCookie
  <1>2. ASSUME NEW o \in held, RefreshValidate(r, o) PROVE Goal
    <2> DEFINE slot == [IdleSlot EXCEPT !.kind = "refresh", !.at = "profile",
                                        !.token = o, !.user = ledger[o].user]
    <2>1. slot.kind = "refresh"
      BY DEF IdleSlot
    <2>2. At(r, "idle")
      BY <1>2 DEF RefreshValidate
    <2>3. AnswerAtOnce(r, "refresh", o, 401) \/ Goto(r, slot)
      BY <1>2 DEF RefreshValidate
    <2> HIDE DEF slot
    <2>4. StartsAs(r, "refresh")
      BY <2>1, <2>3, AtOnceKind, GotoKind DEF StartsAs
    <2>5. QED
      BY <2>2, <2>4
  <1>3. CASE RefreshProfile(r)
    <2>1. Answer(r, 401) \/ Goto(r, [req[r] EXCEPT !.at = "rotate"])
      BY <1>3 DEF RefreshProfile
    <2>2. ~At(r, "idle")
      BY <1>3 DEF RefreshProfile, At
    <2>3. QED
      BY <2>1, <2>2, MoveKind, AnswerKind DEF KeepsKind, Statuses
  <1>4. ASSUME NEW o \in Opaques, RefreshIssue(r, o) PROVE Goal
    <2> DEFINE slot == [req[r] EXCEPT !.at = "retire", !.child = o]
    <2>1. slot.kind = req[r].kind
      BY <1>0 DEF Slot
    <2>2. ~At(r, "idle")
      BY <1>4 DEF RefreshIssue, At
    <2>3. Answer(r, 500) \/ Goto(r, slot)
      BY <1>4 DEF RefreshIssue
    <2> HIDE DEF slot
    <2>4. KeepsKind(r)
      BY <2>1, <2>3, AnswerKind, GotoKind DEF KeepsKind, Statuses
    <2>5. QED
      BY <2>2, <2>4
  <1>5. CASE RefreshRevoke(r)
    BY <1>5, AnswerKind DEF RefreshRevoke, At, Statuses
  <1>6. QED
    BY <1>1, <1>2, <1>3, <1>4, <1>5 DEF RefreshStep

\* No step of a login or of a refresh revives a token.
LEMMA OthersDead ==
    ASSUME IInv, NEW r \in Requests, LoginStep(r) \/ RefreshStep(r)
    PROVE  DeadStays
  <1> USE DEF IInv
  <1>1. ASSUME NEW o \in Opaques, LoginIssue(r, o) PROVE DeadStays
    <2>1. /\ req[r].user \in Users /\ req[r].nonce \in Nonces
      BY <1>1 DEF LoginIssue, SlotsOK, InLogin, HasUser, At
    <2>2. [root |-> o, nonce |-> req[r].nonce] \in Origin
      BY <2>1 DEF Origin
    <2>3. QED
      BY <1>1, <2>1, <2>2, StoreDead DEF LoginIssue
  <1>2. ASSUME NEW o \in Opaques, RefreshIssue(r, o) PROVE DeadStays
    <2>1. /\ req[r].user \in Users
          /\ req[r].token \in held \cap DOMAIN ledger
      BY <1>2 DEF RefreshIssue, SlotsOK, HasUser, UsesToken, At
    <2>2. /\ req[r].token \in Opaques \cup {NoToken}
          /\ origin[req[r].token] \in Origin
      BY <2>1 DEF TypeOK, AllDrawn
    <2>3. QED
      BY <1>2, <2>1, <2>2, StoreDead DEF RefreshIssue
  <1>3. CASE RefreshRevoke(r)
    BY <1>3, RevokeDead DEF RefreshRevoke
  <1>4. CASE UNCHANGED <<now, ledger, origin>>
    BY <1>4, QuietDead
  <1>5. QED
    BY <1>1, <1>2, <1>3, <1>4
       DEF LoginStep, RefreshStep, LoginMalformed, LoginConsume, LoginVerify,
           LoginUpsertBegin, LoginUpsertEnd, RefreshNoCookie, RefreshValidate,
           RefreshProfile

\* A login or refresh handler never touches a slot that is logging out.
LEMMA OthersStep ==
    ASSUME IInv, LogoutInv, NEW r \in Requests, LoginStep(r) \/ RefreshStep(r)
    PROVE  LogoutInv'
  <1>1. DeadStays
    BY OthersDead
  <1>2. /\ \A q \in Requests \ {r} : req'[q] = req[q]
        /\ At(r, "idle") => req'[r].kind # "logout"
        /\ ~At(r, "idle") => req'[r].kind = req[r].kind
    BY LoginKind, RefreshKind DEF StartsAs, KeepsKind
  <1>3. ~At(r, "revoke") /\ ~At(r, "answered")
    BY DEF At, LoginStep, RefreshStep, LoginMalformed, LoginConsume, LoginVerify,
           LoginUpsertBegin, LoginUpsertEnd, LoginIssue, RefreshNoCookie,
           RefreshValidate, RefreshProfile, RefreshIssue, RefreshRevoke
  <1>4. req[r].kind # "logout"
    BY <1>3 DEF LogoutInv, LogoutOK
  <1>5. LogoutOK(r)'
    BY <1>2, <1>4, NoLogout
  <1>6. QED
    BY <1>1, <1>2, <1>5, LogoutFrame

LEMMA LogoutStepOK ==
    ASSUME ~StoreFails, IInv, LogoutInv, NEW r \in Requests, LogoutStep(r)
    PROVE  LogoutInv'
  <1> USE DEF IInv
  <1>1. CASE LogoutNoCookie(r)
    <2>1. DeadStays
      BY <1>1, QuietDead DEF LogoutNoCookie
    <2>2. /\ \A q \in Requests \ {r} : req'[q] = req[q]
          /\ req'[r].at = "answered" /\ req'[r].token = NoToken
      BY <1>1, AnswerAtOnceLemma DEF LogoutNoCookie, Statuses
    <2>3. LogoutOK(r)'
      BY <2>1, <2>2, NoTokenIsDead DEF LogoutOK, LogoutDone, DeadStays, At
    <2>4. QED
      BY <2>1, <2>2, <2>3, LogoutFrame
  <1>2. ASSUME NEW o \in held, LogoutValidate(r, o) PROVE LogoutInv'
    <2>1. DeadStays
      BY <1>2, QuietDead DEF LogoutValidate
    <2>2. o \in Opaques /\ o \in DOMAIN origin
      BY DEF TypeOK, AllDrawn
    <2>3. CASE AnswerAtOnce(r, "logout", o, 204) /\ ValidateVerdict(o) # "ok"
      <3>1. /\ \A q \in Requests \ {r} : req'[q] = req[q]
            /\ req'[r].at = "answered" /\ req'[r].token = o
        BY <2>2, <2>3, AnswerAtOnceLemma DEF Statuses
      <3>2. ~IsLive(o)
        BY <2>3 DEF ValidateVerdict, IsLive
      <3>3. LogoutOK(r)'
        BY <2>1, <2>2, <3>1, <3>2 DEF LogoutOK, LogoutDone, DeadStays, At
      <3>4. QED
        BY <2>1, <3>1, <3>3, LogoutFrame
    <2>4. CASE Goto(r, [IdleSlot EXCEPT !.kind = "logout", !.at = "revoke",
                                        !.token = o])
      <3>1. /\ \A q \in Requests \ {r} : req'[q] = req[q]
            /\ req'[r].at = "revoke"
        BY <2>4 DEF TypeOK, Goto, IdleSlot
      <3>2. LogoutOK(r)'
        BY <3>1 DEF LogoutOK, At
      <3>3. QED
        BY <2>1, <3>1, <3>2, LogoutFrame
    <2>5. QED
      BY <1>2, <2>3, <2>4 DEF LogoutValidate
  <1>3. CASE LogoutRevoke(r)
    <2> DEFINE o == req[r].token
    <2>1. /\ At(r, "revoke") /\ ledger' = WithRevoked(o) /\ Answer(r, 204)
          /\ UNCHANGED <<now, origin>>
      BY <1>3 DEF LogoutRevoke
    <2>2. DeadStays
      BY <2>1, RevokeDead
    <2>3. o \in DOMAIN ledger /\ o \in DOMAIN origin
      BY <2>1 DEF SlotsOK, UsesToken, AllDrawn, At
    <2>4. ledger'[o].revoked
      BY <2>1, <2>3, RevokeLemma
    <2>5. /\ \A q \in Requests \ {r} : req'[q] = req[q]
          /\ req'[r].at = "answered" /\ req'[r].token = o
      BY <2>1, AnswerLemma DEF Statuses
    <2>6. LogoutOK(r)'
      BY <2>2, <2>3, <2>4, <2>5 DEF LogoutOK, LogoutDone, IsLive, DeadStays, At
    <2>7. QED
      BY <2>2, <2>5, <2>6, LogoutFrame
  <1>4. QED
    BY <1>1, <1>2, <1>3 DEF LogoutStep

LEMMA NextLogoutInv ==
    ASSUME ~StoreFails
    PROVE  IInv /\ LogoutInv /\ [Next]_vars => LogoutInv'
  <1> SUFFICES ASSUME IInv, LogoutInv, [Next]_vars PROVE LogoutInv'
    OBVIOUS
  <1>1. ASSUME DeadStays, req' = req PROVE LogoutInv'
    BY <1>1 DEF LogoutInv, LogoutOK, LogoutDone, DeadStays, At
  <1>2. ASSUME NEW n \in Nonces, NonceIssue(n) PROVE LogoutInv'
    BY <1>1, <1>2, QuietDead DEF NonceIssue
  <1>3. ASSUME NEW r \in Requests, LoginStep(r) \/ RefreshStep(r)
        PROVE  LogoutInv'
    BY <1>3, OthersStep
  <1>4. ASSUME NEW r \in Requests, LogoutStep(r) PROVE LogoutInv'
    BY <1>4, LogoutStepOK
  <1>5. ASSUME NEW r \in Requests, IssueFails(r) PROVE LogoutInv'
    <2>1. DeadStays
      BY <1>5, QuietDead DEF IssueFails
    <2>2. req[r].kind # "logout"
      BY <1>5 DEF IssueFails, LogoutInv, LogoutOK, At
    <2>3. /\ \A q \in Requests \ {r} : req'[q] = req[q]
          /\ req'[r].kind = req[r].kind
      BY <1>5, AnswerLemma DEF IssueFails, IInv, Statuses
    <2>4. QED
      BY <2>1, <2>2, <2>3, NoLogout, LogoutFrame
  <1>6. ASSUME NEW r \in Requests, Respond(r) PROVE LogoutInv'
    <2>1. DeadStays
      BY <1>6, QuietDead DEF Respond
    <2>2. /\ \A q \in Requests \ {r} : req'[q] = req[q]
          /\ req'[r].kind = "none"
      BY <1>6, GotoKind DEF Respond, IdleSlot, IInv
    <2>3. QED
      BY <2>1, <2>2, NoLogout, LogoutFrame
  <1>7. CASE Crash
    <2>1. \A r \in Requests : req'[r].kind = "none"
      BY <1>7 DEF Crash, IdleSlot
    <2>2. QED
      BY <2>1 DEF LogoutInv, LogoutOK
  <1>8. CASE Tick
    BY <1>1, <1>8, TickDead DEF Tick
  <1>9. CASE UNCHANGED vars
    BY <1>1, <1>9, QuietDead DEF vars
  <1>10. QED
    BY <1>2, <1>3, <1>4, <1>5, <1>6, <1>7, <1>8, <1>9 DEF Next

LEMMA LogoutsInductive ==
    ASSUME ~StoreFails
    PROVE  Spec => []LogoutInv
  <1>1. Init => LogoutInv
    BY DEF Init, LogoutInv, LogoutOK, IdleSlot
  <1>2. IInv /\ LogoutInv /\ [Next]_vars => LogoutInv'
    BY NextLogoutInv
  <1>3. QED
    BY <1>1, <1>2, Inductive, PTL DEF Spec

\* While the store answers, a logout that was answered has killed the token it
\* was sent, whatever refreshes, logouts and restarts run beside it and after.
THEOREM LogoutsKill ==
    ASSUME ~StoreFails
    PROVE  Spec => []LogoutKillsToken
  <1>1. LogoutInv => LogoutKillsToken
    BY DEF LogoutInv, LogoutOK, LogoutDone, LogoutKillsToken, At
  <1>2. Spec => []LogoutInv
    BY LogoutsInductive
  <1>3. QED
    BY <1>1, <1>2, PTL

-----------------------------------------------------------------------------
(* How the handlers use the refresh store, whether or not it answers.        *)

TokenStored ==
    \E o \in Opaques \ DOMAIN origin, user \in Users,
       prev \in (held \cap DOMAIN ledger) \cup {NoToken} :
        ledger' = WithIssued(o, user, Unix(now + RefreshTTL), prev)

TokenRevoked == \E o \in held \cap DOMAIN ledger : ledger' = WithRevoked(o)

StoreLost == ~Durable /\ crashes' = crashes + 1 /\ ledger' = EmptyMap

StoreUsedAsAgreed == TokenStored \/ TokenRevoked \/ StoreLost

\* A step of a handler leaves the ledger alone or makes one call of the store.
LEMMA HandlerCalls ==
    ASSUME IInv, NEW r \in Requests,
           LoginStep(r) \/ RefreshStep(r) \/ LogoutStep(r)
    PROVE  ledger' = ledger \/ TokenStored \/ TokenRevoked
  <1> USE DEF IInv
  <1>1. ASSUME NEW o \in Opaques, LoginIssue(r, o) PROVE TokenStored
    <2>1. At(r, "issue") /\ o \notin DOMAIN origin
          /\ ledger' = WithIssued(o, req[r].user, Unix(now + RefreshTTL), NoToken)
      BY <1>1 DEF LoginIssue, Fresh, Store
    <2>2. req[r].user \in Users
      BY <2>1 DEF SlotsOK, HasUser, At
    <2>3. QED
      BY <2>1, <2>2 DEF TokenStored
  <1>2. ASSUME NEW o \in Opaques, RefreshIssue(r, o) PROVE TokenStored
    <2>1. At(r, "rotate") /\ o \notin DOMAIN origin
          /\ ledger' = WithIssued(o, req[r].user, Unix(now + RefreshTTL),
                                  req[r].token)
      BY <1>2 DEF RefreshIssue, Fresh, Store
    <2>2. req[r].user \in Users /\ req[r].token \in held \cap DOMAIN ledger
      BY <2>1 DEF SlotsOK, HasUser, UsesToken, At
    <2>3. QED
      BY <2>1, <2>2 DEF TokenStored
  <1>3. ASSUME RefreshRevoke(r) \/ LogoutRevoke(r)
        PROVE  ledger' = ledger \/ TokenRevoked
    <2>1. /\ At(r, "retire") \/ At(r, "revoke")
          /\ ledger' \in {ledger, WithRevoked(req[r].token)}
      BY <1>3 DEF RefreshRevoke, LogoutRevoke
    <2>2. req[r].token \in held \cap DOMAIN ledger
      BY <2>1 DEF SlotsOK, UsesToken, At
    <2>3. QED
      BY <2>1, <2>2 DEF TokenRevoked
  <1>4. QED
    BY <1>1, <1>2, <1>3
       DEF LoginStep, RefreshStep, LogoutStep, LoginMalformed, LoginConsume,
           LoginVerify, LoginUpsertBegin, LoginUpsertEnd, RefreshNoCookie,
           RefreshValidate, RefreshProfile, LogoutNoCookie, LogoutValidate

LEMMA StepCalls ==
    ASSUME IInv, [Next]_vars
    PROVE  ledger' = ledger \/ StoreUsedAsAgreed
  <1>1. ASSUME NEW r \in Requests,
               LoginStep(r) \/ RefreshStep(r) \/ LogoutStep(r)
        PROVE  ledger' = ledger \/ StoreUsedAsAgreed
    BY <1>1, HandlerCalls DEF StoreUsedAsAgreed
  <1>2. ASSUME NEW r \in Requests, IssueFails(r) \/ Respond(r)
        PROVE  ledger' = ledger
    BY <1>2 DEF IssueFails, Respond
  <1>3. CASE Crash
    BY <1>3 DEF Crash, StoreUsedAsAgreed, StoreLost
  <1>4. CASE (\E n \in Nonces : NonceIssue(n)) \/ Tick \/ UNCHANGED vars
    BY <1>4 DEF NonceIssue, Tick, vars
  <1>5. QED
    BY <1>1, <1>2, <1>3, <1>4 DEF Next

\* The handlers keep to what RefreshTokenStore expects of them: in one step
\* one call at most, Issue only with an opaque never drawn before, a known user
\* and the id of a stored token a client presented, or none, as the
\* predecessor; Revoke only for a stored token a client presented.  So nobody
\* revokes a token that has not left the server.
THEOREM HandlersUseContract == Spec => [][StoreUsedAsAgreed]_ledger
  <1>1. IInv /\ [Next]_vars => [StoreUsedAsAgreed]_ledger
    BY StepCalls
  <1>2. QED
    BY <1>1, Inductive, PTL DEF Spec

\* What a step makes of a token that was drawn before.
NobodyRevives ==
    \A o \in DOMAIN origin :
        /\ o \in DOMAIN origin'
        /\ o \in DOMAIN ledger' =>
               /\ o \in DOMAIN ledger
               /\ ledger'[o] \in {ledger[o], [ledger[o] EXCEPT !.revoked = TRUE]}
        /\ IsLive(o)' => IsLive(o)

LEMMA StepDead ==
    ASSUME IInv, [Next]_vars
    PROVE  DeadStays
  <1>1. ASSUME NEW r \in Requests, LoginStep(r) \/ RefreshStep(r)
        PROVE  DeadStays
    BY <1>1, OthersDead
  <1>2. ASSUME NEW r \in Requests, LogoutStep(r)
        PROVE  DeadStays
    <2>1. CASE LogoutRevoke(r)
      BY <2>1, RevokeDead DEF LogoutRevoke
    <2>2. QED
      BY <1>2, <2>1, QuietDead DEF LogoutStep, LogoutNoCookie, LogoutValidate
  <1>3. ASSUME NEW r \in Requests, IssueFails(r) \/ Respond(r)
        PROVE  DeadStays
    BY <1>3, QuietDead DEF IssueFails, Respond
  <1>4. CASE Crash
    <2>1. /\ now' = now /\ origin' = origin
          /\ ledger' = ledger \/ ledger' = EmptyMap
      BY <1>4 DEF Crash
    <2>2. QED
      BY <2>1, QuietDead DEF DeadStays, IsLive, Before, EmptyMap
  <1>5. CASE Tick
    BY <1>5, TickDead
  <1>6. CASE (\E n \in Nonces : NonceIssue(n)) \/ UNCHANGED vars
    BY <1>6, QuietDead DEF NonceIssue, vars
  <1>7. QED
    BY <1>1, <1>2, <1>3, <1>4, <1>5, <1>6 DEF Next

\* A token that was drawn is never drawn again, changes neither user nor
\* predecessor nor expiry, and once it does not validate it never will again,
\* through failing calls, ambiguous ones, crashes and restarts.
THEOREM TheDeadStayDead == Spec => [][NobodyRevives]_vars
  <1>1. ASSUME IInv, [Next]_vars PROVE NobodyRevives
    <2> SUFFICES ASSUME NEW o \in DOMAIN origin
                 PROVE  /\ o \in DOMAIN origin'
                        /\ o \in DOMAIN ledger' =>
                               /\ o \in DOMAIN ledger
                               /\ ledger'[o] \in {ledger[o],
                                       [ledger[o] EXCEPT !.revoked = TRUE]}
                        /\ IsLive(o)' => IsLive(o)
      BY DEF NobodyRevives
    <2>1. DeadStays
      BY <1>1, StepDead
    <2>2. CASE TokenStored
      <3>1. PICK p \in Opaques \ DOMAIN origin :
                \E user \in Users, prev \in (held \cap DOMAIN ledger) \cup {NoToken} :
                    ledger' = WithIssued(p, user, Unix(now + RefreshTTL), prev)
        BY <2>2 DEF TokenStored
      <3>2. p # o /\ DOMAIN ledger' = DOMAIN ledger \cup {p}
            /\ \A q \in DOMAIN ledger \ {p} : ledger'[q] = ledger[q]
        BY <3>1 DEF WithIssued, Put
      <3>3. QED
        BY <2>1, <3>2 DEF DeadStays
    <2>3. CASE TokenRevoked
      <3>1. PICK p \in DOMAIN ledger :
                ledger' = [ledger EXCEPT ![p].revoked = TRUE]
        BY <2>3 DEF TokenRevoked, WithRevoked
      <3>2. /\ DOMAIN ledger' = DOMAIN ledger
            /\ \A q \in DOMAIN ledger :
                   ledger'[q] = IF q = p THEN [ledger[q] EXCEPT !.revoked = TRUE]
                                ELSE ledger[q]
        BY <3>1
      <3>3. QED
        BY <2>1, <3>2 DEF DeadStays
    <2>4. CASE StoreLost
      BY <2>1, <2>4 DEF DeadStays, StoreLost, EmptyMap
    <2>5. CASE ledger' = ledger
      BY <2>1, <2>5 DEF DeadStays
    <2>6. QED
      BY <1>1, <2>2, <2>3, <2>4, <2>5, StepCalls DEF StoreUsedAsAgreed
  <1>2. QED
    BY <1>1, Inductive, PTL DEF Spec

-----------------------------------------------------------------------------
(* Forks, while the store answers: a third invariant on top of the first.    *)

\* The refreshes of o that are about to store a successor, and those that
\* have stored it and are about to revoke o.
Refreshing(r) == At(r, "profile") \/ At(r, "rotate")
Turning(o) == {r \in Requests : Refreshing(r) /\ req[r].token = o}
Retiring(o) == {r \in Requests : At(r, "retire") /\ req[r].token = o}

\* How many successors of one token k lives of the process can leave.
Forks(k) == Cardinality(Requests) * k

ParentsStored ==
    \A c \in DOMAIN ledger : ledger[c].prev \in DOMAIN ledger \cup {NoToken}

\* While o is not revoked, this process has stored a successor of it for each
\* refresh that is about to revoke o, and for no other.  From then on no
\* refresh of o begins, and those that had begun are all there is to come.
ForksCounted(o) ==
    /\ IsFiniteSet(Children(o))
    /\ ledger[o].revoked =>
           Cardinality(Children(o)) + Cardinality(Turning(o))
               <= Forks(crashes + 1)
    /\ ~ledger[o].revoked =>
           Cardinality(Children(o)) <= Forks(crashes) + Cardinality(Retiring(o))

ForksHeld(o) ==
    ~ledger[o].revoked =>
        \A c \in Children(o) :
            \/ Durable /\ crashes > 0
            \/ \E r \in Requests : At(r, "retire") /\ req[r].token = o
                                                   /\ req[r].child = c

ForkInv ==
    /\ ParentsStored
    /\ \A o \in DOMAIN ledger : ForksCounted(o) /\ ForksHeld(o)

LEMMA ForksGrow ==
    ASSUME IsFiniteSet(Requests), NEW k \in Nat
    PROVE  /\ Forks(k) \in Nat
           /\ Forks(k + 1) = Forks(k) + Cardinality(Requests)
  <1>1. Cardinality(Requests) \in Nat
    BY FS_CardinalityType
  <1>2. QED
    BY <1>1 DEF Forks

\* Both sets are of requests, and no request is in both.
LEMMA SlotsCounted ==
    ASSUME IsFiniteSet(Requests), NEW o
    PROVE  /\ IsFiniteSet(Turning(o)) /\ Cardinality(Turning(o)) \in Nat
           /\ IsFiniteSet(Retiring(o)) /\ Cardinality(Retiring(o)) \in Nat
           /\ Cardinality(Turning(o)) + Cardinality(Retiring(o))
                  <= Cardinality(Requests)
  <1>1. /\ Turning(o) \in SUBSET Requests /\ Retiring(o) \in SUBSET Requests
        /\ Turning(o) \cap Retiring(o) = {}
        /\ Turning(o) \cup Retiring(o) \in SUBSET Requests
    BY DEF Turning, Retiring, Refreshing, At
  <1>2. /\ IsFiniteSet(Turning(o)) /\ IsFiniteSet(Retiring(o))
        /\ Cardinality(Turning(o) \cup Retiring(o)) <= Cardinality(Requests)
    BY <1>1, FS_Subset
  <1>3. Cardinality(Turning(o) \cup Retiring(o))
            = Cardinality(Turning(o)) + Cardinality(Retiring(o))
              - Cardinality(Turning(o) \cap Retiring(o))
    BY <1>2, FS_Union
  <1>4. /\ Cardinality(Turning(o)) \in Nat /\ Cardinality(Retiring(o)) \in Nat
        /\ Cardinality(Turning(o) \cap Retiring(o)) = 0
    BY <1>1, <1>2, FS_CardinalityType, FS_EmptySet
  <1>5. QED
    BY <1>2, <1>3, <1>4

LEMMA SlotsCountedNext ==
    ASSUME IsFiniteSet(Requests), NEW o
    PROVE  /\ IsFiniteSet(Turning(o)') /\ Cardinality(Turning(o)') \in Nat
           /\ IsFiniteSet(Retiring(o)') /\ Cardinality(Retiring(o)') \in Nat
  <1>1. Turning(o)' \in SUBSET Requests /\ Retiring(o)' \in SUBSET Requests
    BY DEF Turning, Retiring
  <1>2. QED
    BY <1>1, FS_Subset, FS_CardinalityType

\* The bound ForksAreInFlight states, revoked or not.
LEMMA ForksBounded ==
    ASSUME IsFiniteSet(Requests), TypeOK, NEW o \in DOMAIN ledger, ForksCounted(o)
    PROVE  /\ Cardinality(Children(o)) \in Nat
           /\ Cardinality(Children(o)) + Cardinality(Turning(o))
                  <= Forks(crashes + 1)
  <1>1. Cardinality(Children(o)) \in Nat
    BY FS_CardinalityType DEF ForksCounted
  <1>2. crashes \in Nat
    BY DEF TypeOK
  <1>3. /\ Forks(crashes) \in Nat
        /\ Forks(crashes + 1) = Forks(crashes) + Cardinality(Requests)
    BY <1>2, ForksGrow
  <1>4. /\ Cardinality(Turning(o)) \in Nat /\ Cardinality(Retiring(o)) \in Nat
        /\ Cardinality(Turning(o)) + Cardinality(Retiring(o))
               <= Cardinality(Requests)
        /\ Cardinality(Requests) \in Nat
    BY SlotsCounted, FS_CardinalityType
  <1>5. QED
    BY <1>1, <1>3, <1>4 DEF ForksCounted

-----------------------------------------------------------------------------

\* A step that neither stores a successor of o nor revokes it.
LEMMA ForksStay ==
    ASSUME IsFiniteSet(Requests), TypeOK, NEW o \in DOMAIN ledger,
           ForksCounted(o), crashes' = crashes, Children(o)' = Children(o),
           ledger'[o].revoked <=> ledger[o].revoked,
           ledger[o].revoked => Turning(o)' \subseteq Turning(o),
           ~ledger[o].revoked => Retiring(o)' = Retiring(o)
    PROVE  ForksCounted(o)'
  <1>1. IsFiniteSet(Children(o)')
    BY DEF ForksCounted
  <1>2. CASE ledger[o].revoked
    <2>1. Cardinality(Turning(o)') <= Cardinality(Turning(o))
      BY <1>2, SlotsCounted, FS_Subset
    <2>2. /\ Cardinality(Turning(o)) \in Nat /\ Cardinality(Turning(o)') \in Nat
          /\ Cardinality(Children(o)) \in Nat
      BY SlotsCounted, SlotsCountedNext, FS_CardinalityType DEF ForksCounted
    <2>3. /\ Forks(crashes + 1)' = Forks(crashes + 1)
          /\ Forks(crashes + 1) \in Nat
      <3>1. crashes + 1 \in Nat
        BY DEF TypeOK
      <3>2. QED
        BY <3>1, ForksGrow DEF Forks
    <2>4. Cardinality(Children(o)) + Cardinality(Turning(o))
              <= Forks(crashes + 1)
      BY <1>2 DEF ForksCounted
    <2>5. QED
      BY <1>1, <1>2, <2>1, <2>2, <2>3, <2>4 DEF ForksCounted
  <1>3. CASE ~ledger[o].revoked
    <2>1. Forks(crashes)' = Forks(crashes)
      BY DEF Forks
    <2>2. QED
      BY <1>1, <1>3, <2>1 DEF ForksCounted
  <1>4. QED
    BY <1>2, <1>3

\* A step of slot r outside a rotation.
KeepsForks(r) ==
    /\ UNCHANGED <<ledger, crashes>>
    /\ \A q \in Requests \ {r} : req'[q] = req[q]
    /\ ~At(r, "retire") /\ ~At(r, "retire")'
    /\ Refreshing(r)' =>
           \/ Refreshing(r) /\ req'[r].token = req[r].token
           \/ ~ledger[req'[r].token].revoked

LEMMA KeepsForksStep ==
    ASSUME IsFiniteSet(Requests), IInv, ForkInv, NEW r \in Requests,
           KeepsForks(r)
    PROVE  ForkInv'
  <1>1. ledger' = ledger /\ crashes' = crashes
    BY DEF KeepsForks
  <1>2. ParentsStored'
    BY <1>1 DEF ForkInv, ParentsStored
  <1>3. ASSUME NEW o \in DOMAIN ledger
        PROVE  ForksCounted(o)' /\ ForksHeld(o)'
    <2>1. Children(o)' = Children(o) /\ Retiring(o)' = Retiring(o)
      BY <1>1 DEF KeepsForks, Children, Retiring, At
    <2>2. ledger[o].revoked => Turning(o)' \subseteq Turning(o)
      BY DEF KeepsForks, Turning, Refreshing, At
    <2>3. ForksCounted(o) /\ ForksHeld(o)
      BY DEF ForkInv
    <2>4. ForksCounted(o)'
      BY <1>1, <2>1, <2>2, <2>3, ForksStay DEF IInv
    <2>5. \A q \in Requests : At(q, "retire") => At(q, "retire")' /\ req'[q] = req[q]
      BY DEF KeepsForks, At
    <2>6. ForksHeld(o)'
      BY <1>1, <2>1, <2>3, <2>5 DEF ForksHeld
    <2>7. QED
      BY <2>4, <2>6
  <1>4. QED
    BY <1>1, <1>2, <1>3 DEF ForkInv

\* A handler that answers, and one that goes on elsewhere.
LEMMA AnswerKeepsForks ==
    ASSUME TypeOK, NEW r \in Requests, NEW status \in Statuses,
           Answer(r, status), ~At(r, "retire"), UNCHANGED <<ledger, crashes>>
    PROVE  KeepsForks(r)
  BY AnswerLemma DEF KeepsForks, Refreshing, At

LEMMA AtOnceKeepsForks ==
    ASSUME TypeOK, NEW r \in Requests, NEW kind \in {"login", "refresh", "logout"},
           NEW token \in Opaques \cup {NoToken}, NEW status \in Statuses,
           AnswerAtOnce(r, kind, token, status), At(r, "idle"),
           UNCHANGED <<ledger, crashes>>
    PROVE  KeepsForks(r)
  BY AnswerAtOnceLemma DEF KeepsForks, Refreshing, At

LEMMA GotoKeepsForks ==
    ASSUME TypeOK, NEW r \in Requests, NEW slot, Goto(r, slot), ~At(r, "retire"),
           slot.at \notin {"profile", "rotate", "retire"},
           UNCHANGED <<ledger, crashes>>
    PROVE  KeepsForks(r)
  <1>1. req'[r] = slot /\ \A q \in Requests \ {r} : req'[q] = req[q]
    BY DEF TypeOK, Goto
  <1>2. QED
    BY <1>1 DEF KeepsForks, Refreshing, At

LEMMA LoginForks ==
    ASSUME IInv, NEW r \in Requests, LoginStep(r),
           ~\E o \in Opaques : LoginIssue(r, o)
    PROVE  KeepsForks(r)
  <1>0. TypeOK /\ req[r] \in Slot
    BY DEF IInv, TypeOK
  <1>1. CASE LoginMalformed(r)
    BY <1>0, <1>1, AtOnceKeepsForks DEF LoginMalformed, Statuses
  <1>2. ASSUME NEW n \in Nonces, LoginConsume(r, n) PROVE KeepsForks(r)
    <2> DEFINE slot == [IdleSlot EXCEPT !.kind = "login", !.at = "verify",
                                        !.nonce = n]
    <2>1. slot.at = "verify"
      BY DEF IdleSlot
    <2>2. At(r, "idle") /\ ~At(r, "retire") /\ UNCHANGED <<ledger, crashes>>
      BY <1>2 DEF LoginConsume, At
    <2>3. \/ AnswerAtOnce(r, "login", NoToken, 401)
          \/ AnswerAtOnce(r, "login", NoToken, 400)
          \/ Goto(r, slot)
      BY <1>2 DEF LoginConsume
    <2> HIDE DEF slot
    <2>4. QED
      BY <1>0, <2>1, <2>2, <2>3, AtOnceKeepsForks, GotoKeepsForks DEF Statuses
  <1>3. ASSUME NEW credential \in Credentials, LoginVerify(r, credential)
        PROVE  KeepsForks(r)
    <2> DEFINE slot == [req[r] EXCEPT !.at = "upsert",
                                      !.user = credential.user,
                                      !.nonce = credential.nonce]
    <2>1. slot.at = "upsert"
      BY <1>0 DEF Slot
    <2>2. ~At(r, "retire") /\ UNCHANGED <<ledger, crashes>>
      BY <1>3 DEF LoginVerify, At
    <2>3. Answer(r, 401) \/ Answer(r, 500) \/ Goto(r, slot)
      BY <1>3 DEF LoginVerify
    <2> HIDE DEF slot
    <2>4. QED
      BY <1>0, <2>1, <2>2, <2>3, AnswerKeepsForks, GotoKeepsForks DEF Statuses
  <1>4. CASE LoginUpsertBegin(r) \/ LoginUpsertEnd(r)
    <2>1. PICK label \in {"writing", "issue"} :
              Goto(r, [req[r] EXCEPT !.at = label])
      BY <1>4 DEF LoginUpsertBegin, LoginUpsertEnd
    <2>2. ~At(r, "retire") /\ UNCHANGED <<ledger, crashes>>
      BY <1>4 DEF LoginUpsertBegin, LoginUpsertEnd, At
    <2> DEFINE slot == [req[r] EXCEPT !.at = label]
    <2>3. slot.at = label /\ Goto(r, slot)
      BY <1>0, <2>1 DEF Slot
    <2> HIDE DEF slot
    <2>4. QED
      BY <1>0, <2>2, <2>3, GotoKeepsForks
  <1>5. QED
    BY <1>1, <1>2, <1>3, <1>4 DEF LoginStep

LEMMA RefreshForks ==
    ASSUME IInv, NEW r \in Requests,
           \/ RefreshNoCookie(r)
           \/ \E o \in held : RefreshValidate(r, o)
           \/ RefreshProfile(r)
    PROVE  KeepsForks(r)
  <1>0. TypeOK /\ req[r] \in Slot
    BY DEF IInv, TypeOK
  <1>1. CASE RefreshNoCookie(r)
    BY <1>0, <1>1, AtOnceKeepsForks DEF RefreshNoCookie, Statuses
  <1>2. ASSUME NEW o \in held, RefreshValidate(r, o) PROVE KeepsForks(r)
    <2> DEFINE slot == [IdleSlot EXCEPT !.kind = "refresh", !.at = "profile",
                                        !.token = o, !.user = ledger[o].user]
    <2>1. slot.at = "profile" /\ slot.token = o
      BY DEF IdleSlot
    <2>2. At(r, "idle") /\ ~At(r, "retire") /\ UNCHANGED <<ledger, crashes>>
      BY <1>2 DEF RefreshValidate, At
    <2>3. \/ AnswerAtOnce(r, "refresh", o, 401)
          \/ Goto(r, slot) /\ ValidateVerdict(o) = "ok"
      BY <1>2 DEF RefreshValidate
    <2> HIDE DEF slot
    <2>4. CASE AnswerAtOnce(r, "refresh", o, 401)
      BY <1>0, <2>2, <2>4, AtOnceKeepsForks DEF Statuses, TypeOK
    <2>5. CASE Goto(r, slot) /\ ValidateVerdict(o) = "ok"
      <3>1. ~ledger[o].revoked
        BY <2>5 DEF ValidateVerdict
      <3>2. req'[r] = slot /\ \A q \in Requests \ {r} : req'[q] = req[q]
        BY <1>0, <2>5 DEF TypeOK, Goto
      <3>3. QED
        BY <2>1, <2>2, <3>1, <3>2 DEF KeepsForks, At
    <2>6. QED
      BY <2>3, <2>4, <2>5
  <1>3. CASE RefreshProfile(r)
    <2>1. /\ At(r, "profile") /\ ~At(r, "retire")
          /\ UNCHANGED <<ledger, crashes>>
      BY <1>3 DEF RefreshProfile, At
    <2>2. Answer(r, 401) \/ Goto(r, [req[r] EXCEPT !.at = "rotate"])
      BY <1>3 DEF RefreshProfile
    <2>3. CASE Goto(r, [req[r] EXCEPT !.at = "rotate"])
      <3>1. "rotate" \in Labels
        BY DEF Labels
      <3>2. /\ req'[r].at = "rotate" /\ req'[r].token = req[r].token
            /\ \A q \in Requests \ {r} : req'[q] = req[q]
        BY <1>0, <2>3, <3>1, MoveLemma
      <3>3. QED
        BY <2>1, <3>2 DEF KeepsForks, Refreshing, At
    <2>4. QED
      BY <1>0, <2>1, <2>2, <2>3, AnswerKeepsForks DEF Statuses
  <1>4. QED
    BY <1>1, <1>2, <1>3

LEMMA OtherForks ==
    ASSUME IInv, NEW r \in Requests,
           \/ LogoutNoCookie(r)
           \/ \E o \in held : LogoutValidate(r, o)
           \/ IssueFails(r)
           \/ Respond(r)
    PROVE  KeepsForks(r)
  <1>0. TypeOK /\ req[r] \in Slot
    BY DEF IInv, TypeOK
  <1>1. CASE LogoutNoCookie(r)
    BY <1>0, <1>1, AtOnceKeepsForks DEF LogoutNoCookie, Statuses
  <1>2. ASSUME NEW o \in held, LogoutValidate(r, o) PROVE KeepsForks(r)
    <2> DEFINE slot == [IdleSlot EXCEPT !.kind = "logout", !.at = "revoke",
                                        !.token = o]
    <2>1. slot.at = "revoke"
      BY DEF IdleSlot
    <2>2. At(r, "idle") /\ ~At(r, "retire") /\ UNCHANGED <<ledger, crashes>>
      BY <1>2 DEF LogoutValidate, At
    <2>3. AnswerAtOnce(r, "logout", o, 204) \/ Goto(r, slot)
      BY <1>2 DEF LogoutValidate
    <2> HIDE DEF slot
    <2>4. o \in Opaques
      BY <1>0 DEF TypeOK
    <2>5. QED
      BY <1>0, <2>1, <2>2, <2>3, <2>4, AtOnceKeepsForks, GotoKeepsForks
         DEF Statuses
  <1>3. CASE IssueFails(r)
    BY <1>0, <1>3, AnswerKeepsForks DEF IssueFails, At, Statuses
  <1>4. CASE Respond(r)
    BY <1>0, <1>4, GotoKeepsForks DEF Respond, IdleSlot, At
  <1>5. QED
    BY <1>1, <1>2, <1>3, <1>4

-----------------------------------------------------------------------------

\* Slot r stores the token o, as the first of a chain or as the successor of
\* the token it was sent.
StoresToken(r, o) ==
    \/ /\ At(r, "issue") /\ At(r, "answered")'
       /\ ledger'[o].prev = NoToken
    \/ /\ At(r, "rotate") /\ At(r, "retire")'
       /\ ledger'[o].prev = req[r].token
       /\ req'[r].token = req[r].token /\ req'[r].child = o

LEMMA StoreForks ==
    ASSUME IsFiniteSet(Requests), IInv, ForkInv, NEW r \in Requests,
           NEW o \in Opaques, Fresh(o), StoresToken(r, o),
           DOMAIN ledger' = DOMAIN ledger \cup {o}, ~ledger'[o].revoked,
           \A p \in DOMAIN ledger : ledger'[p] = ledger[p],
           crashes' = crashes,
           \A q \in Requests \ {r} : req'[q] = req[q]
    PROVE  ForkInv'
  <1>1. o \notin DOMAIN ledger /\ o # NoToken
    BY LedgerAssumption DEF Fresh, IInv, AllDrawn
  <1>2. PICK prev \in DOMAIN ledger \cup {NoToken} : prev = ledger'[o].prev
    BY DEF StoresToken, IInv, SlotsOK, UsesToken, At
  <1>3. ParentsStored'
    BY <1>2 DEF ForkInv, ParentsStored
  <1>4. ASSUME NEW p \in DOMAIN ledger
        PROVE  ForksCounted(p)' /\ ForksHeld(p)'
    <2>1. ForksCounted(p) /\ ForksHeld(p) /\ ledger'[p] = ledger[p]
      BY DEF ForkInv
    <2>2. CASE prev # p
      <3>1. Children(p)' = Children(p)
        BY <1>1, <1>2, <2>2 DEF Children
      <3>2. Turning(p)' \subseteq Turning(p)
        BY DEF Turning, Refreshing, StoresToken, At
      <3>3. Retiring(p)' = Retiring(p)
        BY <1>2, <2>2 DEF Retiring, StoresToken, At
      <3>4. \A q \in Requests : At(q, "retire") => At(q, "retire")' /\ req'[q] = req[q]
        BY DEF StoresToken, At
      <3>5. ForksHeld(p)'
        BY <2>1, <3>1, <3>4 DEF ForksHeld
      <3>6. QED
        BY <2>1, <3>1, <3>2, <3>3, <3>5, ForksStay DEF IInv
    <2>3. CASE prev = p
      <3>1. /\ Children(p)' = Children(p) \cup {o} /\ o \notin Children(p)
        BY <1>1, <1>2, <2>3 DEF Children
      <3>2. /\ At(r, "rotate") /\ At(r, "retire")'
            /\ req[r].token = p /\ req'[r].token = p /\ req'[r].child = o
        BY <1>1, <1>2, <2>3, LedgerAssumption
           DEF StoresToken, IInv, TypeOK, LedgerOK
      <3>3. /\ Turning(p)' = Turning(p) \ {r} /\ r \in Turning(p)
            /\ Retiring(p)' = Retiring(p) \cup {r} /\ r \notin Retiring(p)
        BY <3>2 DEF Turning, Retiring, Refreshing, At
      <3>4. /\ IsFiniteSet(Children(p)')
            /\ Cardinality(Children(p)') = Cardinality(Children(p)) + 1
            /\ Cardinality(Children(p)) \in Nat
        BY <2>1, <3>1, FS_AddElement, FS_CardinalityType DEF ForksCounted
      <3>5. /\ Cardinality(Turning(p)') = Cardinality(Turning(p)) - 1
            /\ Cardinality(Retiring(p)') = Cardinality(Retiring(p)) + 1
            /\ Cardinality(Turning(p)) \in Nat
            /\ Cardinality(Retiring(p)) \in Nat
        <4>1. /\ IsFiniteSet(Turning(p)) /\ Cardinality(Turning(p)) \in Nat
              /\ IsFiniteSet(Retiring(p)) /\ Cardinality(Retiring(p)) \in Nat
          BY SlotsCounted
        <4>2. Cardinality(Turning(p) \ {r}) = Cardinality(Turning(p)) - 1
          BY <3>3, <4>1, FS_RemoveElement
        <4>3. Cardinality(Retiring(p) \cup {r}) = Cardinality(Retiring(p)) + 1
          BY <3>3, <4>1, FS_AddElement
        <4>4. QED
          BY <3>3, <4>1, <4>2, <4>3
      <3>6. /\ Forks(crashes)' = Forks(crashes)
            /\ Forks(crashes + 1)' = Forks(crashes + 1)
            /\ Forks(crashes) \in Nat /\ Forks(crashes + 1) \in Nat
        BY ForksGrow DEF Forks, IInv, TypeOK
      <3>7. ForksCounted(p)'
        BY <2>1, <3>4, <3>5, <3>6 DEF ForksCounted
      <3>8. ForksHeld(p)'
        <4>1. \A q \in Requests :
                  At(q, "retire") => At(q, "retire")' /\ req'[q] = req[q]
          BY <3>2 DEF At
        <4>2. QED
          BY <2>1, <3>1, <3>2, <4>1 DEF ForksHeld
      <3>9. QED
        BY <3>7, <3>8
    <2>4. QED
      BY <2>2, <2>3
  <1>5. ForksCounted(o)' /\ ForksHeld(o)'
    <2>1. Children(o)' = {}
      BY <1>1, <1>2 DEF Children, ForkInv, ParentsStored
    <2>2. Forks(crashes)' \in Nat
      BY ForksGrow DEF Forks, IInv, TypeOK
    <2>3. Cardinality(Retiring(o)') \in Nat
      BY SlotsCountedNext
    <2>4. QED
      BY <2>1, <2>2, <2>3, FS_EmptySet DEF ForksCounted, ForksHeld
  <1>6. QED
    BY <1>3, <1>4, <1>5 DEF ForkInv

LEMMA IssueForks ==
    ASSUME ~StoreFails, IsFiniteSet(Requests), IInv, ForkInv,
           NEW r \in Requests, NEW o \in Opaques,
           LoginIssue(r, o) \/ RefreshIssue(r, o)
    PROVE  ForkInv'
  <1>typed. TypeOK
    BY DEF IInv
  <1>0. req[r] \in Slot
    BY <1>typed DEF TypeOK
  <1>1. CASE LoginIssue(r, o)
    <2> DEFINE from == [root |-> o, nonce |-> req[r].nonce]
               slot == [req[r] EXCEPT !.at = "answered", !.status = 200,
                                      !.child = o]
    <2>1. /\ At(r, "issue") /\ Fresh(o) /\ crashes' = crashes
          /\ Store(r, o, NoToken, from) /\ Goto(r, slot)
      BY <1>1 DEF LoginIssue
    <2>2. /\ req[r].user \in Users /\ from \in Origin
          /\ NoToken \in Opaques \cup {NoToken}
      BY <2>1 DEF IInv, SlotsOK, InLogin, HasUser, At, Origin
    <2>3. slot.at = "answered"
      BY <1>0 DEF Slot
    <2> HIDE DEF from, slot
    <2>4. /\ DOMAIN ledger' = DOMAIN ledger \cup {o}
          /\ ledger'[o].prev = NoToken /\ ~ledger'[o].revoked
          /\ \A p \in DOMAIN ledger \ {o} : ledger'[p] = ledger[p]
      BY <1>typed, <2>1, <2>2, StoreLemma, ZenonT(60)
    <2>5. req'[r] = slot /\ \A q \in Requests \ {r} : req'[q] = req[q]
      BY <1>typed, <2>1 DEF TypeOK, Goto
    <2>6. o \notin DOMAIN ledger
      BY <2>1 DEF Fresh, IInv, AllDrawn
    <2>7. StoresToken(r, o)
      BY <2>1, <2>3, <2>4, <2>5 DEF StoresToken, At
    <2>8. QED
      BY <2>1, <2>4, <2>5, <2>6, <2>7, StoreForks
  <1>2. CASE RefreshIssue(r, o)
    <2> DEFINE slot == [req[r] EXCEPT !.at = "retire", !.child = o]
    <2>1. /\ At(r, "rotate") /\ Fresh(o) /\ crashes' = crashes
          /\ Store(r, o, req[r].token, origin[req[r].token]) /\ Goto(r, slot)
      BY <1>2 DEF RefreshIssue
    <2>2. req[r].user \in Users /\ req[r].token \in DOMAIN ledger
      BY <2>1 DEF IInv, SlotsOK, UsesToken, HasUser, At
    <2>3. PICK parent \in Opaques \cup {NoToken}, from \in Origin :
              parent = req[r].token /\ from = origin[req[r].token]
      BY <2>2 DEF IInv, TypeOK, LedgerOK, AllDrawn
    <2>4. slot.at = "retire" /\ slot.token = req[r].token /\ slot.child = o
      BY <1>0 DEF Slot
    <2> HIDE DEF slot
    <2>5. /\ DOMAIN ledger' = DOMAIN ledger \cup {o}
          /\ ledger'[o].prev = req[r].token /\ ~ledger'[o].revoked
          /\ \A p \in DOMAIN ledger \ {o} : ledger'[p] = ledger[p]
      <3>1. Store(r, o, parent, from)
        BY <2>3, <2>1
      <3>2. /\ DOMAIN ledger' = DOMAIN ledger \cup {o}
            /\ ledger'[o].prev = parent /\ ~ledger'[o].revoked
            /\ \A p \in DOMAIN ledger \ {o} : ledger'[p] = ledger[p]
        <4>1. parent \in Opaques \cup {NoToken} /\ from \in Origin
          BY <2>3
        <4>2. QED
          BY <1>typed, <2>2, <3>1, <4>1, StoreLemma, ZenonT(60)
      <3>3. QED
        BY <2>3, <3>2
    <2>6. req'[r] = slot /\ \A q \in Requests \ {r} : req'[q] = req[q]
      BY <1>typed, <2>1 DEF TypeOK, Goto
    <2>7. o \notin DOMAIN ledger
      BY <2>1 DEF Fresh, IInv, AllDrawn
    <2>8. StoresToken(r, o)
      BY <2>1, <2>4, <2>5, <2>6 DEF StoresToken, At
    <2>9. QED
      BY <2>1, <2>5, <2>6, <2>7, <2>8, StoreForks
  <1>3. QED
    BY <1>1, <1>2

LEMMA RevokeForks ==
    ASSUME ~StoreFails, IsFiniteSet(Requests), IInv, ForkInv,
           NEW r \in Requests, RefreshRevoke(r) \/ LogoutRevoke(r)
    PROVE  ForkInv'
  <1> USE DEF IInv
  <1>1. /\ At(r, "retire") \/ At(r, "revoke")
        /\ Answer(r, 204) \/ Answer(r, 500)
        /\ crashes' = crashes
    BY DEF RefreshRevoke, LogoutRevoke
  <1>2. PICK o \in DOMAIN ledger : o = req[r].token
    BY <1>1 DEF SlotsOK, UsesToken, At
  <1>3. ledger' = WithRevoked(o)
    <2>1. RevokeVerdict(o) # "not_found"
      BY DEF RevokeVerdict
    <2>2. QED
      BY <1>2, <2>1 DEF RefreshRevoke, LogoutRevoke
  <1>4. /\ DOMAIN ledger' = DOMAIN ledger /\ ledger'[o].revoked
        /\ \A p \in DOMAIN ledger : /\ ledger'[p].prev = ledger[p].prev
                                    /\ p # o => ledger'[p] = ledger[p]
    BY <1>3, RevokeLemma
  <1>5. /\ At(r, "answered")'
        /\ \A q \in Requests \ {r} : req'[q] = req[q]
    BY <1>1, AnswerLemma DEF Statuses, At
  <1>6. ParentsStored'
    BY <1>4 DEF ForkInv, ParentsStored
  <1>7. \A p : Children(p)' = Children(p) /\ Turning(p)' = Turning(p)
    BY <1>1, <1>4, <1>5 DEF Children, Turning, Refreshing, At
  <1>8. ASSUME NEW p \in DOMAIN ledger, p # o
        PROVE  ForksCounted(p)' /\ ForksHeld(p)'
    <2>1. ForksCounted(p) /\ ForksHeld(p) /\ ledger'[p] = ledger[p]
      BY <1>4, <1>8 DEF ForkInv
    <2>2. Retiring(p)' = Retiring(p)
      BY <1>2, <1>5, <1>8 DEF Retiring, At
    <2>3. ForksCounted(p)'
      BY <1>1, <1>7, <2>1, <2>2, ForksStay DEF IInv
    <2>4. \A q \in Requests : At(q, "retire") /\ req[q].token = p =>
              At(q, "retire")' /\ req'[q] = req[q]
      BY <1>2, <1>5, <1>8 DEF At
    <2>5. ForksHeld(p)'
      BY <1>1, <1>7, <2>1, <2>4 DEF ForksHeld
    <2>6. QED
      BY <2>3, <2>5
  <1>9. ForksCounted(o)' /\ ForksHeld(o)'
    <2>1. ForksCounted(o)
      BY DEF ForkInv
    <2>2. Cardinality(Children(o)) + Cardinality(Turning(o))
              <= Forks(crashes + 1)
      BY <2>1, ForksBounded
    <2>3. Forks(crashes + 1)' = Forks(crashes + 1)
      BY <1>1 DEF Forks
    <2>4. QED
      BY <1>4, <1>7, <2>1, <2>2, <2>3 DEF ForksCounted, ForksHeld
  <1>10. QED
    BY <1>4, <1>6, <1>8, <1>9 DEF ForkInv

\* The successors the dead process left behind a durable store are counted as
\* those of one life more.
LEMMA CrashForks ==
    ASSUME IsFiniteSet(Requests), IInv, ForkInv, Crash
    PROVE  ForkInv'
  <1>1. /\ crashes \in Nat /\ crashes' = crashes + 1
        /\ ledger' = IF Durable THEN ledger ELSE EmptyMap
        /\ req' = [r \in Requests |-> IdleSlot]
    BY DEF Crash, IInv, TypeOK
  <1>2. CASE ~Durable
    BY <1>1, <1>2 DEF ForkInv, ParentsStored, EmptyMap
  <1>3. CASE Durable
    <2>1. ParentsStored'
      BY <1>1, <1>3 DEF ForkInv, ParentsStored
    <2>2. ASSUME NEW o \in DOMAIN ledger PROVE ForksCounted(o)' /\ ForksHeld(o)'
      <3>1. ForksCounted(o) /\ TypeOK
        BY DEF ForkInv, IInv
      <3>2. Children(o)' = Children(o)
        BY <1>1, <1>3 DEF Children
      <3>3. Turning(o)' = {} /\ Retiring(o)' = {}
        BY <1>1 DEF Turning, Retiring, Refreshing, At, IdleSlot
      <3>4. /\ Forks(crashes)' = Forks(crashes + 1)
            /\ Forks(crashes + 1)' = Forks(crashes + 1) + Cardinality(Requests)
            /\ Forks(crashes + 1) \in Nat
        <4>1. /\ Forks(crashes)' = Forks(crashes + 1)
              /\ Forks(crashes + 1)' = Forks((crashes + 1) + 1)
          BY <1>1 DEF Forks
        <4>2. crashes + 1 \in Nat
          BY <1>1
        <4>3. QED
          BY <4>1, <4>2, ForksGrow
      <3>5. /\ Cardinality(Children(o)) \in Nat /\ Cardinality(Turning(o)) \in Nat
            /\ Cardinality(Children(o)) + Cardinality(Turning(o))
                   <= Forks(crashes + 1)
            /\ Cardinality(Requests) \in Nat
        BY <3>1, ForksBounded, SlotsCounted, FS_CardinalityType
      <3>6. ForksCounted(o)'
        BY <1>1, <1>3, <3>1, <3>2, <3>3, <3>4, <3>5, FS_EmptySet DEF ForksCounted
      <3>7. ForksHeld(o)'
        BY <1>1, <1>3 DEF ForksHeld
      <3>8. QED
        BY <3>6, <3>7
    <2>3. QED
      BY <1>1, <1>3, <2>1, <2>2 DEF ForkInv
  <1>4. QED
    BY <1>2, <1>3

LEMMA NextForkInv ==
    ASSUME ~StoreFails, IsFiniteSet(Requests)
    PROVE  IInv /\ ForkInv /\ [Next]_vars => ForkInv'
  <1> SUFFICES ASSUME IInv, ForkInv, [Next]_vars PROVE ForkInv'
    OBVIOUS
  <1>1. ASSUME NEW r \in Requests, LoginStep(r) PROVE ForkInv'
    BY <1>1, LoginForks, IssueForks, KeepsForksStep
  <1>2. ASSUME NEW r \in Requests, RefreshStep(r) PROVE ForkInv'
    BY <1>2, RefreshForks, IssueForks, RevokeForks, KeepsForksStep
       DEF RefreshStep
  <1>3. ASSUME NEW r \in Requests, LogoutStep(r) PROVE ForkInv'
    BY <1>3, OtherForks, RevokeForks, KeepsForksStep DEF LogoutStep
  <1>4. ASSUME NEW r \in Requests, IssueFails(r) \/ Respond(r) PROVE ForkInv'
    BY <1>4, OtherForks, KeepsForksStep
  <1>5. ASSUME UNCHANGED <<ledger, req, crashes>> PROVE ForkInv'
    <2>1. ParentsStored'
      BY <1>5 DEF ForkInv, ParentsStored
    <2>2. ASSUME NEW o \in DOMAIN ledger PROVE ForksCounted(o)' /\ ForksHeld(o)'
      <3>1. /\ Children(o)' = Children(o) /\ Turning(o)' = Turning(o)
            /\ Retiring(o)' = Retiring(o)
        BY <1>5 DEF Children, Turning, Retiring, Refreshing, At
      <3>2. ForksCounted(o) /\ ForksHeld(o)
        BY DEF ForkInv
      <3>3. ForksCounted(o)'
        BY <1>5, <3>1, <3>2, ForksStay DEF IInv
      <3>4. ForksHeld(o)'
        BY <1>5, <3>1, <3>2 DEF ForksHeld, At
      <3>5. QED
        BY <3>3, <3>4
    <2>3. QED
      BY <1>5, <2>1, <2>2 DEF ForkInv
  <1>6. CASE Crash
    BY <1>6, CrashForks
  <1>7. CASE (\E n \in Nonces : NonceIssue(n)) \/ Tick \/ UNCHANGED vars
    BY <1>5, <1>7 DEF NonceIssue, Tick, vars
  <1>8. QED
    BY <1>1, <1>2, <1>3, <1>4, <1>6, <1>7 DEF Next

LEMMA ForksInductive ==
    ASSUME ~StoreFails, IsFiniteSet(Requests)
    PROVE  Spec => []ForkInv
  <1>1. Init => ForkInv
    BY DEF Init, LedgerInit, EmptyMap, ForkInv, ParentsStored
  <1>2. IInv /\ ForkInv /\ [Next]_vars => ForkInv'
    BY NextForkInv
  <1>3. QED
    BY <1>1, <1>2, Inductive, PTL DEF Spec

\* While the store answers, the refreshes that race for one token fork its
\* chain at most once for each request that fits beside it in each life of the
\* process, for any number of requests and crashes; and until the token is
\* revoked every successor is still with the handler that stored it, or was
\* when the process died.
THEOREM ForksStayInFlight ==
    ASSUME ~StoreFails, IsFiniteSet(Requests)
    PROVE  Spec => []ForksAreInFlight
  <1>1. IInv /\ ForkInv => ForksAreInFlight
    <2> SUFFICES ASSUME IInv, ForkInv, NEW o \in DOMAIN ledger
                 PROVE  /\ Cardinality(Children(o))
                               <= Cardinality(Requests) * (crashes + 1)
                        /\ ForksHeld(o)
      BY DEF ForksAreInFlight, ForksHeld
    <2>1. ForksCounted(o) /\ ForksHeld(o) /\ TypeOK /\ crashes + 1 \in Nat
      BY DEF ForkInv, IInv, TypeOK
    <2>2. /\ Cardinality(Children(o)) \in Nat /\ Cardinality(Turning(o)) \in Nat
          /\ Cardinality(Children(o)) + Cardinality(Turning(o))
                 <= Forks(crashes + 1)
          /\ Forks(crashes + 1) \in Nat
      BY <2>1, ForksBounded, SlotsCounted, ForksGrow
    <2>3. Cardinality(Children(o)) <= Forks(crashes + 1)
      BY <2>2
    <2>4. QED
      BY <2>1, <2>3 DEF Forks
  <1>2. Spec => [](IInv /\ ForkInv)
    BY Inductive, ForksInductive, PTL
  <1>3. QED
    BY <1>1, <1>2, PTL

-----------------------------------------------------------------------------
(* The refinement of RefreshGrants.                                          *)

\* A successor on its way to its predecessor's end is of the same sign-in.
SameSignIn ==
    \A r \in Requests :
        At(r, "retire") => origin[req[r].child] = origin[req[r].token]

GrantInv == IInv /\ SameSignIn

\* What the promise sees of slot r.
Rotating(r) == req[r].at \in {"profile", "rotate", "retire"}

BegunAt(r) ==
    IF Rotating(r) THEN [token |-> req[r].token, user |-> req[r].user]
    ELSE [token |-> NoToken, user |-> NoUser]

\* And what it sees of the whole service.
Promise == <<Granted, held, Begun, Spent>>

LEMMA BegunIs == Begun = [r \in Requests |-> BegunAt(r)]
  BY DEF Begun, BegunAt, Rotating

LEMMA BegunIsNext == Begun' = [r \in Requests |-> BegunAt(r)']
  BY DEF Begun, BegunAt, Rotating

\* A refresh under way is about a token.
LEMMA BegunNotIdle ==
    ASSUME IInv, NEW r \in Requests, Rotating(r)
    PROVE  /\ Begun[r] = [token |-> req[r].token, user |-> req[r].user]
           /\ Begun[r] # RG!NoRefresh
           /\ Begun[r].token = req[r].token /\ Begun[r].user = req[r].user
           /\ req[r].token \in held \cap DOMAIN ledger
           /\ req[r].token \in Opaques
           /\ req[r].user \in Users
  <1>1. /\ req[r].token \in held \cap DOMAIN ledger /\ req[r].token \in Opaques
        /\ req[r].user \in Users
    BY DEF IInv, TypeOK, SlotsOK, Rotating, UsesToken, HasUser
  <1>2. Begun[r] = [token |-> req[r].token, user |-> req[r].user]
    BY BegunIs DEF BegunAt
  <1>3. /\ Begun[r].token = req[r].token /\ Begun[r].user = req[r].user
        /\ RG!NoRefresh.token = NoToken
    BY <1>2 DEF RG!NoRefresh
  <1>4. QED
    BY <1>1, <1>2, <1>3, LedgerAssumption

LEMMA BegunIdle ==
    ASSUME NEW r \in Requests, ~Rotating(r)
    PROVE  Begun[r] = RG!NoRefresh
  BY BegunIs DEF BegunAt, RG!NoRefresh

\* A step of slot r changes no other refresh.
LEMMA BegunStep ==
    ASSUME NEW r \in Requests, \A q \in Requests \ {r} : req'[q] = req[q]
    PROVE  /\ Begun' = [Begun EXCEPT ![r] = BegunAt(r)']
           /\ BegunAt(r)' = BegunAt(r) => Begun' = Begun
  <1> DEFINE mine == BegunAt(r)'
  <1>1. \A q \in Requests \ {r} : BegunAt(q)' = BegunAt(q)
    BY DEF BegunAt, Rotating
  <1>2. Begun' = [q \in Requests |-> IF q = r THEN mine ELSE BegunAt(q)]
    BY <1>1, BegunIsNext
  <1> HIDE DEF mine
  <1>3. Begun' = [Begun EXCEPT ![r] = mine]
    BY <1>2, BegunIs
  <1>4. mine = BegunAt(r) => Begun' = Begun
    BY <1>2, BegunIs
  <1>5. QED
    BY <1>3, <1>4 DEF mine

LEMMA BegunEnds ==
    ASSUME NEW r \in Requests, \A q \in Requests \ {r} : req'[q] = req[q],
           ~Rotating(r)'
    PROVE  Begun' = [Begun EXCEPT ![r] = RG!NoRefresh]
  <1>1. BegunAt(r)' = RG!NoRefresh
    BY DEF BegunAt, RG!NoRefresh
  <1>2. QED
    BY <1>1, BegunStep

LEMMA BegunStays ==
    ASSUME NEW r \in Requests, \A q \in Requests \ {r} : req'[q] = req[q],
           Rotating(r)' <=> Rotating(r),
           Rotating(r) => req'[r].token = req[r].token /\ req'[r].user = req[r].user
    PROVE  Begun' = Begun
  <1>1. BegunAt(r)' = BegunAt(r)
    BY DEF BegunAt
  <1>2. QED
    BY <1>1, BegunStep

\* A step of slot r before which it has no cookie on its answer delivers at most
\* its own.
LEMMA DeliveredStep ==
    ASSUME NEW r \in Requests, \A q \in Requests \ {r} : req'[q] = req[q],
           held' = held, ~SetsCookie(r)
    PROVE  /\ ~SetsCookie(r)' => Delivered' = Delivered
           /\ SetsCookie(r)' => Delivered' = Delivered \cup {req'[r].child}
  <1>1. \A q \in Requests \ {r} : SetsCookie(q)' <=> SetsCookie(q)
    BY DEF SetsCookie, At
  <1>2. \A o : o \in Delivered' <=>
            \/ o \in Delivered
            \/ SetsCookie(r)' /\ o = req'[r].child
    BY <1>1, DeliveredLemma DEF Delivered, Cookie, SetsCookie, At
  <1>3. QED
    BY <1>2

\* Tokens that stay what they are stay worth the same.
LEMMA GrantedStays ==
    ASSUME Delivered' = Delivered,
           \A o \in Delivered : Worth(o)' = Worth(o) /\ origin'[o] = origin[o]
    PROVE  Granted' = Granted
  BY DEF Granted

\* Whom tokens sign in once p is revoked.
LEMMA WorthRevoked ==
    ASSUME IInv, NEW p \in DOMAIN ledger, ledger' = WithRevoked(p)
    PROVE  /\ Worth(p)' = NoUser
           /\ \A o : o # p => Worth(o)' = Worth(o)
  <1>1. TypeOK
    BY DEF IInv
  <1>2. /\ DOMAIN ledger' = DOMAIN ledger /\ ledger'[p].revoked
        /\ \A o \in DOMAIN ledger : o # p => ledger'[o] = ledger[o]
    BY <1>1, RevokeLemma
  <1>3. QED
    BY <1>2 DEF Worth

\* The promise once p is dead.
LEMMA WithoutIs ==
    ASSUME NEW p
    PROVE  RG!Without(p) =
               [o \in Delivered |->
                   IF o = p THEN [user |-> NoUser, login |-> origin[o]]
                   ELSE [user |-> Worth(o), login |-> origin[o]]]
  <1>1. RG!Without(p) = [Granted EXCEPT ![p].user = NoUser]
    BY DEF RG!Without
  <1>2. Granted = [o \in Delivered |-> [user |-> Worth(o), login |-> origin[o]]]
    BY DEF Granted
  <1>3. QED
    BY <1>1, <1>2

LEMMA GrantedRevoked ==
    ASSUME IInv, NEW p \in DOMAIN ledger \cap held, ledger' = WithRevoked(p),
           Delivered' = Delivered, origin' = origin
    PROVE  Granted' = RG!Without(p)
  <1>1. Granted' = [o \in Delivered |->
                        [user |-> Worth(o)', login |-> origin[o]]]
    BY DEF Granted
  <1>2. Granted' = [o \in Delivered |->
                        IF o = p THEN [user |-> NoUser, login |-> origin[o]]
                        ELSE [user |-> Worth(o), login |-> origin[o]]]
    BY <1>1, WorthRevoked
  <1>3. QED
    BY <1>2, WithoutIs

\* Whoever delivers a token has drawn it.
LEMMA DeliveredDrawn ==
    ASSUME IInv
    PROVE  Delivered \subseteq DOMAIN origin \cap Opaques
  <1>1. DOMAIN ledger \cup held \subseteq DOMAIN origin \cap Opaques
    BY DEF IInv, AllDrawn, TypeOK
  <1>2. \A r \in Requests : SetsCookie(r) => req[r].child \in DOMAIN ledger
    BY DEF IInv, ChildrenPrivate, HasChild
  <1>3. QED
    BY <1>1, <1>2, DeliveredLemma

\* A token on its way with no client yet, and with no other response.
LEMMA ChildIsNew ==
    ASSUME IInv, NEW r \in Requests, HasChild(r)
    PROVE  /\ req[r].child \in DOMAIN ledger \ held
           /\ req[r].child \in Opaques
           /\ ~SetsCookie(r) => req[r].child \notin Delivered
           /\ \A q \in Requests \ {r} : SetsCookie(q) => req[q].child # req[r].child
  <1>1. /\ req[r].child \in DOMAIN ledger \ held
        /\ req[r].child \in Opaques
        /\ \A q \in Requests \ {r} : SetsCookie(q) => req[q].child # req[r].child
    BY DEF IInv, ChildrenPrivate, SlotsOK, HasChild
  <1>2. QED
    BY <1>1, DeliveredLemma

\* Storing a fresh token changes no other.
LEMMA WorthStored ==
    ASSUME IInv, NEW r \in Requests, NEW o \in Opaques, Fresh(o),
           NEW prev \in Opaques \cup {NoToken}, NEW from \in Origin,
           req[r].user \in Users, Store(r, o, prev, from)
    PROVE  /\ o \notin Delivered
           /\ \A p \in Delivered : Worth(p)' = Worth(p) /\ origin'[p] = origin[p]
           /\ Worth(o)' = req[r].user /\ origin'[o] = from
           /\ Spent' = Spent \cup {from.nonce}
  <1>1. TypeOK
    BY DEF IInv
  <1>2. /\ DOMAIN ledger' = DOMAIN ledger \cup {o}
        /\ ledger'[o].user = req[r].user
        /\ ~ledger'[o].revoked
        /\ \A p \in DOMAIN ledger \ {o} : ledger'[p] = ledger[p]
        /\ DOMAIN origin' = DOMAIN origin \cup {o}
        /\ origin'[o] = from
        /\ \A p \in DOMAIN origin \ {o} : origin'[p] = origin[p]
    BY <1>1, StoreLemma, ZenonT(60)
  <1>3. o \notin DOMAIN origin
    BY DEF Fresh
  <1>4. \A p \in Delivered : p # o /\ p \in DOMAIN origin
    BY <1>3, DeliveredDrawn
  <1>5. \A p \in Delivered : Worth(p)' = Worth(p) /\ origin'[p] = origin[p]
    BY <1>2, <1>4 DEF Worth
  <1>6. Worth(o)' = req[r].user
    BY <1>2 DEF Worth
  <1>7. Spent' = Spent \cup {from.nonce}
    BY <1>2, <1>3 DEF Spent
  <1>8. QED
    BY <1>2, <1>4, <1>5, <1>6, <1>7

LEMMA GrantedGains ==
    ASSUME NEW o, NEW user, NEW login, o \notin Delivered,
           Delivered' = Delivered \cup {o},
           \A p \in Delivered : Worth(p)' = Worth(p) /\ origin'[p] = origin[p],
           Worth(o)' = user, origin'[o] = login
    PROVE  Granted' = RG!Put(Granted, o, RG!Grant(user, login))
  <1>1. Granted' = [p \in Delivered \cup {o} |->
                        IF p = o THEN [user |-> user, login |-> login]
                        ELSE [user |-> Worth(p), login |-> origin[p]]]
    BY DEF Granted
  <1>2. QED
    BY <1>1 DEF Granted, RG!Put, RG!Grant

-----------------------------------------------------------------------------
(* The steps of a login.                                                     *)

LEMMA LoginPromise ==
    ASSUME GrantInv, NEW r \in Requests, NEW o \in Opaques, LoginIssue(r, o)
    PROVE  RG!Next
  <1> DEFINE user == req[r].user
             n == req[r].nonce
             from == [root |-> o, nonce |-> n]
  <1>1. TypeOK /\ At(r, "issue") /\ Fresh(o)
    BY DEF GrantInv, IInv, LoginIssue
  <1>2. user \in Users /\ n \in Nonces /\ InLogin(r) /\ ~Rotating(r) /\ ~SetsCookie(r)
    BY <1>1 DEF GrantInv, IInv, SlotsOK, HasUser, InLogin, Rotating, SetsCookie, At
  <1>3. from \in Origin /\ from.nonce = n
    BY <1>2 DEF Origin
  <1>4. n \notin Spent
    BY <1>2 DEF GrantInv, IInv, NoncesSpent, Spent
  <1>5. Store(r, o, NoToken, from) /\ held' = held
    BY DEF LoginIssue
  <1>6. /\ o \notin Delivered
        /\ \A p \in Delivered : Worth(p)' = Worth(p) /\ origin'[p] = origin[p]
        /\ Worth(o)' = user /\ origin'[o] = from
        /\ Spent' = Spent \cup {n}
    BY <1>1, <1>2, <1>3, <1>5, WorthStored DEF GrantInv
  <1>7. o \notin DOMAIN Granted
    BY <1>6 DEF Granted
  <1>8. CASE Goto(r, [req[r] EXCEPT !.at = "answered", !.status = 200, !.child = o])
    <2>1. /\ req'[r].at = "answered" /\ req'[r].status = 200 /\ req'[r].child = o
          /\ \A q \in Requests \ {r} : req'[q] = req[q]
      BY <1>1, <1>8 DEF TypeOK, Goto, Slot
    <2>2. ~Rotating(r)' /\ SetsCookie(r)'
      BY <2>1, LedgerAssumption DEF Rotating, SetsCookie, At
    <2>3. Begun' = Begun
      BY <1>2, <2>1, <2>2, BegunStays
    <2>4. Delivered' = Delivered \cup {o}
      BY <1>2, <1>5, <2>1, <2>2, DeliveredStep
    <2>5. Granted' = RG!Put(Granted, o, RG!Grant(user, from))
      BY <1>6, <2>4, GrantedGains
    <2>6. RG!SignIn(o, user, n)
      BY <1>4, <1>5, <1>6, <1>7, <2>3, <2>5 DEF RG!SignIn
    <2>7. QED
      BY <1>2, <2>6 DEF RG!Next
  <1>9. CASE Answer(r, 500)
    <2>1. /\ req'[r].at = "answered" /\ req'[r].status = 500
          /\ \A q \in Requests \ {r} : req'[q] = req[q]
      BY <1>1, <1>9, AnswerLemma DEF Statuses
    <2>2. ~Rotating(r)' /\ ~SetsCookie(r)'
      BY <2>1 DEF Rotating, SetsCookie, At
    <2>3. Begun' = Begun
      BY <1>2, <2>1, <2>2, BegunStays
    <2>4. Delivered' = Delivered
      BY <1>2, <1>5, <2>1, <2>2, DeliveredStep
    <2>5. Granted' = Granted
      BY <1>6, <2>4, GrantedStays
    <2>6. RG!SignInFails(n)
      BY <1>4, <1>5, <1>6, <2>3, <2>5 DEF RG!SignInFails
    <2>7. QED
      BY <1>2, <2>6 DEF RG!Next
  <1>10. QED
    BY <1>8, <1>9 DEF LoginIssue

-----------------------------------------------------------------------------
(* The steps of a refresh.                                                   *)

\* A step that touches no record and no cookie is seen, if at all, as a
\* refresh that begins or is given up.
LEMMA QuietGranted ==
    ASSUME NEW r \in Requests, \A q \in Requests \ {r} : req'[q] = req[q],
           ledger' = ledger, held' = held, origin' = origin,
           ~SetsCookie(r), ~SetsCookie(r)'
    PROVE  Granted' = Granted /\ Spent' = Spent
  <1>1. Delivered' = Delivered
    BY DeliveredStep
  <1>2. \A o \in Delivered : Worth(o)' = Worth(o) /\ origin'[o] = origin[o]
    BY DEF Worth
  <1>3. QED
    BY <1>1, <1>2, GrantedStays DEF Spent

LEMMA QuietPromise ==
    ASSUME NEW r \in Requests, \A q \in Requests \ {r} : req'[q] = req[q],
           ledger' = ledger, held' = held, origin' = origin,
           ~SetsCookie(r), ~SetsCookie(r)',
           Rotating(r)' <=> Rotating(r),
           Rotating(r) => req'[r].token = req[r].token /\ req'[r].user = req[r].user
    PROVE  UNCHANGED Promise
  <1>1. Granted' = Granted /\ Spent' = Spent
    BY QuietGranted
  <1>2. Begun' = Begun
    BY BegunStays
  <1>3. QED
    BY <1>1, <1>2 DEF Promise

LEMMA GiveUpPromise ==
    ASSUME IInv, NEW r \in Requests, \A q \in Requests \ {r} : req'[q] = req[q],
           Rotating(r), ~Rotating(r)', held' = held,
           Granted' \in {Granted, RG!Without(req[r].token)}, Spent' = Spent
    PROVE  RG!GiveUp(r)
  <1>1. Begun[r] # RG!NoRefresh /\ Begun[r].token = req[r].token
    BY BegunNotIdle
  <1>2. Begun' = [Begun EXCEPT ![r] = RG!NoRefresh]
    BY BegunEnds
  <1>3. QED
    BY <1>1, <1>2 DEF RG!GiveUp

LEMMA ValidatePromise ==
    ASSUME IInv, NEW r \in Requests, NEW o \in held, RefreshValidate(r, o)
    PROVE  RG!Next \/ UNCHANGED Promise
  <1>1. /\ TypeOK /\ At(r, "idle") /\ o \in Opaques
        /\ ledger' = ledger /\ held' = held /\ origin' = origin
    BY DEF IInv, TypeOK, RefreshValidate
  <1>2. ~Rotating(r) /\ ~SetsCookie(r)
    BY <1>1 DEF Rotating, SetsCookie, At
  <1> DEFINE slot == [IdleSlot EXCEPT !.kind = "refresh", !.at = "profile",
                                      !.token = o, !.user = ledger[o].user]
  <1>3. CASE ValidateVerdict(o) = "ok" /\ Goto(r, slot)
    <2>1. o \in DOMAIN ledger /\ ~ledger[o].revoked
      BY <1>3 DEF ValidateVerdict
    <2>2. Worth(o) = ledger[o].user /\ ledger[o].user \in Users
      BY <1>1, <2>1 DEF Worth, TypeOK, LedgerOK, Record
    <2>3. slot.at = "profile" /\ slot.token = o /\ slot.user = ledger[o].user
      BY DEF IdleSlot
    <2>4. req'[r] = slot /\ \A q \in Requests \ {r} : req'[q] = req[q]
      BY <1>1, <1>3 DEF TypeOK, Goto
    <2> HIDE DEF slot
    <2>5. ~SetsCookie(r)' /\ BegunAt(r)' = [token |-> o, user |-> ledger[o].user]
      BY <2>3, <2>4 DEF SetsCookie, At, BegunAt, Rotating
    <2>6. Granted' = Granted /\ Spent' = Spent
      BY <1>1, <1>2, <2>4, <2>5, QuietGranted
    <2>7. Begun' = [Begun EXCEPT ![r] = [token |-> o, user |-> ledger[o].user]]
      BY <2>4, <2>5, BegunStep
    <2>8. Granted[o].user = ledger[o].user
      BY <2>2 DEF Granted, Delivered
    <2>9. RG!Begin(r, o)
      BY <1>1, <1>2, <2>2, <2>6, <2>7, <2>8, BegunIdle, ServiceAssumption
         DEF RG!Begin
    <2>10. QED
      BY <1>1, <2>9 DEF RG!Next
  <1>4. CASE AnswerAtOnce(r, "refresh", o, 401)
    <2>1. /\ req'[r].at = "answered" /\ req'[r].status = 401
          /\ \A q \in Requests \ {r} : req'[q] = req[q]
      BY <1>1, <1>4, AnswerAtOnceLemma DEF Statuses
    <2>2. ~Rotating(r)' /\ ~SetsCookie(r)'
      BY <2>1 DEF Rotating, SetsCookie, At
    <2>3. QED
      BY <1>1, <1>2, <2>1, <2>2, QuietPromise
  <1>5. QED
    BY <1>3, <1>4 DEF RefreshValidate

\* The answers that end a refresh with no record touched.
LEMMA RefusalPromise ==
    ASSUME IInv, NEW r \in Requests, NEW status \in {401, 500},
           Answer(r, status), At(r, "profile") \/ At(r, "rotate"),
           ledger' = ledger, held' = held, origin' = origin
    PROVE  RG!Next
  <1>1. TypeOK
    BY DEF IInv
  <1>2. /\ req'[r].at = "answered" /\ req'[r].status = status
        /\ \A q \in Requests \ {r} : req'[q] = req[q]
    BY <1>1, AnswerLemma DEF Statuses
  <1>3. Rotating(r) /\ ~SetsCookie(r) /\ ~Rotating(r)' /\ ~SetsCookie(r)'
    BY <1>2 DEF Rotating, SetsCookie, At
  <1>4. Granted' = Granted /\ Spent' = Spent
    BY <1>2, <1>3, QuietGranted
  <1>5. RG!GiveUp(r)
    BY <1>2, <1>3, <1>4, GiveUpPromise
  <1>6. QED
    BY <1>5 DEF RG!Next

LEMMA ProfilePromise ==
    ASSUME IInv, NEW r \in Requests, RefreshProfile(r)
    PROVE  RG!Next \/ UNCHANGED Promise
  <1>1. /\ TypeOK /\ At(r, "profile")
        /\ ledger' = ledger /\ held' = held /\ origin' = origin
    BY DEF IInv, RefreshProfile
  <1>2. CASE Goto(r, [req[r] EXCEPT !.at = "rotate"])
    <2>1. /\ req'[r].at = "rotate" /\ req'[r].token = req[r].token
          /\ req'[r].user = req[r].user
          /\ \A q \in Requests \ {r} : req'[q] = req[q]
      BY <1>1, <1>2 DEF TypeOK, Goto, Slot
    <2>2. /\ Rotating(r)' /\ Rotating(r)
          /\ ~SetsCookie(r) /\ ~SetsCookie(r)'
      BY <1>1, <2>1 DEF Rotating, SetsCookie, At
    <2>3. QED
      BY <1>1, <2>1, <2>2, QuietPromise
  <1>3. CASE Answer(r, 401)
    BY <1>1, <1>3, RefusalPromise
  <1>4. QED
    BY <1>2, <1>3 DEF RefreshProfile

LEMMA RefreshIssuePromise ==
    ASSUME IInv, NEW r \in Requests, NEW o \in Opaques, RefreshIssue(r, o)
    PROVE  RG!Next \/ UNCHANGED Promise
  <1> DEFINE p == req[r].token
             from == origin[p]
  <1>1. /\ TypeOK /\ At(r, "rotate") /\ Fresh(o) /\ held' = held
        /\ Store(r, o, p, from)
    BY DEF IInv, RefreshIssue
  <1>2. Rotating(r) /\ ~SetsCookie(r)
    BY <1>1 DEF Rotating, SetsCookie, At
  <1>3. p \in Opaques /\ p \in DOMAIN ledger /\ req[r].user \in Users
    BY <1>2, BegunNotIdle
  <1>4. p \in DOMAIN origin /\ from \in Origin
    BY <1>1, <1>3 DEF IInv, AllDrawn, TypeOK
  <1>5. /\ \A q \in Delivered : Worth(q)' = Worth(q) /\ origin'[q] = origin[q]
        /\ Spent' = Spent \cup {from.nonce}
    BY <1>1, <1>3, <1>4, WorthStored
  <1>6. Spent' = Spent
    BY <1>4, <1>5 DEF Spent
  <1>7. CASE Goto(r, [req[r] EXCEPT !.at = "retire", !.child = o])
    <2>1. /\ req'[r].at = "retire" /\ req'[r].token = req[r].token
          /\ req'[r].user = req[r].user
          /\ \A q \in Requests \ {r} : req'[q] = req[q]
      BY <1>1, <1>7 DEF TypeOK, Goto, Slot
    <2>2. Rotating(r)' /\ ~SetsCookie(r)'
      BY <2>1 DEF Rotating, SetsCookie, At
    <2>3. Begun' = Begun
      BY <1>2, <2>1, <2>2, BegunStays
    <2>4. Delivered' = Delivered
      BY <1>1, <1>2, <2>1, <2>2, DeliveredStep
    <2>5. Granted' = Granted
      BY <1>5, <2>4, GrantedStays
    <2>6. QED
      BY <1>1, <1>6, <2>3, <2>5 DEF Promise
  <1>8. CASE Answer(r, 500)
    <2>1. /\ req'[r].at = "answered" /\ req'[r].status = 500
          /\ \A q \in Requests \ {r} : req'[q] = req[q]
      BY <1>1, <1>8, AnswerLemma DEF Statuses
    <2>2. ~Rotating(r)' /\ ~SetsCookie(r)'
      BY <2>1 DEF Rotating, SetsCookie, At
    <2>3. Delivered' = Delivered
      BY <1>1, <1>2, <2>1, <2>2, DeliveredStep
    <2>4. Granted' = Granted
      BY <1>5, <2>3, GrantedStays
    <2>5. RG!GiveUp(r)
      BY <1>1, <1>2, <1>6, <2>1, <2>2, <2>4, GiveUpPromise
    <2>6. QED
      BY <2>5 DEF RG!Next
  <1>9. QED
    BY <1>7, <1>8 DEF RefreshIssue

\* The instant of a rotation: its predecessor dies as the successor is given
\* to the answer, for the sign-in they share.
LEMMA RotatePromise ==
    ASSUME GrantInv, NEW r \in Requests, At(r, "retire"), Answer(r, 204),
           ledger' = WithRevoked(req[r].token), held' = held, origin' = origin
    PROVE  RG!Next
  <1>0. PICK p, c, user : /\ p = req[r].token /\ c = req[r].child
                          /\ user = req[r].user
    OBVIOUS
  <1>1. TypeOK /\ IInv /\ SameSignIn
    BY DEF GrantInv, IInv
  <1>2. Rotating(r) /\ ~SetsCookie(r) /\ HasChild(r)
    BY DEF Rotating, SetsCookie, HasChild, At
  <1>3. /\ Begun[r] # RG!NoRefresh /\ Begun[r].token = p /\ Begun[r].user = user
        /\ p \in held \cap DOMAIN ledger
    BY <1>0, <1>1, <1>2, BegunNotIdle
  <1>4. /\ c \in DOMAIN ledger \ held /\ c \in Opaques /\ c \notin Delivered
    BY <1>0, <1>1, <1>2, ChildIsNew
  <1>5. ~ledger[c].revoked /\ ledger[c].user = user
    BY <1>0, <1>1, <1>2 DEF IInv, ChildrenPrivate
  <1>6. origin[c] = origin[p]
    BY <1>0, <1>1 DEF SameSignIn
  <1>7. /\ req'[r].at = "answered" /\ req'[r].status = 204 /\ req'[r].child = c
        /\ \A q \in Requests \ {r} : req'[q] = req[q]
    BY <1>0, <1>1, AnswerLemma DEF Statuses
  <1>8. ~Rotating(r)' /\ SetsCookie(r)'
    BY <1>0, <1>4, <1>7, LedgerAssumption DEF Rotating, SetsCookie, At
  <1>9. Begun' = [Begun EXCEPT ![r] = RG!NoRefresh]
    BY <1>7, <1>8, BegunEnds
  <1>10. Delivered' = Delivered \cup {c}
    BY <1>2, <1>7, <1>8, DeliveredStep
  <1>11. Worth(p)' = NoUser /\ \A o : o # p => Worth(o)' = Worth(o)
    BY <1>0, <1>1, <1>3, WorthRevoked
  <1>12. Worth(c)' = user
    <2>1. c # p /\ Worth(c) = user
      BY <1>3, <1>4, <1>5 DEF Worth
    <2>2. QED
      BY <1>11, <2>1
  <1>13. p \in Delivered /\ Granted[p].login = origin[p]
    BY <1>3 DEF Delivered, Granted
  <1>14. RG!Without(p) = [o \in Delivered |->
                            IF o = p THEN [user |-> NoUser, login |-> origin[o]]
                            ELSE [user |-> Worth(o), login |-> origin[o]]]
    BY WithoutIs
  <1>15. Granted' = [o \in Delivered \cup {c} |->
                        IF o = c THEN [user |-> user, login |-> origin[p]]
                        ELSE IF o = p THEN [user |-> NoUser, login |-> origin[o]]
                        ELSE [user |-> Worth(o), login |-> origin[o]]]
    <2>1. Granted' = [o \in Delivered \cup {c} |->
                         [user |-> Worth(o)', login |-> origin[o]]]
      BY <1>10 DEF Granted
    <2>2. QED
      BY <1>6, <1>11, <1>12, <2>1
  <1>16. Granted' = RG!Put(RG!Without(p), c, RG!Grant(user, Granted[p].login))
    BY <1>4, <1>13, <1>14, <1>15 DEF RG!Put, RG!Grant
  <1>17. Spent' = Spent /\ c \notin DOMAIN Granted
    BY <1>4 DEF Spent, Granted
  <1>18. RG!Rotate(r, c)
    BY <1>3, <1>9, <1>16, <1>17 DEF RG!Rotate
  <1>19. QED
    BY <1>4, <1>18 DEF RG!Next

LEMMA RevokePromise ==
    ASSUME GrantInv, NEW r \in Requests, RefreshRevoke(r)
    PROVE  RG!Next
  <1> DEFINE p == req[r].token
  <1>1. /\ TypeOK /\ IInv /\ At(r, "retire")
        /\ ledger' \in {ledger, WithRevoked(p)}
        /\ held' = held /\ origin' = origin
    BY DEF GrantInv, IInv, RefreshRevoke
  <1>2. CASE Answer(r, 204) /\ ledger' = WithRevoked(p)
    BY <1>1, <1>2, RotatePromise
  <1>3. CASE Answer(r, 500)
    <2>1. /\ req'[r].at = "answered" /\ req'[r].status = 500
          /\ \A q \in Requests \ {r} : req'[q] = req[q]
      BY <1>1, <1>3, AnswerLemma DEF Statuses
    <2>2. /\ Rotating(r) /\ ~Rotating(r)'
          /\ ~SetsCookie(r) /\ ~SetsCookie(r)'
      BY <1>1, <2>1 DEF Rotating, SetsCookie, At
    <2>3. Granted' \in {Granted, RG!Without(p)} /\ Spent' = Spent
      <3>1. CASE ledger' = ledger
        BY <1>1, <2>1, <2>2, <3>1, QuietGranted
      <3>2. CASE ledger' = WithRevoked(p)
        <4>1. p \in held \cap DOMAIN ledger
          BY <1>1, <2>2, BegunNotIdle
        <4>2. Delivered' = Delivered
          BY <1>1, <2>1, <2>2, DeliveredStep
        <4>3. QED
          BY <1>1, <3>2, <4>1, <4>2, GrantedRevoked DEF Spent
      <3>3. QED
        BY <1>1, <3>1, <3>2
    <2>4. RG!GiveUp(r)
      BY <1>1, <2>1, <2>2, <2>3, GiveUpPromise
    <2>5. QED
      BY <2>4 DEF RG!Next
  <1>4. QED
    BY <1>2, <1>3 DEF RefreshRevoke

-----------------------------------------------------------------------------
(* The other steps.                                                          *)

LEMMA LogoutPromise ==
    ASSUME IInv, NEW r \in Requests, LogoutRevoke(r)
    PROVE  RG!Next \/ UNCHANGED Promise
  <1> DEFINE p == req[r].token
  <1>1. /\ TypeOK /\ At(r, "revoke") /\ Answer(r, 204)
        /\ ledger' \in {ledger, WithRevoked(p)}
        /\ held' = held /\ origin' = origin
    BY DEF IInv, LogoutRevoke
  <1>2. /\ p \in held \cap DOMAIN ledger /\ p \in Opaques /\ req[r].child = NoToken
    BY <1>1 DEF IInv, SlotsOK, UsesToken, At, TypeOK
  <1>3. /\ req'[r].at = "answered" /\ req'[r].child = NoToken
        /\ \A q \in Requests \ {r} : req'[q] = req[q]
    BY <1>1, <1>2, AnswerLemma DEF Statuses
  <1>4. /\ ~Rotating(r) /\ ~Rotating(r)'
        /\ ~SetsCookie(r) /\ ~SetsCookie(r)'
    BY <1>1, <1>3 DEF Rotating, SetsCookie, At
  <1>5. CASE ledger' = ledger
    BY <1>1, <1>3, <1>4, <1>5, QuietPromise
  <1>6. CASE ledger' = WithRevoked(p)
    <2>1. Delivered' = Delivered
      BY <1>1, <1>3, <1>4, DeliveredStep
    <2>2. Granted' = RG!Without(p) /\ Spent' = Spent
      BY <1>1, <1>2, <1>6, <2>1, GrantedRevoked DEF Spent
    <2>3. Begun' = Begun
      BY <1>3, <1>4, BegunStays
    <2>4. RG!SignOut(p)
      BY <1>1, <1>2, <2>2, <2>3 DEF RG!SignOut
    <2>5. QED
      BY <1>2, <2>4 DEF RG!Next
  <1>7. QED
    BY <1>1, <1>5, <1>6

\* A response brings the successor in hand, if it sets a cookie at all.
LEMMA CookieIs ==
    ASSUME NEW r \in Requests
    PROVE  Cookie(r) = IF SetsCookie(r) THEN {req[r].child} ELSE {}
  BY DEF Cookie, SetsCookie, At

LEMMA RespondPromise ==
    ASSUME IInv, NEW r \in Requests, Respond(r)
    PROVE  RG!Next \/ UNCHANGED Promise
  <1> DEFINE c == req[r].child
  <1>1. /\ TypeOK /\ At(r, "answered")
        /\ ledger' = ledger /\ origin' = origin
        /\ held' = held \cup Cookie(r) \/ held' = held
    BY DEF IInv, Respond
  <1>2. /\ req'[r].at = "idle"
        /\ \A q \in Requests \ {r} : req'[q] = req[q]
    BY <1>1, IdleIsSlot, GotoLemma DEF Respond, IdleSlot
  <1>3. ~Rotating(r) /\ ~Rotating(r)' /\ ~SetsCookie(r)'
    BY <1>1, <1>2 DEF Rotating, SetsCookie, At
  <1>4. Begun' = Begun
    BY <1>2, <1>3, BegunStays
  <1>5. Spent' = Spent /\ \A o : Worth(o)' = Worth(o)
    BY <1>1 DEF Spent, Worth
  <1>6. CASE ~SetsCookie(r)
    BY <1>1, <1>2, <1>3, <1>6, CookieIs, QuietPromise
  <1>7. CASE SetsCookie(r)
    <2>1. HasChild(r)
      BY <1>7 DEF HasChild
    <2>2. /\ c \notin held /\ c \in Opaques
          /\ \A q \in Requests \ {r} : SetsCookie(q) => req[q].child # c
      BY <2>1, ChildIsNew
    <2>3. c \in Delivered
      BY <1>7, DeliveredLemma
    <2>4. \A q \in Requests \ {r} : SetsCookie(q)' <=> SetsCookie(q)
      BY <1>2 DEF SetsCookie, At
    <2>5. c \in DOMAIN Granted \ held
      BY <2>2, <2>3 DEF Granted
    <2>6. \A o : o \in Delivered' <=>
              \/ o \in held'
              \/ \E q \in Requests \ {r} : SetsCookie(q) /\ o = req[q].child
      BY <1>2, <1>3, <2>4 DEF Delivered, Cookie, SetsCookie, At
    <2>7. CASE held' = held \cup Cookie(r)
      <3>1. held' = held \cup {c}
        BY <1>7, <2>7, CookieIs
      <3>2. Delivered' = Delivered
        BY <1>7, <2>6, <3>1, DeliveredLemma
      <3>3. Granted' = Granted
        BY <1>1, <1>5, <3>2, GrantedStays
      <3>4. RG!Deliver(c)
        BY <1>4, <1>5, <2>5, <3>1, <3>3 DEF RG!Deliver
      <3>5. QED
        BY <2>2, <3>4 DEF RG!Next
    <2>8. CASE held' = held
      <3>1. Delivered' = Delivered \ {c}
        BY <1>7, <2>2, <2>6, <2>8, DeliveredLemma
      <3>2. Granted' = [o \in Delivered \ {c} |->
                            [user |-> Worth(o), login |-> origin[o]]]
        BY <1>1, <1>5, <3>1 DEF Granted
      <3>3. Granted' = RG!Delete(Granted, c)
        BY <3>2 DEF Granted, RG!Delete, RG!Restrict
      <3>4. RG!Lose(c)
        BY <1>4, <1>5, <2>5, <2>8, <3>3 DEF RG!Lose
      <3>5. QED
        BY <2>2, <3>4 DEF RG!Next
    <2>9. QED
      BY <1>1, <2>7, <2>8
  <1>8. QED
    BY <1>6, <1>7

LEMMA CrashPromise ==
    ASSUME IInv, Crash
    PROVE  RG!Next
  <1>1. /\ held' = held /\ origin' = origin
        /\ ledger' = ledger \/ ledger' = EmptyMap
        /\ req' = [r \in Requests |-> IdleSlot]
    BY DEF Crash
  <1>2. \A r \in Requests : ~Rotating(r)' /\ ~SetsCookie(r)'
    BY <1>1 DEF Rotating, SetsCookie, At, IdleSlot
  <1>3. Delivered' = held
    BY <1>1, <1>2 DEF Delivered, Cookie, SetsCookie, At
  <1>4. Begun' = [r \in Requests |-> RG!NoRefresh]
    BY <1>2, BegunIsNext DEF BegunAt, RG!NoRefresh
  <1>5. held \subseteq Delivered /\ Spent' = Spent
    BY <1>1 DEF Delivered, Spent
  <1>6. Granted' = [o \in held |-> [user |-> Worth(o)', login |-> origin[o]]]
    BY <1>1, <1>3 DEF Granted
  <1>7. CASE ledger' = ledger
    <2>1. \A o : Worth(o)' = Worth(o)
      BY <1>7 DEF Worth
    <2>2. Granted' = [o \in held |-> Granted[o]]
      BY <1>5, <1>6, <2>1 DEF Granted
    <2>3. QED
      BY <1>1, <1>4, <1>5, <2>2 DEF RG!Restart, RG!Next
  <1>8. CASE ledger' = EmptyMap
    <2>1. \A o : Worth(o)' = NoUser
      BY <1>8 DEF Worth, EmptyMap
    <2>2. Granted' = [o \in held |-> [user |-> NoUser, login |-> origin[o]]]
      BY <1>6, <2>1
    <2>3. \A o \in held : [Granted[o] EXCEPT !.user = NoUser]
                              = [user |-> NoUser, login |-> origin[o]]
      BY <1>5 DEF Granted
    <2>4. Granted' = [o \in held |-> [Granted[o] EXCEPT !.user = NoUser]]
      BY <2>2, <2>3
    <2>5. QED
      BY <1>1, <1>4, <1>5, <2>4 DEF RG!Restart, RG!Next
  <1>9. QED
    BY <1>1, <1>7, <1>8

\* Steps that only lead a login or a logout on, or answer a request at once.
QuietAction(r) ==
    \/ LoginMalformed(r) \/ \E n \in Nonces : LoginConsume(r, n)
    \/ \E credential \in Credentials : LoginVerify(r, credential)
    \/ LoginUpsertBegin(r) \/ LoginUpsertEnd(r)
    \/ At(r, "issue") /\ IssueFails(r)
    \/ RefreshNoCookie(r)
    \/ LogoutNoCookie(r) \/ \E o \in held : LogoutValidate(r, o)

\* After a step of slot r that the promise sees nothing of.
Unseen(r) ==
    /\ \A q \in Requests \ {r} : req'[q] = req[q]
    /\ ~Rotating(r)' /\ ~SetsCookie(r)'

LEMMA QuietMoves ==
    ASSUME IInv, NEW r \in Requests, QuietAction(r)
    PROVE  /\ ledger' = ledger /\ held' = held /\ origin' = origin
           /\ ~Rotating(r) /\ ~SetsCookie(r) /\ Unseen(r)
  <1>1. /\ TypeOK
        /\ ledger' = ledger /\ held' = held /\ origin' = origin
        /\ req[r].at \in {"idle", "verify", "upsert", "writing", "issue"}
    BY DEF IInv, QuietAction, LoginMalformed, LoginConsume, LoginVerify,
           LoginUpsertBegin, LoginUpsertEnd, IssueFails, RefreshNoCookie,
           LogoutNoCookie, LogoutValidate, At
  <1>2. ~Rotating(r) /\ ~SetsCookie(r)
    BY <1>1 DEF Rotating, SetsCookie, At
  <1>3. ASSUME NEW kind \in {"login", "refresh", "logout"},
               NEW token \in Opaques \cup {NoToken}, NEW status \in Statuses,
               AnswerAtOnce(r, kind, token, status)
        PROVE  Unseen(r)
    <2>1. /\ req'[r].at = "answered" /\ req'[r].child = NoToken
          /\ \A q \in Requests \ {r} : req'[q] = req[q]
      BY <1>1, <1>3, AnswerAtOnceLemma
    <2>2. QED
      BY <2>1 DEF Unseen, Rotating, SetsCookie, At
  <1>4. ASSUME NEW status \in {401, 500}, Answer(r, status)
        PROVE  Unseen(r)
    <2>1. /\ req'[r].at = "answered" /\ req'[r].status = status
          /\ \A q \in Requests \ {r} : req'[q] = req[q]
      BY <1>1, <1>4, AnswerLemma DEF Statuses
    <2>2. QED
      BY <2>1 DEF Unseen, Rotating, SetsCookie, At
  <1>5. ASSUME NEW slot, Goto(r, slot),
               slot.at \in {"verify", "upsert", "writing", "issue", "revoke"}
        PROVE  Unseen(r)
    BY <1>1, <1>5 DEF TypeOK, Goto, Unseen, Rotating, SetsCookie, At
  <1>6. Unseen(r)
    <2>1. CASE LoginMalformed(r) \/ RefreshNoCookie(r) \/ LogoutNoCookie(r)
      BY <1>3, <2>1
         DEF LoginMalformed, RefreshNoCookie, LogoutNoCookie, Statuses
    <2>2. ASSUME NEW n \in Nonces, LoginConsume(r, n) PROVE Unseen(r)
      <3> DEFINE slot == [IdleSlot EXCEPT !.kind = "login", !.at = "verify",
                                          !.nonce = n]
      <3>1. slot.at = "verify"
        BY DEF IdleSlot
      <3> HIDE DEF slot
      <3>2. CASE Goto(r, slot)
        BY <1>5, <3>1, <3>2
      <3>3. QED
        BY <1>3, <2>2, <3>2 DEF LoginConsume, Statuses, slot
    <2>3. ASSUME NEW credential \in Credentials, LoginVerify(r, credential)
          PROVE  Unseen(r)
      <3> DEFINE slot == [req[r] EXCEPT !.at = "upsert",
                                        !.user = credential.user,
                                        !.nonce = credential.nonce]
      <3>1. slot.at = "upsert"
        BY <1>1 DEF TypeOK, Slot
      <3> HIDE DEF slot
      <3>2. CASE Goto(r, slot)
        BY <1>5, <3>1, <3>2
      <3>3. QED
        BY <1>4, <2>3, <3>2 DEF LoginVerify, slot
    <2>4. CASE LoginUpsertBegin(r)
      <3>1. [req[r] EXCEPT !.at = "writing"].at = "writing"
        BY <1>1 DEF TypeOK, Slot
      <3>2. QED
        BY <1>5, <2>4, <3>1 DEF LoginUpsertBegin
    <2>5. CASE LoginUpsertEnd(r)
      <3>1. [req[r] EXCEPT !.at = "issue"].at = "issue"
        BY <1>1 DEF TypeOK, Slot
      <3>2. QED
        BY <1>5, <2>5, <3>1 DEF LoginUpsertEnd
    <2>6. CASE IssueFails(r)
      BY <1>4, <2>6 DEF IssueFails
    <2>7. ASSUME NEW o \in held, LogoutValidate(r, o) PROVE Unseen(r)
      <3> DEFINE slot == [IdleSlot EXCEPT !.kind = "logout", !.at = "revoke",
                                          !.token = o]
      <3>1. slot.at = "revoke" /\ o \in Opaques
        BY <1>1 DEF IdleSlot, TypeOK
      <3> HIDE DEF slot
      <3>2. CASE Goto(r, slot)
        BY <1>5, <3>1, <3>2
      <3>3. QED
        BY <1>3, <2>7, <3>1, <3>2 DEF LogoutValidate, Statuses, slot
    <2>8. QED
      BY <2>1, <2>2, <2>3, <2>4, <2>5, <2>6, <2>7 DEF QuietAction
  <1>7. QED
    BY <1>1, <1>2, <1>6

LEMMA QuietActionPromise ==
    ASSUME IInv, NEW r \in Requests, QuietAction(r)
    PROVE  UNCHANGED Promise
  BY QuietMoves, QuietPromise DEF Unseen

-----------------------------------------------------------------------------
(* The invariant.                                                            *)

\* Slots that stay where they are keep it, since no origin changes.
LEMMA SignInKept ==
    ASSUME GrantInv, NEW r \in Requests,
           \A q \in Requests \ {r} : req'[q] = req[q],
           \A o \in DOMAIN origin : origin'[o] = origin[o],
           At(r, "retire")' => origin'[req'[r].child] = origin'[req'[r].token]
    PROVE  SameSignIn'
  <1> SUFFICES ASSUME NEW q \in Requests, At(q, "retire")'
               PROVE  origin'[req'[q].child] = origin'[req'[q].token]
    BY DEF SameSignIn
  <1>1. CASE q = r
    BY <1>1
  <1>2. CASE q # r
    <2>1. req'[q] = req[q] /\ At(q, "retire")
      BY <1>2 DEF At
    <2>2. /\ req[q].child \in DOMAIN origin /\ req[q].token \in DOMAIN origin
          /\ origin[req[q].child] = origin[req[q].token]
      BY <2>1 DEF GrantInv, SameSignIn, IInv, AllDrawn, ChildrenPrivate, SlotsOK,
                  HasChild, UsesToken, At
    <2>3. QED
      BY <2>1, <2>2
  <1>3. QED
    BY <1>1, <1>2

LEMMA StoreSignIn ==
    ASSUME GrantInv, NEW r \in Requests, NEW o \in Opaques,
           LoginIssue(r, o) \/ RefreshIssue(r, o)
    PROVE  SameSignIn'
  <1>1. TypeOK /\ o \notin DOMAIN origin
    BY DEF GrantInv, IInv, LoginIssue, RefreshIssue, Fresh
  <1>2. CASE LoginIssue(r, o)
    <2>1. origin' = Put(origin, o, [root |-> o, nonce |-> req[r].nonce])
      BY <1>2 DEF LoginIssue, Store
    <2>2. \A p \in DOMAIN origin : origin'[p] = origin[p]
      BY <1>1, <2>1 DEF Put
    <2>3. /\ \A q \in Requests \ {r} : req'[q] = req[q]
          /\ ~At(r, "retire")'
      <3>1. CASE Goto(r, [req[r] EXCEPT !.at = "answered", !.status = 200,
                                        !.child = o])
        BY <1>1, <3>1 DEF TypeOK, Goto, Slot, At
      <3>2. CASE Answer(r, 500)
        BY <1>1, <3>2, AnswerLemma DEF Statuses, At
      <3>3. QED
        BY <1>2, <3>1, <3>2 DEF LoginIssue
    <2>4. QED
      BY <2>2, <2>3, SignInKept
  <1>3. CASE RefreshIssue(r, o)
    <2> DEFINE p == req[r].token
    <2>1. /\ origin' = Put(origin, o, origin[p]) /\ At(r, "rotate")
          /\ \/ Goto(r, [req[r] EXCEPT !.at = "retire", !.child = o])
             \/ Answer(r, 500)
      BY <1>3 DEF RefreshIssue, Store
    <2>2. p \in DOMAIN origin
      BY <2>1 DEF GrantInv, IInv, SlotsOK, UsesToken, AllDrawn, At
    <2>3. /\ \A q \in DOMAIN origin : origin'[q] = origin[q]
          /\ origin'[o] = origin[p]
      BY <1>1, <2>1 DEF Put
    <2>4. /\ \A q \in Requests \ {r} : req'[q] = req[q]
          /\ At(r, "retire")' => req'[r].child = o /\ req'[r].token = p
      <3>1. CASE Goto(r, [req[r] EXCEPT !.at = "retire", !.child = o])
        BY <1>1, <3>1 DEF TypeOK, Goto, Slot, At
      <3>2. CASE Answer(r, 500)
        BY <1>1, <3>2, AnswerLemma DEF Statuses, At
      <3>3. QED
        BY <2>1, <3>1, <3>2
    <2>5. QED
      BY <2>2, <2>3, <2>4, SignInKept
  <1>4. QED
    BY <1>2, <1>3

\* No other step of a handler leads to the end of a predecessor.
LEMMA MoveSignIn ==
    ASSUME GrantInv, NEW r \in Requests,
           \/ \E o \in held : RefreshValidate(r, o)
           \/ RefreshProfile(r) \/ RefreshRevoke(r) \/ LogoutRevoke(r)
           \/ IssueFails(r) \/ Respond(r)
    PROVE  SameSignIn'
  <1>1. TypeOK /\ origin' = origin
    BY DEF GrantInv, IInv, RefreshValidate, RefreshProfile, RefreshRevoke,
           LogoutRevoke, IssueFails, Respond
  <1>2. ASSUME NEW slot, Goto(r, slot), slot.at # "retire"
        PROVE  SameSignIn'
    <2>1. /\ \A q \in Requests \ {r} : req'[q] = req[q]
          /\ ~At(r, "retire")'
      BY <1>1, <1>2 DEF Goto, At, TypeOK
    <2>2. QED
      BY <1>1, <2>1, SignInKept
  <1>3. ASSUME NEW status, Answer(r, status) PROVE SameSignIn'
    <2>1. [req[r] EXCEPT !.at = "answered", !.status = status].at # "retire"
      BY <1>1 DEF TypeOK, Slot
    <2>2. QED
      BY <1>2, <1>3, <2>1 DEF Answer
  <1>4. ASSUME NEW o \in held, RefreshValidate(r, o) PROVE SameSignIn'
    <2> DEFINE slot == [IdleSlot EXCEPT !.kind = "refresh", !.at = "profile",
                                        !.token = o, !.user = ledger[o].user]
               answer == [IdleSlot EXCEPT !.kind = "refresh", !.at = "answered",
                                          !.token = o, !.status = 401]
    <2>1. slot.at # "retire" /\ answer.at # "retire"
      BY DEF IdleSlot
    <2>2. Goto(r, slot) \/ Goto(r, answer)
      BY <1>4 DEF RefreshValidate, AnswerAtOnce
    <2> HIDE DEF slot, answer
    <2>3. QED
      BY <1>2, <2>1, <2>2
  <1>5. CASE RefreshProfile(r)
    <2>1. [req[r] EXCEPT !.at = "rotate"].at # "retire"
      BY <1>1 DEF TypeOK, Slot
    <2>2. QED
      BY <1>2, <1>3, <1>5, <2>1 DEF RefreshProfile
  <1>6. CASE Respond(r)
    BY <1>2, <1>6 DEF Respond, IdleSlot
  <1>7. QED
    BY <1>3, <1>4, <1>5, <1>6 DEF RefreshRevoke, LogoutRevoke, IssueFails

LEMMA NextSignIn ==
    ASSUME GrantInv, [Next]_vars
    PROVE  SameSignIn'
  <1>1. ASSUME NEW r \in Requests, QuietAction(r) PROVE SameSignIn'
    <2>1. origin' = origin /\ Unseen(r)
      BY <1>1, QuietMoves DEF GrantInv
    <2>2. ~At(r, "retire")'
      BY <2>1 DEF Unseen, Rotating, At
    <2>3. QED
      BY <2>1, <2>2, SignInKept DEF Unseen
  <1>2. ASSUME NEW r \in Requests, LoginStep(r) \/ RefreshStep(r) \/ LogoutStep(r)
        PROVE  SameSignIn'
    BY <1>1, <1>2, StoreSignIn, MoveSignIn
       DEF LoginStep, RefreshStep, LogoutStep, QuietAction
  <1>3. ASSUME NEW r \in Requests, IssueFails(r) \/ Respond(r)
        PROVE  SameSignIn'
    BY <1>3, MoveSignIn
  <1>4. CASE Crash
    BY <1>4 DEF Crash, SameSignIn, At, IdleSlot
  <1>5. CASE Tick \/ (\E n \in Nonces : NonceIssue(n)) \/ UNCHANGED vars
    BY <1>5 DEF Tick, NonceIssue, vars, GrantInv, SameSignIn, At
  <1>6. QED
    BY <1>2, <1>3, <1>4, <1>5 DEF Next

LEMMA GrantInductive == Spec => []GrantInv
  <1>1. Init => SameSignIn
    BY DEF Init, SameSignIn, At, IdleSlot
  <1>2. IInv /\ SameSignIn /\ [Next]_vars => SameSignIn'
    BY NextSignIn DEF GrantInv
  <1>3. QED
    BY <1>1, <1>2, Inductive, PTL DEF Spec, GrantInv

\* Every step of the service is a step of the promise, or is not seen.
LEMMA StepPromise ==
    ASSUME GrantInv, [Next]_vars
    PROVE  RG!Next \/ UNCHANGED Promise
  <1>1. IInv
    BY DEF GrantInv
  <1>2. ASSUME NEW r \in Requests, LoginStep(r)
        PROVE  RG!Next \/ UNCHANGED Promise
    BY <1>1, <1>2, QuietActionPromise, LoginPromise DEF LoginStep, QuietAction
  <1>3. ASSUME NEW r \in Requests, RefreshStep(r)
        PROVE  RG!Next \/ UNCHANGED Promise
    BY <1>1, <1>3, QuietActionPromise, ValidatePromise, ProfilePromise,
       RefreshIssuePromise, RevokePromise DEF RefreshStep, QuietAction
  <1>4. ASSUME NEW r \in Requests, LogoutStep(r)
        PROVE  RG!Next \/ UNCHANGED Promise
    BY <1>1, <1>4, QuietActionPromise, LogoutPromise DEF LogoutStep, QuietAction
  <1>5. ASSUME NEW r \in Requests, IssueFails(r)
        PROVE  RG!Next \/ UNCHANGED Promise
    <2>1. CASE At(r, "issue")
      BY <1>1, <1>5, <2>1, QuietActionPromise DEF QuietAction
    <2>2. CASE At(r, "rotate")
      BY <1>1, <1>5, <2>2, RefusalPromise DEF IssueFails
    <2>3. QED
      BY <1>5, <2>1, <2>2 DEF IssueFails, At
  <1>6. ASSUME NEW r \in Requests, Respond(r)
        PROVE  RG!Next \/ UNCHANGED Promise
    BY <1>1, <1>6, RespondPromise
  <1>7. CASE Crash
    BY <1>1, <1>7, CrashPromise
  <1>8. CASE Tick \/ (\E n \in Nonces : NonceIssue(n)) \/ UNCHANGED vars
    BY <1>8 DEF Tick, NonceIssue, vars, Promise, Granted, Worth, Delivered,
                Cookie, At, Begun, Spent
  <1>9. QED
    BY <1>2, <1>3, <1>4, <1>5, <1>6, <1>7, <1>8 DEF Next

\* The four endpoints implement the promise, for any number of clients, tokens,
\* crashes and failing calls: however validations, reads, issues and revocations
\* of several requests interleave, clients see sign-ins, rotations and logouts
\* that happen in one instant or not at all.
THEOREM ServiceKeepsGrants == Spec => IsRefreshGrants
  <1>1. Init => RG!Init
    <2> SUFFICES ASSUME Init PROVE RG!Init
      OBVIOUS
    <2>1. Delivered = {} /\ held = {} /\ DOMAIN origin = {}
      BY DEF Init, Delivered, Cookie, At, IdleSlot, EmptyMap
    <2>2. Granted = RG!EmptyMap
      BY <2>1 DEF Granted, RG!EmptyMap
    <2>3. Begun = [r \in Requests |-> RG!NoRefresh]
      BY DEF Init, Begun, IdleSlot, RG!NoRefresh
    <2>4. QED
      BY <2>1, <2>2, <2>3 DEF RG!Init, Spent
  <1>2. GrantInv /\ [Next]_vars => [RG!Next]_(RG!vars)
    BY StepPromise DEF Promise, RG!vars
  <1>3. QED
    BY <1>1, <1>2, GrantInductive, PTL DEF Spec, IsRefreshGrants, RG!Spec

-----------------------------------------------------------------------------
(* What the promise is worth: a sign-in never changes hands.                 *)

\* The good tokens of one sign-in are all of one user.
OneUserPerSignIn ==
    \A o, p \in DOMAIN Granted :
        /\ Granted[o].user # NoUser /\ Granted[p].user # NoUser
        /\ Granted[o].login = Granted[p].login
        => Granted[o].user = Granted[p].user

UnderWay == {r \in Requests : Begun[r] # RG!NoRefresh}

\* Who a sign-in is for, by the good tokens and by the refreshes under way.
Claims ==
    {<<Granted[o].login, Granted[o].user>> :
        o \in {p \in DOMAIN Granted : Granted[p].user # NoUser}}
    \cup {<<Granted[Begun[r].token].login, Begun[r].user>> : r \in UnderWay}

\* The refreshes under way are about tokens clients hold, sign-ins have spent
\* their credentials, and no two claims contradict each other.
ClaimsOK ==
    /\ held \subseteq DOMAIN Granted
    /\ \A r \in UnderWay : Begun[r].token \in held
    /\ \A o \in DOMAIN Granted : Granted[o].login.nonce \in Spent
    /\ \A a, b \in Claims : a[1] = b[1] => a[2] = b[2]

\* What the death of p makes of the other grants.
LEMMA WithoutMap ==
    ASSUME NEW p
    PROVE  /\ DOMAIN RG!Without(p) = DOMAIN Granted
           /\ \A o \in DOMAIN Granted :
                 /\ RG!Without(p)[o].login = Granted[o].login
                 /\ RG!Without(p)[o].user
                        = IF o = p THEN NoUser ELSE Granted[o].user
  BY WithoutIs DEF Granted

\* Begun, once slot r has a new value.
LEMMA BegunMap ==
    ASSUME NEW r \in Requests, NEW x, Begun' = [Begun EXCEPT ![r] = x]
    PROVE  /\ Begun'[r] = x
           /\ \A q \in Requests \ {r} : Begun'[q] = Begun[q]
  BY BegunIs

\* A step that gives nobody a new claim.
LEMMA NoNewClaim ==
    ASSUME ClaimsOK, held' \subseteq DOMAIN Granted', held \subseteq held',
           Spent' = Spent,
           \A r \in UnderWay' : r \in UnderWay /\ Begun'[r] = Begun[r],
           \A o \in DOMAIN Granted' :
               /\ o \in DOMAIN Granted
               /\ Granted'[o].login = Granted[o].login
               /\ Granted'[o].user \in {Granted[o].user, NoUser}
    PROVE  ClaimsOK'
  <1>1. \A r \in UnderWay' : Begun'[r].token \in held'
    BY DEF ClaimsOK
  <1>2. \A o \in DOMAIN Granted' : Granted'[o].login.nonce \in Spent'
    BY DEF ClaimsOK
  <1>3. Claims' \subseteq Claims
    BY <1>1 DEF Claims, ClaimsOK
  <1>4. QED
    BY <1>1, <1>2, <1>3 DEF ClaimsOK

LEMMA ClaimsInductive == Spec => []ClaimsOK
  <1>1. RG!Init => ClaimsOK
    BY DEF RG!Init, RG!EmptyMap, ClaimsOK, Claims, UnderWay
  <1>2. ClaimsOK /\ RG!Next => ClaimsOK'
    <2> SUFFICES ASSUME ClaimsOK, RG!Next PROVE ClaimsOK'
      OBVIOUS
    <2>1. ASSUME NEW o \in Opaques, NEW user \in Users, NEW n \in Nonces,
                 RG!SignIn(o, user, n)
          PROVE  ClaimsOK'
      <3> DEFINE login == [root |-> o, nonce |-> n]
      <3>1. /\ o \notin DOMAIN Granted /\ n \notin Spent
            /\ held' = held /\ Begun' = Begun /\ Spent' = Spent \cup {n}
            /\ DOMAIN Granted' = DOMAIN Granted \cup {o}
            /\ Granted'[o].user = user /\ Granted'[o].login = login
            /\ \A p \in DOMAIN Granted : Granted'[p] = Granted[p]
        <4>1. /\ o \notin DOMAIN Granted /\ n \notin Spent
              /\ held' = held /\ Begun' = Begun /\ Spent' = Spent \cup {n}
              /\ Granted' = RG!Put(Granted, o, RG!Grant(user, login))
          BY <2>1 DEF RG!SignIn
        <4> HIDE DEF login
        <4>2. QED
          BY <4>1 DEF RG!Put, RG!Grant
      <3>2. login.nonce = n
        OBVIOUS
      <3> HIDE DEF login
      <3>3. UnderWay' = UnderWay
        BY <3>1 DEF UnderWay, RG!NoRefresh
      <3>4. Claims' \subseteq Claims \cup {<<login, user>>}
        BY <3>1, <3>3 DEF Claims, ClaimsOK
      <3>5. \A a \in Claims : a[1] # login
        BY <3>1, <3>2 DEF Claims, ClaimsOK
      <3>6. QED
        BY <3>1, <3>2, <3>3, <3>4, <3>5 DEF ClaimsOK
    <2>2. ASSUME NEW n \in Nonces, RG!SignInFails(n) PROVE ClaimsOK'
      BY <2>2 DEF RG!SignInFails, ClaimsOK, Claims, UnderWay, RG!NoRefresh
    <2>3. ASSUME NEW r \in Requests, NEW o \in Opaques, RG!Begin(r, o)
          PROVE  ClaimsOK'
      <3>1. /\ o \in held /\ Granted[o].user # NoUser
            /\ Granted' = Granted /\ held' = held /\ Spent' = Spent
            /\ Begun'[r] = [token |-> o, user |-> Granted[o].user]
            /\ \A q \in Requests \ {r} : Begun'[q] = Begun[q]
        <4>1. /\ o \in held /\ Granted[o].user # NoUser
              /\ Granted' = Granted /\ held' = held /\ Spent' = Spent
              /\ Begun' = [Begun EXCEPT ![r] =
                              [token |-> o, user |-> Granted[o].user]]
          BY <2>3 DEF RG!Begin
        <4>2. QED
          BY <4>1, BegunIs
      <3>2. Begun'[r].token = o /\ Begun'[r].user = Granted[o].user
        BY <3>1
      <3>3. Claims' \subseteq Claims
        BY <3>1, <3>2 DEF Claims, ClaimsOK, UnderWay, RG!NoRefresh
      <3>4. \A q \in UnderWay' : Begun'[q].token \in held
        BY <3>1, <3>2 DEF ClaimsOK, UnderWay, RG!NoRefresh
      <3>5. QED
        BY <3>1, <3>3, <3>4 DEF ClaimsOK
    <2>4. ASSUME NEW r \in Requests, NEW o \in Opaques, RG!Rotate(r, o)
          PROVE  ClaimsOK'
      <3>1. PICK p, user : p = Begun[r].token /\ user = Begun[r].user
        OBVIOUS
      <3>2. /\ r \in UnderWay /\ p \in held /\ p \in DOMAIN Granted
            /\ o \notin DOMAIN Granted
        BY <2>4, <3>1 DEF RG!Rotate, UnderWay, ClaimsOK
      <3>3. /\ held' = held /\ Spent' = Spent
            /\ DOMAIN Granted' = DOMAIN Granted \cup {o}
            /\ Granted'[o].user = user /\ Granted'[o].login = Granted[p].login
            /\ \A q \in DOMAIN Granted :
                   /\ Granted'[q].login = Granted[q].login
                   /\ Granted'[q].user \in {Granted[q].user, NoUser}
        <4>1. PICK login : login = Granted[p].login
          OBVIOUS
        <4>2. /\ held' = held /\ Spent' = Spent
              /\ Granted' = RG!Put(RG!Without(p), o, RG!Grant(user, login))
          BY <2>4, <3>1, <4>1 DEF RG!Rotate
        <4>3. DOMAIN RG!Without(p) = DOMAIN Granted
          BY WithoutMap
        <4>4. /\ DOMAIN Granted' = DOMAIN Granted \cup {o}
              /\ Granted'[o].user = user /\ Granted'[o].login = login
              /\ \A q \in DOMAIN Granted : Granted'[q] = RG!Without(p)[q]
          BY <3>2, <4>2, <4>3 DEF RG!Put, RG!Grant
        <4>5. QED
          BY <4>1, <4>2, <4>4, WithoutMap
      <3>4. /\ Begun'[r] = RG!NoRefresh
            /\ \A q \in Requests \ {r} : Begun'[q] = Begun[q]
        BY <2>4, BegunMap DEF RG!Rotate
      <3>5. \A q \in UnderWay' : q \in UnderWay /\ Begun'[q] = Begun[q]
        BY <3>4 DEF UnderWay, RG!NoRefresh
      <3>6. <<Granted[p].login, user>> \in Claims
        BY <3>1, <3>2 DEF Claims
      <3>7. Claims' \subseteq Claims
        BY <3>2, <3>3, <3>5, <3>6 DEF Claims, ClaimsOK
      <3>8. QED
        BY <3>2, <3>3, <3>5, <3>7 DEF ClaimsOK
    <2>5. ASSUME NEW r \in Requests, RG!GiveUp(r) PROVE ClaimsOK'
      <3>1. /\ Begun'[r] = RG!NoRefresh
            /\ \A q \in Requests \ {r} : Begun'[q] = Begun[q]
        BY <2>5, BegunMap DEF RG!GiveUp
      <3>2. \A q \in UnderWay' : q \in UnderWay /\ Begun'[q] = Begun[q]
        BY <3>1 DEF UnderWay, RG!NoRefresh
      <3>3. /\ held' = held /\ Spent' = Spent
            /\ Granted' = Granted \/ Granted' = RG!Without(Begun[r].token)
        BY <2>5 DEF RG!GiveUp
      <3>4. QED
        BY <3>2, <3>3, WithoutMap, NoNewClaim DEF ClaimsOK
    <2>6. ASSUME NEW o \in Opaques, RG!SignOut(o) PROVE ClaimsOK'
      <3>1. \A q \in UnderWay' : q \in UnderWay /\ Begun'[q] = Begun[q]
        BY <2>6 DEF RG!SignOut, UnderWay, RG!NoRefresh
      <3>2. QED
        BY <2>6, <3>1, WithoutMap, NoNewClaim DEF RG!SignOut, ClaimsOK
    <2>7. ASSUME NEW o \in Opaques, RG!Deliver(o) \/ RG!Lose(o)
          PROVE  ClaimsOK'
      <3>1. \A q \in UnderWay' : q \in UnderWay /\ Begun'[q] = Begun[q]
        BY <2>7 DEF RG!Deliver, RG!Lose, UnderWay, RG!NoRefresh
      <3>2. CASE RG!Deliver(o)
        BY <3>1, <3>2, NoNewClaim DEF RG!Deliver, ClaimsOK
      <3>3. CASE RG!Lose(o)
        <4>1. /\ DOMAIN Granted' = DOMAIN Granted \ {o}
              /\ \A p \in DOMAIN Granted' : Granted'[p] = Granted[p]
              /\ held' = held /\ o \notin held /\ Spent' = Spent
          BY <3>3 DEF RG!Lose, RG!Delete, RG!Restrict
        <4>2. QED
          BY <3>1, <4>1, NoNewClaim DEF ClaimsOK
      <3>4. QED
        BY <2>7, <3>2, <3>3
    <2>8. CASE RG!Restart
      <3>1. UnderWay' = {}
        BY <2>8 DEF RG!Restart, UnderWay, RG!NoRefresh
      <3>2. /\ DOMAIN Granted' = held /\ held' = held /\ Spent' = Spent
            /\ \/ Granted' = [o \in held |-> Granted[o]]
               \/ Granted' = [o \in held |-> [Granted[o] EXCEPT !.user = NoUser]]
        BY <2>8 DEF RG!Restart
      <3>3. \A o \in held : /\ [Granted[o] EXCEPT !.user = NoUser].user = NoUser
                            /\ [Granted[o] EXCEPT !.user = NoUser].login
                                   = Granted[o].login
        BY DEF ClaimsOK, Granted
      <3>4. QED
        BY <3>1, <3>2, <3>3, NoNewClaim DEF ClaimsOK
    <2>9. QED
      BY <2>1, <2>2, <2>3, <2>4, <2>5, <2>6, <2>7, <2>8 DEF RG!Next
  <1>3. ClaimsOK /\ UNCHANGED RG!vars => ClaimsOK'
    BY DEF RG!vars, ClaimsOK, Claims, UnderWay, RG!NoRefresh
  <1>4. QED
    BY <1>1, <1>2, <1>3, ServiceKeepsGrants, PTL DEF IsRefreshGrants, RG!Spec

\* A sign-in never changes hands: whatever refreshes of one chain race, fail or
\* are lost, all its tokens that still sign somebody in sign in the same user.
\* It follows from the promise alone.
THEOREM SignInsKeepTheirUser == Spec => []OneUserPerSignIn
  <1>1. ClaimsOK => OneUserPerSignIn
    <2> SUFFICES ASSUME ClaimsOK, NEW o \in DOMAIN Granted, NEW p \in DOMAIN Granted,
                        Granted[o].user # NoUser, Granted[p].user # NoUser,
                        Granted[o].login = Granted[p].login
                 PROVE  Granted[o].user = Granted[p].user
      BY DEF OneUserPerSignIn
    <2>1. /\ <<Granted[o].login, Granted[o].user>> \in Claims
          /\ <<Granted[p].login, Granted[p].user>> \in Claims
      BY DEF Claims
    <2>2. QED
      BY <2>1 DEF ClaimsOK
  <1>2. QED
    BY <1>1, ClaimsInductive, PTL
=============================================================================
