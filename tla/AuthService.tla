----------------------------- MODULE AuthService -----------------------------
(* POST /auth/nonce, /auth/google, /auth/refresh and /auth/logout of         *)
(* internal/authkit/routes.go, served by one process.  gin runs every        *)
(* request in a goroutine of its own and the handlers hold no lock, so a     *)
(* handler is a sequence of steps, one for each call of a store, and other   *)
(* requests, a crash and the clock run between them.  The refresh store is   *)
(* the contract of RefreshStore, the nonce store the table of NonceStore,    *)
(* the user store the unguarded map of internal/web/users.go.  Minting a     *)
(* session JWT touches no shared state and is part of the step before the    *)
(* refresh token is issued.                                                  *)
EXTENDS RefreshLedger, NonceTable, FiniteSets

CONSTANTS Requests,    \* request slots: how many requests overlap at most
          NoUser, NoNonce,
          RefreshTTL,  \* configuration.RefreshTTL, in ticks
          AllowInsecureHTTP,
          Durable,     \* the store is the database, not process memory
          StoreFails,  \* whether calls of the refresh store ever fail
          MaxCrashes   \* bound: how often the process may die

ASSUME ServiceAssumption ==
    /\ NoUser \notin Users
    /\ NoNonce \notin Nonces
    /\ RefreshTTL \in Nat \ {0}
    /\ AllowInsecureHTTP \in BOOLEAN
    /\ Durable \in BOOLEAN
    /\ StoreFails \in BOOLEAN
    /\ MaxCrashes \in Nat

VARIABLES issued,  \* history: the nonces handed out
          known,   \* the user ids in InMemoryUsers
          req,     \* req[r]: the handler running in slot r
          held,    \* refresh cookies that reached a client
          origin,  \* history: the login each stored token descends from
          crashes

vars == <<now, ledger, entries, issued, known, req, held, origin, crashes>>

Kinds == {"none", "login", "refresh", "logout"}

\* Where a handler stands: what it is going to do next.
Labels == {"idle",
           "verify", "upsert", "writing", "issue",  \* login
           "profile", "rotate", "retire",           \* refresh
           "revoke",                                \* logout
           "answered"}

Statuses == {0, 200, 204, 400, 401, 500}

\* The local variables of a handler, and once it has answered its status.
\* token is currentTokenID, child the refresh token it issued.
Slot == [kind: Kinds, at: Labels, status: Statuses,
         token: Opaques \cup {NoToken}, child: Opaques \cup {NoToken},
         user: Users \cup {NoUser}, nonce: Nonces \cup {NoNonce}]

IdleSlot == [kind |-> "none", at |-> "idle", status |-> 0,
             token |-> NoToken, child |-> NoToken,
             user |-> NoUser, nonce |-> NoNonce]

\* What origin records of a token: the first token of its chain, and the
\* nonce of the Google credential that was exchanged for that one.
Origin == [root: Opaques, nonce: Nonces]

TypeOK ==
    /\ LedgerOK
    /\ DOMAIN entries \subseteq issued
    /\ issued \subseteq Nonces
    /\ known \subseteq Users
    /\ req \in [Requests -> Slot]
    /\ held \subseteq Opaques
    /\ DOMAIN origin \subseteq Opaques
    /\ origin \in [DOMAIN origin -> Origin]
    /\ crashes \in Nat

Init ==
    /\ LedgerInit
    /\ entries = EmptyMap /\ issued = {}
    /\ known = {}
    /\ req = [r \in Requests |-> IdleSlot]
    /\ held = {} /\ origin = EmptyMap
    /\ crashes = 0

-----------------------------------------------------------------------------
(* Steps of a handler.                                                       *)

\* The handler in slot r, about to make another call.
At(r, label) == req[r].at = label

Goto(r, slot) == req' = [req EXCEPT ![r] = slot]

\* The handler writes its status and returns.
Answer(r, status) ==
    Goto(r, [req[r] EXCEPT !.at = "answered", !.status = status])

\* A handler that answers in its first step.
AnswerAtOnce(r, kind, token, status) ==
    Goto(r, [IdleSlot EXCEPT !.kind = kind, !.at = "answered",
                             !.token = token, !.status = status])

\* An opaque nobody has seen: 32 bytes of crypto/rand.
Fresh(o) == o \notin DOMAIN origin

\* Store a token: the ledger as Issue leaves it, and its origin.
Store(r, o, prev, from) ==
    /\ ledger' = WithIssued(o, req[r].user, Unix(now + RefreshTTL), prev)
    /\ origin' = Put(origin, o, from)

-----------------------------------------------------------------------------
(* POST /auth/nonce answers in the step that issues.                         *)

NonceIssue(n) ==
    /\ n \in Nonces \ issued
    /\ entries' = AfterIssue(n)
    /\ issued' = issued \cup {n}
    /\ UNCHANGED <<now, ledger, known, req, held, origin, crashes>>

-----------------------------------------------------------------------------
(* POST /auth/google.                                                        *)

\* The body is not JSON, or lacks the ID token or the nonce.
LoginMalformed(r) ==
    /\ At(r, "idle")
    /\ AnswerAtOnce(r, "login", NoToken, 400)
    /\ UNCHANGED <<now, ledger, entries, issued, known, held, origin, crashes>>

\* The nonce is spent first, and stays spent when the request then turns out
\* to have come over plain HTTP.
LoginConsume(r, n) ==
    /\ At(r, "idle")
    /\ entries' = AfterConsume(n)
    /\ \/ /\ Verdict(n) # "ok"
          /\ AnswerAtOnce(r, "login", NoToken, 401)
       \/ /\ Verdict(n) = "ok"
          /\ Goto(r, [IdleSlot EXCEPT !.kind = "login", !.at = "verify",
                                      !.nonce = n])
       \/ /\ Verdict(n) = "ok"
          /\ ~AllowInsecureHTTP
          /\ AnswerAtOnce(r, "login", NoToken, 400)
    /\ UNCHANGED <<now, ledger, issued, known, held, origin, crashes>>

\* Google ID tokens: genuine when the validator accepts signature, audience,
\* expiry and issuer; nonce is its nonce claim, in clear or hashed; verified
\* when it names a subject and a verified e-mail address.
Credentials == [user: Users, nonce: Nonces \cup {NoNonce},
                genuine: BOOLEAN, verified: BOOLEAN]

\* Slip: the nonce claim must be there, and is not compared.
AcceptsAnyNonce(credential, n) ==
    credential.genuine /\ credential.verified /\ credential.nonce # NoNonce

Accepts(credential, n) ==
    credential.genuine /\ credential.verified /\ credential.nonce = n

\* Slip: the handler goes on without the user id.
LoginVerifyNobody(r, credential) ==
    /\ At(r, "verify")
    /\ IF Accepts(credential, req[r].nonce)
       THEN Goto(r, [req[r] EXCEPT !.at = "upsert",
                                   !.nonce = credential.nonce])
       ELSE Answer(r, 401)
    /\ UNCHANGED <<now, ledger, entries, issued, known, held, origin, crashes>>

LoginVerify(r, credential) ==
    /\ At(r, "verify")
    /\ \/ /\ Accepts(credential, req[r].nonce)
          /\ Goto(r, [req[r] EXCEPT !.at = "upsert",
                                    !.user = credential.user,
                                    !.nonce = credential.nonce])
       \/ /\ ~Accepts(credential, req[r].nonce)
          /\ Answer(r, 401)
       \/ Answer(r, 500) \* the validator could not be built
    /\ UNCHANGED <<now, ledger, entries, issued, known, held, origin, crashes>>

\* InMemoryUsers has no lock: a write of its map has a beginning and an end.
LoginUpsertBegin(r) ==
    /\ At(r, "upsert")
    /\ Goto(r, [req[r] EXCEPT !.at = "writing"])
    /\ UNCHANGED <<now, ledger, entries, issued, known, held, origin, crashes>>

\* Whether some other goroutine is inside a write of the map.
Writing(r) == \E q \in Requests \ {r} : At(q, "writing")

\* Of two writes that overlap one may be lost.  (The runtime may also notice
\* and abort the process: one of the causes of Crash.)
LoginUpsertEnd(r) ==
    /\ At(r, "writing")
    /\ \/ known' = known \cup {req[r].user}
       \/ Writing(r) /\ UNCHANGED known
    /\ Goto(r, [req[r] EXCEPT !.at = "issue"])
    /\ UNCHANGED <<now, ledger, entries, issued, held, origin, crashes>>

\* Issue fails with nothing stored, in either handler, and the store need not
\* be at fault: no entropy, or two issues in one instant.
IssueFails(r) ==
    /\ req[r].at \in {"issue", "rotate"}
    /\ Answer(r, 500)
    /\ UNCHANGED <<now, ledger, entries, issued, known, held, origin, crashes>>

\* The first token of a chain.
LoginIssue(r, o) ==
    /\ At(r, "issue")
    /\ Fresh(o)
    /\ \/ /\ Store(r, o, NoToken, [root |-> o, nonce |-> req[r].nonce])
          /\ Goto(r, [req[r] EXCEPT !.at = "answered", !.status = 200,
                                    !.child = o])
       \/ /\ StoreFails
          /\ Store(r, o, NoToken, [root |-> o, nonce |-> req[r].nonce])
          /\ Answer(r, 500)
    /\ UNCHANGED <<now, entries, issued, known, held, crashes>>

-----------------------------------------------------------------------------
(* POST /auth/refresh.                                                       *)

\* No cookie, or an empty one.
RefreshNoCookie(r) ==
    /\ At(r, "idle")
    /\ AnswerAtOnce(r, "refresh", NoToken, 401)
    /\ UNCHANGED <<now, ledger, entries, issued, known, held, origin, crashes>>

RefreshValidate(r, o) ==
    /\ At(r, "idle")
    /\ \/ /\ ValidateVerdict(o) = "ok"
          /\ Goto(r, [IdleSlot EXCEPT !.kind = "refresh", !.at = "profile",
                                      !.token = o, !.user = ledger[o].user])
       \/ /\ ValidateVerdict(o) # "ok" \/ StoreFails
          /\ AnswerAtOnce(r, "refresh", o, 401)
    /\ UNCHANGED <<now, ledger, entries, issued, known, held, origin, crashes>>

\* What GetUserProfile may find; a read that overlaps a write finds anything.
Lookup(r) == IF Writing(r) THEN BOOLEAN ELSE {req[r].user \in known}

\* The route looks at the expiry once more, then reads the profile.
RefreshProfile(r) ==
    /\ At(r, "profile")
    /\ \/ /\ Before(ledger[req[r].token].expires)
          /\ Answer(r, 401)
       \/ /\ ~Before(ledger[req[r].token].expires)
          /\ \E found \in Lookup(r) :
                IF found THEN Goto(r, [req[r] EXCEPT !.at = "rotate"])
                         ELSE Answer(r, 401)
    /\ UNCHANGED <<now, ledger, entries, issued, known, held, origin, crashes>>

\* The successor is stored before its predecessor is revoked.
RefreshIssue(r, o) ==
    /\ At(r, "rotate")
    /\ Fresh(o)
    /\ \/ /\ Store(r, o, req[r].token, origin[req[r].token])
          /\ Goto(r, [req[r] EXCEPT !.at = "retire", !.child = o])
       \/ /\ StoreFails
          /\ Store(r, o, req[r].token, origin[req[r].token])
          /\ Answer(r, 500)
    /\ UNCHANGED <<now, entries, issued, known, held, crashes>>

\* Slip: an error of Revoke is logged, as in logout, and the request goes on.
RefreshRevokeLenient(r) ==
    /\ At(r, "retire")
    /\ \/ ledger' = WithRevoked(req[r].token)
       \/ StoreFails /\ UNCHANGED ledger
    /\ Answer(r, 204)
    /\ UNCHANGED <<now, entries, issued, known, held, origin, crashes>>

\* Slip: the call of Revoke left out.
RefreshRevokeSkipped(r) ==
    /\ At(r, "retire")
    /\ Answer(r, 204)
    /\ UNCHANGED <<now, ledger, entries, issued, known, held, origin, crashes>>

\* Slip: the id of the new token where that of the old one belongs.
RefreshRevokeChild(r) ==
    /\ At(r, "retire")
    /\ ledger' = WithRevoked(req[r].child)
    /\ Answer(r, 204)
    /\ UNCHANGED <<now, entries, issued, known, held, origin, crashes>>

\* A parent somebody else has revoked in the meantime is as good as one
\* revoked here; any other error keeps the new cookie from the client.
RefreshRevoke(r) ==
    /\ At(r, "retire")
    /\ LET parent == req[r].token
       IN  \/ /\ RevokeVerdict(parent) \in {"ok", "already_revoked"}
              /\ ledger' = WithRevoked(parent)
              /\ Answer(r, 204)
           \/ /\ RevokeVerdict(parent) = "not_found" \/ StoreFails
              /\ ledger' \in {ledger, WithRevoked(parent)}
              /\ Answer(r, 500)
    /\ UNCHANGED <<now, entries, issued, known, held, origin, crashes>>

-----------------------------------------------------------------------------
(* POST /auth/logout answers 204 whatever happens.                           *)

LogoutNoCookie(r) ==
    /\ At(r, "idle")
    /\ AnswerAtOnce(r, "logout", NoToken, 204)
    /\ UNCHANGED <<now, ledger, entries, issued, known, held, origin, crashes>>

LogoutValidate(r, o) ==
    /\ At(r, "idle")
    /\ \/ /\ ValidateVerdict(o) = "ok"
          /\ Goto(r, [IdleSlot EXCEPT !.kind = "logout", !.at = "revoke",
                                      !.token = o])
       \/ /\ ValidateVerdict(o) # "ok" \/ StoreFails
          /\ AnswerAtOnce(r, "logout", o, 204)
    /\ UNCHANGED <<now, ledger, entries, issued, known, held, origin, crashes>>

\* Slip: clearing the cookies is taken for logging out.
LogoutClearsOnly(r) ==
    /\ At(r, "revoke")
    /\ Answer(r, 204)
    /\ UNCHANGED <<now, ledger, entries, issued, known, held, origin, crashes>>

LogoutRevoke(r) ==
    /\ At(r, "revoke")
    /\ \/ ledger' = WithRevoked(req[r].token)
       \/ StoreFails /\ UNCHANGED ledger
    /\ Answer(r, 204)
    /\ UNCHANGED <<now, entries, issued, known, held, origin, crashes>>

-----------------------------------------------------------------------------
(* What surrounds the handlers.                                              *)

\* The refresh cookie a finished handler has set on its response.
Cookie(r) == IF At(r, "answered") /\ req[r].status \in {200, 204}
             THEN {req[r].child} \ {NoToken} ELSE {}

\* The response reaches the client, or the connection is gone.
Respond(r) ==
    /\ At(r, "answered")
    /\ \/ held' = held \cup Cookie(r)
       \/ UNCHANGED held
    /\ Goto(r, IdleSlot)
    /\ UNCHANGED <<now, ledger, entries, issued, known, origin, crashes>>

\* The process dies and is started again: handlers and everything kept in
\* process memory are gone, clients keep their cookies.
Crash ==
    /\ crashes < MaxCrashes
    /\ crashes' = crashes + 1
    /\ entries' = EmptyMap
    /\ known' = {}
    /\ ledger' = IF Durable THEN ledger ELSE EmptyMap
    /\ req' = [r \in Requests |-> IdleSlot]
    /\ UNCHANGED <<now, issued, held, origin>>

Tick ==
    /\ Advance
    /\ UNCHANGED <<ledger, entries, issued, known, req, held, origin, crashes>>

\* Clients present nonces they were given or made up, and refresh cookies
\* they were given.
LoginStep(r) ==
    \/ LoginMalformed(r)
    \/ \E n \in Nonces : LoginConsume(r, n)
    \/ \E credential \in Credentials : LoginVerify(r, credential)
    \/ LoginUpsertBegin(r)
    \/ LoginUpsertEnd(r)
    \/ \E o \in Opaques : LoginIssue(r, o)

RefreshStep(r) ==
    \/ RefreshNoCookie(r)
    \/ \E o \in held : RefreshValidate(r, o)
    \/ RefreshProfile(r)
    \/ \E o \in Opaques : RefreshIssue(r, o)
    \/ RefreshRevoke(r)

LogoutStep(r) ==
    \/ LogoutNoCookie(r)
    \/ \E o \in held : LogoutValidate(r, o)
    \/ LogoutRevoke(r)

Next ==
    \/ \E n \in Nonces : NonceIssue(n)
    \/ \E r \in Requests :
          \/ LoginStep(r) \/ RefreshStep(r) \/ LogoutStep(r)
          \/ IssueFails(r) \/ Respond(r)
    \/ Crash
    \/ Tick

Spec == Init /\ [][Next]_vars

-----------------------------------------------------------------------------
(* Properties.                                                               *)

\* The cookies clients have or are being sent.
Delivered == held \cup UNION {Cookie(r) : r \in Requests}

\* Whoever has the successor of a refresh token, the token itself is dead:
\* RefreshRevoke runs after RefreshIssue and before the cookie is written,
\* and neither a failed or ambiguous Revoke, a parallel refresh or logout of
\* the same token, a lost response nor a restart delivers a successor whose
\* predecessor still validates.
RotationRetiresParent ==
    \A o \in Delivered \cap DOMAIN ledger :
        LET parent == ledger[o].prev
        IN  parent # NoToken =>
                parent \in DOMAIN ledger /\ ledger[parent].revoked

\* The cookie of an answer still on its way is worth having: its record is
\* there, not revoked, and belongs to the user the request was made for.
FreshCookieIsGood ==
    \A r \in Requests : \A o \in Cookie(r) :
        /\ o \in DOMAIN ledger /\ ~ledger[o].revoked
        /\ ledger[o].user = req[r].user

\* A Google credential is exchanged at most once: no two chains start from the
\* same nonce claim, although requests overlap, credentials are replayed with
\* other nonces and restarts empty the nonce table.
CredentialLogsInOnce ==
    \A o, p \in DOMAIN origin :
        origin[o].nonce = origin[p].nonce => origin[o].root = origin[p].root

Children(o) == {c \in DOMAIN ledger : ledger[c].prev = o}

\* While the store answers, refreshes of one token that overlap fork its
\* chain at most as often as requests overlap in the life of one process, and
\* every child of a token that is not revoked yet is still inside the handler
\* that issued it, or was when the process died over a durable store.
ForksAreInFlight ==
    \A o \in DOMAIN ledger :
        /\ Cardinality(Children(o)) <= Cardinality(Requests) * (crashes + 1)
        /\ ~ledger[o].revoked =>
               \A c \in Children(o) :
                   \/ Durable /\ crashes > 0
                   \/ \E r \in Requests : At(r, "retire") /\ req[r].token = o
                                                          /\ req[r].child = c

\* ARCHITECTURE.md: "POST /auth/logout: Revoke refresh token, clear cookies,
\* 204."  A logout that was answered has killed the token it was sent, also when
\* refreshes of that token run beside it.  Holds while the store answers.
LogoutKillsToken ==
    \A r \in Requests :
        (At(r, "answered") /\ req[r].kind = "logout") => ~IsLive(req[r].token)

\* ARCHITECTURE.md: "401 on /auth/refresh: Refresh cookie missing, expired or
\* revoked."
RefreshRefusesOnlyDeadTokens ==
    \A r \in Requests :
        (At(r, "answered") /\ req[r].kind = "refresh" /\ req[r].status = 401)
            => ~IsLive(req[r].token)

-----------------------------------------------------------------------------
(* The promise the four endpoints keep.                                      *)

\* Whom a token signs in, its expiry apart.
Worth(o) ==
    IF o \in DOMAIN ledger /\ ~ledger[o].revoked THEN ledger[o].user ELSE NoUser

Granted == [o \in Delivered |-> [user |-> Worth(o), login |-> origin[o]]]

Begun ==
    [r \in Requests |->
        IF req[r].at \in {"profile", "rotate", "retire"}
        THEN [token |-> req[r].token, user |-> req[r].user]
        ELSE [token |-> NoToken, user |-> NoUser]]

Spent == {origin[o].nonce : o \in DOMAIN origin}

RG == INSTANCE RefreshGrants WITH
    granted <- Granted, begun <- Begun, spent <- Spent

\* The handlers implement the promise: what clients see of four interleaved
\* store calls, of a failing store, lost answers and restarts is a refresh that
\* happens in one instant or not at all, for the user and the sign-in of the
\* token it was sent.
IsRefreshGrants == RG!Spec
=============================================================================
