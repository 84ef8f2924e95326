---------------------------- MODULE Browser_proofs ----------------------------
(* TLAPS proofs about Browser, for any number of tabs and tokens, crashes    *)
(* and lost answers: the browser is a client of AuthService, so what is      *)
(* proved of the service holds in front of it; refreshes in several tabs     *)
(* never leave it with a revoked cookie; its cookies and requests are those  *)
(* of the service; and a logout keeps it signed out until a login.           *)
EXTENDS Browser, AuthService_proofs

-----------------------------------------------------------------------------
(* The browser is a client of the service.                                   *)

LEMMA StepIsServiceStep == [BrowserNext]_browserVars => [Next]_vars
  <1> SUFFICES ASSUME [BrowserNext]_browserVars PROVE [Next]_vars
    OBVIOUS
  <1>1. ASSUME NEW r \in Requests, NEW kind, Send(r, kind) PROVE UNCHANGED vars
    BY <1>1 DEF Send
  <1>2. ASSUME NEW r \in Requests, Serve(r) PROVE Next
    BY <1>2 DEF Serve, Next
  <1>3. ASSUME NEW r \in Requests, Deliver(r) PROVE Next
    BY <1>3 DEF Deliver, Next
  <1>4. ASSUME NEW r \in Requests, Lose(r) PROVE Next \/ UNCHANGED vars
    BY <1>4 DEF Lose, Next
  <1>5. CASE Forget
    BY <1>5 DEF Forget
  <1>6. CASE ServiceCrash
    BY <1>6 DEF ServiceCrash, Next
  <1>7. CASE Tick \/ \E n \in Nonces : NonceIssue(n)
    BY <1>7 DEF Next
  <1>8. CASE UNCHANGED browserVars
    BY <1>8 DEF browserVars
  <1>9. QED
    BY <1>1, <1>2, <1>3, <1>4, <1>5, <1>6, <1>7, <1>8 DEF BrowserNext

\* Every behaviour of the browser and the service is one of the service: the
\* cookies a jar presents are among those AuthService lets its clients present.
THEOREM BrowserIsAClient == BrowserSpec => Spec
  <1>1. BrowserInit => Init
    BY DEF BrowserInit
  <1>2. QED
    BY <1>1, StepIsServiceStep, PTL DEF BrowserSpec, Spec

\* So what is proved of the service for any clients holds behind browsers.
COROLLARY ServiceKeepsItsWord ==
    ASSUME ~StoreFails, IsFiniteSet(Requests)
    PROVE  BrowserSpec => [](LogoutKillsToken /\ ForksAreInFlight)
  BY BrowserIsAClient, LogoutsKill, ForksStayInFlight, PTL

-----------------------------------------------------------------------------
(* The invariant behind NeverStranded.                                       *)

\* The only refresh cookie is the one with Path "/auth".
JarOK == jar \in [session: BOOLEAN,
                 refresh: [{"/auth"} -> Opaques] \cup {EmptyMap}]

\* A logout has two steps, and its answer carries no refresh cookie.
LogoutSlot(slot) ==
    slot.kind = "logout" =>
        slot.at \in {"revoke", "answered"} /\ slot.child = NoToken

\* Who logs out is on record from the moment the request is sent, and only a
\* logout gets to the step that revokes a token without leaving a successor.
LogoutsExcused ==
    /\ wire \in [Requests -> [kind: Kinds, cookie: Opaques \cup {NoToken},
                              alone: BOOLEAN]]
    /\ \A r \in Requests :
           /\ LogoutSlot(req[r])
           /\ (wire[r].kind = "logout" /\ wire[r].cookie # NoToken) =>
                  wire[r].cookie \in excused
           /\ At(r, "revoke") => wire[r].kind = "logout"

BrowserInv == JarOK /\ LogoutsExcused /\ NeverStranded

LEMMA WrittenLemma ==
    ASSUME JarOK, NEW o \in Opaques, jar' = Written(o)
    PROVE  JarOK' /\ RefreshCookie' = o
  <1>1. jar' = [session |-> TRUE, refresh |-> Put(jar.refresh, "/auth", o)]
    BY DEF Written
  <1>2. DOMAIN jar.refresh \cup {"/auth"} = {"/auth"}
    BY DEF JarOK, EmptyMap
  <1>3. jar'.refresh \in [{"/auth"} -> Opaques] /\ jar'.refresh["/auth"] = o
    BY <1>1, <1>2 DEF Put
  <1>4. jar'.refresh # EmptyMap
    BY <1>3 DEF EmptyMap
  <1>5. QED
    BY <1>1, <1>3, <1>4 DEF JarOK, RefreshCookie

\* clearCookie names another path, and the cookie stays.
LEMMA ClearedLemma ==
    ASSUME JarOK, jar' = Cleared
    PROVE  JarOK' /\ RefreshCookie' = RefreshCookie
  <1>1. jar' = [session |-> FALSE,
                refresh |-> Restrict(jar.refresh, DOMAIN jar.refresh \ {"/"})]
    BY DEF Cleared, Delete
  <1>2. CASE jar.refresh = EmptyMap
    <2>1. jar'.refresh = EmptyMap
      BY <1>1, <1>2 DEF EmptyMap, Restrict
    <2>2. QED
      BY <1>1, <1>2, <2>1 DEF JarOK, RefreshCookie
  <1>3. CASE jar.refresh \in [{"/auth"} -> Opaques]
    <2>1. {"/auth"} \ {"/"} = {"/auth"}
      OBVIOUS
    <2>2. /\ jar'.refresh \in [{"/auth"} -> Opaques]
          /\ jar'.refresh["/auth"] = jar.refresh["/auth"]
      BY <1>1, <1>3, <2>1 DEF Restrict
    <2>3. jar.refresh # EmptyMap /\ jar'.refresh # EmptyMap
      BY <1>3, <2>2 DEF EmptyMap
    <2>4. QED
      BY <1>1, <2>2, <2>3 DEF JarOK, RefreshCookie
  <1>4. QED
    BY <1>2, <1>3 DEF JarOK

\* A step of the handler in slot r revokes at most the token it was sent, and
\* then it is a logout or its answer carries a successor.
RevokesOwn(r) ==
    \A o \in DOMAIN ledger' : ledger'[o].revoked =>
        \/ o \in DOMAIN ledger /\ ledger[o].revoked
        \/ o = req[r].token /\ At(r, "revoke")
        \/ o = req'[r].token /\ Cookie(r)' # {}

HandlerStep(r) ==
    LoginStep(r) \/ RefreshStep(r) \/ LogoutStep(r) \/ IssueFails(r)

LEMMA StoreRevokesNothing ==
    ASSUME NEW r \in Requests, NEW o, NEW prev, NEW from, Store(r, o, prev, from)
    PROVE  RevokesOwn(r)
  BY DEF Store, WithIssued, Put, RevokesOwn

LEMMA SameLedgerRevokesNothing ==
    ASSUME NEW r \in Requests, UNCHANGED ledger
    PROVE  RevokesOwn(r)
  BY DEF RevokesOwn

LEMMA StepRevokesOwn ==
    ASSUME ~StoreFails, IInv, NEW r \in Requests, HandlerStep(r)
    PROVE  RevokesOwn(r)
  <1>1. CASE LoginStep(r)
    <2>1. CASE \E o \in Opaques : LoginIssue(r, o)
      BY <2>1, StoreRevokesNothing DEF LoginIssue
    <2>2. CASE UNCHANGED ledger
      BY <2>2, SameLedgerRevokesNothing
    <2>3. QED
      BY <1>1, <2>1, <2>2 DEF LoginStep, LoginMalformed, LoginConsume,
         LoginVerify, LoginUpsertBegin, LoginUpsertEnd
  <1>2. CASE RefreshStep(r)
    <2>1. CASE \E o \in Opaques : RefreshIssue(r, o)
      BY <2>1, StoreRevokesNothing DEF RefreshIssue
    <2>2. CASE RefreshRevoke(r)
      <3>1. /\ req[r].token \in DOMAIN ledger /\ req[r].child \in Opaques
            /\ At(r, "retire")
        BY <2>2 DEF RefreshRevoke, IInv, SlotsOK, UsesToken, HasChild, At
      <3>2. RevokeVerdict(req[r].token) # "not_found"
        BY <3>1 DEF RevokeVerdict
      <3>3. ledger' = WithRevoked(req[r].token) /\ Answer(r, 204)
        BY <2>2, <3>2 DEF RefreshRevoke
      <3>4. /\ req'[r].at = "answered" /\ req'[r].status = 204
            /\ req'[r].child = req[r].child /\ req'[r].token = req[r].token
        BY <3>3, AnswerLemma DEF IInv, Statuses
      <3>5. Cookie(r)' # {}
        BY <3>1, <3>4, LedgerAssumption DEF Cookie, At
      <3>6. QED
        BY <3>3, <3>4, <3>5 DEF WithRevoked, RevokesOwn
    <2>3. CASE UNCHANGED ledger
      BY <2>3, SameLedgerRevokesNothing
    <2>4. QED
      BY <1>2, <2>1, <2>2, <2>3 DEF RefreshStep, RefreshNoCookie,
         RefreshValidate, RefreshProfile
  <1>3. CASE LogoutStep(r)
    <2>1. CASE LogoutRevoke(r)
      BY <2>1 DEF LogoutRevoke, WithRevoked, RevokesOwn
    <2>2. CASE UNCHANGED ledger
      BY <2>2, SameLedgerRevokesNothing
    <2>3. QED
      BY <1>3, <2>1, <2>2 DEF LogoutStep, LogoutNoCookie, LogoutValidate
  <1>4. CASE IssueFails(r)
    BY <1>4, SameLedgerRevokesNothing DEF IssueFails
  <1>5. QED
    BY <1>1, <1>2, <1>3, <1>4 DEF HandlerStep

\* It concerns its slot alone, which has not answered, and arrives at "revoke"
\* only for a logout.
LEMMA StepStaysInSlot ==
    ASSUME IInv, NEW r \in Requests, LogoutSlot(req[r]), HandlerStep(r)
    PROVE  /\ ~At(r, "answered")
           /\ \A q \in Requests \ {r} : req'[q] = req[q]
           /\ LogoutSlot(req'[r])
           /\ At(r, "revoke")' => req'[r].kind = "logout"
           /\ At(r, "revoke") => req'[r].token = req[r].token
  <1> DEFINE Fine == /\ \A q \in Requests \ {r} : req'[q] = req[q]
                     /\ LogoutSlot(req'[r])
                     /\ At(r, "revoke")' => req'[r].kind = "logout"
                     /\ At(r, "revoke") => req'[r].token = req[r].token
  <1>1. req \in [Requests -> Slot] /\ req[r] \in Slot
    BY DEF IInv, TypeOK
  <1>2. ASSUME NEW slot, Goto(r, slot), LogoutSlot(slot),
               slot.at # "revoke" \/ slot.kind = "logout",
               At(r, "revoke") => slot.token = req[r].token
        PROVE  Fine
    <2>1. req'[r] = slot /\ \A q \in Requests \ {r} : req'[q] = req[q]
      BY <1>1, <1>2 DEF Goto
    <2>2. QED
      BY <1>2, <2>1 DEF At
  <1>3. ASSUME NEW status, Answer(r, status) PROVE Fine
    <2> DEFINE slot == [req[r] EXCEPT !.at = "answered", !.status = status]
    <2>1. slot.at = "answered" /\ slot.token = req[r].token /\ LogoutSlot(slot)
      BY <1>1 DEF Slot, LogoutSlot
    <2>2. Goto(r, slot)
      BY <1>3 DEF Answer
    <2> HIDE DEF slot
    <2>3. QED
      BY <1>2, <2>1, <2>2
  <1>4. ASSUME NEW kind, NEW token, NEW status, At(r, "idle"),
               AnswerAtOnce(r, kind, token, status)
        PROVE  Fine
    <2> DEFINE slot == [IdleSlot EXCEPT !.kind = kind, !.at = "answered",
                                        !.token = token, !.status = status]
    <2>1. slot.at = "answered" /\ LogoutSlot(slot)
      BY DEF IdleSlot, LogoutSlot
    <2>2. Goto(r, slot)
      BY <1>4 DEF AnswerAtOnce
    <2> HIDE DEF slot
    <2>3. QED
      BY <1>2, <1>4, <2>1, <2>2 DEF At
  <1>5. ASSUME NEW slot, Goto(r, slot), slot.at # "revoke", ~At(r, "revoke"),
               slot.kind \in {"login", "refresh"}
        PROVE  Fine
    BY <1>2, <1>5 DEF LogoutSlot
  <1>6. ASSUME NEW slot, Goto(r, slot), slot.at # "revoke",
                req[r].at \notin {"revoke", "answered"}, slot.kind = req[r].kind
         PROVE  Fine
    BY <1>2, <1>6 DEF LogoutSlot, At
  <1> HIDE DEF Fine
  <1>7. ASSUME LoginStep(r) PROVE ~At(r, "answered") /\ Fine
    <2>1. CASE LoginMalformed(r)
      BY <1>4, <2>1 DEF LoginMalformed, At
    <2>2. CASE \E n \in Nonces : LoginConsume(r, n)
      BY <1>4, <1>5, <2>2 DEF LoginConsume, IdleSlot, At
    <2>3. ASSUME NEW credential \in Credentials, LoginVerify(r, credential)
          PROVE  ~At(r, "answered") /\ Fine
      <3> DEFINE slot == [req[r] EXCEPT !.at = "upsert",
                                        !.user = credential.user,
                                        !.nonce = credential.nonce]
      <3>1. slot.at = "upsert" /\ slot.kind = req[r].kind
        BY <1>1 DEF Slot
      <3>2. Goto(r, slot) \/ Answer(r, 401) \/ Answer(r, 500)
        BY <2>3 DEF LoginVerify
      <3>3. At(r, "verify")
        BY <2>3 DEF LoginVerify
      <3> HIDE DEF slot
      <3>4. QED
        BY <1>3, <1>6, <3>1, <3>2, <3>3 DEF At
    <2>4. CASE LoginUpsertBegin(r) \/ LoginUpsertEnd(r)
      BY <1>1, <1>6, <2>4 DEF LoginUpsertBegin, LoginUpsertEnd, At, Slot
    <2>5. ASSUME NEW o \in Opaques, LoginIssue(r, o)
          PROVE  ~At(r, "answered") /\ Fine
      <3> DEFINE slot == [req[r] EXCEPT !.at = "answered", !.status = 200,
                                        !.child = o]
      <3>1. slot.at = "answered" /\ slot.kind = req[r].kind
        BY <1>1 DEF Slot
      <3>2. Goto(r, slot) \/ Answer(r, 500)
        BY <2>5 DEF LoginIssue
      <3>3. At(r, "issue")
        BY <2>5 DEF LoginIssue
      <3> HIDE DEF slot
      <3>4. QED
        BY <1>3, <1>6, <3>1, <3>2, <3>3 DEF At
    <2>6. QED
      BY <1>7, <2>1, <2>2, <2>3, <2>4, <2>5 DEF LoginStep
  <1>8. ASSUME RefreshStep(r) PROVE ~At(r, "answered") /\ Fine
    <2>1. CASE RefreshNoCookie(r)
      BY <1>4, <2>1 DEF RefreshNoCookie, At
    <2>2. CASE \E o \in held : RefreshValidate(r, o)
      BY <1>4, <1>5, <2>2 DEF RefreshValidate, IdleSlot, At
    <2>3. CASE RefreshProfile(r)
      BY <1>1, <1>3, <1>6, <2>3 DEF RefreshProfile, At, Slot
    <2>4. CASE \E o \in Opaques : RefreshIssue(r, o)
      BY <1>1, <1>3, <1>6, <2>4 DEF RefreshIssue, At, Slot
    <2>5. CASE RefreshRevoke(r)
      BY <1>3, <2>5 DEF RefreshRevoke, At
    <2>6. QED
      BY <1>8, <2>1, <2>2, <2>3, <2>4, <2>5 DEF RefreshStep
  <1>9. ASSUME LogoutStep(r) PROVE ~At(r, "answered") /\ Fine
    <2>1. CASE LogoutNoCookie(r)
      BY <1>4, <2>1 DEF LogoutNoCookie, At
    <2>2. CASE \E o \in held : LogoutValidate(r, o)
      BY <1>2, <1>4, <2>2 DEF LogoutValidate, IdleSlot, LogoutSlot, At
    <2>3. CASE LogoutRevoke(r)
      BY <1>3, <2>3 DEF LogoutRevoke, At
    <2>4. QED
      BY <1>9, <2>1, <2>2, <2>3 DEF LogoutStep
  <1>10. ASSUME IssueFails(r) PROVE ~At(r, "answered") /\ Fine
    BY <1>3, <1>10 DEF IssueFails, At
  <1>11. QED
    BY <1>7, <1>8, <1>9, <1>10 DEF HandlerStep, Fine

-----------------------------------------------------------------------------
(* Every step keeps the invariant.                                           *)

LEMMA CookieIsToken ==
    ASSUME JarOK
    PROVE  RefreshCookie \in Opaques \cup {NoToken}
  BY DEF JarOK, RefreshCookie, EmptyMap

LEMMA SendStep ==
    ASSUME IInv, BrowserInv, NEW r \in Requests, NEW kind \in Kinds \ {"none"},
           Send(r, kind)
    PROVE  BrowserInv'
  <1> USE DEF BrowserInv
  <1> DEFINE cookie == IF kind = "login" THEN NoToken ELSE RefreshCookie
             alone == \A q \in Requests : Idle(q)
             sent(q) == IF q = r
                        THEN [kind |-> kind, cookie |-> cookie, alone |-> alone]
                        ELSE IF Idle(q) THEN NoRequest
                        ELSE [wire[q] EXCEPT !.alone = FALSE]
  <1>1. /\ wire' = [q \in Requests |-> sent(q)]
        /\ excused' = IF kind = "logout" THEN excused \cup ({cookie} \ {NoToken})
                      ELSE excused
        /\ UNCHANGED <<ledger, req, jar>>
    BY DEF Send, vars
  <1>2. JarOK' /\ RefreshCookie' = RefreshCookie
    BY <1>1 DEF JarOK, RefreshCookie
  <1>3. cookie \in Opaques \cup {NoToken} /\ alone \in BOOLEAN
    BY CookieIsToken
  <1>4. LogoutsExcused'
    <2>1. /\ sent(r) \in [kind: Kinds, cookie: Opaques \cup {NoToken},
                          alone: BOOLEAN]
          /\ sent(r).kind = kind /\ sent(r).cookie = cookie
      BY <1>3
    <2>2. ASSUME NEW q \in Requests \ {r}
          PROVE  /\ sent(q) \in [kind: Kinds, cookie: Opaques \cup {NoToken},
                                 alone: BOOLEAN]
                 /\ sent(q).kind = wire[q].kind
                 /\ sent(q).cookie = wire[q].cookie
      <3>1. CASE Idle(q)
        BY <3>1 DEF Idle, NoRequest, Kinds
      <3>2. CASE ~Idle(q)
        BY <3>2 DEF LogoutsExcused
      <3>3. QED
        BY <3>1, <3>2
    <2> HIDE DEF sent, cookie, alone
    <2>3. wire' \in [Requests -> [kind: Kinds, cookie: Opaques \cup {NoToken},
                                  alone: BOOLEAN]]
      BY <1>1, <2>1, <2>2
    <2>4. CASE ~At(r, "revoke")
      BY <1>1, <2>1, <2>2, <2>3, <2>4 DEF LogoutsExcused, At
    <2>5. CASE At(r, "revoke")
      <3>1. wire[r].kind = "logout"
        BY <2>5 DEF LogoutsExcused
      <3>2. Idle(r) /\ NoRequest.kind = "none"
        BY DEF Send, NoRequest
      <3>3. QED
        BY <3>1, <3>2 DEF Idle
    <2>6. QED
      BY <2>4, <2>5
  <1>5. NeverStranded'
    BY <1>1, <1>2 DEF NeverStranded, Cookie, At
  <1>6. QED
    BY <1>2, <1>4, <1>5

LEMMA ServeStep ==
    ASSUME ~StoreFails, IInv, BrowserInv, NEW r \in Requests, Serve(r)
    PROVE  BrowserInv'
  <1> USE DEF BrowserInv
  <1>1. /\ HandlerStep(r) /\ UNCHANGED <<jar, wire, excused>>
        /\ req'[r].kind = wire[r].kind /\ req'[r].token = wire[r].cookie
    BY DEF Serve, HandlerStep
  <1>2. /\ ~At(r, "answered") /\ RevokesOwn(r) /\ LogoutSlot(req'[r])
        /\ \A q \in Requests \ {r} : req'[q] = req[q]
        /\ At(r, "revoke")' => req'[r].kind = "logout"
        /\ At(r, "revoke") => req'[r].token = req[r].token
    BY <1>1, StepRevokesOwn, StepStaysInSlot DEF LogoutsExcused
  <1>3. JarOK' /\ RefreshCookie' = RefreshCookie
    BY <1>1 DEF JarOK, RefreshCookie
  <1>4. LogoutsExcused'
    BY <1>1, <1>2 DEF LogoutsExcused, At
  <1>5. NeverStranded'
    <2> DEFINE o == RefreshCookie
    <2> SUFFICES ASSUME o \in DOMAIN ledger', ledger'[o].revoked
                 PROVE  \/ o \in excused
                        \/ \E q \in Requests : req'[q].token = o /\ Cookie(q)' # {}
      BY <1>1, <1>3 DEF NeverStranded
    <2>1. CASE o \in DOMAIN ledger /\ ledger[o].revoked
      <3>1. CASE o \in excused
        BY <3>1
      <3>2. ASSUME NEW q \in Requests, req[q].token = o, Cookie(q) # {}
            PROVE  req'[q].token = o /\ Cookie(q)' # {}
        <4>1. q # r
          BY <1>2, <3>2 DEF Cookie
        <4>2. QED
          BY <1>2, <3>2, <4>1 DEF Cookie, At
      <3>3. QED
        BY <2>1, <3>1, <3>2 DEF NeverStranded
    <2>2. CASE o = req[r].token /\ At(r, "revoke")
      <3>1. wire[r].kind = "logout" /\ wire[r].cookie = o
        BY <1>1, <1>2, <2>2 DEF LogoutsExcused
      <3>2. o # NoToken
        BY LedgerAssumption, <2>2 DEF IInv, SlotsOK, UsesToken, At, TypeOK
      <3>3. QED
        BY <3>1, <3>2 DEF LogoutsExcused
    <2>3. CASE o = req'[r].token /\ Cookie(r)' # {}
      BY <2>3
    <2>4. QED
      BY <1>2, <2>1, <2>2, <2>3 DEF RevokesOwn
  <1>6. QED
    BY <1>3, <1>4, <1>5

\* The cookie that arrives names a record nobody has revoked.
LEMMA DeliverStep ==
    ASSUME IInv, BrowserInv, NEW r \in Requests, Deliver(r)
    PROVE  BrowserInv'
  <1> USE DEF BrowserInv
  <1>1. /\ Goto(r, IdleSlot) /\ UNCHANGED <<ledger, excused>>
        /\ wire' = [wire EXCEPT ![r] = NoRequest]
    BY DEF Deliver, Respond, Done
  <1>2. /\ req'[r].at = "idle" /\ req'[r].kind = "none"
        /\ \A q \in Requests \ {r} : req'[q] = req[q]
    BY <1>1, IdleIsSlot, GotoLemma DEF IInv, IdleSlot
  <1>3. LogoutsExcused'
    <2>1. /\ NoRequest \in [kind: Kinds, cookie: Opaques \cup {NoToken},
                            alone: BOOLEAN]
          /\ NoRequest.kind = "none"
      BY DEF NoRequest, Kinds
    <2>2. QED
      BY <1>1, <1>2, <2>1 DEF LogoutsExcused, LogoutSlot, At
  <1>4. CASE \E o \in Cookie(r) : jar' = Written(o)
    <2>1. PICK o \in Cookie(r) : jar' = Written(o)
      BY <1>4
    <2>2. o \in DOMAIN ledger /\ ~ledger[o].revoked
      BY <2>1, InvCookieIsGood DEF FreshCookieIsGood
    <2>3. o \in Opaques
      BY <2>2 DEF IInv, TypeOK, LedgerOK
    <2>4. JarOK' /\ RefreshCookie' = o
      BY <2>1, <2>3, WrittenLemma
    <2>5. NeverStranded'
      BY <1>1, <2>2, <2>4 DEF NeverStranded
    <2>6. QED
      BY <1>3, <2>4, <2>5
  <1>5. CASE Cookie(r) = {} /\ (jar' = Cleared \/ UNCHANGED jar)
    <2>1. JarOK' /\ RefreshCookie' = RefreshCookie
      <3>1. CASE jar' = Cleared
        BY <3>1, ClearedLemma
      <3>2. CASE UNCHANGED jar
        BY <3>2 DEF JarOK, RefreshCookie
      <3>3. QED
        BY <1>5, <3>1, <3>2
    <2>2. \A q \in Requests : Cookie(q) # {} =>
              req'[q].token = req[q].token /\ Cookie(q)' # {}
      BY <1>2, <1>5 DEF Cookie, At
    <2>3. NeverStranded'
      BY <1>1, <2>1, <2>2 DEF NeverStranded
    <2>4. QED
      BY <1>3, <2>1, <2>3
  <1>6. req[r].kind = "logout" => Cookie(r) = {}
    BY DEF LogoutsExcused, LogoutSlot, Cookie
  <1>7. QED
    BY <1>4, <1>5, <1>6 DEF Deliver

LEMMA LoseStep ==
    ASSUME IInv, BrowserInv, NEW r \in Requests, Lose(r)
    PROVE  BrowserInv'
  <1> USE DEF BrowserInv
  <1>1. /\ wire' = [wire EXCEPT ![r] = NoRequest] /\ UNCHANGED jar
        /\ excused \subseteq excused' /\ UNCHANGED ledger
    BY DEF Lose, Done, Respond, vars
  <1>2. /\ JarOK' /\ RefreshCookie' = RefreshCookie
        /\ NoRequest \in [kind: Kinds, cookie: Opaques \cup {NoToken},
                          alone: BOOLEAN]
        /\ NoRequest.kind = "none"
    BY <1>1 DEF JarOK, RefreshCookie, NoRequest, Kinds
  <1>3. CASE Respond(r) /\ excused' = IF Cookie(r) = {} THEN excused
                            ELSE excused \cup ({req[r].token} \ {NoToken})
    <2>1. /\ req'[r].at = "idle" /\ req'[r].kind = "none"
          /\ \A q \in Requests \ {r} : req'[q] = req[q]
      BY <1>3, IdleIsSlot, GotoLemma DEF Respond, IInv, IdleSlot
    <2>2. LogoutsExcused'
      BY <1>1, <1>2, <2>1 DEF LogoutsExcused, LogoutSlot, At
    <2>3. \A q \in Requests \ {r} : Cookie(q) # {} =>
              req'[q].token = req[q].token /\ Cookie(q)' # {}
      BY <2>1 DEF Cookie, At
    <2>4. RefreshCookie \in DOMAIN ledger => RefreshCookie # NoToken
      BY LedgerAssumption DEF IInv, TypeOK, LedgerOK
    <2>5. NeverStranded'
      BY <1>1, <1>2, <1>3, <2>3, <2>4 DEF NeverStranded
    <2>6. QED
      BY <1>2, <2>2, <2>5
  <1>4. CASE At(r, "idle") /\ UNCHANGED <<vars, excused>>
    <2>1. UNCHANGED <<req, ledger, excused>>
      BY <1>4 DEF vars
    <2>2. LogoutsExcused'
      BY <1>1, <1>2, <1>4, <2>1 DEF LogoutsExcused, At
    <2>3. NeverStranded'
      BY <1>2, <2>1 DEF NeverStranded, Cookie, At
    <2>4. QED
      BY <1>2, <2>2, <2>3
  <1>5. QED
    BY <1>3, <1>4 DEF Lose

LEMMA ServiceCrashStep ==
    ASSUME IInv, BrowserInv, ServiceCrash
    PROVE  BrowserInv'
  <1> USE DEF BrowserInv
  <1>1. /\ req' = [r \in Requests |-> IdleSlot]
        /\ wire' = [r \in Requests |-> NoRequest] /\ UNCHANGED jar
        /\ excused' = excused \cup
               ({req[r].token : r \in {q \in Requests : Cookie(q) # {}}}
                    \ {NoToken})
        /\ ledger' \in {ledger, EmptyMap}
    BY DEF ServiceCrash, Crash
  <1>2. JarOK' /\ RefreshCookie' = RefreshCookie
    BY <1>1 DEF JarOK, RefreshCookie
  <1>3. LogoutsExcused'
    BY <1>1 DEF LogoutsExcused, LogoutSlot, NoRequest, IdleSlot, Kinds, At
  <1>4. DOMAIN EmptyMap = {}
    BY DEF EmptyMap
  <1>5. RefreshCookie \in DOMAIN ledger => RefreshCookie # NoToken
    BY LedgerAssumption DEF IInv, TypeOK, LedgerOK
  <1>6. NeverStranded'
    BY <1>1, <1>2, <1>4, <1>5 DEF NeverStranded
  <1>7. QED
    BY <1>2, <1>3, <1>6

LEMMA ForgetStep ==
    ASSUME IInv, BrowserInv, Forget
    PROVE  BrowserInv'
  <1> USE DEF BrowserInv
  <1>1. UNCHANGED <<ledger, req, wire, excused>>
    BY DEF Forget, vars
  <1>2. JarOK' /\ jar'.refresh \in {jar.refresh, EmptyMap}
    <2>1. CASE jar' = [jar EXCEPT !.session = FALSE]
      BY <2>1 DEF JarOK
    <2>2. CASE jar' = [jar EXCEPT !.refresh = EmptyMap]
      BY <2>2 DEF JarOK
    <2>3. QED
      BY <2>1, <2>2 DEF Forget
  <1>3. RefreshCookie' \in {RefreshCookie, NoToken}
    BY <1>2 DEF RefreshCookie
  <1>4. NoToken \notin DOMAIN ledger
    BY LedgerAssumption DEF IInv, TypeOK, LedgerOK
  <1>5. LogoutsExcused'
    BY <1>1 DEF LogoutsExcused, At
  <1>6. NeverStranded'
    BY <1>1, <1>3, <1>4 DEF NeverStranded, Cookie, At
  <1>7. QED
    BY <1>2, <1>5, <1>6

\* Steps of the service that concern no request of the browser.
LEMMA ElsewhereStep ==
    ASSUME BrowserInv, UNCHANGED <<ledger, req, jar, wire, excused>>
    PROVE  BrowserInv'
  BY DEF BrowserInv, JarOK, LogoutsExcused, NeverStranded, RefreshCookie,
         Cookie, At

LEMMA InitBrowserInv == BrowserInit => BrowserInv
  <1> SUFFICES ASSUME BrowserInit PROVE BrowserInv
    OBVIOUS
  <1>1. /\ req = [r \in Requests |-> IdleSlot] /\ ledger = EmptyMap
        /\ jar = [session |-> FALSE, refresh |-> EmptyMap]
        /\ wire = [r \in Requests |-> NoRequest] /\ excused = {}
    BY DEF BrowserInit, Init, LedgerInit
  <1>2. JarOK
    BY <1>1 DEF JarOK
  <1>3. LogoutsExcused
    BY <1>1 DEF LogoutsExcused, LogoutSlot, NoRequest, IdleSlot, Kinds, At
  <1>4. NeverStranded
    BY <1>1 DEF NeverStranded, EmptyMap
  <1>5. QED
    BY <1>2, <1>3, <1>4 DEF BrowserInv

LEMMA NextBrowserInv ==
    ASSUME ~StoreFails
    PROVE  IInv /\ BrowserInv /\ [BrowserNext]_browserVars => BrowserInv'
  <1> SUFFICES ASSUME IInv, BrowserInv, [BrowserNext]_browserVars
               PROVE  BrowserInv'
    OBVIOUS
  <1>1. ASSUME NEW r \in Requests, NEW kind \in Kinds \ {"none"}, Send(r, kind)
        PROVE  BrowserInv'
    BY <1>1, SendStep
  <1>2. ASSUME NEW r \in Requests, Serve(r) PROVE BrowserInv'
    BY <1>2, ServeStep
  <1>3. ASSUME NEW r \in Requests, Deliver(r) PROVE BrowserInv'
    BY <1>3, DeliverStep
  <1>4. ASSUME NEW r \in Requests, Lose(r) PROVE BrowserInv'
    BY <1>4, LoseStep
  <1>5. CASE Forget
    BY <1>5, ForgetStep
  <1>6. CASE ServiceCrash
    BY <1>6, ServiceCrashStep
  <1>7. CASE /\ Tick \/ \E n \in Nonces : NonceIssue(n)
             /\ UNCHANGED <<jar, wire, excused, signedOut>>
    BY <1>7, ElsewhereStep DEF Tick, NonceIssue
  <1>8. CASE UNCHANGED browserVars
    BY <1>8, ElsewhereStep DEF browserVars, vars
  <1>9. QED
    BY <1>1, <1>2, <1>3, <1>4, <1>5, <1>6, <1>7, <1>8 DEF BrowserNext

LEMMA TabsInductive ==
    ASSUME ~StoreFails
    PROVE  BrowserSpec => []BrowserInv
  <1>1. BrowserSpec => []IInv
    BY BrowserIsAClient, Inductive, PTL
  <1>2. BrowserInit => BrowserInv
    BY InitBrowserInv
  <1>3. IInv /\ BrowserInv /\ [BrowserNext]_browserVars => BrowserInv'
    BY NextBrowserInv
  <1>4. QED
    BY <1>1, <1>2, <1>3, PTL DEF BrowserSpec

\* While the store answers, tabs that refresh at the same time never strand
\* their browser: in any order of handlers and responses, through restarts and
\* lost responses, a revoked cookie stays in the jar only until its successor
\* arrives, or because that was lost or somebody logged out.
THEOREM TabsNeverStrand ==
    ASSUME ~StoreFails
    PROVE  BrowserSpec => []NeverStranded
  <1>1. BrowserSpec => []BrowserInv
    BY TabsInductive
  <1>2. BrowserInv => NeverStranded
    BY DEF BrowserInv
  <1>3. QED
    BY <1>1, <1>2, PTL

-----------------------------------------------------------------------------
(* The type of the browser.                                                  *)

Request == [kind: Kinds, cookie: Opaques \cup {NoToken}, alone: BOOLEAN]

\* Every cookie in the jar or on the wire came from the service, and a handler
\* works for a request somebody waits for.
WireOK(r) ==
    /\ wire[r].cookie \in held \cup {NoToken}
    /\ Idle(r) => At(r, "idle")
    /\ ~Idle(r) => wire[r].kind # "none"
    /\ ~At(r, "idle") => /\ wire[r].kind = req[r].kind
                         /\ wire[r].cookie = req[r].token

TabInv ==
    /\ JarOK /\ RefreshCookie \in held \cup {NoToken}
    /\ wire \in [Requests -> Request]
    /\ \A r \in Requests : WireOK(r)
    /\ excused \subseteq held
    /\ signedOut \in BOOLEAN

LEMMA NoRequestLemma ==
    /\ NoRequest \in Request
    /\ NoRequest.kind = "none" /\ NoRequest.cookie = NoToken
  BY DEF NoRequest, Request, Kinds

LEMMA TabTyped == IInv /\ TabInv => BrowserOK
  <1> SUFFICES ASSUME IInv, TabInv PROVE BrowserOK
    OBVIOUS
  <1>1. jar \in Jar
    <2>1. CASE jar.refresh = EmptyMap
      BY <2>1 DEF TabInv, JarOK, Jar
    <2>2. CASE jar.refresh \in [{"/auth"} -> Opaques]
      <3>1. jar.refresh # EmptyMap
        BY <2>2 DEF EmptyMap
      <3>2. /\ RefreshCookie = jar.refresh["/auth"]
            /\ jar.refresh["/auth"] \in Opaques
        BY <2>2, <3>1 DEF RefreshCookie
      <3>3. jar.refresh["/auth"] \in held
        BY <3>2, LedgerAssumption DEF TabInv
      <3>4. jar.refresh \in [{"/auth"} -> held]
        BY <2>2, <3>3
      <3>5. QED
        BY <3>4 DEF TabInv, JarOK, Jar
    <2>3. QED
      BY <2>1, <2>2 DEF TabInv, JarOK
  <1>2. QED
    BY <1>1 DEF TabInv, WireOK, BrowserOK, Request

\* A step of the handler in slot r leaves the other handlers and the clients'
\* cookies alone.
LEMMA HandlerElsewhere ==
    ASSUME IInv, NEW r \in Requests, HandlerStep(r)
    PROVE  /\ \A q \in Requests \ {r} : req'[q] = req[q]
           /\ held' = held
  <1>1. CASE LoginStep(r)
    BY <1>1, LoginKind
       DEF KeepsKind, StartsAs, LoginStep, LoginMalformed, LoginConsume,
           LoginVerify, LoginUpsertBegin, LoginUpsertEnd, LoginIssue
  <1>2. CASE RefreshStep(r)
    BY <1>2, RefreshKind
       DEF KeepsKind, StartsAs, RefreshStep, RefreshNoCookie, RefreshValidate,
           RefreshProfile, RefreshIssue, RefreshRevoke
  <1>3. CASE LogoutStep(r)
    BY <1>3, GotoKind
       DEF LogoutStep, LogoutNoCookie, LogoutValidate, LogoutRevoke, Answer,
           AnswerAtOnce, IInv
  <1>4. CASE IssueFails(r)
    BY <1>4, GotoKind DEF IssueFails, Answer, IInv
  <1>5. QED
    BY <1>1, <1>2, <1>3, <1>4 DEF HandlerStep

LEMMA SendTab ==
    ASSUME IInv, TabInv, NEW r \in Requests, NEW kind \in Kinds \ {"none"},
           Send(r, kind)
    PROVE  /\ TabInv'
           /\ wire'[r].kind = kind
           /\ wire'[r].cookie = IF kind = "login" THEN NoToken ELSE RefreshCookie
           /\ ~Idle(r)' /\ At(r, "idle")
           /\ wire'[r].alone => \A q \in Requests \ {r} : Idle(q)'
           /\ \A q \in Requests \ {r} :
                  /\ wire'[q].kind = wire[q].kind
                  /\ wire'[q].cookie = wire[q].cookie
                  /\ ~Idle(q)' => ~wire'[q].alone
  <1> DEFINE cookie == IF kind = "login" THEN NoToken ELSE RefreshCookie
             alone == \A q \in Requests : Idle(q)
             new == [kind |-> kind, cookie |-> cookie, alone |-> alone]
             sent(q) == IF q = r THEN new
                        ELSE IF Idle(q) THEN NoRequest
                        ELSE [wire[q] EXCEPT !.alone = FALSE]
  <1>1. /\ wire' = [q \in Requests |-> sent(q)]
        /\ excused' = IF kind = "logout" THEN excused \cup ({cookie} \ {NoToken})
                      ELSE excused
        /\ UNCHANGED <<vars, jar, signedOut>>
        /\ Idle(r)
    BY DEF Send
  <1>2. /\ cookie \in held \cup {NoToken} /\ alone \in BOOLEAN
        /\ held \subseteq Opaques
    BY DEF TabInv, IInv, TypeOK
  <1>3. /\ new \in Request /\ new.kind = kind /\ new.cookie = cookie
        /\ new.alone = alone
    BY <1>2 DEF Request
  <1>4. ASSUME NEW q \in Requests \ {r}
        PROVE  /\ sent(q) \in Request
               /\ sent(q).kind = wire[q].kind
               /\ sent(q).cookie = wire[q].cookie
               /\ Idle(q) <=> sent(q) = NoRequest
               /\ ~Idle(q) => ~sent(q).alone
    <2>1. CASE Idle(q)
      BY <2>1, NoRequestLemma DEF Idle
    <2>2. CASE ~Idle(q)
      <3>1. wire[q] \in Request /\ wire[q].kind # "none"
        BY <2>2 DEF TabInv, WireOK
      <3>2. /\ sent(q) \in Request /\ sent(q).kind = wire[q].kind
            /\ sent(q).cookie = wire[q].cookie /\ ~sent(q).alone
        BY <2>2, <3>1 DEF Request
      <3>3. QED
        BY <2>2, <3>1, <3>2, NoRequestLemma
    <2>3. QED
      BY <2>1, <2>2
  <1>5. /\ wire'[r] = new
        /\ \A q \in Requests \ {r} : wire'[q] = sent(q)
    BY <1>1
  <1>6. ~Idle(r)'
    BY <1>3, <1>5, NoRequestLemma DEF Idle
  <1>7. \A q \in Requests \ {r} : Idle(q)' <=> Idle(q)
    BY <1>4, <1>5 DEF Idle
  <1>8. At(r, "idle")
    BY <1>1 DEF TabInv, WireOK
  <1>9. UNCHANGED <<req, held>>
    BY <1>1 DEF vars
  <1>10. JarOK' /\ RefreshCookie' = RefreshCookie
    BY <1>1 DEF TabInv, JarOK, RefreshCookie
  <1>11. wire' \in [Requests -> Request]
    BY <1>1, <1>3, <1>4
  <1> HIDE DEF sent, new
  <1>12. \A q \in Requests : WireOK(q)'
    <2>1. WireOK(r)'
      BY <1>2, <1>3, <1>5, <1>6, <1>8, <1>9 DEF WireOK, At
    <2>2. \A q \in Requests \ {r} : WireOK(q)'
      BY <1>4, <1>5, <1>7, <1>9 DEF TabInv, WireOK, At
    <2>3. QED
      BY <2>1, <2>2
  <1>13. excused' \subseteq held'
    BY <1>1, <1>2, <1>9 DEF TabInv
  <1>14. TabInv'
    BY <1>1, <1>9, <1>10, <1>11, <1>12, <1>13 DEF TabInv
  <1>15. wire'[r].alone => \A q \in Requests \ {r} : Idle(q)'
    BY <1>3, <1>5, <1>7
  <1>16. QED
    BY <1>3, <1>4, <1>5, <1>6, <1>7, <1>8, <1>14, <1>15

LEMMA ServeTab ==
    ASSUME IInv, TabInv, NEW r \in Requests, Serve(r)
    PROVE  TabInv'
  <1>1. /\ ~Idle(r) /\ HandlerStep(r)
        /\ req'[r].kind = wire[r].kind /\ req'[r].token = wire[r].cookie
        /\ UNCHANGED <<jar, wire, excused, signedOut>>
    BY DEF Serve, HandlerStep
  <1>2. /\ \A q \in Requests \ {r} : req'[q] = req[q]
        /\ held' = held
    BY <1>1, HandlerElsewhere
  <1>3. JarOK' /\ RefreshCookie' = RefreshCookie
    BY <1>1 DEF TabInv, JarOK, RefreshCookie
  <1>4. \A q \in Requests : WireOK(q)'
    BY <1>1, <1>2 DEF TabInv, WireOK, Idle, At
  <1>5. QED
    BY <1>1, <1>2, <1>3, <1>4 DEF TabInv

\* A slot whose request is over.
LEMMA OverTab ==
    ASSUME TabInv, NEW r \in Requests, Done(r), held \subseteq held',
           req'[r].at = "idle",
           \A q \in Requests \ {r} : req'[q] = req[q]
    PROVE  /\ wire' \in [Requests -> Request]
           /\ \A q \in Requests : WireOK(q)'
           /\ Idle(r)'
           /\ \A q \in Requests \ {r} : wire'[q] = wire[q]
  <1>1. /\ wire' \in [Requests -> Request]
        /\ wire'[r] = NoRequest
        /\ \A q \in Requests \ {r} : wire'[q] = wire[q]
    BY NoRequestLemma DEF TabInv, Done
  <1>2. WireOK(r)'
    BY <1>1, NoRequestLemma DEF WireOK, Idle, At
  <1>3. \A q \in Requests \ {r} : WireOK(q)'
    BY <1>1 DEF TabInv, WireOK, Idle, At
  <1>4. QED
    BY <1>1, <1>2, <1>3 DEF Idle

LEMMA RespondSlot ==
    ASSUME IInv, NEW r \in Requests, Respond(r)
    PROVE  /\ req'[r].at = "idle" /\ At(r, "answered")
           /\ \A q \in Requests \ {r} : req'[q] = req[q]
           /\ UNCHANGED <<now, ledger, origin>>
           /\ held' \in {held, held \cup Cookie(r)}
  BY IdleIsSlot, GotoLemma DEF Respond, IInv, IdleSlot

LEMMA DeliverTab ==
    ASSUME IInv, TabInv, NEW r \in Requests, Deliver(r)
    PROVE  TabInv'
  <1>1. /\ held' = held \cup Cookie(r) /\ Respond(r) /\ Done(r)
        /\ UNCHANGED excused
    BY DEF Deliver
  <1>2. /\ wire' \in [Requests -> Request]
        /\ \A q \in Requests : WireOK(q)'
    BY <1>1, RespondSlot, OverTab
  <1>3. wire[r].alone \in BOOLEAN /\ signedOut \in BOOLEAN
    BY DEF TabInv, Request
  <1>4. signedOut' \in BOOLEAN
    BY <1>3 DEF Deliver
  <1>5. JarOK' /\ RefreshCookie' \in held' \cup {NoToken}
    <2>1. ASSUME NEW o \in Cookie(r), jar' = Written(o)
          PROVE  JarOK' /\ RefreshCookie' = o
      <3>1. o \in Opaques
        BY <1>1, RespondStep DEF IInv, TypeOK
      <3>2. QED
        BY <2>1, <3>1, WrittenLemma DEF TabInv
    <2>2. CASE jar' = Cleared
      BY <1>1, <2>2, ClearedLemma DEF TabInv
    <2>3. CASE UNCHANGED jar
      BY <1>1, <2>3 DEF TabInv, JarOK, RefreshCookie
    <2>4. QED
      BY <1>1, <2>1, <2>2, <2>3 DEF Deliver
  <1>6. QED
    BY <1>1, <1>2, <1>4, <1>5 DEF TabInv

LEMMA LoseTab ==
    ASSUME IInv, TabInv, NEW r \in Requests, Lose(r)
    PROVE  TabInv'
  <1>1. Done(r) /\ UNCHANGED <<jar, signedOut>>
    BY DEF Lose
  <1>2. /\ req'[r].at = "idle" /\ held' = held
        /\ \A q \in Requests \ {r} : req'[q] = req[q]
    <2>1. CASE Respond(r) /\ UNCHANGED held
      BY <2>1, RespondSlot
    <2>2. CASE At(r, "idle") /\ UNCHANGED vars
      BY <2>2 DEF vars, At
    <2>3. QED
      BY <2>1, <2>2 DEF Lose
  <1>3. excused' \subseteq held
    <2>1. CASE /\ Respond(r)
               /\ excused' = IF Cookie(r) = {} THEN excused
                             ELSE excused \cup ({req[r].token} \ {NoToken})
      <3>1. ~At(r, "idle")
        BY <2>1 DEF Respond, At
      <3>2. req[r].token \in held \cup {NoToken}
        BY <3>1 DEF TabInv, WireOK
      <3>3. QED
        BY <2>1, <3>2 DEF TabInv
    <2>2. CASE UNCHANGED excused
      BY <2>2 DEF TabInv
    <2>3. QED
      BY <2>1, <2>2 DEF Lose
  <1>4. JarOK' /\ RefreshCookie' = RefreshCookie
    BY <1>1 DEF TabInv, JarOK, RefreshCookie
  <1>5. QED
    BY <1>1, <1>2, <1>3, <1>4, OverTab DEF TabInv

LEMMA CrashTab ==
    ASSUME IInv, TabInv, ServiceCrash
    PROVE  TabInv'
  <1>1. /\ \A r \in Requests : req'[r].at = "idle"
        /\ wire' = [r \in Requests |-> NoRequest]
        /\ UNCHANGED <<held, jar, signedOut>>
        /\ excused' = excused \cup
               ({req[r].token : r \in {q \in Requests : Cookie(q) # {}}}
                    \ {NoToken})
    BY DEF ServiceCrash, Crash, IdleSlot
  <1>2. \A r \in Requests : Cookie(r) # {} => req[r].token \in held \cup {NoToken}
    <2> SUFFICES ASSUME NEW r \in Requests, Cookie(r) # {}
                 PROVE  req[r].token \in held \cup {NoToken}
      OBVIOUS
    <2>1. ~At(r, "idle")
      BY DEF Cookie, At
    <2>2. QED
      BY <2>1 DEF TabInv, WireOK
  <1>3. excused' \subseteq held'
    BY <1>1, <1>2 DEF TabInv
  <1>4. wire' \in [Requests -> Request]
    BY <1>1, NoRequestLemma
  <1>5. \A r \in Requests : WireOK(r)'
    BY <1>1, NoRequestLemma DEF WireOK, Idle, At
  <1>6. JarOK' /\ RefreshCookie' = RefreshCookie
    BY <1>1 DEF TabInv, JarOK, RefreshCookie
  <1>7. QED
    BY <1>1, <1>3, <1>4, <1>5, <1>6 DEF TabInv

LEMMA ForgetJar ==
    ASSUME JarOK, Forget
    PROVE  /\ JarOK' /\ RefreshCookie' \in {RefreshCookie, NoToken}
           /\ ~jar.session => ~jar'.session
  <1>1. CASE jar' = [jar EXCEPT !.session = FALSE]
    BY <1>1 DEF JarOK, RefreshCookie
  <1>2. CASE jar' = [jar EXCEPT !.refresh = EmptyMap]
    BY <1>2 DEF JarOK, RefreshCookie
  <1>3. QED
    BY <1>1, <1>2 DEF Forget

\* Steps that concern neither the jar nor a request.
LEMMA ElsewhereTab ==
    ASSUME TabInv, UNCHANGED <<req, held, jar, wire, excused, signedOut>>
    PROVE  TabInv'
  BY DEF TabInv, JarOK, RefreshCookie, WireOK, Idle, At

LEMMA InitTab == BrowserInit => TabInv
  <1> SUFFICES ASSUME BrowserInit PROVE TabInv
    OBVIOUS
  <1>1. /\ req = [r \in Requests |-> IdleSlot] /\ held = {}
        /\ jar = [session |-> FALSE, refresh |-> EmptyMap]
        /\ wire = [r \in Requests |-> NoRequest] /\ excused = {}
        /\ signedOut = FALSE
    BY DEF BrowserInit, Init
  <1>2. JarOK /\ RefreshCookie = NoToken
    BY <1>1 DEF JarOK, RefreshCookie
  <1>3. wire \in [Requests -> Request] /\ \A r \in Requests : WireOK(r)
    BY <1>1, NoRequestLemma DEF WireOK, Idle, IdleSlot, At
  <1>4. QED
    BY <1>1, <1>2, <1>3 DEF TabInv

LEMMA NextTab == IInv /\ TabInv /\ [BrowserNext]_browserVars => TabInv'
  <1> SUFFICES ASSUME IInv, TabInv, [BrowserNext]_browserVars PROVE TabInv'
    OBVIOUS
  <1>1. ASSUME NEW r \in Requests, NEW kind \in Kinds \ {"none"}, Send(r, kind)
        PROVE  TabInv'
    BY <1>1, SendTab
  <1>2. ASSUME NEW r \in Requests, Serve(r) PROVE TabInv'
    BY <1>2, ServeTab
  <1>3. ASSUME NEW r \in Requests, Deliver(r) PROVE TabInv'
    BY <1>3, DeliverTab
  <1>4. ASSUME NEW r \in Requests, Lose(r) PROVE TabInv'
    BY <1>4, LoseTab
  <1>5. CASE Forget
    <2>1. /\ JarOK' /\ RefreshCookie' \in held \cup {NoToken}
      BY <1>5, ForgetJar DEF TabInv
    <2>2. UNCHANGED <<req, held, wire, excused, signedOut>>
      BY <1>5 DEF Forget, vars
    <2>3. QED
      BY <2>1, <2>2 DEF TabInv, WireOK, Idle, At
  <1>6. CASE ServiceCrash
    BY <1>6, CrashTab
  <1>7. CASE /\ Tick \/ \E n \in Nonces : NonceIssue(n)
             /\ UNCHANGED <<jar, wire, excused, signedOut>>
    BY <1>7, ElsewhereTab DEF Tick, NonceIssue
  <1>8. CASE UNCHANGED browserVars
    BY <1>8, ElsewhereTab DEF browserVars, vars
  <1>9. QED
    BY <1>1, <1>2, <1>3, <1>4, <1>5, <1>6, <1>7, <1>8 DEF BrowserNext

LEMMA TabsTyped == BrowserSpec => [](IInv /\ TabInv)
  <1>1. BrowserSpec => []IInv
    BY BrowserIsAClient, Inductive, PTL
  <1>2. QED
    BY <1>1, InitTab, NextTab, PTL DEF BrowserSpec

\* For any tabs and tokens, restarts and store failures: every cookie the
\* browser has or sends came from the service, there is one refresh cookie at
\* most, and a handler works for the request its slot waits for.
THEOREM BrowserWellTyped == BrowserSpec => []BrowserOK
  BY TabTyped, TabsTyped, PTL

-----------------------------------------------------------------------------
(* Logging out.                                                              *)

\* A request that overlapped nothing is the only one, and the jar still has
\* the cookie it was sent with, if it has one.
AloneOK(r) ==
    ~Idle(r) /\ wire[r].alone =>
        /\ \A q \in Requests \ {r} : Idle(q)
        /\ wire[r].kind = "logout" =>
               RefreshCookie \in {wire[r].cookie, NoToken}

\* A refresh under way carries a dead token and ends without a cookie.
NoWayBack(r) ==
    wire[r].kind = "refresh" =>
        /\ ~IsLive(wire[r].cookie)
        /\ \/ At(r, "idle")
           \/ At(r, "answered") /\ Cookie(r) = {}

OutInv ==
    /\ \A r \in Requests : AloneOK(r)
    /\ signedOut => /\ ~jar.session /\ ~IsLive(RefreshCookie)
                    /\ \A r \in Requests : NoWayBack(r)

\* What this invariant rests on.
Base == IInv /\ LogoutInv /\ TabInv /\ BrowserInv

\* Tokens of clients that are dead stay dead.
LEMMA HeldStaysDead ==
    ASSUME IInv, DeadStays, NEW o \in held \cup {NoToken}, ~IsLive(o)
    PROVE  ~IsLive(o)'
  BY DEF IInv, AllDrawn, DeadStays

LEMMA CookieSendsNone == ASSUME NEW r \in Requests, At(r, "idle") PROVE Cookie(r) = {}
  BY DEF Cookie, At

LEMMA SendOut ==
    ASSUME Base, OutInv, NEW r \in Requests, NEW kind \in Kinds \ {"none"},
           Send(r, kind)
    PROVE  OutInv'
  <1> USE DEF Base
  <1>1. UNCHANGED <<vars, jar, signedOut>>
    BY DEF Send
  <1>2. /\ \A o : IsLive(o)' <=> IsLive(o)
        /\ RefreshCookie' = RefreshCookie
        /\ req' = req
    BY <1>1 DEF vars, IsLive, Before, RefreshCookie
  <1>3. /\ wire'[r].kind = kind
        /\ wire'[r].cookie = IF kind = "login" THEN NoToken ELSE RefreshCookie
        /\ At(r, "idle")
        /\ wire'[r].alone => \A q \in Requests \ {r} : Idle(q)'
        /\ \A q \in Requests \ {r} :
               /\ wire'[q].kind = wire[q].kind
               /\ wire'[q].cookie = wire[q].cookie
               /\ ~Idle(q)' => ~wire'[q].alone
    BY SendTab
  <1>4. \A q \in Requests : AloneOK(q)'
    <2>1. AloneOK(r)'
      BY <1>2, <1>3, NoTokenIsDead DEF AloneOK, Kinds
    <2>2. \A q \in Requests \ {r} : AloneOK(q)'
      BY <1>3 DEF AloneOK
    <2>3. QED
      BY <2>1, <2>2
  <1>5. ASSUME signedOut, NEW q \in Requests PROVE NoWayBack(q)'
    <2>1. CASE q = r
      <3>1. kind # "login" => wire'[r].cookie = RefreshCookie
        BY <1>3
      <3>2. kind = "refresh" => ~IsLive(wire'[r].cookie)
        BY <1>5, <3>1 DEF OutInv
      <3>3. At(r, "idle")'
        BY <1>2, <1>3 DEF At
      <3>4. UNCHANGED <<now, ledger>>
        BY <1>1 DEF vars
      <3>5. wire'[q].kind = kind
        BY <1>3, <2>1
      <3>6. kind = "refresh" => ~IsLive(wire[q].cookie)'
        BY <2>1, <3>2, <3>4 DEF IsLive, Before
      <3>7. QED
        BY <2>1, <3>3, <3>5, <3>6 DEF NoWayBack, At, Cookie, IsLive, Before
    <2>2. CASE q # r
      <3>1. NoWayBack(q)
        BY <1>5 DEF OutInv
      <3>2. /\ wire'[q].kind = wire[q].kind
            /\ wire'[q].cookie = wire[q].cookie
        BY <1>3, <2>2
      <3>3. Cookie(q)' = Cookie(q)
        BY <1>2 DEF Cookie, At
      <3>4. QED
        BY <1>2, <3>1, <3>2, <3>3 DEF NoWayBack, At
    <2>3. QED
      BY <2>1, <2>2
  <1>6. QED
    BY <1>1, <1>2, <1>4, <1>5 DEF OutInv

LEMMA HandlersDead ==
    ASSUME ~StoreFails, IInv, NEW r \in Requests, HandlerStep(r)
    PROVE  DeadStays
  <1>1. CASE LogoutStep(r)
    <2>1. CASE LogoutRevoke(r)
      BY <2>1, RevokeDead DEF LogoutRevoke
    <2>2. CASE UNCHANGED <<now, ledger, origin>>
      BY <2>2, QuietDead
    <2>3. QED
      BY <1>1, <2>1, <2>2 DEF LogoutStep, LogoutNoCookie, LogoutValidate
  <1>2. CASE IssueFails(r)
    BY <1>2, QuietDead DEF IssueFails
  <1>3. QED
    BY <1>1, <1>2, OthersDead DEF HandlerStep

\* The first step of a refresh with a dead token, or without one, is its last.
LEMMA DeadIsRefused ==
    ASSUME IInv, NEW r \in Requests, HandlerStep(r), At(r, "idle"),
           req'[r].kind = "refresh", ~IsLive(req'[r].token)
    PROVE  At(r, "answered")' /\ Cookie(r)' = {}
  <1>1. ASSUME NEW token \in Opaques \cup {NoToken},
               AnswerAtOnce(r, "refresh", token, 401)
        PROVE  At(r, "answered")' /\ Cookie(r)' = {}
    <2>1. req'[r].at = "answered" /\ req'[r].status = 401
      BY <1>1, AnswerAtOnceLemma DEF IInv, Statuses
    <2>2. QED
      BY <2>1 DEF At, Cookie
  <1>2. CASE RefreshNoCookie(r)
    BY <1>1, <1>2 DEF RefreshNoCookie
  <1>3. ASSUME NEW o \in held, RefreshValidate(r, o)
        PROVE  At(r, "answered")' /\ Cookie(r)' = {}
    <2> DEFINE slot == [IdleSlot EXCEPT !.kind = "refresh", !.at = "profile",
                                        !.token = o, !.user = ledger[o].user]
    <2>1. slot.token = o
      BY DEF IdleSlot
    <2>2. Goto(r, slot) => req'[r] = slot
      BY DEF IInv, TypeOK, Goto
    <2>3. ValidateVerdict(o) = "ok" => IsLive(o)
      BY DEF ValidateVerdict, IsLive
    <2>4. \/ ValidateVerdict(o) = "ok" /\ Goto(r, slot)
          \/ AnswerAtOnce(r, "refresh", o, 401)
      BY <1>3 DEF RefreshValidate
    <2> HIDE DEF slot
    <2>5. AnswerAtOnce(r, "refresh", o, 401)
      BY <2>1, <2>2, <2>3, <2>4
    <2>6. QED
      BY <1>1, <2>5 DEF IInv, TypeOK
  <1>4. ~LoginStep(r)
    BY LoginKind DEF StartsAs
  <1>5. ~LogoutStep(r)
    <2>1. ~LogoutNoCookie(r)
      BY AtOnceKind DEF LogoutNoCookie, StartsAs, IInv
    <2>2. ASSUME NEW o \in held, LogoutValidate(r, o) PROVE FALSE
      <3> DEFINE slot == [IdleSlot EXCEPT !.kind = "logout", !.at = "revoke",
                                          !.token = o]
      <3>1. slot.kind = "logout"
        BY DEF IdleSlot
      <3>2. Goto(r, slot) \/ AnswerAtOnce(r, "logout", o, 204)
        BY <2>2 DEF LogoutValidate
      <3> HIDE DEF slot
      <3>3. req'[r].kind = "logout"
        BY <3>1, <3>2, GotoKind, AtOnceKind DEF StartsAs, IInv
      <3>4. QED
        BY <3>3
    <2>3. ~LogoutRevoke(r)
      BY DEF LogoutRevoke, At
    <2>4. QED
      BY <2>1, <2>2, <2>3 DEF LogoutStep
  <1>6. ~IssueFails(r)
    BY DEF IssueFails, At
  <1>7. ~RefreshProfile(r) /\ ~RefreshRevoke(r) /\ \A o : ~RefreshIssue(r, o)
    BY DEF RefreshProfile, RefreshRevoke, RefreshIssue, At
  <1>8. QED
    BY <1>2, <1>3, <1>4, <1>5, <1>6, <1>7 DEF HandlerStep, RefreshStep

LEMMA ServeOut ==
    ASSUME ~StoreFails, Base, OutInv, NEW r \in Requests, Serve(r)
    PROVE  OutInv'
  <1> USE DEF Base
  <1>1. /\ ~Idle(r) /\ HandlerStep(r)
        /\ req'[r].kind = wire[r].kind /\ req'[r].token = wire[r].cookie
        /\ UNCHANGED <<jar, wire, excused, signedOut>>
    BY DEF Serve, HandlerStep
  <1>2. /\ DeadStays
        /\ \A q \in Requests \ {r} : req'[q] = req[q]
        /\ ~At(r, "answered")
    BY <1>1, HandlersDead, StepStaysInSlot DEF BrowserInv, LogoutsExcused
  <1>3. RefreshCookie' = RefreshCookie
    BY <1>1 DEF RefreshCookie
  <1>4. \A q \in Requests : AloneOK(q)'
    BY <1>1, <1>3 DEF OutInv, AloneOK, Idle
  <1>5. ~IsLive(RefreshCookie) => ~IsLive(RefreshCookie)'
    BY <1>2, <1>3, HeldStaysDead DEF TabInv
  <1>6. \A q \in Requests : ~IsLive(wire[q].cookie) => ~IsLive(wire[q].cookie)'
    BY <1>1, <1>2, HeldStaysDead DEF TabInv, WireOK
  <1>7. ASSUME signedOut, NEW q \in Requests, wire[q].kind = "refresh"
        PROVE  /\ ~IsLive(wire[q].cookie)'
               /\ \/ At(q, "idle")'
                  \/ At(q, "answered")' /\ Cookie(q)' = {}
    <2>1. /\ ~IsLive(wire[q].cookie)
          /\ \/ At(q, "idle")
             \/ At(q, "answered") /\ Cookie(q) = {}
      BY <1>7 DEF OutInv, NoWayBack
    <2>2. CASE q = r
      <3>1. ~IsLive(req'[r].token) /\ At(r, "idle") /\ req'[r].kind = "refresh"
        BY <1>1, <1>2, <1>7, <2>1, <2>2
      <3>2. QED
        BY <1>1, <1>6, <2>1, <2>2, <3>1, DeadIsRefused
    <2>3. CASE q # r
      BY <1>2, <1>6, <2>1, <2>3 DEF At, Cookie
    <2>4. QED
      BY <2>2, <2>3
  <1>8. \A q \in Requests : signedOut => NoWayBack(q)'
    BY <1>1, <1>7 DEF NoWayBack
  <1>9. QED
    BY <1>1, <1>4, <1>5, <1>8 DEF OutInv

\* A request that is over binds nobody.
LEMMA OverOut ==
    ASSUME Base, OutInv, NEW r \in Requests, Done(r), held \subseteq held',
           req'[r].at = "idle",
           \A q \in Requests \ {r} : req'[q] = req[q],
           UNCHANGED <<now, ledger>>
    PROVE  /\ Idle(r)' /\ NoWayBack(r)'
           /\ \A q \in Requests : NoWayBack(q) => NoWayBack(q)'
           /\ RefreshCookie' = RefreshCookie =>
                  \A q \in Requests : AloneOK(q)'
           /\ \A o : IsLive(o)' <=> IsLive(o)
  <1> USE DEF Base
  <1>1. /\ Idle(r)'
        /\ \A q \in Requests \ {r} : wire'[q] = wire[q]
    BY OverTab
  <1>2. wire'[r].kind = "none"
    BY <1>1, NoRequestLemma DEF Idle
  <1>3. \A o : IsLive(o)' <=> IsLive(o)
    BY DEF IsLive, Before
  <1>4. NoWayBack(r)'
    BY <1>2 DEF NoWayBack
  <1>5. \A q \in Requests \ {r} : NoWayBack(q) => NoWayBack(q)'
    BY <1>1, <1>3 DEF NoWayBack, At, Cookie
  <1>6. ASSUME RefreshCookie' = RefreshCookie, NEW q \in Requests
        PROVE  AloneOK(q)'
    BY <1>1, <1>6 DEF OutInv, AloneOK, Idle
  <1>7. QED
    BY <1>1, <1>3, <1>4, <1>5, <1>6

LEMMA DeliverOut ==
    ASSUME Base, OutInv, NEW r \in Requests, Deliver(r)
    PROVE  OutInv'
  <1> USE DEF Base
  <1>1. /\ held' = held \cup Cookie(r) /\ Respond(r) /\ Done(r)
        /\ At(r, "answered") /\ req'[r].at = "idle"
        /\ \A q \in Requests \ {r} : req'[q] = req[q]
        /\ UNCHANGED <<now, ledger>>
    BY RespondSlot DEF Deliver
  <1>2. /\ Idle(r)' /\ NoWayBack(r)'
        /\ \A q \in Requests : NoWayBack(q) => NoWayBack(q)'
        /\ RefreshCookie' = RefreshCookie => \A q \in Requests : AloneOK(q)'
        /\ \A o : IsLive(o)' <=> IsLive(o)
    BY <1>1, OverOut
  <1>3. /\ ~Idle(r) /\ wire[r].kind = req[r].kind
        /\ wire[r].cookie = req[r].token
    BY <1>1 DEF TabInv, WireOK, At
  <1>4. \A q \in Requests \ {r} : wire'[q] = wire[q]
    BY <1>1, OverTab
  <1>5. CASE req[r].kind = "logout" /\ jar' = Cleared /\ signedOut' = wire[r].alone
    <2>1. RefreshCookie' = RefreshCookie /\ ~jar'.session
      BY <1>5, ClearedLemma DEF TabInv, Cleared
    <2>2. ASSUME wire[r].alone
          PROVE  ~IsLive(RefreshCookie) /\ \A q \in Requests : NoWayBack(q)'
      <3>1. /\ \A q \in Requests \ {r} : Idle(q)
            /\ RefreshCookie \in {wire[r].cookie, NoToken}
        BY <1>3, <1>5, <2>2 DEF OutInv, AloneOK
      <3>2. ~IsLive(req[r].token)
        BY <1>1, <1>5 DEF LogoutInv, LogoutOK, LogoutDone, At
      <3>3. ~IsLive(RefreshCookie)
        BY <1>3, <3>1, <3>2, NoTokenIsDead
      <3>4. \A q \in Requests \ {r} : wire'[q].kind = "none"
        BY <1>4, <3>1, NoRequestLemma DEF Idle
      <3>5. QED
        BY <1>2, <3>3, <3>4 DEF NoWayBack
    <2>3. QED
      BY <1>2, <1>5, <2>1, <2>2 DEF OutInv
  <1>6. ASSUME NEW o \in Cookie(r), signedOut' = (signedOut /\ req[r].kind # "login")
        PROVE  OutInv'
    <2>1. ~signedOut'
      <3> SUFFICES ASSUME signedOut, req[r].kind # "login" PROVE FALSE
        BY <1>6
      <3>1. req[r].kind # "logout"
        BY <1>6 DEF BrowserInv, LogoutsExcused, LogoutSlot, Cookie
      <3>2. req[r].kind \in Kinds /\ req[r].kind # "none"
        BY <1>3 DEF TabInv, WireOK, Request
      <3>3. wire[r].kind = "refresh"
        BY <1>3, <3>1, <3>2 DEF Kinds
      <3>4. QED
        BY <1>1, <1>6, <3>3 DEF OutInv, NoWayBack, At
    <2>2. ASSUME NEW q \in Requests PROVE AloneOK(q)'
      <3>1. CASE q = r
        BY <1>2, <3>1 DEF AloneOK
      <3>2. CASE q # r
        BY <1>3, <1>4, <3>2 DEF OutInv, AloneOK, Idle
      <3>3. QED
        BY <3>1, <3>2
    <2>3. QED
      BY <2>1, <2>2 DEF OutInv
  <1>7. CASE UNCHANGED <<jar, signedOut>>
    <2>1. RefreshCookie' = RefreshCookie
      BY <1>7 DEF RefreshCookie
    <2>2. QED
      BY <1>2, <1>7, <2>1 DEF OutInv
  <1>8. QED
    BY <1>5, <1>6, <1>7 DEF Deliver

LEMMA LoseOut ==
    ASSUME Base, OutInv, NEW r \in Requests, Lose(r)
    PROVE  OutInv'
  <1> USE DEF Base
  <1>1. Done(r) /\ UNCHANGED <<jar, signedOut>>
    BY DEF Lose
  <1>2. /\ req'[r].at = "idle" /\ held' = held
        /\ \A q \in Requests \ {r} : req'[q] = req[q]
        /\ UNCHANGED <<now, ledger>>
    <2>1. CASE Respond(r) /\ UNCHANGED held
      BY <2>1, RespondSlot
    <2>2. CASE At(r, "idle") /\ UNCHANGED vars
      BY <2>2 DEF vars, At
    <2>3. QED
      BY <2>1, <2>2 DEF Lose
  <1>3. RefreshCookie' = RefreshCookie
    BY <1>1 DEF RefreshCookie
  <1>4. QED
    BY <1>1, <1>2, <1>3, OverOut DEF OutInv

LEMMA CrashOut ==
    ASSUME Base, OutInv, ServiceCrash
    PROVE  OutInv'
  <1> USE DEF Base
  <1>1. /\ wire' = [r \in Requests |-> NoRequest]
        /\ UNCHANGED <<jar, signedOut, now>>
        /\ ledger' \in {ledger, EmptyMap}
    BY DEF ServiceCrash, Crash
  <1>2. \A o : IsLive(o)' => IsLive(o)
    BY <1>1 DEF IsLive, Before, EmptyMap
  <1>3. RefreshCookie' = RefreshCookie
    BY <1>1 DEF RefreshCookie
  <1>4. \A r \in Requests : Idle(r)' /\ wire'[r].kind = "none"
    BY <1>1, NoRequestLemma DEF Idle
  <1>5. QED
    BY <1>1, <1>2, <1>3, <1>4 DEF OutInv, AloneOK, NoWayBack

\* Steps that concern no request.
LEMMA ElsewhereOut ==
    ASSUME Base, OutInv, DeadStays, UNCHANGED <<req, wire, signedOut>>,
           RefreshCookie' \in {RefreshCookie, NoToken},
           ~jar.session => ~jar'.session,
           ~IsLive(NoToken)'
    PROVE  OutInv'
  <1> USE DEF Base
  <1>1. \A q \in Requests : AloneOK(q)'
    BY DEF OutInv, AloneOK, Idle
  <1>2. ~IsLive(RefreshCookie) => ~IsLive(RefreshCookie)'
    BY HeldStaysDead DEF TabInv
  <1>3. \A q \in Requests : ~IsLive(wire[q].cookie) => ~IsLive(wire[q].cookie)'
    BY HeldStaysDead DEF TabInv, WireOK
  <1>4. \A q \in Requests : NoWayBack(q) => NoWayBack(q)'
    BY <1>3 DEF NoWayBack, At, Cookie
  <1>5. QED
    BY <1>1, <1>2, <1>4 DEF OutInv

LEMMA NextOut ==
    ASSUME ~StoreFails
    PROVE  Base /\ OutInv /\ [BrowserNext]_browserVars => OutInv'
  <1> SUFFICES ASSUME Base, OutInv, [BrowserNext]_browserVars PROVE OutInv'
    OBVIOUS
  <1> USE DEF Base
  <1>1. ASSUME NEW r \in Requests, NEW kind \in Kinds \ {"none"}, Send(r, kind)
        PROVE  OutInv'
    BY <1>1, SendOut
  <1>2. ASSUME NEW r \in Requests, Serve(r) PROVE OutInv'
    BY <1>2, ServeOut
  <1>3. ASSUME NEW r \in Requests, Deliver(r) PROVE OutInv'
    BY <1>3, DeliverOut
  <1>4. ASSUME NEW r \in Requests, Lose(r) PROVE OutInv'
    BY <1>4, LoseOut
  <1>5. ~IsLive(NoToken)
    BY NoTokenIsDead
  <1>6. ASSUME DeadStays PROVE ~IsLive(NoToken)'
    BY <1>5, <1>6 DEF DeadStays
  <1>7. CASE Forget
    <2>1. UNCHANGED <<now, ledger, origin, req, wire, signedOut>>
      BY <1>7 DEF Forget, vars
    <2>2. QED
      BY <1>6, <1>7, <2>1, QuietDead, ForgetJar, ElsewhereOut DEF TabInv
  <1>8. CASE ServiceCrash
    BY <1>8, CrashOut
  <1>9. CASE /\ Tick \/ \E n \in Nonces : NonceIssue(n)
             /\ UNCHANGED <<jar, wire, excused, signedOut>>
    <2>1. DeadStays /\ req' = req
      BY <1>9, TickDead, QuietDead DEF Tick, NonceIssue
    <2>2. RefreshCookie' = RefreshCookie
      BY <1>9 DEF RefreshCookie
    <2>3. QED
      BY <1>6, <1>9, <2>1, <2>2, ElsewhereOut
  <1>10. CASE UNCHANGED browserVars
    <2>1. DeadStays /\ UNCHANGED <<req, wire, signedOut, jar>>
      BY <1>10, QuietDead DEF browserVars, vars
    <2>2. RefreshCookie' = RefreshCookie
      BY <2>1 DEF RefreshCookie
    <2>3. QED
      BY <1>6, <2>1, <2>2, ElsewhereOut
  <1>11. QED
    BY <1>1, <1>2, <1>3, <1>4, <1>7, <1>8, <1>9, <1>10 DEF BrowserNext

LEMMA InitOut == BrowserInit => OutInv
  <1> SUFFICES ASSUME BrowserInit PROVE OutInv
    OBVIOUS
  <1>1. wire = [r \in Requests |-> NoRequest] /\ ~signedOut
    BY DEF BrowserInit
  <1>2. QED
    BY <1>1 DEF OutInv, AloneOK, Idle

\* While the store answers: after a logout that overlapped nothing the browser
\* stays signed out until a login, whatever it still sends, although the
\* refresh cookie stays in the jar.
THEOREM SignedOutIsOut ==
    ASSUME ~StoreFails
    PROVE  BrowserSpec => []SignedOutStaysOut
  <1>1. BrowserSpec => [](IInv /\ TabInv)
    BY TabsTyped
  <1>2. BrowserSpec => []LogoutInv
    BY BrowserIsAClient, LogoutsInductive
  <1>3. BrowserSpec => []BrowserInv
    BY TabsInductive
  <1>4. IInv /\ TabInv /\ LogoutInv /\ BrowserInv <=> Base
    BY DEF Base
  <1>5. BrowserInit => OutInv
    BY InitOut
  <1>6. Base /\ OutInv /\ [BrowserNext]_browserVars => OutInv'
    BY NextOut
  <1>7. OutInv => SignedOutStaysOut
    BY DEF OutInv, SignedOutStaysOut
  <1>8. QED
    BY <1>1, <1>2, <1>3, <1>4, <1>5, <1>6, <1>7, PTL DEF BrowserSpec
=============================================================================
