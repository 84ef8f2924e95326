------------------------------- MODULE Browser -------------------------------
(* One browser in front of AuthService: the cookies it keeps, and the        *)
(* requests its tabs have under way.  A request carries the refresh cookie   *)
(* as it was when it was sent; responses change the jar in the order they    *)
(* arrive.  A cookie is identified by name and path: routes.go writes the    *)
(* refresh cookie with Path "/auth" and clears the one with Path "/".        *)
EXTENDS AuthService

VARIABLES jar,       \* the cookies: session, and refresh by Path
          wire,      \* wire[r]: the request the tab behind slot r awaits
          excused,   \* history: tokens a logout was sent with, and tokens whose
                     \* successor was lost on its way
          signedOut  \* history: the last word was a logout nothing overlapped

browserVars == <<vars, jar, wire, excused, signedOut>>

Jar == [session: BOOLEAN, refresh: [{"/auth"} -> held] \cup {EmptyMap}]

NoRequest == [kind |-> "none", cookie |-> NoToken, alone |-> TRUE]

Idle(r) == wire[r] = NoRequest

\* Jar and requests are well formed, there is at most one refresh cookie and it
\* came from the service, and a handler works for the request in its slot.
BrowserOK ==
    /\ jar \in Jar
    /\ wire \in [Requests -> [kind: Kinds, cookie: Opaques \cup {NoToken},
                              alone: BOOLEAN]]
    /\ \A r \in Requests : ~At(r, "idle") =>
           wire[r].kind = req[r].kind /\ wire[r].cookie = req[r].token
    /\ excused \subseteq held
    /\ signedOut \in BOOLEAN

BrowserInit ==
    /\ Init
    /\ jar = [session |-> FALSE, refresh |-> EmptyMap]
    /\ wire = [r \in Requests |-> NoRequest]
    /\ excused = {}
    /\ signedOut = FALSE

-----------------------------------------------------------------------------

\* The refresh cookie a request to /auth/refresh or /auth/logout carries.
RefreshCookie ==
    IF jar.refresh = EmptyMap THEN NoToken ELSE jar.refresh["/auth"]

\* Slip: the cookie confined to the endpoint that rotates it.
WrittenForRefresh(o) ==
    [session |-> TRUE, refresh |-> Put(jar.refresh, "/auth/refresh", o)]

\* The jar after writeSessionCookie and writeRefreshCookie, and after the two
\* calls of clearCookie.
Written(o) == [session |-> TRUE, refresh |-> Put(jar.refresh, "/auth", o)]

Cleared == [session |-> FALSE, refresh |-> Delete(jar.refresh, "/")]

\* Slip: fetch without credentials: "include".
SendBare(r, kind) ==
    /\ Idle(r)
    /\ LET alone == \A q \in Requests : Idle(q)
       IN  wire' = [q \in Requests |->
               IF q = r THEN [kind |-> kind, cookie |-> NoToken, alone |-> alone]
               ELSE IF Idle(q) THEN NoRequest
               ELSE [wire[q] EXCEPT !.alone = FALSE]]
    /\ UNCHANGED <<vars, jar, excused, signedOut>>

\* A tab sends a request with the cookie of the moment.
Send(r, kind) ==
    /\ Idle(r)
    /\ LET cookie == IF kind = "login" THEN NoToken ELSE RefreshCookie
           alone == \A q \in Requests : Idle(q)
       IN  /\ wire' = [q \in Requests |->
                  IF q = r THEN [kind |-> kind, cookie |-> cookie,
                                 alone |-> alone]
                  ELSE IF Idle(q) THEN NoRequest
                  ELSE [wire[q] EXCEPT !.alone = FALSE]]
           /\ excused' = IF kind = "logout" THEN excused \cup ({cookie} \ {NoToken})
                         ELSE excused
    /\ UNCHANGED <<vars, jar, signedOut>>

\* The handler of the request in slot r starts or goes on.
Serve(r) ==
    /\ ~Idle(r)
    /\ LoginStep(r) \/ RefreshStep(r) \/ LogoutStep(r) \/ IssueFails(r)
    /\ req'[r].kind = wire[r].kind
    /\ req'[r].token = wire[r].cookie
    /\ UNCHANGED <<jar, wire, excused, signedOut>>

Done(r) == wire' = [wire EXCEPT ![r] = NoRequest]

\* The response of the handler in slot r arrives.
Deliver(r) ==
    /\ held' = held \cup Cookie(r)
    /\ Respond(r)
    /\ \/ /\ req[r].kind = "logout"
          /\ jar' = Cleared
          /\ signedOut' = wire[r].alone
       \/ \E o \in Cookie(r) :
             /\ jar' = Written(o)
             /\ signedOut' = (signedOut /\ req[r].kind # "login")
       \/ /\ req[r].kind # "logout" /\ Cookie(r) = {}
          /\ UNCHANGED <<jar, signedOut>>
    /\ Done(r)
    /\ UNCHANGED excused

\* It does not, or the request itself never reached the server.
Lose(r) ==
    /\ \/ /\ UNCHANGED held
          /\ Respond(r)
          /\ excused' = IF Cookie(r) = {} THEN excused
                        ELSE excused \cup ({req[r].token} \ {NoToken})
       \/ /\ ~Idle(r) /\ At(r, "idle")
          /\ UNCHANGED <<vars, excused>>
    /\ Done(r)
    /\ UNCHANGED <<jar, signedOut>>

\* A cookie reaches its expiry, or the user removes it.
Forget ==
    /\ jar' \in {[jar EXCEPT !.session = FALSE],
                 [jar EXCEPT !.refresh = EmptyMap]}
    /\ UNCHANGED <<vars, wire, excused, signedOut>>

\* The service dies under its requests.
ServiceCrash ==
    /\ Crash
    /\ wire' = [r \in Requests |-> NoRequest]
    /\ excused' = excused \cup
           ({req[r].token : r \in {q \in Requests : Cookie(q) # {}}} \ {NoToken})
    /\ UNCHANGED <<jar, signedOut>>

BrowserNext ==
    \/ \E r \in Requests :
          \/ \E kind \in Kinds \ {"none"} : Send(r, kind)
          \/ Serve(r) \/ Deliver(r) \/ Lose(r)
    \/ Forget
    \/ ServiceCrash
    \/ /\ Tick \/ \E n \in Nonces : NonceIssue(n)
       /\ UNCHANGED <<jar, wire, excused, signedOut>>

BrowserSpec == BrowserInit /\ [][BrowserNext]_browserVars

-----------------------------------------------------------------------------

\* Tabs that refresh at the same time never strand their browser: whatever the
\* order in which handlers run and responses arrive, the refresh cookie of the
\* jar has been revoked only if its successor is on its way here, or got lost,
\* or somebody logged out with it.
NeverStranded ==
    LET o == RefreshCookie
    IN  (o \in DOMAIN ledger /\ ledger[o].revoked) =>
            \/ o \in excused
            \/ \E r \in Requests : req[r].token = o /\ Cookie(r) # {}

\* After a logout that overlapped nothing the browser has no way back in but a
\* login: the session cookie is gone, and the refresh cookie, which clearCookie
\* leaves in the jar, no longer validates.  Holds while the store answers.
SignedOutStaysOut ==
    signedOut => ~jar.session /\ ~IsLive(RefreshCookie)

\* ARCHITECTURE.md: "POST /auth/logout: Revoke refresh token, clear cookies."
LogoutClearsCookies ==
    signedOut => ~jar.session /\ RefreshCookie = NoToken
=============================================================================
