------------------------------- MODULE Session -------------------------------
(* Session JWTs: MintAppJWT at the end of a login or a refresh, ValidateToken *)
(* in TAuth and in other services that import pkg/sessionvalidator, each on  *)
(* a host with a clock of its own, and GET /me, which looks the subject of a *)
(* valid token up in process memory.  Every date in a token is cut to whole  *)
(* seconds.  Nothing stores a token: it outlives the process that minted it. *)
EXTENDS Clock

CONSTANTS Users, NoUser, NoToken,
          Mints,         \* handlers that mint, one token each
          Calls,         \* requests under way at once
          Services,      \* everything that validates: TAuth and others
          TAuth,
          Offset,        \* Offset[s]: ticks the clock of s is ahead of now
          SessionTTL,    \* configuration.SessionTTL, in ticks
          Slack,         \* the 30 seconds of NotBefore
          MaxRestarts    \* bound

ASSUME SessionAssumption ==
    /\ NoUser \notin Users /\ NoToken \notin Mints
    /\ TAuth \in Services
    /\ Offset \in [Services -> Int] /\ Offset[TAuth] = 0
    /\ SessionTTL \in Nat \ {0} /\ Slack \in Nat /\ MaxRestarts \in Nat

VARIABLES profiles, \* InMemoryUsers: the user ids it knows
          mint,     \* mint[m]: a handler, and the claims it has signed
          call,     \* call[q]: a request with a session cookie
          lost,     \* history: users whose profile may have been lost in a
                    \* write that overlapped another
          restarts

vars == <<now, profiles, mint, call, lost, restarts>>

Statuses == {0, 200, 401, 404}

\* The claims, and of the history: the instant and the process of the mint.
Mint == [at: {"idle", "writing", "minting", "minted"}, user: Users \cup {NoUser},
         iat: Int, nbf: Int, exp: Int, minted: Nat, restarts: Nat]

\* began and last: when the validator read the clock first and last.
Call == [at: {"idle", "parse", "recheck", "profile", "answered"},
         service: Services, token: Mints \cup {NoToken}, status: Statuses,
         began: Nat, last: Nat]

NoCall == [at |-> "idle", service |-> TAuth, token |-> NoToken, status |-> 0,
           began |-> 0, last |-> 0]

Unminted == [at |-> "idle", user |-> NoUser, iat |-> 0, nbf |-> 0, exp |-> 0,
             minted |-> 0, restarts |-> 0]

\* Every handler is well typed, and a request carries a token that was minted.
SessionOK ==
    /\ now \in Nat
    /\ profiles \subseteq Users /\ lost \subseteq Users
    /\ mint \in [Mints -> Mint]
    /\ call \in [Calls -> Call]
    /\ \A m \in Mints : mint[m].at # "idle" => mint[m].user \in Users
    /\ \A q \in Calls :
          call[q].at # "idle" => /\ call[q].token \in Mints
                                 /\ mint[call[q].token].at = "minted"
    /\ restarts \in Nat

Init ==
    /\ now = 0
    /\ profiles = {} /\ lost = {}
    /\ mint = [m \in Mints |-> Unminted]
    /\ call = [q \in Calls |-> NoCall]
    /\ restarts = 0

-----------------------------------------------------------------------------
(* Login and refresh, as far as a session token depends on them.             *)

Writing == {m \in Mints : mint[m].at = "writing"}

\* UpsertGoogleUser begins to write the unguarded map,
LoginUpsertBegin(m, u) ==
    /\ mint[m].at = "idle"
    /\ mint' = [mint EXCEPT ![m].at = "writing", ![m].user = u]
    /\ UNCHANGED <<now, profiles, call, lost, restarts>>

\* and ends.  A write that overlapped another may be lost, whichever ends first.
LoginUpsertEnd(m) ==
    /\ mint[m].at = "writing"
    /\ mint' = [mint EXCEPT ![m].at = "minting"]
    /\ \/ profiles' = profiles \cup {mint[m].user}
       \/ Writing # {m} /\ UNCHANGED profiles
    /\ lost' = IF Writing = {m} THEN lost
               ELSE lost \cup {mint[w].user : w \in Writing}
    /\ UNCHANGED <<now, call, restarts>>

\* What a lookup may find: anything while the map is written.
Lookup(u) == IF Writing # {} THEN BOOLEAN ELSE {u \in profiles}

\* Slip: the error of GetUserProfile is logged and the request goes on.
RefreshProfileLenient(m, u) ==
    /\ mint[m].at = "idle"
    /\ mint' = [mint EXCEPT ![m].at = "minting", ![m].user = u]
    /\ UNCHANGED <<now, profiles, call, lost, restarts>>

\* Slip: the subject is not passed on.
RefreshProfileNobody(m, u) ==
    /\ mint[m].at = "idle"
    /\ TRUE \in Lookup(u)
    /\ mint' = [mint EXCEPT ![m].at = "minting"]
    /\ UNCHANGED <<now, profiles, call, lost, restarts>>

\* A refresh mints for a user GetUserProfile knows.
RefreshProfile(m, u) ==
    /\ mint[m].at = "idle"
    /\ TRUE \in Lookup(u)
    /\ mint' = [mint EXCEPT ![m].at = "minting", ![m].user = u]
    /\ lost' = IF Writing # {} THEN lost \cup {u} ELSE lost
    /\ UNCHANGED <<now, profiles, call, restarts>>

\* Slip: the fraction of the expiry rounded up instead of dropped.
ClaimsRoundedUp ==
    [iat |-> Unix(now), nbf |-> Unix(now) - Slack,
     exp |-> Unix(now + SessionTTL + TicksPerSecond)]

\* Slip: the sign of the slack is lost.
ClaimsLate ==
    [iat |-> Unix(now), nbf |-> Unix(now) + Slack,
     exp |-> Unix(now + SessionTTL)]

\* The dates of the claims: NewNumericDate drops fractions of a second.
Claims ==
    [iat |-> Unix(now), nbf |-> Unix(now) - Slack,
     exp |-> Unix(now + SessionTTL)]

MintAppJWT(m) ==
    /\ mint[m].at = "minting"
    /\ mint' = [mint EXCEPT ![m] =
           [at |-> "minted", user |-> mint[m].user, iat |-> Claims.iat,
            nbf |-> Claims.nbf, exp |-> Claims.exp,
            minted |-> now, restarts |-> restarts]]
    /\ UNCHANGED <<now, profiles, call, lost, restarts>>

-----------------------------------------------------------------------------
(* A request with a session cookie, in TAuth or in another service.          *)

\* The clock the validator of a service reads.
Clk(s) == now + Offset[s]

Instant(seconds) == seconds * TicksPerSecond

\* The request is answered, or goes on, with a fresh reading of the clock.
Verdict(q, label, status) ==
    call' = [call EXCEPT ![q].at = label, ![q].status = status,
                         ![q].last = now]

Present(q, s, m) ==
    /\ call[q].at = "idle"
    /\ mint[m].at = "minted"
    /\ call' = [call EXCEPT ![q] = [NoCall EXCEPT !.at = "parse",
                                        !.service = s, !.token = m]]
    /\ UNCHANGED <<now, profiles, mint, lost, restarts>>

\* jwt.ParseWithClaims: exp and nbf, at one reading of the clock.  iat is not
\* its business unless asked for.
Parses(token, t) == t < Instant(token.exp) /\ t >= Instant(token.nbf)

\* The checks of ValidateToken itself, at a second reading.
Confirms(token, t) ==
    /\ t <= Instant(token.exp)
    /\ t >= Instant(token.nbf) /\ t >= Instant(token.iat)

ParseToken(q) ==
    LET token == mint[call[q].token]
        t == Clk(call[q].service)
    IN  /\ call[q].at = "parse"
        /\ \/ /\ Parses(token, t)
              /\ call' = [call EXCEPT ![q].at = "recheck", ![q].began = now]
           \/ /\ ~Parses(token, t)
              /\ Verdict(q, "answered", 401)
        /\ UNCHANGED <<now, profiles, mint, lost, restarts>>

\* Behind the middleware TAuth goes on to HandleWhoAmI, with the claims,
RequireSession(q) ==
    call[q].service = TAuth /\ Verdict(q, "profile", 0)

\* and another service to a handler of its own.
GinMiddleware(q) ==
    call[q].service # TAuth /\ Verdict(q, "answered", 200)

ValidateToken(q) ==
    LET token == mint[call[q].token]
        t == Clk(call[q].service)
    IN  /\ call[q].at = "recheck"
        /\ \/ /\ Confirms(token, t)
              /\ RequireSession(q) \/ GinMiddleware(q)
           \/ /\ ~Confirms(token, t)
              /\ Verdict(q, "answered", 401)
        /\ UNCHANGED <<now, profiles, mint, lost, restarts>>

HandleWhoAmI(q) ==
    LET u == mint[call[q].token].user
    IN  /\ call[q].at = "profile"
        /\ \E found \in Lookup(u) :
              call' = [call EXCEPT ![q].at = "answered",
                                   ![q].status = IF found THEN 200 ELSE 404]
        /\ lost' = IF Writing # {} THEN lost \cup {u} ELSE lost
        /\ UNCHANGED <<now, profiles, mint, restarts>>

Respond(q) ==
    /\ call[q].at = "answered"
    /\ call' = [call EXCEPT ![q] = NoCall]
    /\ UNCHANGED <<now, profiles, mint, lost, restarts>>

-----------------------------------------------------------------------------

\* TAuth is restarted: profiles and handlers are gone, signed tokens are not.
Restart ==
    /\ restarts < MaxRestarts
    /\ restarts' = restarts + 1
    /\ profiles' = {}
    /\ mint' = [m \in Mints |-> IF mint[m].at = "minted" THEN mint[m] ELSE Unminted]
    /\ call' = [q \in Calls |-> IF call[q].service = TAuth
                                THEN NoCall ELSE call[q]]
    /\ lost' = {}
    /\ UNCHANGED now

Tick ==
    /\ Advance
    /\ UNCHANGED <<profiles, mint, call, lost, restarts>>

Next ==
    \/ \E m \in Mints :
          \/ \E u \in Users : LoginUpsertBegin(m, u) \/ RefreshProfile(m, u)
          \/ LoginUpsertEnd(m) \/ MintAppJWT(m)
    \/ \E q \in Calls :
          \/ \E s \in Services, m \in Mints : Present(q, s, m)
          \/ ParseToken(q) \/ ValidateToken(q) \/ HandleWhoAmI(q) \/ Respond(q)
    \/ Restart
    \/ Tick

Spec == Init /\ [][Next]_vars

-----------------------------------------------------------------------------

\* The validator let the request pass.
Passed(q) ==
    \/ call[q].at = "profile"
    \/ call[q].at = "answered" /\ call[q].status \in {200, 404}

\* No service takes a token outside its life, read on its own clock: begun
\* SessionTTL or more after the mint, or decided a second or more before it,
\* although every date lost its fraction, the validator reads the clock twice
\* and time passes between (MintAppJWT, and both checks of ValidateToken).
NoSessionOutlivesTTL ==
    \A q \in Calls :
        Passed(q) =>
            LET token == mint[call[q].token]
                ahead == Offset[call[q].service]
            IN  /\ call[q].began + ahead < token.minted + SessionTTL
                /\ call[q].last + ahead > token.minted - TicksPerSecond

\* A token is refused only by a clock that has not reached the mint yet, or
\* within the last second of SessionTTL, or later: the slack of NotBefore and the
\* cut to seconds cost no session more than that.  A TTL of less than a second,
\* which LoadServerConfig allows, may be used up by the cut alone.
NoEarlyRefusal ==
    \A q \in Calls :
        (call[q].at = "answered" /\ call[q].status = 401) =>
            LET token == mint[call[q].token]
                t == call[q].last + Offset[call[q].service]
            IN  t < token.minted \/ t > token.minted + SessionTTL - TicksPerSecond

\* GET /me says 404 to a valid session only when TAuth has been restarted
\* since the mint, or when the unguarded user map was written while another
\* handler used it: both handlers that mint look after the profile first.
NotFoundHasCause ==
    \A q \in Calls :
        (call[q].at = "answered" /\ call[q].status = 404) =>
            LET token == mint[call[q].token]
            IN  token.restarts # restarts \/ token.user \in lost
=============================================================================
