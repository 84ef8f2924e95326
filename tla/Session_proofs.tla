--------------------------- MODULE Session_proofs ---------------------------
(* TLAPS proofs about Session, for any number of users, tokens, requests and *)
(* services, any clock offsets, any lifetime and slack: its type, that a     *)
(* session is accepted only within its life and refused only outside it, and *)
(* why GET /me may not know the subject of a valid session.                  *)
EXTENDS Session, TLAPS

\* A date of a token lies less than a second before the instant it was cut from.
Dated(token) ==
    /\ Instant(token.exp) <= token.minted + SessionTTL
    /\ Instant(token.exp) > token.minted + SessionTTL - TicksPerSecond
    /\ Instant(token.iat) <= token.minted
    /\ Instant(token.iat) > token.minted - TicksPerSecond
    /\ Instant(token.nbf) <= token.minted

AllDated == \A m \in Mints : mint[m].at = "minted" => Dated(mint[m])

\* What the first reading of the clock established is kept until the second.
ParsedInTime ==
    \A q \in Calls :
        call[q].at = "recheck" =>
            call[q].began + Offset[call[q].service]
                < mint[call[q].token].minted + SessionTTL

\* A handler mints for a user this process knows, or may have lost.
MintsForKnown ==
    \A m \in Mints :
        /\ mint[m].at = "minting" => mint[m].user \in profiles \cup lost
        /\ mint[m].at = "minted" =>
              /\ mint[m].restarts <= restarts
              /\ mint[m].restarts = restarts => mint[m].user \in profiles \cup lost

\* Only TAuth serves GET /me.
OnlyTAuthLooksUp ==
    \A q \in Calls :
        (call[q].at = "profile" \/ call[q].status = 404) => call[q].service = TAuth

DatesInv == AllDated /\ ParsedInTime /\ NoSessionOutlivesTTL /\ NoEarlyRefusal

CauseInv == MintsForKnown /\ OnlyTAuthLooksUp /\ NotFoundHasCause

-----------------------------------------------------------------------------

\* What the cut to whole seconds takes away: less than a second.
LEMMA CutLemma ==
    ASSUME NEW t \in Int
    PROVE  /\ Unix(t) \in Int
           /\ Instant(Unix(t)) <= t
           /\ Instant(Unix(t)) > t - TicksPerSecond
  <1>1. /\ t \div TicksPerSecond \in Int
        /\ (t \div TicksPerSecond) * TicksPerSecond <= t
        /\ (t \div TicksPerSecond) * TicksPerSecond > t - TicksPerSecond
    BY ClockAssumption, SMTT(30)
  <1>2. QED
    BY <1>1 DEF Unix, Instant

LEMMA SlackLemma ==
    ASSUME NEW s \in Int
    PROVE  Instant(s - Slack) <= Instant(s)
  <1>1. Slack \in Nat /\ TicksPerSecond \in Nat
    BY ClockAssumption, SessionAssumption
  <1>2. (s - Slack) * TicksPerSecond <= s * TicksPerSecond
    BY <1>1, SMTT(30)
  <1>3. QED
    BY <1>2 DEF Instant

LEMMA InstantType == ASSUME NEW s \in Int PROVE Instant(s) \in Int
  BY ClockAssumption DEF Instant

-----------------------------------------------------------------------------
(* How the records of handlers and requests change.                          *)

LEMMA NoCallType == NoCall \in Call /\ NoCall.status = 0
  BY SessionAssumption DEF Call, NoCall, Statuses

LEMMA MintMoved ==
    ASSUME NEW m \in Mints, mint \in [Mints -> Mint], NEW u \in Users,
           NEW label \in {"writing", "minting"}
    PROVE  [mint EXCEPT ![m].at = label, ![m].user = u] \in [Mints -> Mint]
  BY DEF Mint

\* The answer of GET /me, found or not.
LEMMA LookedUp ==
    ASSUME NEW q \in Calls, call \in [Calls -> Call], HandleWhoAmI(q)
    PROVE  /\ call' \in [Calls -> Call]
           /\ \E status \in {200, 404} :
                 call' = [call EXCEPT ![q].at = "answered", ![q].status = status]
  <1>1. PICK found \in Lookup(mint[call[q].token].user) :
            call' = [call EXCEPT ![q].at = "answered",
                                 ![q].status = IF found THEN 200 ELSE 404]
    BY DEF HandleWhoAmI
  <1>2. PICK status : /\ status \in Statuses /\ status \in {200, 404}
                      /\ call' = [call EXCEPT ![q].at = "answered",
                                              ![q].status = status]
    <2>1. CASE found
      BY <1>1, <2>1 DEF Statuses
    <2>2. CASE ~found
      BY <1>1, <2>2 DEF Statuses
    <2>3. QED
      BY <2>1, <2>2
  <1>3. PICK s \in Statuses : call' = [call EXCEPT ![q].at = "answered",
                                                  ![q].status = s]
    BY <1>2
  <1>4. call' \in [Calls -> Call]
    BY ONLY <1>3, q \in Calls, call \in [Calls -> Call] DEF Call
  <1>5. QED
    BY <1>2, <1>4

\* A request is answered or goes on: what Verdict changes.
LEMMA VerdictEffect ==
    ASSUME NEW q \in Calls, call \in [Calls -> Call], NEW label, NEW status,
           Verdict(q, label, status)
    PROVE  /\ \A p \in Calls \ {q} : call'[p] = call[p]
           /\ call'[q].at = label /\ call'[q].status = status
           /\ call'[q].last = now /\ call'[q].began = call[q].began
           /\ call'[q].token = call[q].token
           /\ call'[q].service = call[q].service
  <1>1. PICK c \in Call : c = call[q]
    OBVIOUS
  <1>2. call' = [call EXCEPT ![q].at = label, ![q].status = status, ![q].last = now]
    BY DEF Verdict
  <1>3. /\ \A p \in Calls \ {q} : call'[p] = call[p]
        /\ call'[q] = [c EXCEPT !.at = label, !.status = status, !.last = now]
    BY <1>1, <1>2
  <1> DEFINE new == [c EXCEPT !.at = label, !.status = status, !.last = now]
  <1>4. /\ new.at = label /\ new.status = status /\ new.last = now
        /\ new.began = c.began /\ new.token = c.token /\ new.service = c.service
    BY <1>1 DEF Call
  <1> HIDE DEF new
  <1>5. call'[q] = new
    BY <1>3 DEF new
  <1>6. QED
    BY <1>1, <1>3, <1>4, <1>5

LEMMA ParseEffect ==
    ASSUME NEW q \in Calls, call \in [Calls -> Call], ParseToken(q)
    PROVE  LET token == mint[call[q].token]
               t == Clk(call[q].service)
           IN  /\ call[q].at = "parse"
               /\ UNCHANGED <<now, profiles, mint, lost, restarts>>
               /\ \A p \in Calls \ {q} : call'[p] = call[p]
               /\ call'[q].token = call[q].token
               /\ call'[q].service = call[q].service
               /\ \/ /\ Parses(token, t)
                     /\ call'[q].at = "recheck" /\ call'[q].began = now
                     /\ call'[q].status = call[q].status
                  \/ /\ ~Parses(token, t)
                     /\ call'[q].at = "answered" /\ call'[q].status = 401
                     /\ call'[q].last = now
  <1>1. /\ call[q].at = "parse"
        /\ UNCHANGED <<now, profiles, mint, lost, restarts>>
    BY DEF ParseToken
  <1>2. CASE Parses(mint[call[q].token], Clk(call[q].service))
    <2>1. call' = [call EXCEPT ![q].at = "recheck", ![q].began = now]
      BY <1>2 DEF ParseToken
    <2>2. QED
      BY <1>1, <1>2, <2>1
  <1>3. CASE ~Parses(mint[call[q].token], Clk(call[q].service))
    <2>1. Verdict(q, "answered", 401)
      BY <1>3 DEF ParseToken
    <2>2. QED
      BY <1>1, <1>3, <2>1, VerdictEffect
  <1>4. QED
    BY <1>2, <1>3

LEMMA ValidateEffect ==
    ASSUME NEW q \in Calls, call \in [Calls -> Call], ValidateToken(q)
    PROVE  LET token == mint[call[q].token]
               t == Clk(call[q].service)
           IN  /\ call[q].at = "recheck"
               /\ UNCHANGED <<now, profiles, mint, lost, restarts>>
               /\ \A p \in Calls \ {q} : call'[p] = call[p]
               /\ call'[q].token = call[q].token
               /\ call'[q].service = call[q].service
               /\ call'[q].began = call[q].began /\ call'[q].last = now
               /\ \/ /\ Confirms(token, t)
                     /\ call'[q].at = "profile" /\ call'[q].status = 0
                     /\ call[q].service = TAuth
                  \/ /\ Confirms(token, t)
                     /\ call'[q].at = "answered" /\ call'[q].status = 200
                  \/ /\ ~Confirms(token, t)
                     /\ call'[q].at = "answered" /\ call'[q].status = 401
  <1> DEFINE ok == Confirms(mint[call[q].token], Clk(call[q].service))
  <1>1. /\ call[q].at = "recheck"
        /\ UNCHANGED <<now, profiles, mint, lost, restarts>>
    BY DEF ValidateToken
  <1>2. \/ ok /\ call[q].service = TAuth /\ Verdict(q, "profile", 0)
        \/ ok /\ Verdict(q, "answered", 200)
        \/ ~ok /\ Verdict(q, "answered", 401)
    BY DEF ValidateToken, RequireSession, GinMiddleware
  <1>3. QED
    BY <1>1, <1>2, VerdictEffect

-----------------------------------------------------------------------------
(* The type.                                                                 *)

LEMMA TypeInit == Init => SessionOK
  BY SessionAssumption
     DEF Init, SessionOK, Unminted, Mint, NoCall, Call, Statuses

LEMMA TypeStep == SessionOK /\ [Next]_vars => SessionOK'
  <1> SUFFICES ASSUME SessionOK, [Next]_vars PROVE SessionOK'
    OBVIOUS
  <1> USE SessionAssumption, ClockAssumption DEF SessionOK
  <1>1. ASSUME NEW m \in Mints, NEW u \in Users,
               LoginUpsertBegin(m, u) \/ RefreshProfile(m, u)
        PROVE  SessionOK'
    <2>1. /\ mint[m].at = "idle"
          /\ \E label \in {"writing", "minting"} :
                mint' = [mint EXCEPT ![m].at = label, ![m].user = u]
          /\ UNCHANGED <<now, profiles, call, restarts>>
          /\ lost' \subseteq Users
      BY <1>1 DEF LoginUpsertBegin, RefreshProfile
    <2>2. mint' \in [Mints -> Mint]
      <3>1. PICK label \in {"writing", "minting"} :
                mint' = [mint EXCEPT ![m].at = label, ![m].user = u]
        BY <2>1
      <3>2. QED
        BY <3>1, MintMoved
    <2>3. \A n \in Mints : /\ mint'[n].at # "idle" => mint'[n].user \in Users
                           /\ mint[n].at = "minted" => mint'[n].at = "minted"
      BY <2>1
    <2>4. QED
      BY <2>1, <2>2, <2>3
  <1>2. ASSUME NEW m \in Mints, LoginUpsertEnd(m)
        PROVE  SessionOK'
    BY <1>2 DEF LoginUpsertEnd, Mint, Writing
  <1>3. ASSUME NEW m \in Mints, MintAppJWT(m)
        PROVE  SessionOK'
    <2>1. /\ Claims.iat \in Int /\ Claims.nbf \in Int /\ Claims.exp \in Int
      BY CutLemma DEF Claims
    <2>2. QED
      BY <1>3, <2>1 DEF MintAppJWT, Mint
  <1>4. ASSUME NEW q \in Calls, NEW s \in Services, NEW m \in Mints,
               Present(q, s, m)
        PROVE  SessionOK'
    <2>0. PICK c \in Call : c = NoCall
      BY NoCallType
    <2> DEFINE new == [c EXCEPT !.at = "parse", !.service = s, !.token = m]
    <2>1. /\ call' = [call EXCEPT ![q] = new]
          /\ mint[m].at = "minted"
          /\ UNCHANGED <<now, profiles, mint, lost, restarts>>
      BY <1>4, <2>0 DEF Present
    <2>2. new \in Call /\ new.token = m
      BY DEF Call
    <2> HIDE DEF new
    <2>3. call' \in [Calls -> Call]
      BY <2>1, <2>2
    <2>4. \A p \in Calls : call'[p].at # "idle" =>
             call'[p].token \in Mints /\ mint[call'[p].token].at = "minted"
      BY <2>1, <2>2
    <2>5. QED
      BY <2>1, <2>3, <2>4
  <1>5. ASSUME NEW q \in Calls, ParseToken(q) \/ ValidateToken(q)
        PROVE  SessionOK'
    BY <1>5 DEF ParseToken, ValidateToken, Verdict, RequireSession,
                GinMiddleware, Call, Statuses
  <1>6. ASSUME NEW q \in Calls, HandleWhoAmI(q)
        PROVE  SessionOK'
    <2>1. PICK status \in {200, 404} :
             call' = [call EXCEPT ![q].at = "answered", ![q].status = status]
      BY <1>6, LookedUp
    <2>2. /\ call[q].at = "profile"
          /\ lost' \subseteq Users
          /\ UNCHANGED <<now, profiles, mint, restarts>>
      BY <1>6 DEF HandleWhoAmI
    <2>3. call' \in [Calls -> Call]
      BY <1>6, LookedUp
    <2>4. \A p \in Calls : call'[p].at # "idle" =>
             call[p].at # "idle" /\ call'[p].token = call[p].token
      BY <2>1, <2>2
    <2>5. QED
      BY <2>2, <2>3, <2>4
  <1>7. ASSUME NEW q \in Calls, Respond(q)
        PROVE  SessionOK'
    BY <1>7 DEF Respond, NoCall, Call, Statuses
  <1>8. ASSUME Restart PROVE SessionOK'
    BY <1>8 DEF Restart, NoCall, Call, Statuses, Unminted, Mint
  <1>9. CASE Tick
    BY <1>9 DEF Tick, Advance
  <1>10. CASE UNCHANGED vars
    BY <1>10 DEF vars
  <1>11. QED
    BY <1>1, <1>2, <1>3, <1>4, <1>5, <1>6, <1>7, <1>8, <1>9, <1>10 DEF Next

LEMMA Typing == Spec => []SessionOK
  BY TypeInit, TypeStep, PTL DEF Spec

-----------------------------------------------------------------------------
(* Dates.                                                                    *)

\* Steps that leave the minted tokens and the answers alone.
LEMMA QuietForDates ==
    ASSUME SessionOK, DatesInv,
           \A m \in Mints : mint'[m].at = "minted" =>
               mint[m].at = "minted" /\ mint'[m] = mint[m],
           \A m \in Mints : mint[m].at = "minted" => mint'[m] = mint[m],
           \A q \in Calls : \/ call'[q] = call[q]
                            \/ call'[q].at \in {"idle", "parse"}
    PROVE  DatesInv'
  <1> USE DEF SessionOK
  <1>1. AllDated'
    <2> SUFFICES ASSUME NEW m \in Mints, mint'[m].at = "minted"
                 PROVE  Dated(mint[m])'
      BY DEF AllDated
    <2>1. Dated(mint[m]) /\ mint'[m] = mint[m]
      BY DEF DatesInv, AllDated
    <2>2. QED
      BY <2>1 DEF Dated, Instant
  <1>2. ASSUME NEW q \in Calls, call'[q].at \notin {"idle", "parse"}
        PROVE  /\ call'[q] = call[q] /\ call[q].token \in Mints
               /\ mint'[call[q].token] = mint[call[q].token]
    BY <1>2
  <1>3. ParsedInTime'
    BY <1>2 DEF DatesInv, ParsedInTime
  <1>4. NoSessionOutlivesTTL'
    <2> SUFFICES ASSUME NEW q \in Calls, Passed(q)'
                 PROVE  /\ call'[q].began + Offset[call'[q].service]
                               < mint'[call'[q].token].minted + SessionTTL
                        /\ call'[q].last + Offset[call'[q].service]
                               > mint'[call'[q].token].minted - TicksPerSecond
      BY DEF NoSessionOutlivesTTL
    <2>1. call'[q].at \notin {"idle", "parse"}
      BY DEF Passed
    <2>2. Passed(q)
      BY <1>2, <2>1 DEF Passed
    <2>3. QED
      BY <1>2, <2>1, <2>2 DEF DatesInv, NoSessionOutlivesTTL
  <1>5. NoEarlyRefusal'
    BY <1>2 DEF DatesInv, NoEarlyRefusal
  <1>6. QED
    BY <1>1, <1>3, <1>4, <1>5 DEF DatesInv

\* The answer of one request moves, tokens stay.
LEMMA CallForDates ==
    ASSUME SessionOK, DatesInv, NEW q \in Calls, UNCHANGED mint,
           \A p \in Calls \ {q} : call'[p] = call[p],
           call'[q].at = "recheck" =>
               call'[q].began + Offset[call'[q].service]
                   < mint[call'[q].token].minted + SessionTTL,
           Passed(q)' =>
               /\ call'[q].began + Offset[call'[q].service]
                      < mint[call'[q].token].minted + SessionTTL
               /\ call'[q].last + Offset[call'[q].service]
                      > mint[call'[q].token].minted - TicksPerSecond,
           (call'[q].at = "answered" /\ call'[q].status = 401) =>
               \/ call'[q].last + Offset[call'[q].service]
                      < mint[call'[q].token].minted
               \/ call'[q].last + Offset[call'[q].service]
                      > mint[call'[q].token].minted + SessionTTL - TicksPerSecond
    PROVE  DatesInv'
  <1>1. AllDated'
    BY DEF DatesInv, AllDated, Dated, Instant
  <1>2. ParsedInTime'
    BY DEF DatesInv, ParsedInTime
  <1>3. NoSessionOutlivesTTL'
    <2> SUFFICES ASSUME NEW p \in Calls, Passed(p)'
                 PROVE  /\ call'[p].began + Offset[call'[p].service]
                               < mint[call'[p].token].minted + SessionTTL
                        /\ call'[p].last + Offset[call'[p].service]
                               > mint[call'[p].token].minted - TicksPerSecond
      BY DEF NoSessionOutlivesTTL
    <2>1. CASE p = q
      BY <2>1
    <2>2. CASE p # q
      <3>1. Passed(p)
        BY <2>2 DEF Passed
      <3>2. QED
        BY <2>2, <3>1 DEF DatesInv, NoSessionOutlivesTTL
    <2>3. QED
      BY <2>1, <2>2
  <1>4. NoEarlyRefusal'
    BY DEF DatesInv, NoEarlyRefusal
  <1>5. QED
    BY <1>1, <1>2, <1>3, <1>4 DEF DatesInv

\* A token just signed.
LEMMA MintIsDated ==
    ASSUME now \in Nat,
           NEW token, token.minted = now, token.exp = Claims.exp,
           token.iat = Claims.iat, token.nbf = Claims.nbf
    PROVE  Dated(token)
  <1> USE SessionAssumption, ClockAssumption
  <1>1. /\ Unix(now) \in Int /\ Instant(Unix(now)) <= now
        /\ Instant(Unix(now)) > now - TicksPerSecond
    BY CutLemma
  <1>2. /\ Instant(Unix(now + SessionTTL)) <= now + SessionTTL
        /\ Instant(Unix(now + SessionTTL)) > now + SessionTTL - TicksPerSecond
    BY CutLemma
  <1>3. /\ Instant(Unix(now) - Slack) <= Instant(Unix(now))
        /\ Instant(Unix(now) - Slack) \in Int
        /\ Instant(Unix(now)) \in Int
    BY <1>1, SlackLemma, InstantType
  <1>4. Instant(Unix(now) - Slack) <= now
    BY <1>1, <1>3
  <1>5. QED
    BY <1>1, <1>2, <1>4 DEF Dated, Claims

LEMMA MintForDates ==
    ASSUME SessionOK, DatesInv, NEW m \in Mints, MintAppJWT(m)
    PROVE  DatesInv'
  <1> USE DEF SessionOK
  <1> DEFINE new == [at |-> "minted", user |-> mint[m].user, iat |-> Claims.iat,
                     nbf |-> Claims.nbf, exp |-> Claims.exp,
                     minted |-> now, restarts |-> restarts]
  <1>1. /\ mint[m].at = "minting"
        /\ mint' = [mint EXCEPT ![m] = new]
        /\ call' = call
    BY DEF MintAppJWT
  <1>2. Dated(new)
    BY MintIsDated
  <1>3. AllDated'
    <2> SUFFICES ASSUME NEW n \in Mints, mint'[n].at = "minted"
                 PROVE  Dated(mint[n])'
      BY DEF AllDated
    <2>1. Dated(mint'[n])
      BY <1>1, <1>2 DEF DatesInv, AllDated
    <2>2. QED
      BY <2>1 DEF Dated, Instant
  <1>4. ASSUME NEW q \in Calls, call[q].at # "idle"
        PROVE  mint'[call[q].token] = mint[call[q].token]
    BY <1>1, <1>4
  <1>5. ParsedInTime'
    BY <1>1, <1>4 DEF DatesInv, ParsedInTime
  <1>6. NoSessionOutlivesTTL'
    BY <1>1, <1>4 DEF DatesInv, NoSessionOutlivesTTL, Passed
  <1>7. NoEarlyRefusal'
    BY <1>1, <1>4 DEF DatesInv, NoEarlyRefusal
  <1>8. QED
    BY <1>3, <1>5, <1>6, <1>7 DEF DatesInv


\* The first reading of the clock.
LEMMA ParseForDates ==
    ASSUME SessionOK, DatesInv, NEW q \in Calls, ParseToken(q)
    PROVE  DatesInv'
  <1> USE SessionAssumption, ClockAssumption DEF SessionOK
  <1> DEFINE token == mint[call[q].token]
             t == Clk(call[q].service)
  <1>1. /\ call[q].at = "parse" /\ UNCHANGED mint
        /\ \A p \in Calls \ {q} : call'[p] = call[p]
        /\ call'[q].token = call[q].token /\ call'[q].service = call[q].service
    BY ParseEffect
  <1>2. /\ Dated(token) /\ token \in Mint
        /\ Instant(token.exp) \in Int /\ Instant(token.nbf) \in Int
        /\ t \in Int /\ t = now + Offset[call[q].service]
    <2>1. call[q].token \in Mints /\ token.at = "minted" /\ call[q].service \in Services
      BY <1>1 DEF Call
    <2>2. Dated(token) /\ token \in Mint
      BY <2>1 DEF DatesInv, AllDated
    <2>3. token.exp \in Int /\ token.nbf \in Int
      BY <2>2 DEF Mint
    <2>4. QED
      BY <2>1, <2>2, <2>3, InstantType DEF Clk
  <1>3. token.minted \in Nat
    BY <1>2 DEF Mint
  <1>4. CASE Parses(token, t)
    <2>1. call'[q].at = "recheck" /\ call'[q].began = now
      BY <1>4, ParseEffect
    <2>2. now + Offset[call[q].service] < token.minted + SessionTTL
      BY <1>2, <1>3, <1>4 DEF Parses, Dated
    <2>3. ~Passed(q)'
      BY <2>1 DEF Passed
    <2> HIDE DEF token, t
    <2>4. QED
      BY <1>1, <2>1, <2>2, <2>3, CallForDates DEF token
  <1>5. CASE ~Parses(token, t)
    <2>1. call'[q].at = "answered" /\ call'[q].status = 401 /\ call'[q].last = now
      BY <1>5, ParseEffect
    <2>2. \/ now + Offset[call[q].service] < token.minted
          \/ now + Offset[call[q].service] > token.minted + SessionTTL - TicksPerSecond
      BY <1>2, <1>3, <1>5 DEF Parses, Dated
    <2>3. ~Passed(q)'
      BY <2>1 DEF Passed
    <2> HIDE DEF token, t
    <2>4. QED
      BY <1>1, <2>1, <2>2, <2>3, CallForDates DEF token
  <1>6. QED
    BY <1>4, <1>5

\* The second reading of the clock.
LEMMA ConfirmForDates ==
    ASSUME SessionOK, DatesInv, NEW q \in Calls, ValidateToken(q)
    PROVE  DatesInv'
  <1> USE SessionAssumption, ClockAssumption DEF SessionOK
  <1> DEFINE token == mint[call[q].token]
             t == Clk(call[q].service)
  <1>1. /\ call[q].at = "recheck" /\ UNCHANGED mint
        /\ \A p \in Calls \ {q} : call'[p] = call[p]
        /\ call'[q].token = call[q].token /\ call'[q].service = call[q].service
        /\ call'[q].began = call[q].began /\ call'[q].last = now
        /\ call'[q].at \in {"profile", "answered"}
    BY ValidateEffect
  <1>2. /\ Dated(token) /\ token \in Mint
        /\ Instant(token.exp) \in Int /\ Instant(token.nbf) \in Int
        /\ Instant(token.iat) \in Int
        /\ t \in Int /\ t = now + Offset[call[q].service]
    <2>1. call[q].token \in Mints /\ token.at = "minted" /\ call[q].service \in Services
      BY <1>1 DEF Call
    <2>2. Dated(token) /\ token \in Mint
      BY <2>1 DEF DatesInv, AllDated
    <2>3. token.exp \in Int /\ token.nbf \in Int /\ token.iat \in Int
      BY <2>2 DEF Mint
    <2>4. QED
      BY <2>1, <2>2, <2>3, InstantType DEF Clk
  <1>3. token.minted \in Nat
    BY <1>2 DEF Mint
  <1>4. call[q].began + Offset[call[q].service] < token.minted + SessionTTL
    BY <1>1 DEF DatesInv, ParsedInTime
  <1>5. CASE Confirms(token, t)
    <2>1. ~(call'[q].at = "answered" /\ call'[q].status = 401)
      BY <1>5, ValidateEffect
    <2>2. now + Offset[call[q].service] > token.minted - TicksPerSecond
      BY <1>2, <1>3, <1>5 DEF Confirms, Dated
    <2> HIDE DEF token, t
    <2>3. QED
      BY <1>1, <1>4, <2>1, <2>2, CallForDates DEF token
  <1>6. CASE ~Confirms(token, t)
    <2>1. call'[q].at = "answered" /\ call'[q].status = 401
      BY <1>6, ValidateEffect
    <2>2. \/ now + Offset[call[q].service] < token.minted
          \/ now + Offset[call[q].service] > token.minted + SessionTTL - TicksPerSecond
      BY <1>2, <1>3, <1>6 DEF Confirms, Dated
    <2>3. ~Passed(q)'
      BY <2>1 DEF Passed
    <2> HIDE DEF token, t
    <2>4. QED
      BY <1>1, <2>1, <2>2, <2>3, CallForDates DEF token
  <1>7. QED
    BY <1>5, <1>6

LEMMA DatesInit == Init => DatesInv
  BY DEF Init, DatesInv, AllDated, ParsedInTime, NoSessionOutlivesTTL,
         NoEarlyRefusal, Passed, Unminted, NoCall

LEMMA DatesStep == SessionOK /\ DatesInv /\ [Next]_vars => DatesInv'
  <1> SUFFICES ASSUME SessionOK, DatesInv, [Next]_vars PROVE DatesInv'
    OBVIOUS
  <1>1. ASSUME NEW m \in Mints, NEW u \in Users,
               LoginUpsertBegin(m, u) \/ RefreshProfile(m, u)
        PROVE  DatesInv'
    <2>1. /\ mint[m].at = "idle" /\ UNCHANGED call
          /\ \A n \in Mints \ {m} : mint'[n] = mint[n]
          /\ mint'[m].at \in {"writing", "minting"}
      <3>1. CASE LoginUpsertBegin(m, u)
        BY <3>1 DEF LoginUpsertBegin, SessionOK
      <3>2. CASE RefreshProfile(m, u)
        BY <3>2 DEF RefreshProfile, SessionOK
      <3>3. QED
        BY <1>1, <3>1, <3>2
    <2>2. QED
      BY <2>1, QuietForDates
  <1>2. ASSUME NEW m \in Mints, LoginUpsertEnd(m)
        PROVE  DatesInv'
    BY <1>2, QuietForDates DEF LoginUpsertEnd, SessionOK
  <1>3. ASSUME NEW m \in Mints, MintAppJWT(m)
        PROVE  DatesInv'
    BY <1>3, MintForDates
  <1>4. ASSUME NEW q \in Calls, NEW s \in Services, NEW m \in Mints,
               Present(q, s, m)
        PROVE  DatesInv'
    <2>1. /\ UNCHANGED mint
          /\ \A p \in Calls : \/ call'[p] = call[p] \/ call'[p].at = "parse"
      BY <1>4, NoCallType DEF Present, SessionOK, Call
    <2>2. QED
      BY <2>1, QuietForDates
  <1>5. ASSUME NEW q \in Calls, ParseToken(q) \/ ValidateToken(q)
        PROVE  DatesInv'
    BY <1>5, ParseForDates, ConfirmForDates
  <1>6. ASSUME NEW q \in Calls, HandleWhoAmI(q)
        PROVE  DatesInv'
    <2>1. PICK status \in {200, 404} :
             call' = [call EXCEPT ![q].at = "answered", ![q].status = status]
      BY <1>6, LookedUp DEF SessionOK
    <2>2. /\ call[q].at = "profile" /\ UNCHANGED mint
          /\ \A p \in Calls \ {q} : call'[p] = call[p]
          /\ call'[q].at = "answered" /\ call'[q].status # 401
          /\ call'[q].began = call[q].began /\ call'[q].last = call[q].last
          /\ call'[q].service = call[q].service
          /\ call'[q].token = call[q].token
      BY <1>6, <2>1 DEF HandleWhoAmI, SessionOK
    <2>3. /\ call[q].began + Offset[call[q].service]
                 < mint[call[q].token].minted + SessionTTL
          /\ call[q].last + Offset[call[q].service]
                 > mint[call[q].token].minted - TicksPerSecond
      BY <2>2 DEF DatesInv, NoSessionOutlivesTTL, Passed
    <2>4. QED
      BY <2>2, <2>3, CallForDates
  <1>7. ASSUME NEW q \in Calls, Respond(q)
        PROVE  DatesInv'
    <2>1. /\ UNCHANGED mint
          /\ \A p \in Calls : call'[p] = call[p] \/ call'[p].at = "idle"
      BY <1>7 DEF Respond, SessionOK, NoCall
    <2>2. QED
      BY <2>1, QuietForDates
  <1>8. ASSUME Restart PROVE DatesInv'
    <2>1. /\ \A m \in Mints : mint'[m].at = "minted" =>
                mint[m].at = "minted" /\ mint'[m] = mint[m]
          /\ \A m \in Mints : mint[m].at = "minted" => mint'[m] = mint[m]
          /\ \A q \in Calls : call'[q] = call[q] \/ call'[q].at = "idle"
      BY <1>8 DEF Restart, SessionOK, Unminted, NoCall
    <2>2. QED
      BY <2>1, QuietForDates
  <1>9. CASE Tick \/ UNCHANGED vars
    BY <1>9, QuietForDates DEF Tick, vars
  <1>10. QED
    BY <1>1, <1>2, <1>3, <1>4, <1>5, <1>6, <1>7, <1>8, <1>9 DEF Next

-----------------------------------------------------------------------------
(* Profiles.                                                                 *)

LEMMA CauseInit == Init => CauseInv
  BY DEF Init, CauseInv, MintsForKnown, OnlyTAuthLooksUp, NotFoundHasCause,
         Unminted, NoCall

\* Steps of requests that answer no 404, with mints and profiles left alone.
LEMMA CallForCause ==
    ASSUME SessionOK, CauseInv, UNCHANGED <<mint, profiles, lost, restarts>>,
           \A q \in Calls :
               \/ call'[q] = call[q]
               \/ /\ call'[q].status # 404
                  /\ call'[q].at = "profile" => call'[q].service = TAuth
    PROVE  CauseInv'
  BY DEF CauseInv, MintsForKnown, OnlyTAuthLooksUp, NotFoundHasCause

\* Steps of handlers that mint for a user that is known or may be lost.
LEMMA MintForCause ==
    ASSUME SessionOK, CauseInv, NEW m \in Mints, UNCHANGED <<call, restarts>>,
           \A n \in Mints \ {m} : mint'[n] = mint[n],
           mint[m].at # "minted",
           profiles \cup lost \subseteq profiles' \cup lost',
           lost \subseteq lost',
           mint'[m].at = "minting" => mint'[m].user \in profiles' \cup lost',
           mint'[m].at = "minted" => /\ mint'[m].restarts = restarts
                                     /\ mint'[m].user \in profiles' \cup lost'
    PROVE  CauseInv'
  <1>1. MintsForKnown'
    <2> SUFFICES ASSUME NEW n \in Mints
                 PROVE  /\ mint'[n].at = "minting" =>
                              mint'[n].user \in profiles' \cup lost'
                        /\ mint'[n].at = "minted" =>
                              /\ mint'[n].restarts <= restarts
                              /\ mint'[n].restarts = restarts =>
                                    mint'[n].user \in profiles' \cup lost'
      BY DEF MintsForKnown
    <2>1. CASE n = m
      BY <2>1 DEF SessionOK
    <2>2. CASE n # m
      BY <2>2 DEF CauseInv, MintsForKnown
    <2>3. QED
      BY <2>1, <2>2
  <1>2. OnlyTAuthLooksUp'
    BY DEF CauseInv, OnlyTAuthLooksUp
  <1>3. ASSUME NEW q \in Calls, call[q].at # "idle"
        PROVE  mint'[call[q].token] = mint[call[q].token]
    BY <1>3 DEF SessionOK
  <1>4. NotFoundHasCause'
    BY <1>3 DEF CauseInv, NotFoundHasCause
  <1>5. QED
    BY <1>1, <1>2, <1>4 DEF CauseInv

\* A lookup that nothing overlaps is right.
LEMMA QuietLookup ==
    ASSUME NEW u, Writing = {}
    PROVE  Lookup(u) = {u \in profiles}
  BY DEF Lookup

LEMMA UpsertForCause ==
    ASSUME SessionOK, CauseInv, NEW m \in Mints, LoginUpsertEnd(m)
    PROVE  CauseInv'
  <1> USE DEF SessionOK
  <1>1. /\ mint[m].at = "writing" /\ UNCHANGED <<call, restarts>>
        /\ mint' = [mint EXCEPT ![m].at = "minting"]
        /\ profiles \subseteq profiles' /\ lost \subseteq lost'
    BY DEF LoginUpsertEnd
  <1>2. mint[m].user \in profiles' \cup lost'
    <2>1. CASE Writing = {m}
      BY <2>1 DEF LoginUpsertEnd
    <2>2. CASE Writing # {m}
      <3>1. m \in Writing
        BY <1>1 DEF Writing
      <3>2. QED
        BY <2>2, <3>1 DEF LoginUpsertEnd
    <2>3. QED
      BY <2>1, <2>2
  <1>3. /\ mint'[m].at = "minting" /\ mint'[m].user = mint[m].user
        /\ \A n \in Mints \ {m} : mint'[n] = mint[n]
    BY <1>1
  <1>4. QED
    BY <1>1, <1>2, <1>3, MintForCause

LEMMA RefreshForCause ==
    ASSUME SessionOK, CauseInv, NEW m \in Mints, NEW u \in Users,
           RefreshProfile(m, u)
    PROVE  CauseInv'
  <1> USE DEF SessionOK
  <1>1. /\ mint[m].at = "idle" /\ UNCHANGED <<call, restarts, profiles>>
        /\ mint' = [mint EXCEPT ![m].at = "minting", ![m].user = u]
        /\ lost \subseteq lost'
    BY DEF RefreshProfile
  <1>2. u \in profiles \cup lost'
    <2>1. CASE Writing = {}
      <3>1. TRUE \in {u \in profiles}
        BY <2>1, QuietLookup DEF RefreshProfile
      <3>2. QED
        BY <3>1
    <2>2. CASE Writing # {}
      BY <2>2 DEF RefreshProfile
    <2>3. QED
      BY <2>1, <2>2
  <1>3. /\ mint'[m].at = "minting" /\ mint'[m].user = u
        /\ \A n \in Mints \ {m} : mint'[n] = mint[n]
    BY <1>1
  <1>4. QED
    BY <1>1, <1>2, <1>3, MintForCause

LEMMA WhoAmIForCause ==
    ASSUME SessionOK, CauseInv, NEW q \in Calls, HandleWhoAmI(q)
    PROVE  CauseInv'
  <1> USE DEF SessionOK
  <1> DEFINE u == mint[call[q].token].user
  <1>1. /\ call[q].at = "profile" /\ UNCHANGED <<mint, profiles, restarts>>
        /\ lost \subseteq lost'
        /\ call[q].token \in Mints /\ mint[call[q].token].at = "minted"
    BY DEF HandleWhoAmI
  <1>2. PICK status \in {200, 404} :
           call' = [call EXCEPT ![q].at = "answered", ![q].status = status]
    BY LookedUp
  <1>3. /\ \A p \in Calls \ {q} : call'[p] = call[p]
        /\ call'[q].at = "answered" /\ call'[q].token = call[q].token
        /\ call'[q].service = call[q].service
    BY <1>2
  <1>4. call'[q].status = 404 =>
           mint[call[q].token].restarts # restarts \/ u \in lost'
    <2> SUFFICES ASSUME call'[q].status = 404, Writing = {}
                 PROVE  mint[call[q].token].restarts # restarts \/ u \in lost'
      BY DEF HandleWhoAmI
    <2>1. PICK found \in {u \in profiles} :
             call' = [call EXCEPT ![q].at = "answered",
                                  ![q].status = IF found THEN 200 ELSE 404]
      BY QuietLookup DEF HandleWhoAmI
    <2>2. u \notin profiles
      <3>1. SUFFICES ASSUME u \in profiles PROVE FALSE
        OBVIOUS
      <3>2. call'[q].status = 200
        BY <2>1, <3>1
      <3>3. QED
        BY <3>2
    <2>3. QED
      BY <1>1, <2>2 DEF CauseInv, MintsForKnown
  <1>5. MintsForKnown'
    BY <1>1 DEF CauseInv, MintsForKnown
  <1>6. OnlyTAuthLooksUp'
    BY <1>1, <1>3 DEF CauseInv, OnlyTAuthLooksUp
  <1>7. NotFoundHasCause'
    BY <1>1, <1>3, <1>4 DEF CauseInv, NotFoundHasCause
  <1>8. QED
    BY <1>5, <1>6, <1>7 DEF CauseInv

\* A restart takes the requests of GET /me along, and starts a new life.
LEMMA RestartForCause ==
    ASSUME SessionOK, CauseInv, Restart
    PROVE  CauseInv'
  <1> USE DEF SessionOK
  <1>1. MintsForKnown'
    <2>1. \A m \in Mints : /\ mint'[m].at # "minting"
                           /\ mint'[m].at = "minted" =>
                                 mint[m].at = "minted" /\ mint'[m] = mint[m]
      BY DEF Restart, Unminted
    <2>2. restarts' = restarts + 1
      BY DEF Restart
    <2>3. \A m \in Mints : mint[m].restarts \in Nat
      BY DEF Mint
    <2>4. \A m \in Mints : mint[m].at = "minted" => mint[m].restarts <= restarts
      BY DEF CauseInv, MintsForKnown
    <2>5. QED
      BY <2>1, <2>2, <2>3, <2>4 DEF MintsForKnown
  <1>2. \A q \in Calls : /\ call'[q].status # 404 /\ call'[q].at # "profile"
    <2>1. \A q \in Calls : \/ call'[q] = NoCall
                           \/ call'[q] = call[q] /\ call[q].service # TAuth
      BY DEF Restart
    <2>2. NoCall.status # 404 /\ NoCall.at # "profile"
      BY DEF NoCall
    <2>3. QED
      BY <2>1, <2>2 DEF CauseInv, OnlyTAuthLooksUp
  <1>3. QED
    BY <1>1, <1>2 DEF CauseInv, OnlyTAuthLooksUp, NotFoundHasCause

LEMMA CauseStep == SessionOK /\ CauseInv /\ [Next]_vars => CauseInv'
  <1> SUFFICES ASSUME SessionOK, CauseInv, [Next]_vars PROVE CauseInv'
    OBVIOUS
  <1>1. ASSUME NEW m \in Mints, NEW u \in Users, LoginUpsertBegin(m, u)
        PROVE  CauseInv'
    <2>1. /\ mint[m].at = "idle" /\ UNCHANGED <<call, restarts, profiles, lost>>
          /\ mint'[m].at = "writing"
          /\ \A n \in Mints \ {m} : mint'[n] = mint[n]
      BY <1>1 DEF LoginUpsertBegin, SessionOK
    <2>2. QED
      BY <2>1, MintForCause
  <1>2. ASSUME NEW m \in Mints, NEW u \in Users, RefreshProfile(m, u)
        PROVE  CauseInv'
    BY <1>2, RefreshForCause
  <1>3. ASSUME NEW m \in Mints, LoginUpsertEnd(m)
        PROVE  CauseInv'
    BY <1>3, UpsertForCause
  <1>4. ASSUME NEW m \in Mints, MintAppJWT(m)
        PROVE  CauseInv'
    <2>1. /\ mint[m].at = "minting" /\ UNCHANGED <<call, restarts, profiles, lost>>
          /\ mint'[m].at = "minted" /\ mint'[m].user = mint[m].user
          /\ mint'[m].restarts = restarts
          /\ \A n \in Mints \ {m} : mint'[n] = mint[n]
      BY <1>4 DEF MintAppJWT, SessionOK
    <2>2. QED
      BY <2>1, MintForCause DEF CauseInv, MintsForKnown
  <1>5. ASSUME NEW q \in Calls, NEW s \in Services, NEW m \in Mints,
               Present(q, s, m)
        PROVE  CauseInv'
    <2>1. PICK c \in Call : c = NoCall /\ c.status = 0
      BY NoCallType
    <2>2. call' = [call EXCEPT ![q] = [c EXCEPT !.at = "parse",
                                           !.service = s, !.token = m]]
      BY <1>5, <2>1 DEF Present
    <2>3. \A p \in Calls : \/ call'[p] = call[p]
                           \/ call'[p].status = 0 /\ call'[p].at = "parse"
      BY <2>1, <2>2 DEF SessionOK, Call
    <2>4. UNCHANGED <<mint, profiles, lost, restarts>>
      BY <1>5 DEF Present
    <2>5. QED
      BY <2>3, <2>4, CallForCause
  <1>6. ASSUME NEW q \in Calls, ParseToken(q)
        PROVE  CauseInv'
    <2>1. /\ UNCHANGED <<mint, profiles, lost, restarts>>
          /\ call[q].at = "parse"
          /\ \A p \in Calls \ {q} : call'[p] = call[p]
          /\ call'[q].at # "profile"
          /\ call'[q].service = call[q].service
          /\ call'[q].status \in {401, call[q].status}
          /\ call'[q].at = "answered" => call'[q].status = 401
      BY <1>6, ParseEffect DEF SessionOK
    <2>2. QED
      BY <2>1 DEF CauseInv, MintsForKnown, OnlyTAuthLooksUp, NotFoundHasCause
  <1>7. ASSUME NEW q \in Calls, ValidateToken(q)
        PROVE  CauseInv'
    <2>1. /\ UNCHANGED <<mint, profiles, lost, restarts>>
          /\ \A p \in Calls \ {q} : call'[p] = call[p]
          /\ call'[q].at = "profile" => call'[q].service = TAuth
          /\ call'[q].status # 404
      BY <1>7, ValidateEffect DEF SessionOK
    <2>2. QED
      BY <2>1, CallForCause
  <1>8. ASSUME NEW q \in Calls, HandleWhoAmI(q)
        PROVE  CauseInv'
    BY <1>8, WhoAmIForCause
  <1>9. ASSUME NEW q \in Calls, Respond(q)
        PROVE  CauseInv'
    <2>1. /\ UNCHANGED <<mint, profiles, lost, restarts>>
          /\ \A p \in Calls : \/ call'[p] = call[p]
                              \/ call'[p].status = 0 /\ call'[p].at = "idle"
      BY <1>9 DEF Respond, SessionOK, NoCall
    <2>2. QED
      BY <2>1, CallForCause
  <1>10. CASE Restart
    BY <1>10, RestartForCause
  <1>11. CASE Tick \/ UNCHANGED vars
    BY <1>11, CallForCause DEF Tick, vars
  <1>12. QED
    BY <1>1, <1>2, <1>3, <1>4, <1>5, <1>6, <1>7, <1>8, <1>9, <1>10, <1>11 DEF Next

-----------------------------------------------------------------------------

\* Tokens, handlers and requests are well typed, and every request carries a
\* token that was minted, restarts of TAuth included.
THEOREM SessionsWellTyped == Spec => []SessionOK
  BY Typing

\* A token is taken only within its life on the clock of whoever reads it,
\* whatever the clocks are.
THEOREM SessionsEnd == Spec => []NoSessionOutlivesTTL
  <1>1. DatesInv => NoSessionOutlivesTTL
    BY DEF DatesInv
  <1>2. QED
    BY <1>1, Typing, DatesInit, DatesStep, PTL DEF Spec

\* A token is refused only before its mint or within the last second of its
\* life, or later: rounding to seconds costs no session more than that.
THEOREM SessionsLast == Spec => []NoEarlyRefusal
  <1>1. DatesInv => NoEarlyRefusal
    BY DEF DatesInv
  <1>2. QED
    BY <1>1, Typing, DatesInit, DatesStep, PTL DEF Spec

\* GET /me does not know the subject of a valid session only after a restart,
\* or when writes of the unguarded user map overlapped.
THEOREM NotFoundExplained == Spec => []NotFoundHasCause
  <1>1. CauseInv => NotFoundHasCause
    BY DEF CauseInv
  <1>2. QED
    BY <1>1, Typing, CauseInit, CauseStep, PTL DEF Spec
=============================================================================
