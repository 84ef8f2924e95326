-------------------------- MODULE AuthClient_proofs --------------------------
(* TLAPS proofs about AuthClient, for any number of calls of apiFetch,       *)
(* initAuthClient and logout that overlap in one page.                       *)
EXTENDS AuthClient, FiniteSetTheorems, TLAPS

\* The flag names the one call that refreshes, without counting.
FlagNamesRefresher ==
    \/ isRefreshing /\ \E c \in Calls : Refreshing = {c}
    \/ ~isRefreshing /\ Refreshing = {}

\* A profile that arrives later is that of a reload already counted.
ReloadsCounted == InitsUnderWay => reloaded

ApiInv ==
    /\ isRefreshing \in BOOLEAN
    /\ at \in [Calls -> Labels]
    /\ pendingRequests = Waiting("queued")
    /\ threw \in BOOLEAN
    /\ FlagNamesRefresher

SessionInv ==
    /\ userProfile \in BOOLEAN /\ reloaded \in BOOLEAN
    /\ init \in [Inits -> {"idle", "me", "refresh", "retry"}]
    /\ loggingOut \subseteq Logouts
    /\ told \in {"nothing", "onAuthenticated", "onUnauthenticated"}
    /\ ToldMatchesProfile
    /\ LogoutSticks
    /\ ReloadsCounted

IInv == ApiInv /\ SessionInv

-----------------------------------------------------------------------------
(* apiFetch.                                                                 *)

\* A call goes on alone: who waits where, afterwards.
LEMMA GotoMoves ==
    ASSUME ApiInv, NEW c \in Calls, NEW label \in Labels, Goto(c, label)
    PROVE  /\ at' \in [Calls -> Labels]
           /\ Waiting("queued")' = IF label = "queued"
                                   THEN Waiting("queued") \cup {c}
                                   ELSE Waiting("queued") \ {c}
           /\ Refreshing' = IF label \in {"refresh", "retry"}
                            THEN Refreshing \cup {c} ELSE Refreshing \ {c}
  <1>1. at' = [d \in Calls |-> IF d = c THEN label ELSE at[d]]
    BY DEF Goto, Move, ApiInv
  <1>2. \A d \in Calls : at[d] \in Labels
    BY DEF ApiInv
  <1>3. at' \in [Calls -> Labels]
    BY <1>1, <1>2
  <1>4. QED
    BY <1>1, <1>3 DEF Waiting, Refreshing

\* A call settles and empties the queue: nobody waits in it, and of the calls
\* that refresh only c has stopped.
LEMMA FlushMoves ==
    ASSUME ApiInv, NEW c \in Calls, NEW label \in Settled,
           NEW where \in Settled \cup {"again"}, Flush(c, label, where)
    PROVE  /\ at' \in [Calls -> Labels]
           /\ pendingRequests' = Waiting("queued")'
           /\ Refreshing' = Refreshing \ {c}
  <1>1. /\ at' = [d \in Calls |-> IF d = c THEN label
                                  ELSE IF at[d] = "queued" THEN where ELSE at[d]]
        /\ pendingRequests' = {}
    BY DEF Flush, Move, ApiInv, Waiting
  <1>2. \A d \in Calls : at[d] \in Labels
    BY DEF ApiInv
  <1>3. at' \in [Calls -> Labels]
    BY <1>1, <1>2 DEF Labels, Settled
  <1>4. QED
    BY <1>1, <1>3 DEF Waiting, Refreshing, Settled

\* A call that refreshes is the only one.
LEMMA OnlyRefresher ==
    ASSUME ApiInv, NEW c \in Calls, at[c] \in {"refresh", "retry"}
    PROVE  isRefreshing /\ Refreshing = {c}
  BY DEF ApiInv, FlagNamesRefresher, Refreshing, Waiting

LEMMA ApiFetchStep ==
    ASSUME ApiInv, NEW c \in Calls, apiFetch(c)
    PROVE  ApiInv'
  <1>1. /\ at[c] \notin {"queued", "refresh", "retry"}
        /\ Goto(c, "first")
        /\ UNCHANGED <<isRefreshing, pendingRequests, threw>>
    BY DEF apiFetch, Settled
  <1>2. c \notin Waiting("queued") /\ c \notin Refreshing
    BY <1>1 DEF Waiting, Refreshing
  <1>3. "first" \in Labels
    BY DEF Labels
  <1>4. QED
    BY <1>1, <1>2, <1>3, GotoMoves DEF ApiInv, FlagNamesRefresher

LEMMA CallbackStep ==
    ASSUME ApiInv, NEW c \in Calls, Callback(c)
    PROVE  ApiInv'
  <1> USE DEF Labels, Settled
  <1>1. CASE FirstUnauthorized(c)
    <2>1. c \notin Waiting("queued") /\ c \notin Refreshing
      BY <1>1 DEF FirstUnauthorized, Waiting, Refreshing
    <2>2. CASE isRefreshing
      <3>1. /\ Goto(c, "queued")
            /\ pendingRequests' = pendingRequests \cup {c}
            /\ UNCHANGED <<isRefreshing, threw>>
        BY <1>1, <2>2 DEF FirstUnauthorized
      <3>2. QED
        BY <2>1, <3>1, GotoMoves DEF ApiInv, FlagNamesRefresher
    <2>3. CASE ~isRefreshing
      <3>1. /\ Goto(c, "refresh") /\ isRefreshing' = TRUE
            /\ UNCHANGED <<pendingRequests, threw>>
        BY <1>1, <2>3 DEF FirstUnauthorized
      <3>2. Refreshing = {}
        BY <2>3 DEF ApiInv, FlagNamesRefresher
      <3>3. QED
        BY <2>1, <3>1, <3>2, GotoMoves DEF ApiInv, FlagNamesRefresher
    <2>4. QED
      BY <2>2, <2>3
  <1>2. CASE FirstSettles(c) \/ AgainSettles(c)
    <2>1. /\ at[c] \notin {"queued", "refresh", "retry"}
          /\ \E outcome \in Settled : Goto(c, outcome)
          /\ UNCHANGED <<isRefreshing, pendingRequests, threw>>
      BY <1>2 DEF FirstSettles, AgainSettles
    <2>2. c \notin Waiting("queued") /\ c \notin Refreshing
      BY <2>1 DEF Waiting, Refreshing
    <2>3. QED
      BY <2>1, <2>2, GotoMoves DEF ApiInv, FlagNamesRefresher
  <1>3. CASE RefreshAccepted(c)
    <2>1. /\ at[c] = "refresh" /\ Goto(c, "retry")
          /\ UNCHANGED <<isRefreshing, pendingRequests, threw>>
      BY <1>3 DEF RefreshAccepted
    <2>2. c \notin Waiting("queued")
      BY <2>1 DEF Waiting
    <2>3. isRefreshing /\ Refreshing = {c}
      BY <2>1, OnlyRefresher
    <2>4. QED
      BY <2>1, <2>2, <2>3, GotoMoves DEF ApiInv, FlagNamesRefresher
  <1>4. CASE RefreshRefused(c) \/ RetryAnswered(c)
    <2>1. /\ at[c] \in {"refresh", "retry"}
          /\ isRefreshing' = FALSE /\ threw' = threw
          /\ \/ Flush(c, "resolved", "rejected")
             \/ Flush(c, "resolved", "again")
      BY <1>4 DEF RefreshRefused, RetryAnswered
    <2>2. Refreshing = {c}
      BY <2>1, OnlyRefresher
    <2>3. QED
      BY <2>1, <2>2, FlushMoves DEF ApiInv, FlagNamesRefresher
  <1>5. CASE TryThrows(c)
    <2>1. /\ at[c] \in {"refresh", "retry"}
          /\ isRefreshing' = FALSE /\ threw' = TRUE
          /\ Goto(c, "rejected") /\ UNCHANGED pendingRequests
      BY <1>5 DEF TryThrows
    <2>2. Refreshing = {c} /\ c \notin Waiting("queued")
      BY <2>1, OnlyRefresher DEF Waiting
    <2>3. /\ at' \in [Calls -> Labels]
          /\ Waiting("queued")' = Waiting("queued") /\ Refreshing' = {}
      BY <2>1, <2>2, GotoMoves
    <2>4. QED
      BY <2>1, <2>3 DEF ApiInv, FlagNamesRefresher
  <1>6. QED
    BY <1>1, <1>2, <1>3, <1>4, <1>5 DEF Callback

-----------------------------------------------------------------------------
(* initAuthClient and logout.                                                *)

LEMMA InitStep ==
    ASSUME SessionInv, NEW i \in Inits,
           initAuthClient(i) \/ InitGoesOn(i) \/ InitEnds(i)
    PROVE  SessionInv'
  <1> USE DEF SessionInv, ToldMatchesProfile, LogoutSticks, ReloadsCounted,
              InitsUnderWay
  <1>1. CASE initAuthClient(i)
    BY <1>1 DEF initAuthClient
  <1>2. CASE InitGoesOn(i)
    BY <1>2 DEF InitGoesOn
  <1>3. CASE InitEnds(i)
    <2>1. reloaded /\ reloaded' = reloaded /\ loggingOut' = loggingOut
      BY <1>3 DEF InitEnds
    <2>2. init' \in [Inits -> {"idle", "me", "refresh", "retry"}]
      BY <1>3 DEF InitEnds
    <2>3. \/ userProfile' = TRUE /\ told' = "onAuthenticated"
          \/ userProfile' = FALSE /\ told' = "onUnauthenticated"
      BY <1>3 DEF InitEnds, Authenticated, Unauthenticated
    <2>4. QED
      BY <2>1, <2>2, <2>3
  <1>4. QED
    BY <1>1, <1>2, <1>3

LEMMA LogoutStep ==
    ASSUME SessionInv, NEW l \in Logouts, logout(l) \/ LogoutEnds(l)
    PROVE  SessionInv'
  <1> USE DEF SessionInv, ToldMatchesProfile, LogoutSticks, ReloadsCounted,
              InitsUnderWay
  <1>1. CASE logout(l)
    BY <1>1 DEF logout
  <1>2. CASE LogoutEnds(l)
    <2>1. /\ userProfile' = FALSE
          /\ \/ told' = "onUnauthenticated"
             \/ told' = told /\ told = "nothing"
      BY <1>2 DEF LogoutEnds, Unauthenticated, Configured
    <2>2. /\ init' = init /\ loggingOut' \subseteq Logouts
          /\ reloaded' = InitsUnderWay
      BY <1>2 DEF LogoutEnds
    <2>3. QED
      BY <2>1, <2>2
  <1>3. QED
    BY <1>1, <1>2

-----------------------------------------------------------------------------

LEMMA Invariance == Spec => []IInv
  <1>1. Init => IInv
    BY DEF Init, IInv, ApiInv, SessionInv, FlagNamesRefresher, Labels, Waiting,
           Refreshing, ToldMatchesProfile, LogoutSticks, ReloadsCounted,
           InitsUnderWay
  <1>2. IInv /\ [Next]_vars => IInv'
    <2> SUFFICES ASSUME IInv, [Next]_vars
                 PROVE  IInv'
      OBVIOUS
    <2>1. UNCHANGED apiVars => (ApiInv => ApiInv')
      BY DEF apiVars, ApiInv, FlagNamesRefresher, Waiting, Refreshing
    <2>2. UNCHANGED sessionVars => (SessionInv => SessionInv')
      BY DEF sessionVars, SessionInv, ToldMatchesProfile, LogoutSticks,
             ReloadsCounted, InitsUnderWay
    <2>3. ASSUME NEW c \in Calls, apiFetch(c) \/ Callback(c),
                 UNCHANGED sessionVars
          PROVE  IInv'
      BY <2>2, <2>3, ApiFetchStep, CallbackStep DEF IInv
    <2>4. ASSUME NEW i \in Inits,
                 initAuthClient(i) \/ InitGoesOn(i) \/ InitEnds(i)
          PROVE  IInv'
      <3>1. UNCHANGED apiVars
        BY <2>4 DEF initAuthClient, InitGoesOn, InitEnds, apiVars
      <3>2. QED
        BY <2>1, <2>4, <3>1, InitStep DEF IInv
    <2>5. ASSUME NEW l \in Logouts, logout(l) \/ LogoutEnds(l)
          PROVE  IInv'
      <3>1. UNCHANGED apiVars
        BY <2>5 DEF logout, LogoutEnds, apiVars
      <3>2. QED
        BY <2>1, <2>5, <3>1, LogoutStep DEF IInv
    <2>6. CASE UNCHANGED vars
      BY <2>1, <2>2, <2>6 DEF vars, IInv
    <2>7. QED
      BY <2>3, <2>4, <2>5, <2>6 DEF Next
  <1>3. QED
    BY <1>1, <1>2, PTL DEF Spec

\* Every call stands at one of the labels of its function, and the queue holds
\* exactly the calls that wait in it, however many overlap.
THEOREM ClientWellTyped == Spec => []TypeOK
  <1>1. IInv => TypeOK
    BY DEF IInv, ApiInv, SessionInv, TypeOK
  <1>2. QED
    BY <1>1, Invariance, PTL

\* However many calls of apiFetch overlap and whatever they are answered, one
\* refresh at most is in flight and the flag is up while it is: no refused or
\* throwing refresh leaves isRefreshing set for the rest of the page's life.
THEOREM RefreshesAreSingle == Spec => []OneRefresh
  <1>1. IInv => OneRefresh
    <2> SUFFICES ASSUME IInv PROVE OneRefresh
      OBVIOUS
    <2>1. CASE isRefreshing
      <3>1. PICK c \in Calls : Refreshing = {c}
        BY <2>1 DEF IInv, ApiInv, FlagNamesRefresher
      <3>2. Cardinality(Refreshing) = 1
        BY <3>1, FS_Singleton
      <3>3. QED
        BY <2>1, <3>1, <3>2 DEF OneRefresh
    <2>2. CASE ~isRefreshing
      <3>1. Refreshing = {}
        BY <2>2 DEF IInv, ApiInv, FlagNamesRefresher
      <3>2. Cardinality(Refreshing) = 0
        BY <3>1, FS_EmptySet
      <3>3. QED
        BY <2>2, <3>1, <3>2 DEF OneRefresh
    <2>3. QED
      BY <2>1, <2>2
  <1>2. QED
    BY <1>1, Invariance, PTL

\* getCurrentUser never contradicts the callback the application heard last, for
\* any number of reloads and logouts that end in any order.
THEOREM PageToldTheTruth == Spec => []ToldMatchesProfile
  <1>1. IInv => ToldMatchesProfile
    BY DEF IInv, SessionInv
  <1>2. QED
    BY <1>1, Invariance, PTL

\* No profile outlives a logout that no reload overlaps or follows, whether or
\* not the logout reached TAuth.
THEOREM LogoutsHold == Spec => []LogoutSticks
  <1>1. IInv => LogoutSticks
    BY DEF IInv, SessionInv
  <1>2. QED
    BY <1>1, Invariance, PTL

-----------------------------------------------------------------------------
(* The queue: what SettlesUnlessTryThrows and ServedByNextRefresh rest on.   *)

QueueHasRefresher == (~threw /\ pendingRequests # {}) => isRefreshing

QueueGoesTogether ==
    \A c \in pendingRequests :
        IF \E d \in Calls : Completes(d) THEN at'[c] \in {"again", "rejected"}
                                         ELSE at'[c] = "queued"

\* A step of apiFetch keeps a refresh under way for whoever is in the queue.
LEMMA CallKeepsQueue ==
    ASSUME ApiInv, QueueHasRefresher, NEW c \in Calls,
           apiFetch(c) \/ Callback(c)
    PROVE  QueueHasRefresher'
  <1>1. CASE apiFetch(c)
    BY <1>1 DEF QueueHasRefresher, apiFetch
  <1>2. CASE FirstUnauthorized(c)
    BY <1>2 DEF QueueHasRefresher, FirstUnauthorized, ApiInv
  <1>3. CASE FirstSettles(c) \/ AgainSettles(c) \/ RefreshAccepted(c)
    BY <1>3 DEF QueueHasRefresher, FirstSettles, AgainSettles, RefreshAccepted
  <1>4. CASE RefreshRefused(c) \/ RetryAnswered(c)
    BY <1>4 DEF QueueHasRefresher, RefreshRefused, RetryAnswered, Flush
  <1>5. CASE TryThrows(c)
    BY <1>5 DEF QueueHasRefresher, TryThrows
  <1>6. QED
    BY <1>1, <1>2, <1>3, <1>4, <1>5 DEF Callback

\* A call that goes on without a flush leaves everybody else where they are.
LEMMA AloneKeepsQueue ==
    ASSUME ApiInv, NEW c \in Calls, at[c] # "queued", NEW label,
           Goto(c, label),
           label = "resolved" => at[c] \notin {"refresh", "retry"}
    PROVE  QueueGoesTogether
  <1>1. \A d \in Calls : at'[d] = IF d = c THEN label ELSE at[d]
    BY DEF Goto, Move
  <1>2. ~\E d \in Calls : Completes(d)
    <2> SUFFICES ASSUME NEW d \in Calls, Completes(d) PROVE FALSE
      OBVIOUS
    <2>1. at[d] \in {"refresh", "retry"} /\ at'[d] = "resolved"
      BY DEF Completes
    <2>2. QED
      BY <1>1, <2>1
  <1>3. \A d \in pendingRequests : d \in Calls /\ at[d] = "queued" /\ d # c
    BY DEF ApiInv, Waiting
  <1>4. QED
    BY <1>1, <1>2, <1>3 DEF QueueGoesTogether

LEMMA CallMovesQueue ==
    ASSUME ApiInv, NEW c \in Calls, apiFetch(c) \/ Callback(c)
    PROVE  QueueGoesTogether
  <1>1. CASE apiFetch(c)
    BY <1>1, AloneKeepsQueue DEF apiFetch, Settled
  <1>2. CASE FirstUnauthorized(c)
    BY <1>2, AloneKeepsQueue DEF FirstUnauthorized
  <1>3. CASE FirstSettles(c) \/ AgainSettles(c)
    BY <1>3, AloneKeepsQueue DEF FirstSettles, AgainSettles
  <1>4. CASE RefreshAccepted(c) \/ TryThrows(c)
    BY <1>4, AloneKeepsQueue DEF RefreshAccepted, TryThrows
  <1>5. CASE RefreshRefused(c) \/ RetryAnswered(c)
    <2>1. PICK where \in {"rejected", "again"} :
              at[c] \in {"refresh", "retry"} /\ Flush(c, "resolved", where)
      BY <1>5 DEF RefreshRefused, RetryAnswered
    <2>2. \A d \in Calls : at'[d] = IF d = c THEN "resolved"
                                    ELSE IF d \in pendingRequests THEN where
                                    ELSE at[d]
      BY <2>1 DEF Flush, Move
    <2>3. Completes(c)
      BY <2>1, <2>2 DEF Completes
    <2>4. \A d \in pendingRequests : d \in Calls /\ d # c
      BY <2>1 DEF ApiInv, Waiting
    <2>5. QED
      BY <2>2, <2>3, <2>4 DEF QueueGoesTogether
  <1>6. QED
    BY <1>1, <1>2, <1>3, <1>4, <1>5 DEF Callback

\* What is not a step of apiFetch leaves its calls alone.
LEMMA OnlyCallsMove ==
    ASSUME [Next]_vars,
           \A c \in Calls : ~apiFetch(c) /\ ~Callback(c)
    PROVE  UNCHANGED apiVars
  BY DEF Next, vars, apiVars, initAuthClient, InitGoesOn, InitEnds, logout, LogoutEnds

\* Until a refresh or a retry throws, however calls overlap, nobody waits in
\* pendingRequests without a refresh under way that will empty it: the safety
\* half of SettlesUnlessTryThrows.
THEOREM NobodyWaitsForNothing == Spec => []QueueHasRefresher
  <1>1. Init => QueueHasRefresher
    BY DEF Init, QueueHasRefresher
  <1>2. IInv /\ QueueHasRefresher /\ [Next]_vars => QueueHasRefresher'
    <2> SUFFICES ASSUME IInv, QueueHasRefresher, [Next]_vars
                 PROVE  QueueHasRefresher'
      OBVIOUS
    <2>1. ASSUME NEW c \in Calls, apiFetch(c) \/ Callback(c)
          PROVE  QueueHasRefresher'
      BY <2>1, CallKeepsQueue DEF IInv
    <2>2. UNCHANGED apiVars => QueueHasRefresher'
      BY DEF apiVars, QueueHasRefresher
    <2>3. QED
      BY <2>1, <2>2, OnlyCallsMove
  <1>3. QED
    BY <1>1, <1>2, Invariance, PTL DEF Spec

\* A call leaves pendingRequests only when a refresh completes, and then all of
\* them do, to be sent again or rejected: none is lost from the list, and one
\* that a throwing refresh left there is taken along by the next that
\* completes.  The safety half of ServedByNextRefresh.
THEOREM NobodyIsLost == Spec => [][QueueGoesTogether]_vars
  <1>1. IInv /\ [Next]_vars => [QueueGoesTogether]_vars
    <2> SUFFICES ASSUME IInv, Next PROVE QueueGoesTogether
      BY DEF vars
    <2>1. ASSUME NEW c \in Calls, apiFetch(c) \/ Callback(c)
          PROVE  QueueGoesTogether
      BY <2>1, CallMovesQueue DEF IInv
    <2>2. ASSUME UNCHANGED apiVars PROVE QueueGoesTogether
      <3>1. ~\E d \in Calls : Completes(d)
        BY <2>2 DEF apiVars, Completes
      <3>2. \A c \in pendingRequests : at'[c] = "queued"
        BY <2>2 DEF apiVars, IInv, ApiInv, Waiting
      <3>3. QED
        BY <3>1, <3>2 DEF QueueGoesTogether
    <2>3. QED
      BY <2>1, <2>2, OnlyCallsMove
  <1>2. QED
    BY <1>1, Invariance, PTL DEF Spec
=============================================================================
