----------------------------- MODULE AuthClient -----------------------------
(* web/auth-client.js in one page: the calls of apiFetch an application has  *)
(* under way and the queue they wait in while one of them refreshes the      *)
(* session, and the calls of initAuthClient and logout, which look neither   *)
(* at that queue nor at each other.  JavaScript runs the code between two    *)
(* awaits without interruption, so each action is the callback of one fetch. *)
(* What the server answers, and whether the network fails it, is open.       *)
EXTENDS FiniteSets, Naturals

CONSTANTS Calls,   \* calls of apiFetch that overlap; each is made again and again
          Inits,   \* calls of initAuthClient, likewise
          Logouts  \* calls of logout, likewise

VARIABLES isRefreshing,    \* runtime.isRefreshing
          pendingRequests, \* runtime.pendingRequests: the calls in the list
          at,              \* at[c]: the fetch call c awaits, or its outcome
          threw,           \* history: a fetch failed inside the try block
          userProfile,     \* runtime.userProfile is not null
          init,            \* init[i]: the fetch initAuthClient i awaits
          loggingOut,      \* the calls of logout that await their fetch
          told,            \* history: the callback that was called last
          reloaded         \* history: an initAuthClient began after the last
                           \* logout ended, or was under way at its end

apiVars == <<isRefreshing, pendingRequests, at, threw>>
sessionVars == <<userProfile, init, loggingOut, told, reloaded>>
vars == <<apiVars, sessionVars>>

Settled == {"resolved", "rejected"}
Labels == Settled \cup {"uncalled", "first", "queued", "refresh", "retry", "again"}

Waiting(label) == {c \in Calls : at[c] = label}

\* The call inside the try block of apiFetch.
Refreshing == Waiting("refresh") \cup Waiting("retry")

TypeOK ==
    /\ isRefreshing \in BOOLEAN
    /\ at \in [Calls -> Labels]
    /\ pendingRequests = Waiting("queued")
    /\ threw \in BOOLEAN
    /\ userProfile \in BOOLEAN /\ reloaded \in BOOLEAN
    /\ init \in [Inits -> {"idle", "me", "refresh", "retry"}]
    /\ loggingOut \subseteq Logouts
    /\ told \in {"nothing", "onAuthenticated", "onUnauthenticated"}

Init ==
    /\ isRefreshing = FALSE
    /\ pendingRequests = {}
    /\ at = [c \in Calls |-> "uncalled"]
    /\ threw = FALSE
    /\ userProfile = FALSE /\ reloaded = FALSE
    /\ init = [i \in Inits |-> "idle"]
    /\ loggingOut = {}
    /\ told = "nothing"

-----------------------------------------------------------------------------

\* Call c goes on to label, the calls of S to where.
Move(c, label, S, where) ==
    at' = [d \in Calls |-> IF d = c THEN label
                           ELSE IF d \in S THEN where ELSE at[d]]

Goto(c, label) == Move(c, label, {}, label)

\* Slip: the list is walked and not emptied.
FlushAndKeep(c, label, where) ==
    /\ Move(c, label, pendingRequests, where)
    /\ UNCHANGED pendingRequests

\* flushPendingRequests, in the callback that settles c: the list is emptied
\* and each of its calls is sent again, or rejected.
Flush(c, label, where) ==
    /\ Move(c, label, pendingRequests, where)
    /\ pendingRequests' = {}

apiFetch(c) ==
    /\ at[c] \in Settled \cup {"uncalled"}
    /\ Goto(c, "first")
    /\ UNCHANGED <<isRefreshing, pendingRequests, threw>>

\* Slip: the flag is not set before the refresh is awaited.
FirstUnflagged(c) ==
    /\ at[c] = "first"
    /\ Goto(c, "refresh")
    /\ UNCHANGED <<isRefreshing, pendingRequests, threw>>

\* The answer is a 401: refresh, unless some other call does.
FirstUnauthorized(c) ==
    /\ at[c] = "first"
    /\ \/ /\ isRefreshing
          /\ Goto(c, "queued")
          /\ pendingRequests' = pendingRequests \cup {c}
          /\ UNCHANGED isRefreshing
       \/ /\ ~isRefreshing
          /\ isRefreshing' = TRUE
          /\ Goto(c, "refresh")
          /\ UNCHANGED pendingRequests
    /\ UNCHANGED threw

\* Any other answer, or none, is the caller's.
FirstSettles(c) ==
    /\ at[c] = "first"
    /\ \E outcome \in Settled : Goto(c, outcome)
    /\ UNCHANGED <<isRefreshing, pendingRequests, threw>>

RefreshAccepted(c) ==
    /\ at[c] = "refresh"
    /\ Goto(c, "retry")
    /\ UNCHANGED <<isRefreshing, pendingRequests, threw>>

\* Slip: the branch of a refused refresh returns without a flush.
RefusedUnflushed(c) ==
    /\ at[c] = "refresh"
    /\ isRefreshing' = FALSE
    /\ Goto(c, "resolved")
    /\ UNCHANGED <<pendingRequests, threw>>

\* The queue fails with refresh_failed, the caller gets its own 401.
RefreshRefused(c) ==
    /\ at[c] = "refresh"
    /\ isRefreshing' = FALSE
    /\ Flush(c, "resolved", "rejected")
    /\ UNCHANGED threw

\* Slip: return execute(), and the flush never reached.
RetriedUnflushed(c) ==
    /\ at[c] = "retry"
    /\ isRefreshing' = FALSE
    /\ Goto(c, "resolved")
    /\ UNCHANGED <<pendingRequests, threw>>

\* Whatever the retry is answered, the queue is sent once more.
RetryAnswered(c) ==
    /\ at[c] = "retry"
    /\ isRefreshing' = FALSE
    /\ Flush(c, "resolved", "again")
    /\ UNCHANGED threw

\* The refresh or the retry throws: the finally block lowers the flag, and
\* nothing is done about the queue.
TryThrows(c) ==
    /\ at[c] \in {"refresh", "retry"}
    /\ isRefreshing' = FALSE
    /\ Goto(c, "rejected")
    /\ threw' = TRUE
    /\ UNCHANGED pendingRequests

\* A call from the queue gets whatever its second fetch is answered.
AgainSettles(c) ==
    /\ at[c] = "again"
    /\ \E outcome \in Settled : Goto(c, outcome)
    /\ UNCHANGED <<isRefreshing, pendingRequests, threw>>

\* The callback of the fetch call c awaits.
Callback(c) ==
    \/ FirstUnauthorized(c) \/ FirstSettles(c)
    \/ RefreshAccepted(c) \/ RefreshRefused(c)
    \/ RetryAnswered(c) \/ TryThrows(c)
    \/ AgainSettles(c)

-----------------------------------------------------------------------------
(* initAuthClient and logout.                                                *)

\* setUserProfile, and the callback that says the same.
Authenticated ==
    /\ userProfile' = TRUE
    /\ told' = "onAuthenticated"

Unauthenticated ==
    /\ userProfile' = FALSE
    /\ told' = "onUnauthenticated"

initAuthClient(i) ==
    /\ init[i] = "idle"
    /\ init' = [init EXCEPT ![i] = "me"]
    /\ reloaded' = TRUE
    /\ UNCHANGED <<apiVars, userProfile, loggingOut, told>>

\* The answer is not ok: refresh, and ask for the profile once more.
InitGoesOn(i) ==
    /\ \/ init[i] = "me" /\ init' = [init EXCEPT ![i] = "refresh"]
       \/ init[i] = "refresh" /\ init' = [init EXCEPT ![i] = "retry"]
    /\ UNCHANGED <<apiVars, userProfile, loggingOut, told, reloaded>>

\* Slip: the catch block tells the application and keeps the profile.
InitEndsUncleared(i) ==
    /\ init[i] # "idle"
    /\ init' = [init EXCEPT ![i] = "idle"]
    /\ \/ init[i] \in {"me", "retry"} /\ Authenticated
       \/ told' = "onUnauthenticated" /\ UNCHANGED userProfile
    /\ UNCHANGED <<apiVars, loggingOut, reloaded>>

\* A profile arrives; or the second answer is no profile, the refresh is
\* refused, a fetch throws, or the callback of the application does.
InitEnds(i) ==
    /\ init[i] # "idle"
    /\ init' = [init EXCEPT ![i] = "idle"]
    /\ \/ init[i] \in {"me", "retry"} /\ Authenticated
       \/ Unauthenticated
    /\ UNCHANGED <<apiVars, loggingOut, reloaded>>

logout(l) ==
    /\ l \notin loggingOut
    /\ loggingOut' = loggingOut \cup {l}
    /\ UNCHANGED <<apiVars, userProfile, init, told, reloaded>>

InitsUnderWay == \E i \in Inits : init[i] # "idle"

\* runtime.options is set: an initAuthClient has begun, and each tells its end.
Configured == told # "nothing" \/ InitsUnderWay

\* Slip: a failed request of logout keeps the page signed in.
LogoutEndsOnSuccess(l) ==
    /\ l \in loggingOut
    /\ loggingOut' = loggingOut \ {l}
    /\ reloaded' = InitsUnderWay
    /\ \/ Configured /\ Unauthenticated
       \/ UNCHANGED <<userProfile, told>>
    /\ UNCHANGED <<apiVars, init>>

\* Whatever the server answers, and if it does not.
LogoutEnds(l) ==
    /\ l \in loggingOut
    /\ loggingOut' = loggingOut \ {l}
    /\ reloaded' = InitsUnderWay
    /\ \/ Configured /\ Unauthenticated
       \/ ~Configured /\ userProfile' = FALSE /\ UNCHANGED told
    /\ UNCHANGED <<apiVars, init>>

Next ==
    \/ \E c \in Calls : (apiFetch(c) \/ Callback(c)) /\ UNCHANGED sessionVars
    \/ \E i \in Inits : initAuthClient(i) \/ InitGoesOn(i) \/ InitEnds(i)
    \/ \E l \in Logouts : logout(l) \/ LogoutEnds(l)

\* The browser answers or fails every fetch and runs its callback.
Spec == Init /\ [][Next]_vars /\ \A c \in Calls : WF_vars(Callback(c) /\ UNCHANGED sessionVars)

-----------------------------------------------------------------------------

\* However calls, 401s and failures interleave, apiFetch never has two
\* refreshes in flight, which would present one refresh cookie twice, and the
\* flag is up exactly while there is one: a refresh that throws blocks no
\* later one.  (initAuthClient refreshes without a look at the flag.)
OneRefresh == /\ Cardinality(Refreshing) <= 1
              /\ isRefreshing <=> Refreshing # {}

\* The promise of every call settles.
EveryCallSettles ==
    \A c \in Calls : at[c] = "first" ~> at[c] \in Settled

\* ... as long as no refresh and no retry throws: refused refreshes and calls
\* that queue behind each other again and again starve nobody.
SettlesUnlessTryThrows == []~threw => EveryCallSettles

\* A refresh of call c runs to its end.
Completes(c) == /\ at[c] \in {"refresh", "retry"}
                /\ at'[c] = "resolved"

\* Calls a throwing refresh left in the queue are served by the next refresh
\* that completes, whoever makes it: none is lost from the list.
ServedByNextRefresh ==
    ([]<><<\E c \in Calls : Completes(c)>>_vars) => EveryCallSettles

\* What the application was told last is what getCurrentUser says, although
\* reloads and logouts end in any order and the application's own callback may
\* throw inside the try block of initAuthClient.
ToldMatchesProfile == userProfile <=> told = "onAuthenticated"

\* A logout takes the profile away even when its request fails, and only an
\* initAuthClient that overlaps it or follows it brings one back.
LogoutSticks == userProfile => reloaded
=============================================================================
