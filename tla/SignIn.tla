------------------------------- MODULE SignIn -------------------------------
(* The sign-in of web/demo.html, over the nonce store: prepareGoogleSignIn   *)
(* fetches a nonce and configures Google's script with it, the user's        *)
(* credential comes back with that nonce, handleGoogleCredential exchanges   *)
(* both for a session.  Several of these chains run at once, and each action *)
(* is a callback of one of them or a step of the service.  fetchWithRetry    *)
(* repeats a fetch that failed, also when only its response was lost.  Other *)
(* clients use the same store, and the process may be restarted.             *)
EXTENDS NonceStore

CONSTANTS Tasks,    \* chains of callbacks that run at once
          NoNonce,
          Attempts  \* RETRY_ATTEMPTS + 1

ASSUME SignInAssumption == NoNonce \notin Nonces /\ Attempts \in Nat \ {0}

VARIABLES gis,             \* Google's script: googleReadyPromise
          active,          \* activeNonceToken
          google,          \* the nonce the script was initialized with last
          enabled,         \* the sign-in button
          isAuthenticated,
          task,            \* task[t]: what chain t waits for
          excused          \* history: the button was disabled for good, after a
                           \* failed preparation or a 401 of /api/me

page == <<gis, active, google, enabled, isAuthenticated, task, excused>>
signInVars == <<vars, page>>

\* nonce: the one fetched, or sent with the credential; logins: how often the
\* attempts of this exchange logged in; ok: what the service answered.
Labels == {"idle", "gis", "asking", "given", "popup", "posting", "posted",
           "refreshing", "calling"}
Task == [at: Labels, nonce: Nonces \cup {NoNonce},
         credential: Nonces \cup {NoNonce},
         tries: 0..Attempts, logins: Nat, ok: BOOLEAN]

IdleTask == [at |-> "idle", nonce |-> NoNonce, credential |-> NoNonce,
             tries |-> 0, logins |-> 0, ok |-> FALSE]

\* Well typed, and the button is never offered to a signed-in user.
PageOK ==
    /\ gis \in {"loading", "ready", "failed"}
    /\ active \in Nonces \cup {NoNonce}
    /\ google \in Nonces \cup {NoNonce}
    /\ enabled \in BOOLEAN /\ isAuthenticated \in BOOLEAN
    /\ task \in [Tasks -> Task]
    /\ excused \in BOOLEAN
    /\ isAuthenticated => ~enabled

\* A fetch is about to be made, for the first time.
Begin(label) == [IdleTask EXCEPT !.at = label]

\* The load handler calls prepareGoogleSignIn and refreshSession.
SignInInit ==
    /\ Init
    /\ gis = "loading"
    /\ active = NoNonce /\ google = NoNonce
    /\ enabled = FALSE /\ isAuthenticated = FALSE
    /\ \E p, h \in Tasks :
          /\ p # h
          /\ task = [t \in Tasks |-> IF t = p THEN Begin("gis")
                                     ELSE IF t = h THEN Begin("refreshing")
                                     ELSE IdleTask]
    /\ excused = FALSE

-----------------------------------------------------------------------------

At(t, label) == task[t].at = label

Set(t, record) == task' = [task EXCEPT ![t] = record]

\* prepareGoogleSignIn disables the button and waits for Google's script.
Prepare(t) ==
    /\ enabled' = FALSE
    /\ Set(t, Begin("gis"))

\* Slip: the catch block forgets the nonce and leaves the button as it is.
PrepareFailsQuietly(t) ==
    /\ active' = NoNonce
    /\ excused' = TRUE
    /\ Set(t, IdleTask)
    /\ UNCHANGED enabled

\* Its catch block.
PrepareFails(t) ==
    /\ active' = NoNonce
    /\ enabled' = FALSE
    /\ excused' = TRUE
    /\ Set(t, IdleTask)

GoogleReady ==
    /\ gis = "loading"
    /\ gis' \in {"ready", "failed"}
    /\ UNCHANGED <<vars, active, google, enabled, isAuthenticated, task, excused>>

AwaitGoogle(t) ==
    /\ At(t, "gis")
    /\ \/ /\ gis = "ready"
          /\ Set(t, Begin("asking"))
          /\ UNCHANGED <<active, enabled, excused>>
       \/ gis = "failed" /\ PrepareFails(t)
    /\ UNCHANGED <<vars, gis, google, isAuthenticated>>

\* POST /auth/nonce is served.
ServeNonce(t, n) ==
    /\ At(t, "asking")
    /\ Issue(n)
    /\ Set(t, [task[t] EXCEPT !.at = "given", !.nonce = n])
    /\ UNCHANGED <<gis, active, google, enabled, isAuthenticated, excused>>

\* Slip: isAuthenticated is not looked at when the nonce arrives.
NonceArrivesAnyway(t) ==
    /\ At(t, "given")
    /\ active' = task[t].nonce /\ google' = task[t].nonce
    /\ enabled' = TRUE
    /\ excused' = FALSE
    /\ Set(t, IdleTask)
    /\ UNCHANGED <<vars, gis, isAuthenticated>>

\* Its response arrives.
NonceArrives(t) ==
    /\ At(t, "given")
    /\ active' = task[t].nonce /\ google' = task[t].nonce
    /\ enabled' = ~isAuthenticated
    /\ excused' = FALSE
    /\ Set(t, IdleTask)
    /\ UNCHANGED <<vars, gis, isAuthenticated>>

\* It does not, or the service answers 500: repeat, or give up.
NonceLost(t) ==
    /\ task[t].at \in {"asking", "given"}
    /\ \/ /\ task[t].tries + 1 < Attempts
          /\ Set(t, [Begin("asking") EXCEPT !.tries = task[t].tries + 1])
          /\ UNCHANGED <<active, enabled, excused>>
       \/ PrepareFails(t)
    /\ UNCHANGED <<vars, gis, google, isAuthenticated>>

\* The user clicks and signs in to Google, which takes a while.
Click(t) ==
    /\ At(t, "idle") /\ enabled
    /\ Set(t, [Begin("popup") EXCEPT !.credential = google])
    /\ UNCHANGED <<vars, gis, active, google, enabled, isAuthenticated, excused>>

\* handleGoogleCredential.  The nonce it sends is the active one, which may
\* no longer be that of the credential; if there is none, or no credential, a
\* new attempt is prepared.
HandleCredential(t) ==
    /\ At(t, "popup")
    /\ \/ /\ active # NoNonce
          /\ Set(t, [task[t] EXCEPT !.at = "posting", !.nonce = active])
          /\ UNCHANGED <<active, enabled>>
       \/ /\ active' = NoNonce
          /\ Prepare(t)
    /\ UNCHANGED <<vars, gis, google, isAuthenticated, excused>>

\* POST /auth/google is served: the nonce is consumed, and what follows may
\* still fail.
ServeLogin(t) ==
    /\ At(t, "posting")
    /\ Consume(task[t].nonce)
    /\ \E ok \in BOOLEAN :
          /\ ok => Verdict(task[t].nonce) = "ok"
                   /\ task[t].nonce = task[t].credential
          /\ Set(t, [task[t] EXCEPT !.at = "posted", !.ok = ok,
                         !.logins = IF ok THEN task[t].logins + 1
                                    ELSE task[t].logins])
    /\ UNCHANGED <<gis, active, google, enabled, isAuthenticated, excused>>

\* Slip: a refused exchange is shown to the user and left at that.
LoginAnsweredShown(t) ==
    /\ At(t, "posted")
    /\ active' = NoNonce
    /\ enabled' = FALSE
    /\ \/ task[t].ok /\ Set(t, Begin("refreshing"))
       \/ ~task[t].ok /\ Set(t, IdleTask)
    /\ UNCHANGED <<vars, gis, google, isAuthenticated, excused>>

\* A success reloads the session, a refusal starts over.
LoginAnswered(t) ==
    /\ At(t, "posted")
    /\ active' = NoNonce
    /\ \/ task[t].ok /\ Set(t, Begin("refreshing")) /\ UNCHANGED enabled
       \/ ~task[t].ok /\ Prepare(t)
    /\ UNCHANGED <<vars, gis, google, isAuthenticated, excused>>

\* The request or its response is lost: the same body once more, or start over.
LoginLost(t) ==
    /\ task[t].at \in {"posting", "posted"}
    /\ \/ /\ task[t].tries + 1 < Attempts
          /\ Set(t, [task[t] EXCEPT !.at = "posting", !.ok = FALSE,
                                    !.tries = task[t].tries + 1])
          /\ UNCHANGED <<active, enabled>>
       \/ /\ task[t].tries + 1 = Attempts
          /\ active' = NoNonce
          /\ Prepare(t)
    /\ UNCHANGED <<vars, gis, google, isAuthenticated, excused>>

\* refreshSession ends: initAuthClient calls onAuthenticated, or
\* onUnauthenticated, which prepares a sign-in.
RefreshEnds(t) ==
    /\ At(t, "refreshing")
    /\ \/ /\ isAuthenticated' = TRUE /\ enabled' = FALSE
          /\ Set(t, IdleTask)
       \/ /\ isAuthenticated' = FALSE
          /\ Prepare(t)
    /\ UNCHANGED <<vars, gis, active, google, excused>>

\* The user signs out: window.logout ends in onUnauthenticated.
SignOut(t) ==
    /\ At(t, "idle") /\ isAuthenticated
    /\ isAuthenticated' = FALSE
    /\ Prepare(t)
    /\ UNCHANGED <<vars, gis, active, google, excused>>

\* The button that calls /api/me, in the signed-in panel, is clicked.
CallApi(t) ==
    /\ At(t, "idle") /\ isAuthenticated
    /\ Set(t, Begin("calling"))
    /\ UNCHANGED <<vars, gis, active, google, enabled, isAuthenticated, excused>>

\* The call ends, whoever is signed in by then.  After a 401 the signed-out
\* panel is shown and no sign-in is prepared.
ApiAnswered(t) ==
    /\ At(t, "calling")
    /\ \/ /\ isAuthenticated' = FALSE /\ enabled' = FALSE
          /\ excused' = TRUE
       \/ UNCHANGED <<enabled, isAuthenticated, excused>>
    /\ Set(t, IdleTask)
    /\ UNCHANGED <<vars, gis, active, google>>

\* Events of the page header that start a chain: an error, or that the user is
\* signed in or out.
HeaderEvent(t) ==
    /\ At(t, "idle")
    /\ \/ Prepare(t) /\ UNCHANGED isAuthenticated
       \/ Set(t, Begin("refreshing")) /\ UNCHANGED <<enabled, isAuthenticated>>
       \/ Prepare(t) /\ isAuthenticated' = FALSE
    /\ UNCHANGED <<vars, gis, active, google, excused>>

\* The event that the user is signed in brings the profile along.
HeaderProfile ==
    /\ isAuthenticated' = TRUE /\ enabled' = FALSE
    /\ UNCHANGED <<vars, gis, active, google, task, excused>>

PageNext ==
    \/ GoogleReady \/ HeaderProfile
    \/ \E t \in Tasks :
          \/ AwaitGoogle(t)
          \/ \E n \in Nonces : ServeNonce(t, n)
          \/ NonceArrives(t) \/ NonceLost(t) \/ Click(t) \/ HandleCredential(t)
          \/ ServeLogin(t) \/ LoginAnswered(t) \/ LoginLost(t)
          \/ RefreshEnds(t) \/ SignOut(t) \/ HeaderEvent(t)
          \/ CallApi(t) \/ ApiAnswered(t)

\* Next is what other clients and restarts do to the store.
SignInNext == PageNext \/ (UNCHANGED page /\ Next)

SignInSpec == SignInInit /\ [][SignInNext]_signInVars

-----------------------------------------------------------------------------

\* However often fetchWithRetry repeats a login, whose response may be lost
\* after the service has acted on it, its attempts log in once.
RetryLogsInOnce == \A t \in Tasks : task[t].logins <= 1

\* A user who can click is about to use a nonce the page will send: preparations
\* that overlap each other, logins and failures never leave Google's script
\* and activeNonceToken with two different nonces behind an enabled button.  A
\* page that has just logged in has none, until the session is loaded.
ReadyMeansMatching ==
    enabled => \/ active # NoNonce /\ google = active
               \/ active = NoNonce /\ \E t \in Tasks : At(t, "refreshing")

\* The page never comes to rest signed out with its button disabled, unless the
\* preparation that ended last failed, or /api/me was answered 401: refused and
\* lost logins, reloads that fail and sign-outs prepare again, whatever overlaps.
NeverStuck ==
    ((\A t \in Tasks : At(t, "idle")) /\ ~excused) => enabled \/ isAuthenticated
=============================================================================
