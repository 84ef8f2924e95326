------------------------------- MODULE Server -------------------------------
(* One run of the process: runServer of cmd/server/main.go, its goroutine    *)
(* that waits for SIGINT or SIGTERM, and logins in flight, as far as they    *)
(* read what the process provides and takes back: the package variables of   *)
(* internal/authkit/routes.go and the cached validator behind its lock.      *)
(* The package variables are read and written without a lock, so a handler   *)
(* that reads one twice may see two values.                                  *)
EXTENDS Naturals

CONSTANTS Requests,  \* slots: how many logins are in flight at most
          NoRequest, None

ASSUME ServerAssumption ==
    NoRequest \notin Requests /\ None \notin {"injected", "built"}

VARIABLES main,       \* where runServer stands
          watcher,    \* where the signal goroutine stands
          listening,  \* connections are accepted
          connected,  \* clients may have connections open
          inShutdown, \* Shutdown has been called
          listenErr,  \* serveHTTP returned an error other than ErrServerClosed
          grace,      \* the 10 seconds of graceCtx
          configured, \* configuredGoogleValidator
          metrics,    \* configuredMetrics is not nil
          logger,     \* configuredLogger is not nil
          cache,      \* validatorCache.value
          writer,     \* the handler inside validatorCache.Lock
          req,        \* req[r]: the login in slot r
          builds      \* history: validators built by handlers

processVars == <<main, watcher, listening, connected, inShutdown, listenErr, grace>>
providedVars == <<configured, metrics, logger>>
cacheVars == <<cache, writer, builds>>
vars == <<processVars, providedVars, cacheVars, req>>

Startup == {"config", "open", "validator", "provide", "spawn", "listen"}
Deferred == {"cancel", "metrics", "logger", "unprovide", "reset",
             "sync"}
Ended == {"exited", "died"}

\* runServer gave nil for the validator of the process, a handler built one.
Validators == {None, "injected", "built"}

Labels == {"idle", "check", "use", "rlock", "lock", "build", "validate",
           "metric", "increment", "log", "warn", "answered", "killed"}
Statuses == {0, 200, 401, 500}
Fates == {"open", "accepted", "rejected", "unbuilt"}

\* status is what has been written to the response, 0 until then.
Login == [at: Labels, got: Validators, status: Statuses, fate: Fates,
          panicked: BOOLEAN]

NoLogin == [at |-> "idle", got |-> None, status |-> 0, fate |-> "open",
            panicked |-> FALSE]

\* The lock has the owner that is inside it, and the cache is filled by
\* handlers alone, once the validator of the process is gone.
ServerOK ==
    /\ main \in Startup \cup {"accepting"} \cup Deferred \cup Ended
    /\ watcher \in {"unborn", "spawned", "waiting", "caught", "draining",
                    "returned"}
    /\ listening \in BOOLEAN /\ connected \in BOOLEAN
    /\ inShutdown \in BOOLEAN /\ listenErr \in BOOLEAN
    /\ grace \in {"unset", "running", "elapsed"}
    /\ configured \in {None, "injected"}
    /\ metrics \in BOOLEAN /\ logger \in BOOLEAN
    /\ cache \in {None, "built"} /\ builds \in Nat
    /\ req \in [Requests -> Login]
    /\ writer \in Requests \cup {NoRequest}
    /\ \A r \in Requests : req[r].at = "build" <=> writer = r
    /\ cache # None => configured = None /\ builds > 0

Init ==
    /\ main = "config" /\ watcher = "unborn"
    /\ listening = FALSE /\ connected = FALSE
    /\ inShutdown = FALSE /\ listenErr = FALSE /\ grace = "unset"
    /\ configured = None /\ metrics = FALSE /\ logger = FALSE
    /\ cache = None /\ writer = NoRequest /\ builds = 0
    /\ req = [r \in Requests |-> NoLogin]

-----------------------------------------------------------------------------
(* The end of the process, and what it does to logins in flight.             *)

Killed == [r \in Requests |->
              IF req[r].at = "idle" THEN NoLogin
              ELSE [req[r] EXCEPT !.at = "killed"]]

\* The process is gone, with the lock and whoever held it.
End(how) ==
    /\ main' = how
    /\ req' = Killed
    /\ writer' = NoRequest
    /\ listening' = FALSE /\ connected' = FALSE
    /\ UNCHANGED <<watcher, inShutdown, listenErr, grace, providedVars, cache,
                   builds>>

-----------------------------------------------------------------------------
(* runServer.                                                                *)

\* main goes on to the next label; nothing else changes.
Goto(label) ==
    /\ main' = label
    /\ UNCHANGED <<watcher, listening, connected, inShutdown, listenErr, grace,
                   cacheVars, req>>

\* PreRunE loads the configuration or refuses it.
LoadServerConfig ==
    /\ main = "config"
    /\ \/ Goto("open") /\ UNCHANGED providedVars
       \/ End("exited")

\* The CORS rules and the refresh store: an error of either ends the run with
\* nothing provided and nothing to take back.
OpenStores ==
    /\ main = "open"
    /\ \/ Goto("validator") /\ UNCHANGED providedVars
       \/ End("exited")

BuildGoogleTokenValidator ==
    /\ main = "validator"
    /\ \/ Goto("provide") /\ UNCHANGED providedVars
       \/ End("exited")

\* Slip: the validator was built to fail early and is not provided.
ProvideAllButValidator ==
    /\ main = "provide"
    /\ metrics' = TRUE /\ logger' = TRUE
    /\ UNCHANGED configured
    /\ Goto("spawn")

\* The four Provide calls and MountAuthRoutes, before anybody is served.
Provide ==
    /\ main = "provide"
    /\ configured' = "injected" /\ metrics' = TRUE /\ logger' = TRUE
    /\ Goto("spawn")

SpawnWatcher ==
    /\ main = "spawn"
    /\ main' = "listen"
    /\ watcher' = "spawned"
    /\ UNCHANGED <<listening, connected, inShutdown, listenErr, grace,
                   providedVars, cacheVars, req>>

Accepting ==
    /\ ~inShutdown
    /\ main' = "accepting" /\ listening' = TRUE /\ connected' = TRUE
    /\ UNCHANGED <<watcher, inShutdown, listenErr, grace, providedVars, cacheVars,
                   req>>

\* serveHTTP comes back with an error: "listen error".
ServeError ==
    /\ main' = "cancel" /\ listening' = FALSE /\ listenErr' = TRUE
    /\ UNCHANGED <<watcher, connected, inShutdown, grace, providedVars, cacheVars,
                   req>>

\* Slip: an address in use ends the process on the spot, as log.Fatal would.
ListenOrDie ==
    /\ main = "listen"
    /\ \/ Accepting
       \/ inShutdown /\ Goto("cancel") /\ UNCHANGED providedVars
       \/ End("exited")

\* serveHTTP listens; it returns at once with ErrServerClosed when Shutdown
\* came first, and with an error when the address is taken.
Listen ==
    /\ main = "listen"
    /\ \/ Accepting
       \/ inShutdown /\ Goto("cancel") /\ UNCHANGED providedVars
       \/ ServeError

\* It returns ErrServerClosed as soon as Shutdown has closed the listener, and
\* does not wait for Shutdown to return.
ServeReturns ==
    /\ main = "accepting" /\ inShutdown
    /\ Goto("cancel")
    /\ UNCHANGED providedVars

\* Accept fails for good: serveHTTP returns with nobody having asked for it,
\* and leaves the connections it has accepted as they are.
ServeFails ==
    /\ main = "accepting" /\ listening
    /\ ServeError

\* The deferred calls, last one first: shutdownCancel,
CancelGrace ==
    /\ main = "cancel"
    /\ Goto("metrics")
    /\ UNCHANGED providedVars

\* ProvideMetrics(nil),
DropMetrics ==
    /\ main = "metrics"
    /\ metrics' = FALSE
    /\ Goto("logger")
    /\ UNCHANGED <<configured, logger>>

\* ProvideLogger(nil), and ProvideClock(nil), which no handler reads again,
DropLogger ==
    /\ main = "logger"
    /\ logger' = FALSE
    /\ Goto("unprovide")
    /\ UNCHANGED <<configured, metrics>>

\* ProvideGoogleTokenValidator(nil): the variable,
DropValidator ==
    /\ main = "unprovide"
    /\ configured' = None
    /\ Goto("reset")
    /\ UNCHANGED <<metrics, logger>>

\* and the cache, for which it waits until no handler is inside the lock.
ResetCache ==
    /\ main = "reset"
    /\ writer = NoRequest
    /\ main' = "sync"
    /\ cache' = None
    /\ UNCHANGED <<watcher, listening, connected, inShutdown, listenErr, grace,
                   providedVars, writer, builds, req>>

\* logger.Sync; runServer returns, and the process ends with it.
Return ==
    /\ main = "sync"
    /\ End("exited")

Main ==
    \/ LoadServerConfig \/ OpenStores \/ BuildGoogleTokenValidator
    \/ Provide \/ SpawnWatcher \/ Listen \/ ServeReturns
    \/ CancelGrace \/ DropMetrics \/ DropLogger \/ DropValidator
    \/ ResetCache \/ Return

-----------------------------------------------------------------------------
(* The signal goroutine.                                                     *)

Running == main \notin Ended

WatcherGoes(label) ==
    /\ Running
    /\ watcher' = label
    /\ UNCHANGED <<main, listenErr, providedVars, cacheVars, req>>

Notify ==
    /\ watcher = "spawned"
    /\ WatcherGoes("waiting")
    /\ UNCHANGED <<listening, connected, inShutdown, grace>>

Drained == \A r \in Requests : req[r].at = "idle"

\* Slip: the logins in flight are waited for before the listener is closed.
DrainFirst ==
    /\ watcher = "caught" /\ Drained
    /\ WatcherGoes("draining")
    /\ inShutdown' = TRUE /\ listening' = FALSE /\ grace' = "running"
    /\ UNCHANGED connected

\* server.Shutdown closes the listener first.
ShutdownBegins ==
    /\ watcher = "caught"
    /\ WatcherGoes("draining")
    /\ inShutdown' = TRUE /\ listening' = FALSE /\ grace' = "running"
    /\ UNCHANGED connected

\* It returns when no connection is active, having closed them all, or when
\* graceCtx is done: 10 seconds are over, or runServer has returned from serving
\* and cancelled it.
ShutdownReturns ==
    /\ watcher = "draining"
    /\ WatcherGoes("returned")
    /\ \/ Drained /\ connected' = FALSE
       \/ /\ grace = "elapsed" \/ main \in Deferred \ {"cancel"}
          /\ UNCHANGED connected
    /\ UNCHANGED <<listening, inShutdown, grace>>

Watcher == Notify \/ ShutdownBegins \/ ShutdownReturns

\* SIGINT or SIGTERM.  Before signal.Notify the runtime ends the process; once
\* one was caught, the next ones fill a channel nobody reads.
Signal ==
    /\ Running
    /\ \/ /\ watcher \in {"unborn", "spawned"}
          /\ End("died")
       \/ /\ watcher = "waiting"
          /\ WatcherGoes("caught")
          /\ UNCHANGED <<listening, connected, inShutdown, grace>>

\* 10 seconds after Shutdown began.
GraceElapses ==
    /\ Running
    /\ grace = "running"
    /\ grace' = "elapsed"
    /\ UNCHANGED <<main, watcher, listening, connected, inShutdown, listenErr,
                   providedVars, cacheVars, req>>

-----------------------------------------------------------------------------
(* POST /auth/google, from the look-up of the validator to the answer.       *)

At(r, label) == Running /\ req[r].at = label

Step(r, slot) ==
    /\ req' = [req EXCEPT ![r] = slot]
    /\ UNCHANGED <<processVars, providedVars>>

Go(r, label) == Step(r, [req[r] EXCEPT !.at = label])

\* gin.Recovery: 500, unless the response has been written already.
Panic(r) ==
    Step(r, [req[r] EXCEPT !.at = "answered", !.panicked = TRUE,
                 !.status = IF req[r].status = 0 THEN 500 ELSE req[r].status])

\* A login arrives, on a new connection or on one that was kept open.
Accept(r) ==
    /\ At(r, "idle") /\ connected
    /\ Go(r, "check")
    /\ UNCHANGED cacheVars

\* resolveGoogleValidator: the provided validator, which is read twice,
CheckConfigured(r) ==
    /\ At(r, "check")
    /\ Go(r, IF configured # None THEN "use" ELSE "rlock")
    /\ UNCHANGED cacheVars

UseConfigured(r) ==
    /\ At(r, "use")
    /\ \E got \in {"injected", configured} :
          Step(r, [req[r] EXCEPT !.at = "validate", !.got = got])
    /\ UNCHANGED cacheVars

\* or the cached one, read under RLock,
ReadCache(r) ==
    /\ At(r, "rlock") /\ writer = NoRequest
    /\ IF cache # None
       THEN Step(r, [req[r] EXCEPT !.at = "validate", !.got = cache])
       ELSE Go(r, "lock")
    /\ UNCHANGED cacheVars

\* Slip: the cache is not looked at again under the lock.
LockUnchecked(r) ==
    /\ At(r, "lock") /\ writer = NoRequest
    /\ Go(r, "build") /\ writer' = r
    /\ UNCHANGED <<cache, builds>>

\* and once more under Lock,
Lock(r) ==
    /\ At(r, "lock") /\ writer = NoRequest
    /\ \/ /\ cache # None
          /\ Step(r, [req[r] EXCEPT !.at = "validate", !.got = cache])
          /\ UNCHANGED writer
       \/ /\ cache = None
          /\ Go(r, "build") /\ writer' = r
    /\ UNCHANGED <<cache, builds>>

\* Slip: Unlock is not deferred, and the error path forgets it.
BuildKeepsLock(r) ==
    /\ At(r, "build")
    /\ \/ /\ Step(r, [req[r] EXCEPT !.at = "validate", !.got = "built"])
          /\ cache' = "built" /\ builds' = builds + 1
          /\ writer' = NoRequest
       \/ /\ Step(r, [req[r] EXCEPT !.at = "metric", !.fate = "unbuilt"])
          /\ UNCHANGED <<cache, builds, writer>>

\* or a new one, built inside the lock; building may fail.
Build(r) ==
    /\ At(r, "build")
    /\ writer' = NoRequest
    /\ \/ /\ Step(r, [req[r] EXCEPT !.at = "validate", !.got = "built"])
          /\ cache' = "built" /\ builds' = builds + 1
       \/ /\ Step(r, [req[r] EXCEPT !.at = "metric", !.fate = "unbuilt"])
          /\ UNCHANGED <<cache, builds>>

\* Slip: the success is counted before it is answered.
ValidateLate(r) ==
    /\ At(r, "validate")
    /\ \/ req[r].got = None /\ Panic(r)
       \/ /\ req[r].got # None
          /\ \E fate \in {"accepted", "rejected"} :
                Step(r, [req[r] EXCEPT !.at = "metric", !.fate = fate])
    /\ UNCHANGED cacheVars

\* The rest of the login up to the first recordMetric: a success writes its
\* response before that, a failure after.
Validate(r) ==
    /\ At(r, "validate")
    /\ \/ req[r].got = None /\ Panic(r)
       \/ /\ req[r].got # None
          /\ \/ Step(r, [req[r] EXCEPT !.at = "metric", !.fate = "accepted",
                                       !.status = 200])
             \/ Step(r, [req[r] EXCEPT !.at = "metric", !.fate = "rejected"])
    /\ UNCHANGED cacheVars

\* What follows recordMetric: nothing for a success, whose 200 stands, and the
\* log for a failure.
Counted(r) ==
    IF req[r].fate = "accepted" THEN Step(r, [req[r] EXCEPT !.at = "answered",
                                                            !.status = 200])
                                ELSE Go(r, "log")

\* What follows logAuthWarning or logAuthError: the answer of a failure.
Logged(r) ==
    Step(r, [req[r] EXCEPT !.at = "answered",
                 !.status = IF req[r].fate = "unbuilt" THEN 500 ELSE 401])

\* recordMetric: a nil check, and a second read that may find nil.
RecordMetric(r) ==
    /\ \/ At(r, "metric") /\ metrics /\ Go(r, "increment")
       \/ At(r, "metric") /\ ~metrics /\ Counted(r)
       \/ At(r, "increment") /\ Counted(r)
       \/ At(r, "increment") /\ ~metrics /\ Panic(r)
    /\ UNCHANGED cacheVars

\* logAuthWarning and logAuthError, likewise.
LogWarning(r) ==
    /\ \/ At(r, "log") /\ logger /\ Go(r, "warn")
       \/ At(r, "log") /\ ~logger /\ Logged(r)
       \/ At(r, "warn") /\ Logged(r)
       \/ At(r, "warn") /\ ~logger /\ Panic(r)
    /\ UNCHANGED cacheVars

Respond(r) ==
    /\ At(r, "answered")
    /\ Step(r, NoLogin)
    /\ UNCHANGED cacheVars

Handler(r) ==
    \/ CheckConfigured(r) \/ UseConfigured(r) \/ ReadCache(r) \/ Lock(r)
    \/ Build(r) \/ Validate(r) \/ RecordMetric(r) \/ LogWarning(r)

Next ==
    \/ Main \/ ServeFails \/ Watcher \/ Signal \/ GraceElapses
    \/ \E r \in Requests : Accept(r) \/ Handler(r) \/ Respond(r)

\* The scheduler runs every goroutine, the build of a validator ends, and a
\* sync.RWMutex lets no stream of later callers pass by the one that waits to
\* lock it, so the reset gets its turn.  Nothing makes clients connect, an
\* operator send a signal, the listener fail, or a response get out.
Spec == /\ Init /\ [][Next]_vars
        /\ WF_vars(Main) /\ SF_vars(ResetCache) /\ WF_vars(Watcher)
        /\ \A r \in Requests : WF_vars(Handler(r))

-----------------------------------------------------------------------------

\* Until serveHTTP returns, and it returns only once a shutdown was asked for
\* or the listener failed, every login uses the validator runServer built, finds
\* metrics and logger in place, and none panics.
ServedWithAllProvided ==
    main = "accepting" \/ ~(inShutdown \/ listenErr) =>
        \A r \in Requests :
            /\ req[r].at \notin {"rlock", "lock", "build"}
            /\ req[r].got \in {None, "injected"}
            /\ ~req[r].panicked

\* Logins in flight that find the validator taken back build at most one
\* between them, and at most one more once the cache has been reset.
OneBuildPerReset ==
    builds <= IF main \in {"sync"} \cup Ended THEN 2 ELSE 1

\* Whatever runServer takes from under it on its way out, after a signal or a
\* failure of the listener, a login that was accepted, whose tokens are stored,
\* is not answered with a failure.
AcceptedLoginIsAnswered ==
    \A r \in Requests :
        (req[r].at = "answered" /\ req[r].fate = "accepted") =>
            req[r].status = 200

\* A run that came to serving leaves nothing behind in the package variables,
\* whichever way it ended, so that the next run in one process (the tests make
\* several) starts from nothing.
NothingLeftProvided ==
    main = "exited" => configured = None /\ ~metrics /\ ~logger

\* One caught signal ends the process, and so does a listener that failed:
\* Shutdown, the lock of the validator cache, logins that never finish and logins
\* that keep coming on open connections do not hold it up.  ISSUES.md:66 (TA-332,
\* open) says otherwise: "Currently Ctrl-C in the docker container leaves the app
\* in non-exited state and requires a second ctrl-C".  By this code a second one
\* is neither needed nor read.
SignalEndsProcess == (watcher = "caught" \/ listenErr) ~> (main \in Ended)

\* ARCHITECTURE.md: "Graceful shutdown listens for SIGINT/SIGTERM, allowing 10s
\* for in-flight requests."  Unless the listener failed, a request in flight is
\* cut off only after that.
GraceForInFlight ==
    (/\ main = "exited" /\ ~listenErr
     /\ \E r \in Requests : req[r].at = "killed") =>
        grace = "elapsed"
=============================================================================
