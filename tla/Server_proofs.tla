---------------------------- MODULE Server_proofs ----------------------------
(* TLAPS proofs about Server, for any number of logins in flight: its type,  *)
(* what logins may find while the process takes back what it provided, how   *)
(* often a validator is built, and that a run leaves nothing provided.       *)
EXTENDS Server, TLAPS

Provided == configured = "injected" /\ metrics /\ logger
NothingProvided == configured = None /\ ~metrics /\ ~logger

\* A shutdown was asked for, or the listener failed.
Closing == inShutdown \/ listenErr

\* What is provided follows from where runServer stands, and runServer takes it
\* back only when it has a reason to.
MainInv ==
    /\ main \in {"config", "open", "validator", "provide", "reset", "sync",
                 "exited"} => NothingProvided
    /\ main \in {"spawn", "listen", "accepting", "cancel", "metrics"} => Provided
    /\ main = "logger" => configured = "injected" /\ ~metrics
    /\ main = "unprovide" => configured = "injected" /\ ~metrics /\ ~logger
    /\ listening => main = "accepting" /\ ~inShutdown
    /\ main = "accepting" /\ ~listening => inShutdown
    /\ main \in Startup => ~connected
    /\ main \in Startup \cup {"accepting"} => ~listenErr
    /\ main \in Deferred => Closing

\* serveHTTP has not returned, or has no reason to.
Serving == main = "accepting" \/ ~Closing

\* The validator of the process is gone, and the process is not.
Unprovided == main \in {"reset", "sync"}

\* Each filling of the cache is one build, and it is reset once.
CacheInv ==
    /\ main \notin {"reset", "sync", "exited", "died"} => cache = None
    /\ writer # NoRequest => cache = None
    /\ cache = None => builds <= IF main \in {"sync"} \cup Ended THEN 1 ELSE 0
    /\ cache # None => builds <= IF main \in {"sync"} \cup Ended THEN 2 ELSE 1

\* A login in flight: when it can be there, and what it has found so far.
SlotOK(l) ==
    /\ l.at = "idle" => l = NoLogin
    /\ main \in Startup => l = NoLogin
    /\ l.at \in {"rlock", "lock", "build"} => Unprovided
    /\ l.at \in {"check", "use", "rlock", "lock", "build", "validate"} =>
           l.fate = "open"
    /\ l.at \in {"log", "warn"} => l.fate # "accepted"
    /\ l.fate = "accepted" => l.status = 200
    /\ Serving => /\ l.got \in {None, "injected"} /\ ~l.panicked
                  /\ l.at = "validate" => l.got = "injected"

SlotsOK == \A r \in Requests : SlotOK(req[r])

IInv == ServerOK /\ MainInv /\ CacheInv /\ SlotsOK

-----------------------------------------------------------------------------

LEMMA NoLoginType ==
    /\ NoLogin \in Login
    /\ NoLogin.at = "idle" /\ NoLogin.fate = "open" /\ NoLogin.status = 0
    /\ NoLogin.got = None /\ ~NoLogin.panicked
  BY DEF NoLogin, Login, Validators, Labels, Statuses, Fates

\* The values the steps of a login set.
LEMMA Values ==
    /\ {"idle", "check", "use", "rlock", "lock", "build", "validate", "metric",
        "increment", "log", "warn", "answered", "killed"} \subseteq Labels
    /\ {0, 200, 401, 500} \subseteq Statuses
    /\ {"open", "accepted", "rejected", "unbuilt"} \subseteq Fates
    /\ {"injected", "built", None} \subseteq Validators
  BY DEF Labels, Statuses, Fates, Validators

LEMMA Initially == Init => IInv
  <1> SUFFICES ASSUME Init PROVE IInv
    OBVIOUS
  <1> USE ServerAssumption DEF Init
  <1>1. ServerOK
    BY NoLoginType DEF ServerOK, Startup
  <1>2. MainInv /\ CacheInv
    BY DEF MainInv, CacheInv, NothingProvided, Startup, Deferred, Ended
  <1>3. SlotsOK
    BY NoLoginType DEF SlotsOK, SlotOK
  <1>4. QED
    BY <1>1, <1>2, <1>3 DEF IInv

\* A field of a login set, the others kept.
LEMMA AtSet ==
    ASSUME NEW l \in Login, NEW label
    PROVE  LET new == [l EXCEPT !.at = label]
           IN  /\ new.at = label /\ new.got = l.got /\ new.status = l.status
               /\ new.fate = l.fate /\ new.panicked = l.panicked
  BY DEF Login

-----------------------------------------------------------------------------
(* The end of the process.                                                   *)

LEMMA EndKeeps ==
    ASSUME IInv, NEW how \in Ended, End(how),
           how = "exited" => NothingProvided
    PROVE  IInv'
  <1> USE ServerAssumption DEF IInv
  <1>1. /\ main' = how /\ writer' = NoRequest
        /\ listening' = FALSE /\ connected' = FALSE
        /\ UNCHANGED <<watcher, inShutdown, listenErr, grace, configured, metrics, logger,
                       cache, builds>>
        /\ req' = [r \in Requests |->
                     IF req[r].at = "idle" THEN NoLogin
                     ELSE [req[r] EXCEPT !.at = "killed"]]
    BY DEF End, Killed, providedVars
  <1>2. ASSUME NEW r \in Requests
        PROVE  /\ req'[r] \in Login /\ req'[r].at \in {"idle", "killed"}
               /\ req'[r].at = "idle" => req'[r] = NoLogin
               /\ \/ req'[r] = NoLogin
                  \/ /\ req'[r].got = req[r].got
                     /\ req'[r].status = req[r].status
                     /\ req'[r].fate = req[r].fate
                     /\ req'[r].panicked = req[r].panicked
    <2>1. PICK l \in Login : l = req[r]
      BY DEF ServerOK
    <2>2. CASE l.at = "idle"
      <3>1. req'[r] = NoLogin
        BY <1>1, <2>1, <2>2
      <3>2. NoLogin \in Login /\ NoLogin.at = "idle"
        BY NoLoginType
      <3>3. QED
        BY <3>1, <3>2
    <2>3. CASE l.at # "idle"
      <3>1. req'[r] = [l EXCEPT !.at = "killed"]
        BY <1>1, <2>1, <2>3
      <3>2. [l EXCEPT !.at = "killed"] \in Login
        BY Values DEF Login
      <3>3. QED
        BY <2>1, <3>1, <3>2, AtSet
    <2>4. QED
      BY <2>2, <2>3
  <1>3. ServerOK'
    <2>1. req' \in [Requests -> Login]
      BY <1>1, <1>2
    <2>2. QED
      BY <1>1, <1>2, <2>1 DEF ServerOK, Ended
  <1>4. MainInv' /\ CacheInv'
    BY <1>1 DEF MainInv, CacheInv, ServerOK, Startup, Deferred, Ended,
                NothingProvided, Provided
  <1>5. SlotsOK'
    <2> SUFFICES ASSUME NEW r \in Requests
                 PROVE  SlotOK(req[r])'
      BY DEF SlotsOK
    <2>1. SlotOK(req[r])
      BY DEF SlotsOK
    <2>2. NoLogin.fate = "open" /\ NoLogin.got = None /\ ~NoLogin.panicked
      BY NoLoginType
    <2>3. QED
      BY <1>1, <1>2, <2>1, <2>2 DEF SlotOK, Serving, Closing, Ended, Startup
  <1>6. QED
    BY <1>3, <1>4, <1>5

-----------------------------------------------------------------------------
(* runServer and the signal goroutine.                                       *)

\* Steps that leave logins, cache and lock alone.
LEMMA ProcessKeeps ==
    ASSUME IInv, UNCHANGED <<cacheVars, req>>, MainInv',
           main' \in Startup \cup {"accepting"} \cup Deferred,
           watcher' \in {"unborn", "spawned", "waiting", "caught", "draining",
                         "returned"},
           inShutdown' \in BOOLEAN, listening' \in BOOLEAN,
           connected' \in BOOLEAN, listenErr' \in BOOLEAN,
           grace' \in {"unset", "running", "elapsed"},
           configured' \in {None, "injected"},
           metrics' \in BOOLEAN, logger' \in BOOLEAN,
           Closing => Closing',
           main \in Startup \/ main' \notin Startup,
           main' = "accepting" => main \in Startup \cup {"accepting"},
           main \notin Ended,
           main' = "sync" <=> main = "sync",
           Unprovided => Unprovided'
    PROVE  IInv'
  <1> USE DEF IInv
  <1>1. UNCHANGED <<cache, writer, builds, req>>
    BY DEF cacheVars
  <1>2. cache # None => configured' = None
    <2>1. cache # None => Unprovided
      BY DEF CacheInv, Unprovided, Ended
    <2>2. QED
      BY <2>1 DEF MainInv, Unprovided, NothingProvided
  <1>3. ServerOK'
    BY <1>1, <1>2 DEF ServerOK
  <1>4. CacheInv'
    BY <1>1 DEF CacheInv, Unprovided, Ended, Startup, Deferred
  <1>5. SlotsOK'
    <2> SUFFICES ASSUME NEW r \in Requests
                 PROVE  SlotOK(req[r])'
      BY DEF SlotsOK
    <2>1. SlotOK(req[r]) /\ req'[r] = req[r]
      BY <1>1 DEF SlotsOK
    <2>2. CASE main \in Startup
      BY <2>1, <2>2, NoLoginType DEF SlotOK
    <2>3. CASE main \notin Startup
      <3>1. Serving' => Serving
        BY <2>3 DEF Serving
      <3>2. QED
        BY <2>1, <2>3, <3>1 DEF SlotOK
    <2>4. QED
      BY <2>2, <2>3
  <1>6. QED
    BY <1>3, <1>4, <1>5

\* serveHTTP returns an error, from listening or from serving.
LEMMA ErrorKeeps ==
    ASSUME IInv, main \in {"listen", "accepting"}, ServeError
    PROVE  IInv'
  <1> USE DEF IInv
  <1>1. /\ main' = "cancel" /\ listening' = FALSE /\ listenErr' = TRUE
        /\ UNCHANGED <<watcher, connected, inShutdown, grace, configured,
                       metrics, logger, cacheVars, req>>
    BY DEF ServeError, providedVars
  <1>2. MainInv'
    BY <1>1 DEF MainInv, Provided, Closing, Startup, Deferred
  <1>3. /\ watcher \in {"unborn", "spawned", "waiting", "caught", "draining",
                        "returned"}
        /\ connected \in BOOLEAN /\ inShutdown \in BOOLEAN
        /\ grace \in {"unset", "running", "elapsed"}
        /\ configured \in {None, "injected"}
        /\ metrics \in BOOLEAN /\ logger \in BOOLEAN
    BY DEF ServerOK
  <1>4. listenErr' \in BOOLEAN /\ listening' \in BOOLEAN
    BY <1>1
  <1>5. Closing' /\ ~Unprovided
    BY <1>1 DEF Closing, Unprovided
  <1>6. QED
    BY <1>1, <1>2, <1>3, <1>4, <1>5, ProcessKeeps
       DEF Startup, Deferred, Ended

LEMMA MainStep == IInv /\ (Main \/ ServeFails) => IInv'
  <1> SUFFICES ASSUME IInv, Main \/ ServeFails PROVE IInv'
    OBVIOUS
  <1> USE DEF IInv
  <1>0. /\ main \in Startup \cup {"accepting"} \cup Deferred \cup Ended
        /\ watcher \in {"unborn", "spawned", "waiting", "caught", "draining",
                        "returned"}
        /\ listening \in BOOLEAN /\ inShutdown \in BOOLEAN
        /\ connected \in BOOLEAN /\ listenErr \in BOOLEAN
        /\ grace \in {"unset", "running", "elapsed"}
        /\ configured \in {None, "injected"}
        /\ metrics \in BOOLEAN /\ logger \in BOOLEAN
    BY DEF ServerOK
  <1> DEFINE Quiet(label) == /\ Goto(label) /\ UNCHANGED providedVars
  <1>1. ASSUME \/ main = "config" /\ Quiet("open")
               \/ main = "open" /\ Quiet("validator")
               \/ main = "validator" /\ Quiet("provide")
               \/ main = "listen" /\ inShutdown /\ Quiet("cancel")
               \/ main = "accepting" /\ inShutdown /\ Quiet("cancel")
               \/ main = "cancel" /\ Quiet("metrics")
        PROVE  IInv'
    <2>1. UNCHANGED <<watcher, listening, connected, inShutdown, listenErr, grace,
                      cacheVars, req, configured, metrics, logger>>
      BY <1>1 DEF Goto, providedVars
    <2>2. MainInv'
      BY <1>1, <2>1 DEF MainInv, Goto, Provided, NothingProvided, Closing,
                        Startup, Deferred
    <2>3. QED
      BY <1>0, <1>1, <2>1, <2>2, ProcessKeeps
         DEF Goto, MainInv, Startup, Deferred, Ended, Unprovided, Closing
  <1>2. ASSUME main \in {"config", "open", "validator", "sync"}, End("exited")
        PROVE  IInv'
    BY <1>2, EndKeeps DEF MainInv, Ended
  <1>3. CASE Provide
    <2>1. /\ UNCHANGED <<watcher, listening, connected, inShutdown, listenErr,
                         grace, cacheVars, req>>
          /\ main = "provide" /\ main' = "spawn" /\ Provided'
          /\ metrics' = TRUE /\ logger' = TRUE
      BY <1>3 DEF Provide, Goto, Provided
    <2>2. MainInv'
      BY <2>1 DEF MainInv, Startup, Deferred
    <2>3. QED
      BY <1>0, <2>1, <2>2, ProcessKeeps
         DEF Startup, Deferred, Ended, Unprovided, Provided, Closing
  <1>4. CASE SpawnWatcher
    <2>1. /\ UNCHANGED <<listening, connected, inShutdown, listenErr, grace,
                         cacheVars, req, configured, metrics, logger>>
          /\ main = "spawn" /\ main' = "listen" /\ watcher' = "spawned"
      BY <1>4 DEF SpawnWatcher, providedVars
    <2>2. MainInv'
      BY <2>1 DEF MainInv, Provided, Startup, Deferred
    <2>3. QED
      BY <1>0, <2>1, <2>2, ProcessKeeps
         DEF Startup, Deferred, Ended, Unprovided, Closing
  <1>5. ASSUME main = "listen", Accepting
        PROVE  IInv'
    <2>1. /\ ~inShutdown /\ main' = "accepting"
          /\ listening' = TRUE /\ connected' = TRUE
          /\ UNCHANGED <<watcher, inShutdown, listenErr, grace, configured,
                         metrics, logger, cacheVars, req>>
      BY <1>5 DEF Accepting, providedVars
    <2>2. MainInv'
      BY <1>5, <2>1 DEF MainInv, Provided, Startup, Deferred
    <2>3. QED
      BY <1>0, <1>5, <2>1, <2>2, ProcessKeeps
         DEF Startup, Deferred, Ended, Unprovided, Closing
  <1>6. CASE DropMetrics \/ DropLogger \/ DropValidator
    <2>1. /\ UNCHANGED <<watcher, listening, connected, inShutdown, listenErr,
                         grace, cacheVars, req>>
          /\ main \in {"metrics", "logger", "unprovide"}
          /\ main' \in {"logger", "unprovide", "reset"}
          /\ configured' \in {None, "injected"}
          /\ metrics' \in BOOLEAN /\ logger' \in BOOLEAN
      BY <1>0, <1>6 DEF DropMetrics, DropLogger, DropValidator, Goto
    <2>2. MainInv'
      BY <1>6, <2>1
         DEF MainInv, Provided, NothingProvided, DropMetrics, DropLogger,
             DropValidator, Goto, Closing, Startup, Deferred
    <2>3. QED
      BY <1>0, <2>1, <2>2, ProcessKeeps
         DEF Startup, Deferred, Ended, Unprovided, Closing
  <1>7. CASE ResetCache
    <2>1. /\ main = "reset" /\ main' = "sync" /\ cache' = None
          /\ UNCHANGED <<watcher, listening, connected, inShutdown, listenErr,
                         grace, configured, metrics, logger, writer, builds, req>>
      BY <1>7 DEF ResetCache, providedVars
    <2>2. ServerOK'
      BY <2>1 DEF ServerOK, Deferred
    <2>3. MainInv'
      BY <2>1 DEF MainInv, NothingProvided, Closing, Startup, Deferred
    <2>4. CacheInv'
      BY <2>1 DEF CacheInv, ServerOK, Ended
    <2>5. SlotsOK'
      BY <2>1 DEF SlotsOK, SlotOK, Unprovided, Serving, Closing, Startup
    <2>6. QED
      BY <2>2, <2>3, <2>4, <2>5
  <1>8. ASSUME main \in {"listen", "accepting"}, ServeError
        PROVE  IInv'
    BY <1>8, ErrorKeeps
  <1>9. QED
    BY <1>1, <1>2, <1>3, <1>4, <1>5, <1>6, <1>7, <1>8
       DEF Main, LoadServerConfig, OpenStores, BuildGoogleTokenValidator,
           Listen, ServeReturns, ServeFails, CancelGrace, Return

LEMMA WatcherStep == IInv /\ (Watcher \/ Signal \/ GraceElapses) => IInv'
  <1> SUFFICES ASSUME IInv, Watcher \/ Signal \/ GraceElapses PROVE IInv'
    OBVIOUS
  <1> USE DEF IInv
  <1>1. ASSUME End("died") PROVE IInv'
    BY <1>1, EndKeeps DEF Ended
  <1>2. ASSUME ~End("died") PROVE IInv'
    <2>1. /\ UNCHANGED <<main, listenErr, configured, metrics, logger,
                         cacheVars, req>>
          /\ main \notin Ended
      BY <1>2 DEF Watcher, Notify, ShutdownBegins, ShutdownReturns, Signal,
                  GraceElapses, WatcherGoes, Running, providedVars
    <2>2. /\ watcher' \in {"unborn", "spawned", "waiting", "caught", "draining",
                           "returned"}
          /\ grace' \in {"unset", "running", "elapsed"}
          /\ \/ UNCHANGED <<inShutdown, listening>>
             \/ inShutdown' = TRUE /\ listening' = FALSE
      BY <1>2 DEF Watcher, Notify, ShutdownBegins, ShutdownReturns, Signal,
                  GraceElapses, WatcherGoes, ServerOK
    <2>3. connected' \in BOOLEAN /\ (connected' => connected)
      <3>1. CASE ShutdownReturns
        <4>1. connected' = FALSE \/ connected' = connected
          BY <3>1 DEF ShutdownReturns
        <4>2. connected \in BOOLEAN
          BY DEF ServerOK
        <4>3. CASE connected' = FALSE
          BY <4>3
        <4>4. CASE connected' = connected
          BY <4>2, <4>4
        <4>5. QED
          BY <4>1, <4>3, <4>4, Zenon
      <3>2. CASE Notify \/ ShutdownBegins \/ Signal \/ GraceElapses
        <4>1. connected' = connected
          BY <1>2, <3>2 DEF Notify, ShutdownBegins, Signal, GraceElapses
        <4>2. QED
          BY <4>1 DEF ServerOK
      <3>3. QED
        BY <1>2, <3>1, <3>2 DEF Watcher
    <2>4. MainInv'
      <3>1. CASE UNCHANGED <<inShutdown, listening>>
        BY <2>1, <2>2, <2>3, <3>1 DEF MainInv, Provided, NothingProvided, Closing
      <3>2. CASE inShutdown' = TRUE /\ listening' = FALSE
        BY <2>1, <2>2, <2>3, <3>2 DEF MainInv, Provided, NothingProvided, Closing
      <3>3. QED
        BY <2>2, <3>1, <3>2
    <2>5. /\ inShutdown' \in BOOLEAN /\ listening' \in BOOLEAN
          /\ connected' \in BOOLEAN /\ listenErr' \in BOOLEAN
          /\ main \in Startup \cup {"accepting"} \cup Deferred
          /\ configured \in {None, "injected"}
          /\ metrics \in BOOLEAN /\ logger \in BOOLEAN
      BY <2>1, <2>2, <2>3 DEF ServerOK
    <2>6. (Closing => Closing') /\ (Unprovided => Unprovided')
      BY <2>1, <2>2 DEF Closing, Unprovided
    <2>7. QED
      BY <2>1, <2>2, <2>4, <2>5, <2>6, ProcessKeeps
  <1>3. QED
    BY <1>1, <1>2

-----------------------------------------------------------------------------
(* Logins.                                                                   *)

\* A step of a login outside the lock.
LEMMA SlotMoves ==
    ASSUME IInv, NEW r \in Requests, NEW new \in Login, Step(r, new),
           UNCHANGED cacheVars, SlotOK(new),
           new.at # "build", req[r].at # "build"
    PROVE  IInv'
  <1> USE DEF IInv
  <1>1. /\ UNCHANGED <<main, watcher, listening, connected, inShutdown, listenErr,
                       grace, configured, metrics, logger, cache, writer,
                       builds>>
        /\ req' = [req EXCEPT ![r] = new]
    BY DEF Step, processVars, providedVars, cacheVars
  <1>2. ServerOK'
    <2>1. req' \in [Requests -> Login]
      BY <1>1 DEF ServerOK
    <2>2. \A s \in Requests : req'[s].at = "build" <=> writer = s
      BY <1>1 DEF ServerOK
    <2>3. QED
      BY <1>1, <2>1, <2>2 DEF ServerOK
  <1>3. MainInv' /\ CacheInv'
    BY <1>1 DEF MainInv, CacheInv, Provided, NothingProvided, Closing
  <1>4. SlotsOK'
    BY <1>1 DEF SlotsOK, SlotOK, ServerOK, Serving, Closing, Unprovided
  <1>5. QED
    BY <1>2, <1>3, <1>4

\* A login that goes on with nothing learnt.
LEMMA GoMoves ==
    ASSUME IInv, NEW r \in Requests, NEW label, Go(r, label), UNCHANGED cacheVars,
           label \in {"check", "use", "rlock", "lock", "metric", "increment",
                     "log", "warn", "answered"},
           req[r].at # "build", Running, main \notin Startup,
           label \in {"rlock", "lock"} => Unprovided,
           label \in {"check", "use", "rlock", "lock"} => req[r].fate = "open",
           label \in {"log", "warn"} => req[r].fate # "accepted"
    PROVE  IInv'
  <1>1. PICK l \in Login : l = req[r]
    BY DEF IInv, ServerOK
  <1> DEFINE new == [l EXCEPT !.at = label]
  <1>2. Step(r, new)
    BY <1>1 DEF Go
  <1>3. new \in Login
    <2>1. label \in Labels
      BY Values
    <2>2. QED
      BY <1>1, <2>1 DEF Login
  <1>4. /\ new.at = label /\ new.got = l.got /\ new.status = l.status
        /\ new.fate = l.fate /\ new.panicked = l.panicked
    BY AtSet
  <1> HIDE DEF new
  <1>5. SlotOK(l)
    BY <1>1 DEF IInv, SlotsOK
  <1>6. SlotOK(new)
    BY <1>1, <1>4, <1>5 DEF SlotOK
  <1>7. QED
    BY <1>1, <1>2, <1>3, <1>4, <1>6, SlotMoves

\* Where a login can be in flight.
LEMMA InFlight ==
    ASSUME IInv, NEW r \in Requests, Running, req[r].at # "idle"
    PROVE  main \in {"accepting"} \cup Deferred
  BY NoLoginType DEF IInv, ServerOK, SlotsOK, SlotOK, Running

\* While runServer serves, all is there, and it does not look for a validator
\* of its own before it has stopped to.
LEMMA ServingProvides ==
    ASSUME IInv, main \in {"accepting"} \cup Deferred
    PROVE  /\ main \notin Startup
           /\ Serving => Provided
           /\ Unprovided => ~Serving
  <1>1. main \in Deferred => ~Serving
    BY DEF IInv, MainInv, Serving, Deferred
  <1>2. QED
    BY <1>1 DEF IInv, MainInv, Unprovided, Startup, Deferred

\* A panic happens only when serving is over.
LEMMA PanicMoves ==
    ASSUME IInv, NEW r \in Requests, Panic(r), UNCHANGED cacheVars, Running,
           req[r].at \notin {"idle", "build"}, ~Serving
    PROVE  IInv'
  <1>1. PICK l \in Login : l = req[r]
    BY DEF IInv, ServerOK
  <1>2. PICK status \in Statuses :
           status = IF l.status = 0 THEN 500 ELSE l.status
    BY <1>1, Values DEF Login
  <1> DEFINE new == [l EXCEPT !.at = "answered", !.panicked = TRUE,
                              !.status = status]
  <1>3. Step(r, new)
    BY <1>1, <1>2 DEF Panic
  <1>4. /\ new \in Login /\ new.at = "answered" /\ new.got = l.got
        /\ new.status = status /\ new.fate = l.fate
    <2>0. "answered" \in Labels
      BY Values
    <2>1. new \in Login
      BY <1>1, <2>0 DEF Login
    <2>2. /\ new.at = "answered" /\ new.got = l.got
          /\ new.status = status /\ new.fate = l.fate
      BY <1>1 DEF Login
    <2>3. QED
      BY <2>1, <2>2
  <1> HIDE DEF new
  <1>5. SlotOK(l) /\ main \notin Startup
    BY <1>1, InFlight, ServingProvides DEF IInv, SlotsOK
  <1>6. SlotOK(new)
    BY <1>2, <1>4, <1>5 DEF SlotOK
  <1>7. QED
    BY <1>1, <1>3, <1>4, <1>6, SlotMoves

LEMMA EarlySteps ==
    ASSUME IInv, NEW r \in Requests, Accept(r) \/ CheckConfigured(r)
    PROVE  IInv'
  <1>1. CASE Accept(r)
    <2>1. /\ main \notin Startup /\ Running /\ req[r] = NoLogin
          /\ Go(r, "check") /\ UNCHANGED cacheVars
      BY <1>1 DEF Accept, At, IInv, MainInv, SlotsOK, SlotOK
    <2>2. QED
      BY <2>1, GoMoves, NoLoginType DEF Startup
  <1>2. CASE CheckConfigured(r)
    <2>1. /\ Running /\ req[r].at = "check" /\ UNCHANGED cacheVars
          /\ main \notin Startup
          /\ req[r].fate = "open"
      BY <1>2, InFlight, ServingProvides DEF CheckConfigured, At, IInv, SlotsOK, SlotOK
    <2>2. CASE configured # None
      <3>1. Go(r, "use")
        BY <1>2, <2>2 DEF CheckConfigured
      <3>2. QED
        BY <2>1, <3>1, GoMoves
    <2>3. CASE configured = None
      <3>1. Go(r, "rlock")
        BY <1>2, <2>3 DEF CheckConfigured
      <3>2. main \in Startup \cup {"accepting"} \cup Deferred
        BY <2>1 DEF IInv, ServerOK, Running
      <3>3. Unprovided
        BY <2>1, <2>3, <3>2, ServerAssumption
           DEF IInv, MainInv, Provided, Unprovided, Deferred
      <3>4. QED
        BY <2>1, <3>1, <3>3, GoMoves
    <2>4. QED
      BY <2>2, <2>3
  <1>3. QED
    BY <1>1, <1>2

\* A login has a validator to use, or nil.
LEMMA GotMoves ==
    ASSUME IInv, NEW r \in Requests, NEW got \in Validators,
           Step(r, [req[r] EXCEPT !.at = "validate", !.got = got]),
           UNCHANGED cacheVars, Running,
           req[r].at \in {"use", "rlock", "lock"},
           Serving => got = "injected"
    PROVE  IInv'
  <1>1. PICK l \in Login : l = req[r]
    BY DEF IInv, ServerOK
  <1> DEFINE new == [l EXCEPT !.at = "validate", !.got = got]
  <1>2. Step(r, new)
    BY <1>1
  <1>3. /\ new \in Login /\ new.at = "validate" /\ new.got = got
        /\ new.status = l.status /\ new.fate = l.fate
        /\ new.panicked = l.panicked
    <2>0. "validate" \in Labels
      BY Values
    <2>1. new \in Login
      BY <1>1, <2>0 DEF Login
    <2>2. /\ new.at = "validate" /\ new.got = got
          /\ new.status = l.status /\ new.fate = l.fate
          /\ new.panicked = l.panicked
      BY <1>1 DEF Login
    <2>3. QED
      BY <2>1, <2>2
  <1> HIDE DEF new
  <1>4. SlotOK(l) /\ main \notin Startup
    BY <1>1, InFlight, ServingProvides DEF IInv, SlotsOK
  <1>5. SlotOK(new)
    BY <1>1, <1>3, <1>4 DEF SlotOK
  <1>6. QED
    BY <1>1, <1>2, <1>3, <1>5, SlotMoves

LEMMA LookupSteps ==
    ASSUME IInv, NEW r \in Requests, UseConfigured(r) \/ ReadCache(r)
    PROVE  IInv'
  <1>1. /\ Running /\ UNCHANGED cacheVars /\ req[r].at \in {"use", "rlock"}
        /\ main \notin Startup /\ (Serving => Provided)
        /\ req[r].fate = "open"
        /\ req[r].at = "rlock" => Unprovided /\ ~Serving
    BY InFlight, ServingProvides DEF UseConfigured, ReadCache, At, IInv, SlotsOK, SlotOK
  <1>2. CASE UseConfigured(r)
    <2>1. PICK got \in {"injected", configured} :
             Step(r, [req[r] EXCEPT !.at = "validate", !.got = got])
      BY <1>2 DEF UseConfigured
    <2>2. got \in Validators
      BY Values DEF IInv, ServerOK
    <2>3. Serving => got = "injected"
      BY <1>1 DEF Provided
    <2>4. req[r].at \in {"use", "rlock", "lock"}
      BY <1>1
    <2>5. QED
      BY <1>1, <2>1, <2>2, <2>3, <2>4, GotMoves
  <1>3. CASE ReadCache(r) /\ cache # None
    <2>1. /\ Step(r, [req[r] EXCEPT !.at = "validate", !.got = cache])
          /\ req[r].at = "rlock"
      BY <1>3 DEF ReadCache, At
    <2>2. cache \in Validators /\ ~Serving
      BY <1>1, <2>1, Values DEF IInv, ServerOK
    <2>3. QED
      BY <1>1, <2>1, <2>2, GotMoves
  <1>4. CASE ReadCache(r) /\ cache = None
    <2>1. Go(r, "lock") /\ req[r].at = "rlock"
      BY <1>4 DEF ReadCache, At
    <2>2. QED
      BY <1>1, <2>1, GoMoves
  <1>5. QED
    BY <1>2, <1>3, <1>4

\* The lock: one login at a time is inside, and finds the cache empty.
LEMMA LockStep ==
    ASSUME IInv, NEW r \in Requests, Lock(r)
    PROVE  IInv'
  <1> USE DEF IInv
  <1>1. /\ Running /\ req[r].at = "lock" /\ writer = NoRequest
        /\ main \notin Startup /\ ~Serving
        /\ req[r].fate = "open" /\ Unprovided /\ SlotOK(req[r])
        /\ UNCHANGED <<cache, builds>>
    BY InFlight, ServingProvides DEF Lock, At, SlotsOK, SlotOK
  <1>2. CASE cache # None
    <2>1. /\ Step(r, [req[r] EXCEPT !.at = "validate", !.got = cache])
          /\ UNCHANGED cacheVars
      BY <1>1, <1>2 DEF Lock, cacheVars
    <2>2. cache \in Validators /\ ~Serving
      BY <1>1, Values DEF ServerOK
    <2>3. QED
      BY <1>1, <2>1, <2>2, GotMoves
  <1>3. CASE cache = None
    <2>1. PICK l \in Login : l = req[r]
      BY DEF ServerOK
    <2> DEFINE new == [l EXCEPT !.at = "build"]
    <2>2. /\ req' = [req EXCEPT ![r] = new] /\ writer' = r
          /\ UNCHANGED <<main, watcher, listening, connected, inShutdown,
                         listenErr, grace, configured, metrics, logger>>
      BY <1>3, <2>1 DEF Lock, Go, Step, processVars, providedVars
    <2>3. "build" \in Labels
      BY Values
    <2>4. new \in Login
      BY <2>3 DEF Login
    <2>5. /\ new.at = "build" /\ new.got = l.got /\ new.status = l.status
          /\ new.fate = l.fate /\ new.panicked = l.panicked
      BY AtSet
    <2> HIDE DEF new
    <2>6. ServerOK'
      <3>1. req' \in [Requests -> Login]
        BY <2>2, <2>4 DEF ServerOK
      <3>2. \A s \in Requests : req'[s].at = "build" <=> writer' = s
        BY <1>1, <2>2, <2>5, ServerAssumption DEF ServerOK
      <3>3. QED
        BY <1>1, <2>2, <3>1, <3>2 DEF ServerOK
    <2>7. MainInv' /\ CacheInv'
      BY <1>1, <1>3, <2>2 DEF MainInv, CacheInv, Provided, NothingProvided, Closing
    <2>8. SlotOK(new)
      BY <1>1, <2>1, <2>5 DEF SlotOK
    <2>9. SlotsOK'
      BY <2>2, <2>8 DEF SlotsOK, SlotOK, ServerOK, Serving, Closing, Unprovided
    <2>10. QED
      BY <2>6, <2>7, <2>9
  <1>4. QED
    BY <1>2, <1>3

\* A validator is built, or not, and the lock given back.
LEMMA BuildStep ==
    ASSUME IInv, NEW r \in Requests, Build(r)
    PROVE  IInv'
  <1> USE DEF IInv
  <1>1. /\ Running /\ req[r].at = "build" /\ writer = r /\ cache = None
        /\ ~Serving /\ Unprovided /\ main \notin Startup
        /\ SlotOK(req[r]) /\ req[r].fate = "open" /\ writer' = NoRequest
        /\ configured = None
    <2>1. Running /\ req[r].at = "build" /\ writer' = NoRequest
      BY DEF Build, At
    <2>2. writer = r /\ r # NoRequest
      BY <2>1, ServerAssumption DEF ServerOK
    <2>3. SlotOK(req[r]) /\ main \notin Startup
      BY <2>1, InFlight, ServingProvides DEF SlotsOK
    <2>4. Unprovided /\ ~Serving /\ req[r].fate = "open"
      BY <2>1, <2>3, InFlight, ServingProvides DEF SlotOK
    <2>5. QED
      BY <2>1, <2>2, <2>3, <2>4 DEF CacheInv, MainInv, NothingProvided, Unprovided
  <1>2. PICK l \in Login : l = req[r]
    BY DEF ServerOK
  <1>3. ASSUME NEW new \in Login, Step(r, new), SlotOK(new), new.at # "build",
               \/ cache' = "built" /\ builds' = builds + 1
               \/ UNCHANGED <<cache, builds>>
        PROVE  IInv'
    <2>1. /\ req' = [req EXCEPT ![r] = new]
          /\ UNCHANGED <<main, watcher, listening, connected, inShutdown,
                         listenErr, grace, configured, metrics, logger>>
      BY <1>3 DEF Step, processVars, providedVars
    <2>2. ServerOK'
      <3>1. req' \in [Requests -> Login]
        BY <2>1 DEF ServerOK
      <3>2. \A s \in Requests : req'[s].at = "build" <=> writer' = s
        BY <1>1, <1>3, <2>1, ServerAssumption DEF ServerOK
      <3>3. /\ cache' \in {None, "built"} /\ builds' \in Nat
            /\ cache' # None => configured' = None /\ builds' > 0
        BY <1>1, <1>3, <2>1 DEF ServerOK
      <3>4. QED
        BY <1>1, <2>1, <3>1, <3>2, <3>3 DEF ServerOK
    <2>3. MainInv'
      BY <2>1 DEF MainInv, Provided, NothingProvided, Closing
    <2>4. CacheInv'
      BY <1>1, <1>3, <2>1, ServerAssumption DEF CacheInv, ServerOK, Unprovided, Ended
    <2>5. SlotsOK'
      BY <1>3, <2>1 DEF SlotsOK, SlotOK, ServerOK, Serving, Closing, Unprovided
    <2>6. QED
      BY <2>2, <2>3, <2>4, <2>5
  <1>4. ASSUME NEW new, new = [l EXCEPT !.at = "validate", !.got = "built"]
        PROVE  new \in Login /\ SlotOK(new) /\ new.at # "build"
    <2>0. "validate" \in Labels /\ "built" \in Validators
      BY Values
    <2>1. new \in Login
      BY <1>4, <2>0 DEF Login
    <2>2. /\ new.at = "validate" /\ new.fate = l.fate
      BY <1>4 DEF Login
    <2>3. QED
      BY <1>1, <1>2, <2>1, <2>2 DEF SlotOK
  <1>5. ASSUME NEW new, new = [l EXCEPT !.at = "metric", !.fate = "unbuilt"]
        PROVE  new \in Login /\ SlotOK(new) /\ new.at # "build"
    <2>0. "metric" \in Labels /\ "unbuilt" \in Fates
      BY Values
    <2>1. new \in Login
      BY <1>5, <2>0 DEF Login
    <2>2. new.at = "metric" /\ new.fate = "unbuilt"
      BY <1>5 DEF Login
    <2>3. QED
      BY <1>1, <1>2, <2>1, <2>2 DEF SlotOK
  <1>6. \/ /\ Step(r, [l EXCEPT !.at = "validate", !.got = "built"])
           /\ cache' = "built" /\ builds' = builds + 1
        \/ /\ Step(r, [l EXCEPT !.at = "metric", !.fate = "unbuilt"])
           /\ UNCHANGED <<cache, builds>>
    BY <1>2 DEF Build
  <1>7. QED
    BY <1>3, <1>4, <1>5, <1>6

\* A login whose outcome is known.
LEMMA FateMoves ==
    ASSUME IInv, NEW r \in Requests, NEW new \in Login, Step(r, new),
           UNCHANGED cacheVars, Running,
           req[r].at \notin {"idle", "build"},
           new.at \in {"metric", "answered"},
           new.got = req[r].got, new.panicked = req[r].panicked,
           new.fate = "accepted" => new.status = 200
    PROVE  IInv'
  <1>1. SlotOK(req[r]) /\ main \notin Startup
    BY InFlight, ServingProvides DEF IInv, SlotsOK
  <1>2. SlotOK(new)
    BY <1>1 DEF SlotOK
  <1>3. QED
    BY <1>2, SlotMoves

LEMMA AnswerMoves ==
    ASSUME IInv, NEW r \in Requests, NEW status \in Statuses,
           Step(r, [req[r] EXCEPT !.at = "answered", !.status = status]),
           UNCHANGED cacheVars, Running,
           req[r].at \notin {"idle", "build"},
           req[r].fate = "accepted" => status = 200
    PROVE  IInv'
  <1>1. PICK l \in Login : l = req[r]
    BY DEF IInv, ServerOK
  <1> DEFINE new == [l EXCEPT !.at = "answered", !.status = status]
  <1>2. "answered" \in Labels
    BY Values
  <1>3. new \in Login
    BY <1>2 DEF Login
  <1>4. /\ new.at = "answered" /\ new.status = status /\ new.got = l.got
        /\ new.panicked = l.panicked /\ new.fate = l.fate
    BY DEF Login
  <1>5. Step(r, new)
    BY <1>1
  <1> HIDE DEF new
  <1>6. QED
    BY <1>1, <1>3, <1>4, <1>5, FateMoves

LEMMA ValidateStep ==
    ASSUME IInv, NEW r \in Requests, Validate(r)
    PROVE  IInv'
  <1>1. /\ Running /\ UNCHANGED cacheVars /\ req[r].at = "validate"
        /\ SlotOK(req[r])
    BY DEF Validate, At, IInv, SlotsOK
  <1>2. CASE req[r].got = None
    <2>1. Panic(r)
      BY <1>2 DEF Validate
    <2>2. ~Serving
      BY <1>1, <1>2, ServerAssumption DEF SlotOK
    <2>3. QED
      BY <1>1, <2>1, <2>2, PanicMoves
  <1>3. CASE req[r].got # None
    <2>1. PICK l \in Login : l = req[r]
      BY DEF IInv, ServerOK
    <2>2. \/ Step(r, [l EXCEPT !.at = "metric", !.fate = "accepted", !.status = 200])
          \/ Step(r, [l EXCEPT !.at = "metric", !.fate = "rejected"])
      BY <1>3, <2>1 DEF Validate
    <2>3. "metric" \in Labels /\ {"accepted", "rejected"} \subseteq Fates
          /\ 200 \in Statuses
      BY Values
    <2>4. ASSUME NEW new, new = [l EXCEPT !.at = "metric", !.fate = "accepted",
                                          !.status = 200]
          PROVE  /\ new \in Login /\ new.at = "metric" /\ new.got = l.got
                 /\ new.panicked = l.panicked
                 /\ new.fate = "accepted" => new.status = 200
      <3>1. new \in Login
        BY <2>3, <2>4 DEF Login
      <3>2. /\ new.at = "metric" /\ new.got = l.got
            /\ new.panicked = l.panicked /\ new.status = 200
        BY <2>4 DEF Login
      <3>3. QED
        BY <3>1, <3>2
    <2>5. ASSUME NEW new, new = [l EXCEPT !.at = "metric", !.fate = "rejected"]
          PROVE  /\ new \in Login /\ new.at = "metric" /\ new.got = l.got
                 /\ new.panicked = l.panicked
                 /\ new.fate = "accepted" => new.status = 200
      <3>1. new \in Login
        BY <2>3, <2>5 DEF Login
      <3>2. /\ new.at = "metric" /\ new.got = l.got
            /\ new.panicked = l.panicked /\ new.fate = "rejected"
        BY <2>5 DEF Login
      <3>3. QED
        BY <3>1, <3>2
    <2>6. QED
      BY <1>1, <2>1, <2>2, <2>4, <2>5, FateMoves
  <1>4. QED
    BY <1>2, <1>3

LEMMA CountedMoves ==
    ASSUME IInv, NEW r \in Requests, Counted(r), Running, UNCHANGED cacheVars,
           req[r].at \notin {"idle", "build"}
    PROVE  IInv'
  <1>1. CASE req[r].fate = "accepted"
    <2>1. Step(r, [req[r] EXCEPT !.at = "answered", !.status = 200])
      BY <1>1 DEF Counted
    <2>2. 200 \in Statuses
      BY Values
    <2>3. QED
      BY <2>1, <2>2, AnswerMoves
  <1>2. CASE req[r].fate # "accepted"
    <2>1. Go(r, "log")
      BY <1>2 DEF Counted
    <2>2. main \notin Startup
      BY InFlight, ServingProvides
    <2>3. QED
      BY <1>2, <2>1, <2>2, GoMoves
  <1>3. QED
    BY <1>1, <1>2

LEMMA LoggedMoves ==
    ASSUME IInv, NEW r \in Requests, Logged(r), Running, UNCHANGED cacheVars,
           req[r].at \in {"log", "warn"}
    PROVE  IInv'
  <1>1. PICK status \in Statuses :
           status = IF req[r].fate = "unbuilt" THEN 500 ELSE 401
    BY Values
  <1>2. Step(r, [req[r] EXCEPT !.at = "answered", !.status = status])
    BY <1>1 DEF Logged
  <1>3. req[r].fate # "accepted"
    BY DEF IInv, SlotsOK, SlotOK
  <1>4. QED
    BY <1>2, <1>3, AnswerMoves

LEMMA RecordSteps ==
    ASSUME IInv, NEW r \in Requests, RecordMetric(r) \/ LogWarning(r)
    PROVE  IInv'
  <1>1. /\ Running /\ UNCHANGED cacheVars
        /\ req[r].at \in {"metric", "increment", "log", "warn"}
    BY DEF RecordMetric, LogWarning, At
  <1>2. main \notin Startup /\ SlotOK(req[r])
    BY <1>1, InFlight, ServingProvides DEF IInv, SlotsOK
  <1>3. Serving => metrics /\ logger
    BY <1>1, InFlight, ServingProvides DEF Provided
  <1>4. CASE RecordMetric(r)
    <2>1. \/ Go(r, "increment") \/ Counted(r)
          \/ Panic(r) /\ ~metrics
      BY <1>4 DEF RecordMetric
    <2>2. ASSUME Go(r, "increment") PROVE IInv'
      BY <1>1, <1>2, <2>2, GoMoves
    <2>3. QED
      BY <1>1, <1>3, <2>1, <2>2, CountedMoves, PanicMoves
  <1>5. CASE LogWarning(r)
    <2>1. /\ req[r].at \in {"log", "warn"}
          /\ \/ Go(r, "warn") \/ Logged(r)
             \/ Panic(r) /\ ~logger
      BY <1>5 DEF LogWarning, At
    <2>2. ASSUME Go(r, "warn") PROVE IInv'
      <3>1. req[r].fate # "accepted"
        BY <1>2, <2>1 DEF SlotOK
      <3>2. QED
        BY <1>1, <1>2, <2>2, <3>1, GoMoves
    <2>3. QED
      BY <1>1, <1>3, <2>1, <2>2, LoggedMoves, PanicMoves
  <1>6. QED
    BY <1>4, <1>5

LEMMA RespondStep ==
    ASSUME IInv, NEW r \in Requests, Respond(r)
    PROVE  IInv'
  <1>1. /\ req[r].at = "answered" /\ Step(r, NoLogin) /\ UNCHANGED cacheVars
    BY DEF Respond, At
  <1>2. SlotOK(NoLogin)
    BY NoLoginType, ServerAssumption DEF SlotOK
  <1>3. QED
    BY <1>1, <1>2, NoLoginType, SlotMoves

-----------------------------------------------------------------------------

LEMMA Inductive == IInv /\ [Next]_vars => IInv'
  <1> SUFFICES ASSUME IInv, [Next]_vars PROVE IInv'
    OBVIOUS
  <1>1. CASE Main \/ ServeFails
    BY <1>1, MainStep
  <1>2. CASE Watcher \/ Signal \/ GraceElapses
    BY <1>2, WatcherStep
  <1>3. ASSUME NEW r \in Requests, Accept(r) \/ Handler(r) \/ Respond(r)
        PROVE  IInv'
    BY <1>3, EarlySteps, LookupSteps, LockStep, BuildStep, ValidateStep,
       RecordSteps, RespondStep DEF Handler
  <1>4. CASE UNCHANGED vars
    BY <1>4 DEF vars, processVars, providedVars, cacheVars, IInv, ServerOK, MainInv,
                CacheInv, SlotsOK, SlotOK, Provided, NothingProvided, Serving,
                Closing, Unprovided
  <1>5. QED
    BY <1>1, <1>2, <1>3, <1>4 DEF Next

LEMMA Always == Spec => []IInv
  BY Initially, Inductive, PTL DEF Spec

\* The lock of the validator cache has the owner that is inside it, and the
\* cache is filled only after the validator of the process is gone.
THEOREM ServerWellTyped == Spec => []ServerOK
  <1>1. IInv => ServerOK
    BY DEF IInv
  <1>2. QED
    BY <1>1, Always, PTL

\* However many logins are in flight, until serveHTTP returns each finds what
\* the process provides and none panics; and serveHTTP does not return before a
\* shutdown was asked for or the listener failed.
THEOREM LoginsAreServed == Spec => []ServedWithAllProvided
  <1>1. IInv => ServedWithAllProvided
    <2> SUFFICES ASSUME IInv, NEW r \in Requests, Serving
                 PROVE  /\ req[r].at \notin {"rlock", "lock", "build"}
                        /\ req[r].got \in {None, "injected"} /\ ~req[r].panicked
      BY DEF ServedWithAllProvided, Serving, Closing
    <2>1. SlotOK(req[r])
      BY DEF IInv, SlotsOK
    <2>2. req[r].got \in {None, "injected"} /\ ~req[r].panicked
      BY <2>1 DEF SlotOK
    <2>3. ~Unprovided
      BY ServingProvides DEF Unprovided, Deferred
    <2>4. QED
      BY <2>1, <2>2, <2>3 DEF SlotOK
  <1>2. QED
    BY <1>1, Always, PTL

\* A login that was accepted is answered 200, even when it panics after that
\* because runServer took the metrics or the logger away on its way out.
THEOREM AcceptedLoginsAreAnswered == Spec => []AcceptedLoginIsAnswered
  <1>1. IInv => AcceptedLoginIsAnswered
    BY DEF AcceptedLoginIsAnswered, IInv, SlotsOK, SlotOK
  <1>2. QED
    BY <1>1, Always, PTL

\* Logins that race each other and the reset build two validators at most.
THEOREM BuildsAreShared == Spec => []OneBuildPerReset
  <1>1. IInv => OneBuildPerReset
    BY DEF IInv, CacheInv, ServerOK, OneBuildPerReset, Ended
  <1>2. QED
    BY <1>1, Always, PTL

\* Whichever way a run that was not killed ended, nothing is left provided.
THEOREM RunsLeaveNothing == Spec => []NothingLeftProvided
  <1>1. IInv => NothingLeftProvided
    BY DEF IInv, MainInv, NothingProvided, NothingLeftProvided
  <1>2. QED
    BY <1>1, Always, PTL

-----------------------------------------------------------------------------
(* What SignalEndsProcess rests on.                                          *)

\* Whoever runServer or a login may have to wait for is about to go on.
NothingHoldsUpTheEnd ==
    /\ inShutdown => ~listening
    /\ writer # NoRequest => Running /\ req[writer].at = "build"

\* How far runServer has come.
Stage(label) ==
    CASE label = "config" -> 0 [] label = "open" -> 1
      [] label = "validator" -> 2 [] label = "provide" -> 3
      [] label = "spawn" -> 4 [] label = "listen" -> 5
      [] label = "accepting" -> 6 [] label = "cancel" -> 7
      [] label = "metrics" -> 8 [] label = "logger" -> 9
      [] label = "unprovide" -> 10 [] label = "reset" -> 11
      [] label = "sync" -> 12 [] OTHER -> 13

EndComesNearer ==
    /\ (inShutdown => inShutdown') /\ (listenErr => listenErr')
    /\ main' # main => Stage(main') > Stage(main)
    /\ Running \/ UNCHANGED vars

\* Once Shutdown has closed the listener serving returns, and the reset of the
\* cache waits only for a handler that is building a validator, never for one
\* that waits itself: nothing waits in a circle, for any number of logins.
THEOREM NobodyWaitsInCircles == Spec => []NothingHoldsUpTheEnd
  <1>1. IInv => NothingHoldsUpTheEnd
    <2> SUFFICES ASSUME IInv PROVE NothingHoldsUpTheEnd
      OBVIOUS
    <2>1. inShutdown => ~listening
      BY DEF IInv, MainInv
    <2>2. ASSUME writer # NoRequest PROVE Running /\ req[writer].at = "build"
      <3>1. writer \in Requests /\ req[writer].at = "build"
        BY <2>2 DEF IInv, ServerOK
      <3>2. Unprovided
        BY <3>1 DEF IInv, SlotsOK, SlotOK
      <3>3. QED
        BY <3>1, <3>2 DEF Unprovided, Running, Ended
    <2>3. QED
      BY <2>1, <2>2 DEF NothingHoldsUpTheEnd
  <1>2. QED
    BY <1>1, Always, PTL

\* A step of runServer goes forward, through starting, serving and its deferred
\* calls, and never back; nor does the end of the process.
LEMMA MainForward ==
    ASSUME IInv, Main \/ ServeFails
    PROVE  /\ Running /\ Stage(main') > Stage(main)
           /\ inShutdown' = inShutdown /\ (listenErr => listenErr')
  <1> USE DEF Goto, End, Running, Ended
  <1>1. CASE LoadServerConfig
    BY <1>1 DEF LoadServerConfig, Stage
  <1>2. CASE OpenStores
    BY <1>2 DEF OpenStores, Stage
  <1>3. CASE BuildGoogleTokenValidator
    BY <1>3 DEF BuildGoogleTokenValidator, Stage
  <1>4. CASE Provide
    BY <1>4 DEF Provide, Stage
  <1>5. CASE SpawnWatcher
    BY <1>5 DEF SpawnWatcher, Stage
  <1>6. CASE Listen
    BY <1>6 DEF Listen, Accepting, ServeError, Stage
  <1>7. CASE ServeReturns
    BY <1>7 DEF ServeReturns, Stage
  <1>8. CASE CancelGrace
    BY <1>8 DEF CancelGrace, Stage
  <1>9. CASE DropMetrics
    BY <1>9 DEF DropMetrics, Stage
  <1>10. CASE DropLogger
    BY <1>10 DEF DropLogger, Stage
  <1>11. CASE DropValidator
    BY <1>11 DEF DropValidator, Stage
  <1>12. CASE ResetCache
    BY <1>12 DEF ResetCache, Stage
  <1>13. CASE Return
    BY <1>13 DEF Return, Stage
  <1>14. CASE ServeFails
    BY <1>14 DEF ServeFails, ServeError, Stage
  <1>15. QED
    BY <1>1, <1>2, <1>3, <1>4, <1>5, <1>6, <1>7, <1>8, <1>9, <1>10, <1>11,
       <1>12, <1>13, <1>14 DEF Main

\* A step of a login needs the process, and leaves runServer alone.
LEMMA LoginElsewhere ==
    ASSUME NEW r \in Requests, Accept(r) \/ Handler(r) \/ Respond(r)
    PROVE  Running /\ UNCHANGED <<main, inShutdown, listenErr>>
  <1>1. ASSUME NEW slot, Step(r, slot)
        PROVE  UNCHANGED <<main, inShutdown, listenErr>>
    BY <1>1 DEF Step, processVars
  <1>2. CASE Accept(r) \/ Respond(r) \/ CheckConfigured(r) \/ UseConfigured(r)
    BY <1>1, <1>2 DEF Accept, Respond, CheckConfigured, UseConfigured, At, Go
  <1>3. CASE ReadCache(r) \/ Lock(r) \/ Build(r)
    BY <1>1, <1>3 DEF ReadCache, Lock, Build, At, Go
  <1>4. CASE Validate(r)
    BY <1>1, <1>4 DEF Validate, At, Panic
  <1>5. CASE RecordMetric(r)
    BY <1>1, <1>5 DEF RecordMetric, At, Go, Counted, Panic
  <1>6. CASE LogWarning(r)
    BY <1>1, <1>6 DEF LogWarning, At, Go, Logged, Panic
  <1>7. QED
    BY <1>2, <1>3, <1>4, <1>5, <1>6 DEF Handler

\* The process only moves towards its end, and stops there: neither a shutdown
\* nor the failure of the listener is taken back, and runServer has at most
\* thirteen steps to take.
THEOREM EndIsAhead == Spec => [][EndComesNearer]_vars
  <1>1. ASSUME IInv, Next PROVE EndComesNearer
    <2>1. CASE Main \/ ServeFails
      BY <1>1, <2>1, MainForward DEF EndComesNearer
    <2>2. CASE Watcher \/ GraceElapses
      BY <2>2 DEF Watcher, Notify, ShutdownBegins, ShutdownReturns, WatcherGoes,
                  GraceElapses, EndComesNearer
    <2>3. CASE Signal
      <3>1. CASE WatcherGoes("caught") /\ inShutdown' = inShutdown
        BY <3>1 DEF WatcherGoes, EndComesNearer
      <3>2. CASE Running /\ End("died")
        <4>1. main' = "died" /\ Running /\ UNCHANGED <<inShutdown, listenErr>>
          BY <3>2 DEF End
        <4>2. main \in Startup \cup {"accepting"} \cup Deferred
          BY <1>1, <3>2 DEF IInv, ServerOK, Running
        <4>3. Stage("died") > Stage(main)
          BY <4>2 DEF Stage, Startup, Deferred
        <4>4. QED
          BY <4>1, <4>3 DEF EndComesNearer
      <3>3. QED
        BY <2>3, <3>1, <3>2 DEF Signal
    <2>4. ASSUME NEW r \in Requests, Accept(r) \/ Handler(r) \/ Respond(r)
          PROVE  EndComesNearer
      BY <2>4, LoginElsewhere DEF EndComesNearer
    <2>5. QED
      BY <1>1, <2>1, <2>2, <2>3, <2>4 DEF Next
  <1>2. IInv /\ [Next]_vars => [EndComesNearer]_vars
    BY <1>1
  <1>3. QED
    BY <1>2, Always, PTL DEF Spec
=============================================================================
