# TAuth in TLA+

TAuth is a single Go binary that turns a Google sign-in into first-party session cookies: it verifies a
Google ID token against a nonce it handed out, mints a short-lived session JWT, and keeps a rotating refresh
token in a store.  This directory models that system, checks the models with TLC and proves theorems about
them with TLAPS.  Paths below are relative to the repository.

## 1. Inventory

| component | source | state it keeps | operations | interacts with |
|---|---|---|---|---|
| nonce store | `internal/authkit/nonce_store.go` | map token -> expiry, behind a mutex, in memory | `Issue`, `Consume`, both purge | called by `/auth/nonce`, `/auth/google` |
| refresh token contract | `internal/authkit/stores.go`, `refresh_errors.go` | - | `Issue`, `Validate`, `Revoke` and their errors | the interface between handlers and stores |
| in-memory refresh store | `memory_refresh_store.go`, `refresh_token_helpers.go` | two maps (by id, by hash), an id counter, one mutex | the contract | selected when no database is configured |
| database refresh store | `database_refresh_store.go` | the table `refresh_tokens` | the contract, one or two SQL statements a call | gorm, SQLite or Postgres; outlives the process |
| auth endpoints | `internal/authkit/routes.go` | package variables (clock, logger, validator cache) | POST `/auth/nonce`, `/auth/google`, `/auth/refresh`, `/auth/logout` | both stores, the user store, cookies of the client |
| user store | `internal/web/users.go` | a Go map without a lock | `UpsertGoogleUser`, `GetUserProfile`, GET `/me` | read and written by concurrent handlers |
| session JWT | `jwthelper.go`, `pkg/sessionvalidator/validator.go`, `middleware.go` | none: the token is signed | mint, validate, the two gin middlewares | cookie of the client, `/me` |
| browser client | `web/auth-client.js` | profile, `isRefreshing`, a queue of waiting calls | `initAuthClient`, `apiFetch`, `logout` | the endpoints, asynchronously |
| demo page | `web/demo.html` | the nonce shown to Google | sign-in flow, `fetchWithRetry` | the endpoints, Google's script |
| server process | `cmd/server/main.go` | configuration | start, signal handling, graceful shutdown | all of the above |
| static files, demo configuration | `internal/web/static.go`, `demo_config.go`, `web/embed.go` | none | serve constants | - |
| metrics | `internal/authkit/metrics.go` | counters nobody reads back | `Increment` | handlers |

What is hard here:

* **Concurrency.** gin runs a goroutine per request and the handlers hold no lock across calls.  A refresh is
  validate, read profile, issue successor, revoke predecessor, four calls with anything between them; two
  refreshes, or a refresh and a logout, of one cookie interleave freely.  The user map has no lock at all.
* **Partial failure.** The successor is stored before the predecessor is revoked; a store call may fail, or take
  effect and lose its reply; a response may be lost after the rotation.
* **Crashes.** Nonces and profiles live in process memory, refresh tokens may not.
* **Time.** Expiry is strict in some places and not in others, token expiries and JWT dates are cut to whole
  seconds, token ids are clock readings.
* **Several clocks.** A session JWT is dated by the clock of the service and checked by the clocks of others.
* **Waiting.** Calls in the browser queue behind a refresh in flight; the demo page must always lead back to a
  sign-in that works.
* **The end of the process.** `runServer` takes its package variables back, without a lock, under the handlers
  that read them.

What makes each component correct: a nonce is accepted at most once, in time, and by the process that issued
it; a store keeps records apart, and racing calls on it take effect one at a time; at most one holder of a login
can go on after a rotation; a Google credential logs in once; a logout kills what it was sent; a session is
accepted exactly inside its time window; every call of the browser client eventually settles, and the page
believes about its user what it told the application; a retried login logs in once; a stopping server keeps its word to
the requests it has accepted.

## 2. The modules

| module | models | used by |
|---|---|---|
| `Clock`, `GoMaps` | the wall clock and its truncation to Unix seconds; a Go map | everything with time or maps |
| `NonceTable` | the nonce map and what `Issue` and `Consume` make of it | `NonceStore`, `AuthService` |
| `OneTimeNonce` | abstract: a nonce is unissued, outstanding, accepted or dead | refined by `NonceStore` |
| `NonceStore` | the nonce store alone, with restarts; its theorems are in `SignIn_proofs` | `SignIn` |
| `SignIn` (+ `MC...`), `SignIn_proofs` | the sign-in of the demo page over the nonce store, `fetchWithRetry` included | |
| `RefreshLedger` | the records behind `RefreshTokenStore` and the answers of its methods, a call taken as a whole | `RefreshStore`, `AuthService` |
| `RefreshStore` | abstract: every call takes effect at one instant or fails, and a failed call may have taken effect; only a `Validate` may look up at one instant (`LookUp`) and answer at another (`Judge`) | refined by both stores |
| `MemoryRefreshStore`, `..._proofs` | the two maps, ids made of the instant and a counter byte | |
| `DatabaseRefreshStore` (+ `MC...`), `..._proofs` | the table, one action for each SQL statement and for the clock read after one, clashing ids, failing statements | |
| `RefreshGrants` | abstract: what clients see of sign-in, refresh and logout, each in one instant, with no store and no handler | refined by `AuthService` |
| `AuthService` (+ `MC...`), `..._proofs` | the four endpoints, step by step, overlapping, with store failures, lost answers and crashes | `Browser` |
| `Browser` (+ `MC...`), `..._proofs` | the cookies of one browser and the requests of its tabs, composed with `AuthService` | |
| `AuthClient`, `..._proofs` | `auth-client.js` in one page: `apiFetch` with its queue, `initAuthClient`, `logout` | |
| `Session` (+ `MC...`), `..._proofs` | session JWTs: minting, validation by services with clocks of their own, GET `/me` and the user map | |
| `Server`, `..._proofs` | `runServer`, its signal goroutine, its deferred calls, and logins that read what it provides | |

Names beginning as the code's do mean the code's things.  Each action's comment says what it stands for;
definitions introduced by a comment `Slip:` are not part of any specification: they are deliberately wrong forms
of the definition that follows them, kept to demonstrate that a property would notice the mistake.

### How the models correspond to the code

*Data.* A token is its opaque value.  The store's id and SHA-256 hash are other names for it; the store modules
keep ids and opaques apart, and their refinement of `RefreshStore` justifies identifying them in `AuthService`.
SHA-256 and `crypto/rand` do not collide.  A nonce claim is the nonce itself, whether in clear or hashed
(`routes.go:229-242` accepts either).  A Google credential is the user it names, its nonce claim, and whether the
validator and the e-mail check accept it.  A session JWT is its subject and its three dates; signature, issuer and
parsing are taken to work.

*Time.* A tick is the shortest interval two clock readings can differ by.  Nonce expiries are compared in ticks
(`time.Time`), refresh expiries and the dates of a JWT in whole seconds (`Unix`, `Before`).  The clock never goes
back. In `Session` a service `s` reads `now + Offset[s]`; `Slack` is the 30 s that `MintAppJWT` takes off `NotBefore`.
`ValidateToken` checks the dates twice, once in the JWT library and once itself, and each check reads the clock, so
`ParseToken` and `ValidateToken` are two actions.

*Atomicity.* The methods of the nonce store and the in-memory refresh store hold their mutex throughout and are one
action each.  In `DatabaseRefreshStore` each SQL statement is an action, and so is the reading of the clock that
follows the SELECT of `Validate` (`ValidateTake`, `ValidateJudge`): in between another goroutine may revoke the row,
and the answer "expired" is then true of no instant.  `RefreshStore` allows that and nothing else (`Judge`). In
`AuthService` each store call is an action, with the local computation up to the next one; `req[r].at` is where the
handler in slot `r` stands.  Its `Validate` is one step over either store because its handlers treat all refusals
alike (`routes.go:292-297`, `:346-347`), an acceptance was true at the SELECT, where the step is then taken, and a
refusal is true when it is given (`VerdictsAreTrue`).  The second look at the expiry (`routes.go:298`) belongs to the
next step, `RefreshProfile`.  In `AuthClient` and `SignIn` an action is the callback of one fetch or of one step of
Google's script, because JavaScript is interrupted only at an `await`; `at[c]`, `init[i]` and `task[t].at` are what a
call, a reload and a chain of callbacks await.  A write of the unguarded user map has a beginning and an end, and
overlapping writes or reads get any outcome; the runtime's fatal error on a concurrent map write is one of the causes
of `Crash`.  The package variables of `routes.go` are read without a lock, and `resolveGoogleValidator`,
`recordMetric` and the log helpers read theirs twice; `Server` has an action for each reading, and the second may find
what the first did not.  `serveHTTP` returns after `Shutdown` has closed the listener (`ServeReturns`), or with an
error, at once (`Listen`) or after it has served (`ServeFails`); the connections it has accepted live on (`connected`)
and may bring further logins until `Shutdown` has seen them idle or the process ends.

*Composition.* `Browser` conjoins each step of `AuthService` with what it does to the jar: `Serve` is a handler
starting or going on for the request in its slot, with the cookie that request was *sent* with; `Deliver` is the
response that arrives, with its `Set-Cookie` headers; `Lose` one that does not.  Cookies are identified by name and
path, as browsers do. `SignIn` conjoins the steps of the page with `Issue` and `Consume` of `NonceStore`, and its
other alternative, `Next` of `NonceStore`, is everything that other clients and restarts do to the store.  What
follows the nonce check of a login (the user map, the refresh store, the session) may fail: the choice `ok` of
`ServeLogin`.

*Failures.* `StoreFails` lets `Validate`, `Issue` and `Revoke` fail, before or after they acted.  `IssueFails` needs
no failing store: no entropy and, over the database, two issues in the same instant (`database_refresh_store.go:80`)
give the same error.  `Respond` delivers the answer or loses it.  `Crash` empties process memory, aborts all handlers
and, unless `Durable`, empties the refresh store.  `Restart` of `Session` and of `NonceStore` do the same to what is
there.  In `Server` a start may fail at every step that returns an error, a signal may come before `signal.Notify` has
run, and the end of the process takes the logins in flight with it (`Killed`).

## 3. The runs

| run | question | instance |
|---|---|---|
| `sign_in` | Is the table a one-time nonce that never outgrows one TTL? Does the page over it log in once and never get stuck? | 3 nonces, TTL 0, clock to 1, 2 chains, 2 attempts; 707 000 states |
| `memory_store` | Do the two maps stay inverse when the id counter wraps, and is the contract kept? | 3 tokens, counter modulo 2, at most 2 ids a tick; 19 000 states |
| `database_store` | Do racing two-statement calls, a clock read after its row and failing statements keep the contract? | 2 goroutines, 3 tokens, clock to 1; 248 000 states |
| `auth_faults` | Overlapping logins, refreshes and logouts, a failing store, lost answers and a crash; replayed credentials.  Do clients see more than `RefreshGrants` allows? | 2 requests, 3 tokens, 2 users, 2 nonces, nonce TTL 0, token TTL half a second, clock to 1; 354 000 states |
| `browser` | What do overlapping tabs, reordered and lost responses and a restart leave in the service and in the jar? | 2 overlapping requests, 3 tokens; 465 000 states |
| `api_fetch` | Is there one refresh at a time, which calls settle, and what does the page believe? | 3 overlapping calls, 2 reloads, 1 logout, each made again and again; 72 000 states |
| `session` | Is a session accepted exactly within its life, whatever the clocks, and known to `/me`? | 2 mints, 1 call, 3 services at 0, +0.5 s and -1.5 s, TTL 1.5 s, slack 1 s, ticks of 0.5 s, 1 restart; 164 000 states |
| `server` | What do logins find while the process starts, stops or loses its listener, and does it end? | 2 logins in flight; 46 000 states |
| `logout_store_failure` | Does a logout revoke the token, as ARCHITECTURE.md says? | violated |
| `refresh_after_restart` | Does a refresh answer 401 only to missing, expired or revoked cookies? | violated |
| `logout_keeps_cookie` | Does a logout clear the cookies, as ARCHITECTURE.md says? | violated |
| `graceful_shutdown` | Have requests in flight 10 s at a SIGTERM, as ARCHITECTURE.md says? | violated |

What the violated runs show:

* a logout whose `Revoke` (or `Validate`) fails is answered 204 and leaves the refresh token usable;
* after a restart over a database, refresh answers 401 for a live token until the user signs in again, because
  profiles were in memory (`routes.go:305`);
* a logout leaves the refresh cookie in the browser, because it is set with `Path=/auth` (`routes.go:381`) and cleared
  with `Path=/` (`routes.go:394`);
* at a SIGTERM, `ListenAndServe` returns as soon as `Shutdown` has closed the listener; `runServer` returns with it,
  its deferred `shutdownCancel` cancels the 10 s context that `Shutdown` waits under, and the process exits under the
  requests in flight (`main.go:270-292`).

One passing run disagrees with a line of the repository too.  ISSUES.md:66 (TA-332, open) says that Ctrl-C in the
container "leaves the app in non-exited state and requires a second ctrl-C".  By the code one caught signal is always
enough (`SignalEndsProcess` of `server`), and a second could not help, since nobody reads the channel again
(`main.go:275-277`).  The log in the issue is that of the compose client, whose own line asks for the second Ctrl-C,
and of a container that kept exiting and being restarted, so that no process need have been there to catch the first.
What the model does not have, and could be meant by it, is a container runtime that does not pass the signal on.  What
the code fails to do is what `graceful_shutdown` shows: it ends too soon, not too late.

What the passing runs show, most important first.  The service:

* `RotationRetiresParent`: no client has, or is being sent, the successor of a token that still validates.
* `CredentialLogsInOnce`: two chains of refresh tokens never start from one Google credential.
* `IsRefreshGrants`: the endpoints, four store calls to a refresh, implement `RefreshGrants`, where a refresh gives
  out one token for the user and the sign-in of the token it was sent and ends that one in the same instant, or gives
  out nothing.
* `FreshCookieIsGood`: the cookie of an answer on its way names a stored, unrevoked record of the right user.
* `ForksAreInFlight`: overlapping refreshes of one token *do* fork its chain (each request in flight may issue
  a successor), at most as often as requests overlap, and children of a token not yet revoked are still inside
  the handlers that issued them.  With the three tokens of `browser` the count cannot be exceeded, so that part
  rests on the theorem `ForksStayInFlight`; the run can only refute where the children are.
* `LogoutKillsToken`: while the store answers, an answered logout has killed its token.  (Its refreshes in flight
  may still deliver a successor: the model contains that behaviour and no document denies it.)
* `IsOneTimeNonce`, `PurgeKeepsUp`: the nonce table implements a one-time nonce, and holds nothing issued more than a TTL
  ago once a call has purged.
* `IsRefreshStore` (for both stores): the concrete stores implement the contract, where an `Issue` and a `Revoke` take
  effect at one instant and a `Validate` answers what it looked up, or that the token has expired since.
  `TwoMapsAgree`, `ChainsAreSound`: records of the stores never mix.  `NilMeansRevokedHere`: the last line of the
  database `Revoke`, which answers nil for a row it did not revoke, is never reached with that answer.

The browser and its page:

* `NeverStranded`: tabs that refresh at the same time, and responses in any order, never leave the browser with a revoked
  cookie, except until the successor arrives, or when that was lost, or when a tab logged out with it.
* `SignedOutStaysOut`: what the logout leaves in the jar is useless: after a logout that overlapped nothing there is
  no session cookie, and the refresh cookie does not validate.  (With a failing store this is false:
  `logout_store_failure`.  A refresh that overlaps the logout signs the browser in again; the model contains it and no
  document denies it.)
* `OneRefresh`: `apiFetch` never presents one refresh cookie twice at the same time, and a refresh that throws leaves
  no flag behind.
* `SettlesUnlessTryThrows`, `ServedByNextRefresh`: a call queued behind a refresh whose `fetch` throws is not settled
  by it, because the `finally` block lowers the flag and leaves the queue alone (`auth-client.js:147-166`).  These two
  say what remains: without a throw every call settles, however calls queue behind each other, and a stranded call is
  still in the list for the next refresh that completes.
* `ToldMatchesProfile`, `LogoutSticks`: overlapping reloads and logouts, and callbacks that throw, leave the
  application told what `getCurrentUser` says; only a reload that overlaps or follows a logout brings a profile back.
  (The one that overlaps is a hazard `LogoutSticks` excuses: the code lets it sign the user in again, and the
  application is told.)
* `RetryLogsInOnce`: `fetchWithRetry` repeats a login whose answer was lost, and however often it does the service
  logs in once.
* `ReadyMeansMatching`: preparations that overlap never leave Google's script and `activeNonceToken` with different
  nonces behind an enabled button.
* `NeverStuck`: the page never comes to rest signed out without a button that works, but for a failed preparation and
  for a 401 of `/api/me`, which really leave it so (`demo.html:771`).  A 401 may be the answer to a call from before a
  sign-out, or before another sign-in, and signs the page out all the same (`ApiAnswered`).

Sessions and the process:

* `NoSessionOutlivesTTL`, `NoEarlyRefusal`: on the clock of whoever validates, a session is accepted for no longer
  than its TTL and not a second or more before its mint; one that is due is refused only within the second that
  cutting dates takes, or by a clock that has not reached the mint: `IssuedAt` (`validator.go:173`) takes back the
  slack that `NotBefore` grants.
* `NotFoundHasCause`: `/me` answers 404 to a valid session only after a restart, or after a write of the user map that
  raced.
* `ServedWithAllProvided`, `AcceptedLoginIsAnswered`: until `serveHTTP` returns, which takes a shutdown or a listener
  that failed, no login meets a nil package variable; after that one may, and panic, but a login that stored its
  tokens has written its answer before that.
* `OneBuildPerReset`: logins that race for the validator cache build one validator between two resets.
* `NothingLeftProvided`, `SignalEndsProcess`: a run that ended has taken back all it provided, and a signal that was
  caught, or the failure of the listener, ends the process whatever the logins, the validator lock and `Shutdown` do.

### Bounds, and why they are enough

`Opaques`, `Nonces` and `Users` bound how many tokens, nonces and users one behaviour sees; three tokens are a login
and two forked successors, or a login, its successor and another login.  `Requests`, `Calls`, `Tasks`, `Inits` and
`Mints` bound what overlaps; two suffice for every pairwise race, slots are reused without limit, and where a third
matters it is there: a call queued behind another that refreshes while a third refreshes later.  In `server` two
logins meet at the cache lock; for any number of them there are the theorems.  `MaxTime` stops the clock after every
lifetime in the instance has run out at least once (in `sign_in` and `auth_faults` a nonce with TTL 0 is good for the
tick it was issued in, and dead in the next; a token issued at tick 0 of `auth_faults` has its expiry cut to second 0
and is dead at tick 1); in `session` the lifetime is odd in half-second ticks, so that cutting to seconds takes
something, and one service lags by more than the slack.  `MaxCrashes` and `MaxRestarts` are 1 because a crash leaves
the process in the state a start does.  `Attempts` 2 is one retry. `SequenceMod` stands for the 255 of `nextID` and
`MaxIssuesPerTick <= SequenceMod` is an assumption about machines, not code: more than 255 issues within one clock
reading would repeat an id.  The proofs have none of these bounds except `MaxTime`, `MaxCrashes`, `MaxRestarts` and
`Attempts`, which are arbitrary naturals in them.

### Fairness

`AuthClient` states weak fairness of each call's callback: a browser answers or fails every fetch and then runs the
continuation.  Nothing makes the application call, and nothing makes a refresh succeed. `Server` states weak fairness
of `runServer`, of the signal goroutine and of each handler: Go's scheduler runs every goroutine that can go on, and
building a validator, which asks Google, ends.  For the reset of the cache it states strong fairness: handlers on open
connections may take the lock again and again, but a `sync.RWMutex` holds later callers off while one waits to lock
it.  Nothing makes a client connect, an operator send a signal, the listener fail (`ServeFails`), a response get out
or ten seconds pass: `SignalEndsProcess` holds without any of these. The other specifications have none: their
properties are safety properties and refinements of safety specifications, true of every prefix.  A client may go away
and a process may stop at any step, and that is what the handlers have to be safe against.  Runs bounded by a stopped
clock and a finite supply of tokens do not deadlock: requests without a cookie can always be made, and calls on a
store can always be repeated.  Only the two runs of `Server` switch the check for deadlock off: a process that has
ended stops.

## 4. The proofs

Eight modules hold theorems, for any number of requests, tokens, users, calls, chains, services and logins, and any
lifetimes.  Each proof has a lemma for each action and an inductive invariant, because hardly any property is
inductive as it stands.

**`AuthService_proofs`**, with failing stores, lost answers and crashes allowed: `TypeCorrect`; `RotationIsSafe`
(`RotationRetiresParent`); `CookiesAreGood` (`FreshCookieIsGood`); `CredentialsLogInOnce`.  `IInv` adds:

* `SlotsOK`: a handler past its first step works on a nonce, user, or stored and delivered token it was given;
* `AllDrawn`: every stored or delivered token was drawn before, so a fresh one differs from all of them;
* `ChildrenPrivate`: the successor a handler holds is known to no client and to no other handler.  That is why
  nobody else can revoke it: `Revoke` is only ever called on a token some client presented.  With this, the
  rotation is safe because the only step that makes a successor deliverable is the one that finds its predecessor
  revoked;
* `NoncesSpent`: the nonce of every login under way or past has been issued and has left the table, and logins
  under way have different nonces.  `AfterConsume` and `PurgeExpired` only remove, `NonceIssue` only adds new ones.

Steps of a handler that touch neither tokens nor nonces go through `QuietStep`; steps that store a token through
`StoreForTokens` and `StoreForNonces`; steps that revoke through `RevokeForTokens`. The same invariant gives two
action properties that no run checks, because a small instance says little about them: `HandlersUseContract`, that the
handlers make one store call at a time and call the store only as its contract expects, and `TheDeadStayDead`, that a
token once drawn is never drawn again and never validates again once it does not.

*The refinement.* `ServiceKeepsGrants` (`IsRefreshGrants`) sees a token through `Worth`: its user while it validates,
its expiry left aside, and the first token of its chain.  `Granted` has the tokens clients hold or are being sent; a
successor a handler still holds is not among them, so the instant of a rotation is `RefreshRevoke`, which retires the
predecessor and lets the successor out, and a handler that dies or fails instead has given out nothing and at most
ended the predecessor.  There is one lemma for each action.  Beyond `IInv` the proof needs `SameSignIn`: a successor
waiting to be let out has the origin of its predecessor.  `SignInsKeepTheirUser` is then proved of `RefreshGrants`
alone and carried over: all the claims of a sign-in on a user (`Claims`), those of refreshes under way included, come
from its first token.  So all tokens of one sign-in that still sign somebody in sign in the same user.

*While the store answers.* `LogoutsKill` (`LogoutKillsToken`) has an invariant of its own, `LogoutInv`: the handler of
a logout past its `Revoke` holds a token that is dead, and the dead stay dead.  `ForksStayInFlight`
(`ForksAreInFlight`) needs to count.  `ForkInv` says that a token not yet revoked has no more successors than slots
times crashes so far, plus the handlers about to revoke it (`Retiring`); from its revocation on no refresh of it
begins, and the refreshes of it still under way (`Turning`) are all that is to come (`ForksCounted`).  `ForksHeld`
says where its successors are and `ParentsStored` that predecessors are stored.  The slots are finite sets and the
arithmetic is that of `FiniteSetTheorems`.

**`Browser_proofs`**: every behaviour of `Browser` is one of `AuthService` (`BrowserIsAClient`), so these hold in
front of a browser too; `ServiceKeepsItsWord` says so of the two properties its run checks.  `BrowserWellTyped`
(`BrowserOK`) needs that the cookies of jar and wire are cookies the service has given out (`TabInv`).  While the
store answers, `TabsNeverStrand` (`NeverStranded`): the cookie a response brings is unrevoked by `FreshCookieIsGood`,
and the only tokens a handler step revokes are the one its request was sent with, by a logout (which `excused` knows
from the moment it was sent) or with the successor on the response.  And `SignedOutIsOut` (`SignedOutStaysOut`):
`OutInv` says that while a browser is signed out, none of its requests under way can bring a cookie back but a login
(`NoWayBack`), which in turn rests on the logout having been alone (`AloneOK`) and its token dead (`LogoutInv`).

**`MemoryRefreshStore_proofs`**: `StoreWellTyped`, `MapsStayInverse` (`TwoMapsAgree`) and `ImplementsRefreshStore`.
`RecentIDs` says that the ids of this instant carry the last readings of the counter; `ModDiffers`, that readings
closer than the modulus differ, so the next id is free.  The refinement sees the record of a token through `Owner`,
the inverse of the hash map, which stays put while records keep their hashes (`OwnersStay`).  `RecordsStay` (no record
is lost or taken back from revoked) is read off the contract through that refinement.

**`DatabaseRefreshStore_proofs`**, with goroutines that interleave statement by statement and statements that fail
before or after they acted: `DatabaseWellTyped`, `ChainsStaySound` (`ChainsAreSound`), `NilMeansRevoked`
(`NilMeansRevokedHere`), `DatabaseImplementsRefreshStore` (`IsRefreshStore`), `VerdictsAreTrue` and `RowsEndure`.  The
invariant adds:

* `RowsArePast`: ids are readings of the clock, so a new one is at or after every stored one;
* `InsertsOK`: a row on its way to its INSERT has a hash no row and no other goroutine has, and its predecessor is
  stored.  That one may have been issued in the same instant, and it is then the primary key that rejects the row:
  this is why chains run strictly back in time;
* `FindsOK`: a `Revoke` whose UPDATE touched no row goes on to look for the reason only with a row that was revoked,
  and rows stay revoked;
* `LooksOK`: the row a `Validate` has read is still stored, with the expiry it had, and what was true of it at the
  SELECT can only have become worse.

The nil at the end of `Revoke` is out of reach by `FindsOK`, and with it the refinement goes through: an `Issue` and a
`Revoke` take effect at their INSERT, their UPDATE or their SELECT, a `Validate` looks up at its SELECT and judges at
the clock, which is `Judge` of the contract by `LooksOK`, and the contract's record of an opaque is found through
`Owner`.  `VerdictsAreTrue` says what is left of the single instant: an acceptance was true at the SELECT, a refusal
is true when it is given, and only its name, "expired", may hide an earlier revocation.

**`SignIn_proofs`**.  First the nonce store alone: `TypeCorrect`, `AcceptedNeverReturns` (`AcceptedIsGone`, which the
refinement implies), `PurgesKeepUp`, `ImplementsOneTimeNonce`.  The inductive invariant adds that an entry's expiry is
its issue time plus the TTL, and that outstanding and accepted nonces are disjoint; the refinement needs both, since
the abstract nonce decides "in time" from the time of issue and the code from the stored expiry.  Then the page:
`PageIsAClient` (every behaviour of the page is one of the store, so `StoreKeepsItsWord`), `PageWellTyped`,
`ButtonIsReady` (`ReadyMeansMatching`), `PageNeverStuck` (`NeverStuck`, strengthened to `WayOn`: a call of `/api/me`
under way is no way on), and `RetriesLogInOnce`: an exchange that has
logged in is about a nonce the store has accepted (`LoginsAccepted`), and by `AcceptedIsGone` it is never accepted
again.

**`AuthClient_proofs`**: `ClientWellTyped`, `RefreshesAreSingle` (`OneRefresh`, from the invariant that the flag names
the one call that refreshes, without counting), `PageToldTheTruth` (`ToldMatchesProfile`), `LogoutsHold`
(`LogoutSticks`); and the safety halves of the two liveness properties of the queue: `NobodyWaitsForNothing`, that
until something throws a call waits only while another refreshes, and `NobodyIsLost`, that calls leave the queue only
together, when a refresh that completes serves them.

**`Session_proofs`**: `SessionsWellTyped`, `SessionsEnd` (`NoSessionOutlivesTTL`) and `SessionsLast`
(`NoEarlyRefusal`; both from where the cut dates of a token lie, `AllDated`, and from what the first reading of the
clock established, `ParsedInTime`), `NotFoundExplained` (both handlers that mint have looked after the profile in the
same process).

**`Server_proofs`**: `ServerWellTyped`, `LoginsAreServed` (`ServedWithAllProvided`), `AcceptedLoginsAreAnswered`
(`AcceptedLoginIsAnswered`), `BuildsAreShared` (`OneBuildPerReset`), `RunsLeaveNothing` (`NothingLeftProvided`).  The
invariant ties what is provided to where `runServer` stands, the cache to its lock and to the number of builds, and
each login to what it may have found so far.  `LoginsAreServed` needs to know what brings `serveHTTP` back: nothing is
taken back before a shutdown was asked for or the listener failed (`Closing`), and until then everything is there
(`Serving`). The safety half of `SignalEndsProcess` is `NobodyWaitsInCircles` (once the listener is closed serving
returns, and the holder of the cache lock is building, not waiting) and `EndIsAhead` (`runServer` only goes forward,
through at most thirteen stages).

*Assumptions.* Those named in the modules (`ClockAssumption`, `NonceAssumption`, `LedgerAssumption`,
`MemoryAssumption`, `DatabaseAssumption`, `ServiceAssumption`, `SessionAssumption`, `ServerAssumption`,
`SignInAssumption`), which say that bounds and lifetimes are naturals, that the "no ..." values are not ordinary ones,
that TAuth is a service and its own clock the reference, and that no more ids are drawn within one clock reading than
the counter has values.  TLC evaluates them in the runs.  `~StoreFails` is an explicit hypothesis of
`TabsNeverStrand`, `LogoutsKill`, `SignedOutIsOut`, `ForksStayInFlight` and `ServiceKeepsItsWord`; without it
`LogoutKillsToken` and `SignedOutStaysOut` are false (`logout_store_failure`), and the others are not claimed.  The
last two also assume `IsFiniteSet(Requests)`: their statement counts requests, and only finitely many are ever in
flight.

*Only model-checked.* The liveness properties `SettlesUnlessTryThrows`, `ServedByNextRefresh` and `SignalEndsProcess`:
liveness under fairness and ENABLED are out of the prover's reach.  Their safety halves are proved, as said above;
that the steps ahead are taken is what TLC checks.  Every invariant, action property and refinement of a passing run
is stated by a theorem.  The four violated properties are refuted by TLC; there is nothing to prove.

## 5. Not modelled, and why

* CORS, static files, demo configuration, embedding, metrics counters, logging: constant content or write-only state.
  (That recorder and logger are there when a handler wants them is in `Server`.)
* `web/mpr-sites.js`, the layout and the notices of the demo page, CI, Docker and the Makefile: no behaviour of the
  service.
* Dialector resolution, the rewriting of SQLite paths and AutoMigrate: string work and a library call made once,
  before anything can overlap; `Server` has their failure.
* Signature, issuer and parsing of JWTs, and Google's validator: libraries; a validator's verdict is a choice.
* Several server processes over one database: the nonce table is per process, so such a deployment needs sticky
  sessions the repository does not describe.
* A clock that steps back; SHA-256 and random collisions.
* A request body or cookie a client makes up: an opaque nobody was given is answered as an unknown one, by the same
  branch as a token lost in a restart, which the models contain.
* The stray case in which a handler builds a validator between the reset of the cache and the end of the process:
  the model contains it (`OneBuildPerReset` counts it), `NothingLeftProvided` does not speak of the cache.

## 6. Plan

Done: nonce store, both refresh stores, the endpoints and what they promise clients, the browser's cookies,
`auth-client.js`, the sign-in of the demo page, session JWTs and `/me`, the process with its validator cache; and
proofs of every safety property and refinement the passing runs check.  Left, in order of importance:

1. `NeverStranded` stated and proved in front of `RefreshGrants`, with no store in sight.
2. `AuthService` composed with `RefreshStore` itself, whose calls have a beginning and an end, instead of the atomic
   `RefreshLedger` beneath both.
3. Opening the database: the dialector and the DSN as pure operators, against the tests' tables.
4. Several processes over one database, if the repository comes to describe such a deployment.
