# TLA+ specification of medods_dvortsov

`medods_dvortsov` is an authentication service in Go: it issues pairs of an access token (JWT) and a
refresh token, rotates them, revokes them, and lets other services in with an API key that can be
rotated. PostgreSQL holds users and refresh sessions, Redis holds the denylist of access tokens, the API
keys and the counters of the rate limiter. This directory specifies that behaviour in TLA+, checks it
with TLC and proves part of it with TLAPS.

Paths below are relative to the repository root, `src/` in `PROJECT.json`. "RU README" is the
repository's own `README.md`.

## 1. The system

| Component | State | Operations | Talks to |
|---|---|---|---|
| `AuthService` (`internal/service/auth.go`) and its handlers (`internal/controller/controller.go`) | locals of the goroutine that serves a request | `IssueTokens`, `RefreshTokens` with `detectTheftAndRevoke`, `Logout`, `AuthenticateAccessToken`, `GetPublicGUID` | token service, session store, webhook service |
| `TokenService` (`service/token.go`) with the denylist (`storage/redis/token.go`) | Redis keys with an expiry | create, validate and invalidate access tokens; create and validate refresh tokens | Redis |
| Session store (`storage/postgres/{user,session,storage}.go`, the migration) | tables `users`, `sessions` | the repositories' statements; `IssueTokensTx`, `RotateTokensTx` | PostgreSQL |
| `WebhookService` (`service/webhook.go`) | goroutines that hold the context of a request | `NotifyIPChange` | the receiver at `WEBHOOK_URL` |
| `APIKeyService` (`service/apikey.go`) | Redis keys `apikey:current`, `apikey:old`, `apikey:rotation_time` | `SyncAPIKey` at the start of the process, `IsValidAPIKey` for a request | Redis |
| `RateLimiter` (`api/middleware.go`) | a counter key and a block key for each address | one Lua script for each request | Redis |
| Authenticator, error handler (`api/middleware.go`, `api/error_handler.go`) | none | chooses API key or bearer token; turns errors into status codes | both services |
| Server life cycle (`cmd/main.go`, `api/api.go`) | `main`, the goroutine of the HTTP server, two timers, the open stores | start, signals, graceful shutdown | all |
| Configuration (`util/config.go`), connections (`util/db.go`), migrations | the settings read from the environment | parse with defaults, or end the process; open and close the stores | life cycle, rate limiter |
| Logging, generated routes, the test receiver | none that the above depends on | | |

What makes it hard: every request runs in a goroutine of its own and makes up to four separate calls to
two stores, with nothing that holds the calls together. A transaction holds row locks from one statement
to the next, and the DELETE of a revocation works on the snapshot it began with. What one call returned
is used after other requests have run; a call may fail after the one before it took effect; the answer
may be lost after the COMMIT; the process may die between any two calls. Keys expire by themselves. A
webhook goroutine lives on a context that ends with the request. `SyncAPIKey` writes three keys one by
one. A shutdown closes the stores while handlers may still be using them.

What makes each part correct:

* sessions: a refresh token is exchanged atomically and, as far as the code goes, once; reuse is
  detected, and only reuse; revocation reaches every session it is meant for; the two tokens of a pair
  stay bound to each other and to one user;
* denylist: a revoked access token is refused while its `exp` lies ahead;
* transactions: they are atomic however their statements interleave, a guid has one user, and every
  transaction ends;
* shutdown: it takes the stores from no handler before its timeout, and it ends;
* API keys: the replaced key works for 24 hours, and no longer; an instance runs on its own key;
* rate limiter: the number of requests let in within an interval is bounded, and nobody is locked out
  for good.

## 2. Modules

| Module | Models | Form |
|---|---|---|
| `SessionStore` | the tables and each SQL statement | operators on tables (sets of rows) |
| `TokenService` | tokens, their validation, the denylist and its expiry | operators on the clock and the denylist |
| `AuthService` | requests against both stores, webhooks, clock, crashes | state machine that extends the two above |
| `SessionLineage` | what becomes of a token pair: issued, exchanged, revoked | abstract state machine, implemented by `AuthService` and by `PostgresTx` |
| `PostgresTx` | the two transactions and the DELETE statement by statement, with locks, snapshots, deadlocks | state machine that extends `TokenService` (and through it `SessionStore`) |
| `Lifecycle` | `main`, `Run`, `ListenGracefulShutdown`, signals, timers, handlers in flight | state machine |
| `RateLimiter` | the Lua script, its settings and failures, key expiry | state machine |
| `APIKeyService` | `SyncAPIKey`, `IsValidAPIKey` and their three keys | state machine |
| `MCAuthService`, `MCPostgresTx`, `MCLifecycle`, `MCRateLimiter`, `MCAPIKeyService` | instances and symmetry sets for TLC | |
| `AuthServiceProofs`, `AuthServiceSafety`, `AuthServiceRefinement`, `AuthServiceConditions` | theorems about `AuthService`, each module on top of the one before | proofs |
| `PostgresTxProofs`, `LifecycleProofs`, `RateLimiterProofs`, `APIKeyServiceProofs` | theorems about the module of that name | proofs |

Operators such as `MarkNothing` or `OverLimitByOne`, marked `Mutant:` in their comment, are plausible
bugs of the definition below them. They are part of no specification; putting one in place of that
definition must violate the property `PROJECT.json` lists with it.

### AuthService

An action is what one goroutine does between two accesses to shared state, and it contains exactly one
access: a statement, a transaction or a Redis command. Only a DELETE takes two, its snapshot and its
COMMIT, because what other requests commit in between is spared. `req[r]` is the goroutine: `pc` names
the access it makes next, the other fields are the locals it has read before. `Arrive(r)` starts a
request (the entry of each handler up to its first access), `Serve(r)` continues it.

* **issue.** `IssueLookup` (clock, `GetUserByGUID`) → `IssueTokensTx` (the INSERTs and the COMMIT; a
  user inserted in the meantime is a violated UNIQUE constraint and a rollback) → `Respond`.
* **refresh.** `RefreshMalformed`, or `GetActiveSession` (the SELECT and every check made on its row in
  the code's order: JTI, User-Agent, address with the webhook, verifier) → either `RotateTokensTx` (with
  a clock read at any time between the two, as the code reads it before the transaction), or
  `RevokeSessions` (changed User-Agent), or, when there was no active row, `DetectTheft` (second SELECT)
  → `RevokeSessions` → `RevokeCommit`. The access token's claims are read without verification, so the
  JTI presented is anything the client may hold.
* **logout.** `AuthenticateAccessToken` → `LogoutValidate` (the second validation) → `LogoutInvalidate`
  (Redis) → `LogoutDelete` → `LogoutCommit` (PostgreSQL).
* **guid.** `AuthenticateAccessToken` → `GetPublicGUID`.
* `Respond` writes the answer, after which the request's context is cancelled and with it the webhook
  goroutines (`hooks`) that use it. `SendWebhook` is such a goroutine making its call in time.
* `Tick` moves the clock and lets Redis drop keys. `Crash` ends all goroutines; the stores keep what was
  committed, and the next process serves again.

With `Faulty` every access may fail. A COMMIT or a denylist write may fail in both ways, with and
without effect; an answer may be lost. `Faulty = FALSE` is the system on a good day.

Data abstraction: one member of `Pair` stands for everything drawn at random for one pair (selector,
verifier, JTI); `Hash` is an injective wrapper, so a hash never equals what it hashes; a client presents
values it received, or `Unknown` for anything else. The foreign key of `sessions.user_id` is no guard of
`CreateSession`, as the user of a new session is always there: the same transaction made or read it, and
no statement deletes one. `rotated` and `invalidated` are history variables,
read by no action.

Transactions are one atomic step each; `PostgresTx` looks inside them.

### SessionLineage

What the service promises about refresh sessions, with neither tables nor HTTP. A pair is `none`,
`active`, `used` or `revoked`. A client that saw a pair active holds a `grant` for it (`Grant`) and may
exchange it once (`Exchange`) for a pair nobody had, of the same owner; by then the pair may be used or
revoked already, which is the weakness of the code, stated as such. A revocation takes in one step
(`RevokeEnd`) all that its user had when it began (`RevokeBegin`). What is used or revoked stays so.

`AuthService` implements it under the mapping at the end of that module: `Status` reads the status of a
pair off the rows and the tokens issued (a pair that was issued and has no row is revoked), `Owner` off
the access tokens, `Granted` and `Scope` off the locals of the requests. Every handler that fails, dies
or finds nothing is a stutter or `GiveUp`.

### PostgresTx

A connection runs one transaction at a time: `BeginIssue`, `LookupActive` (the SELECT that
`RefreshTokens` makes before `RotateTokensTx`, outside of it) or `BeginDelete`, then one action for each
statement, then `Commit`. `tx[c]` is what a transaction has written and nobody else sees; `work[c]` says
which statement comes next. The rules of PostgreSQL under READ COMMITTED that matter here:

* a statement that changes a row waits for the transaction that changed that row before (`Locks`,
  `WaitsFor`), and then sees the row as that one left it;
* an INSERT waits for an uncommitted INSERT of the same guid, and fails if that one commits;
* a DELETE visits the rows of its snapshot one at a time, in any order (an UPDATE moves a row in the
  heap), and keeps its locks: two DELETEs of one user may deadlock, and a victim is chosen (`Deadlock`);
* any statement may fail and the deferred `Rollback` follows (`Abort`).

It maps to `SessionLineage` as `AuthService` does. So the atomic transactions of the one and the
statements of the other keep the same promise, and a rotation that fails half-way, waits for a DELETE or
is overtaken by one is no third case.

### Lifecycle

`main` is where `main` and `ListenGracefulShutdown` are: `connect` → `migrate` → `redis` → `sync` →
`config` → `run` → `wait` → `shutdown` → `closeDB` → `closeRedis` → `linger` → `off`. The goroutine of
the server and the handlers run beside it. `Fatal` is each `os.Exit` behind a missing setting or a
failed call, the OpenAPI document of `Run` included, and closes nothing. A server that is still starting
when the shutdown begins may find its port taken and end the process even then (`ServerFails`). `Signal`
ends the process before `NotifyContext`, sets `signalled` after it, and is ignored from then on. A
handler uses Redis, begins and ends a transaction and answers; with its store closed it fails. A
connection in use survives `sql.DB.Close`, so a transaction that has begun still commits.

### RateLimiter

Redis runs the script atomically, so a request is one action: `Accept`, `Refuse`, `ScriptError` (`SETEX`
with 0 seconds or less) or `FailOpen` (Redis not reached, or the reply of a script that did run lost: the
middleware lets the request in). Expiries are kept as ticks left, which keeps the state space finite
without a bound on time. `WholeSeconds` is the truncation of `int(d.Seconds())`, towards zero. Limit,
interval and block time of the process are a variable fixed by `Init` (`RateLimiterConfig`), so that one
run covers several settings, among them those nobody would choose: `NewRateLimiterConfig` refuses no
value that parses, negative ones neither. Two variables are history: `passed[a][i]` counts all requests
of the address that were let in during the last `i` ticks, for whatever reason, and `undecided[a][i]`
says whether one of them was let in because the script gave no verdict.

### APIKeyService

`Start`, `RunCommand`, `EndSync` are `SyncAPIKey` on an instance: one GET, then a go-redis pipeline,
which is not a transaction: each SET is an action and the commands after it may be lost. `GetCurrent`,
`GetOld`, `GetRotation` are the three GETs of `IsValidAPIKey`. `Deploy` changes the environment, `Stop`
stops or kills an instance. `SetRotation` truncates to seconds as `time.RFC3339` does. `previous`,
`retired`, `whole` and `since` (the instances started with the key now deployed) are history.

## 3. Runs

No run disables the deadlock check. Symmetry is used in safety runs only, over request, pair, address
and key identities, which no action tells apart.

| Run | Properties | Instance |
|---|---|---|
| `auth_overlap` | `TypeOK`, `StatusMatchesHistory`, `TheftOnlyAfterExchange`, `SessionBinding`, `ImplementsLineage` | 2 requests, 3 pairs, 2 User-Agents, faults, no time |
| `auth_nofault` | `ExchangesBoundedByOverlap`, `LogoutIsComplete` | 2 requests, 4 pairs, 2 users, no faults |
| `auth_sequential` | `RevokedTokenRejected`, `PersistentOnlyExpired`, `SingleUse`, `RevocationEndsLineage` | 1 request, 3 pairs, 2 addresses, faults, clock 0..2 with TTL 1 and leeway 1 |
| `postgres_tx` | `TypeOK`, `OneUserPerGuid`, `OnlyDeletesDeadlock`, `ImplementsLineage`, `TxEnds` | 2 connections, 3 pairs, 2 guids, 2 users, aborts, no symmetry |
| `lifecycle` | `TypeOK`, `CutOnlyByTimeout`, `StopEnds` | 3 handlers, any settings |
| `rate_limit` | `TypeOK`, `AtMostTwoWindows`, `LimitEnds` | limits -1, 0 and 2, intervals of -1.5 s, 0.5 s, 1.5 s and 2.5 s, block times of -1 s, 0, 0.5 s, 1.5 s and 3.5 s, half-second ticks, Redis faults |
| `apikey_faults` | `TypeOK`, `ServesItsKey`, `RetiredKeyExpires`, `GraceHeld` | 1 instance, 3 keys, grace of 2 ticks, clock 0..5, faults |

**What they show.** A rotation is all or nothing whatever fails (`StatusMatchesHistory`), reuse is never
found where there was none although it takes two SELECTs (`TheftOnlyAfterExchange`), and the tables stay
consistent with the tokens (`SessionBinding`). The RU README's "exchanged once" holds for requests that
do not overlap (`SingleUse` in `auth_sequential`, failures and crashes included); with overlap the code
promises one exchange for each request that overlaps (`ExchangesBoundedByOverlap`), and no more.
Likewise, revocation reaches all descendants when requests do not overlap (`RevocationEndsLineage`), and
Logout, when nothing fails, removes the session its token belongs to even if others overlap
(`LogoutIsComplete`). `RevokedTokenRejected` is about the denylist's expiry, computed from the clock and
dropped by Redis on its own; `PersistentOnlyExpired` says which keys Redis keeps for good, those of
tokens revoked in the leeway after `exp`. `ImplementsLineage` sums up what the sessions of both levels
promise. Statement by statement, a guid never gets a second user (`OneUserPerGuid`), and no transaction
waits for good, whatever fails (`TxEnds`): that takes the deadlock detector and the deferred Rollback.
Only deletions of sessions wait for each other in a circle (`OnlyDeletesDeadlock`), so that PostgreSQL
may end a Logout or a revocation to break one, and never an issue or a rotation. A
shutdown cuts a handler off only by its timeout (`CutOnlyByTimeout`), and a caught signal ends the
process even if a handler hangs (`StopEnds`). The counter of the rate limiter is a fixed window, so two
windows fit into an interval and no more. `AtMostTwoWindows` says so of all requests that are let in and
of every interval in which the script decided on each of them; while the script fails the middleware
lets everything in, without a bound, and what the property adds is that such a failure is paid for by
the intervals that contain it and by none after it. Refused requests do not prolong the counter's life
(`LimitEnds`).
A retired API key dies in time however the pipeline was cut (`RetiredKeyExpires`), and lives long enough
if the pipeline was not (`GraceHeld`); an instance serves only while its own key is the current one,
whichever command failed (`ServesItsKey`).

**Bounds.** Two requests are enough for each race listed in `PROJECT.json`, every one of which is
between two requests; the theorems below lift this bound for the invariants they cover. Three pairs make
a chain of two rotations, or two successors of one token and their parent; `auth_nofault` has a fourth,
because three exchanges of one token (what `ExchangesBoundedByOverlap` forbids for two requests) need
four. Two connections make every wait, both victims of a deadlock of two DELETEs, and a DELETE between
the statements of a rotation; three handlers are more than the shutdown tells apart. `PairLeft` keeps
requests out that would find no pair left; it is the model's bound, not the code's. Runs without time
have `MaxTime = 0`: none of their properties mentions the clock. `auth_sequential` has the clock pass
the token's `exp` and, at its end, the leeway. Three API keys make two rotations in a row, in five ticks
of which the grace period takes two; the runs of the API keys have one instance, as `docker-compose.yml`
has it. `MaxPassed` caps the history of the limiter just above two windows' worth (`2 * Quota`).

**Fairness.** `FairSpec` of `AuthService` has weak fairness of `Serve(r)`: the Go scheduler runs every
goroutine, and each call to a store returns, with an error if need be. Weak fairness of `SendWebhook(h)`
holds for the same reason, but only while the goroutine's context is alive. Nothing is assumed of
clients, of the clock or of crashes. `FairSpec` of `RateLimiter` only says that time passes. `FairSpec`
of `PostgresTx` has strong fairness of the statements of each connection: PostgreSQL queues those who
wait for a lock in order, so one that is freed again and again is got in the end; and weak fairness of
the deadlock detector, which a timer runs. That a connection aborts, or a client begins, is never
assumed. `FairSpec` of `Lifecycle` has weak fairness of the statements of `main` after the signal and of
the two timers, and none of the handlers.

### Disagreements between code and documentation

Each is a run that TLC must find violated.

| Run | Property | What happens |
|---|---|---|
| `auth_v_single_use` | `SingleUse` | two overlapping refreshes with one token both get a pair, because `RotateTokensTx` does not look at the status again |
| `auth_v_lineage` | `RevocationEndsLineage` | a refresh that read its session before Logout deleted it inserts the next one afterwards |
| `auth_v_webhook` | `WebhookReported` | the handler returns and cancels the webhook's context, and the change of address is not reported |
| `rate_v_block` | `BlockIsHeld` | the block key counts only while the counter is at its limit: with the default settings (1 minute, 5 minutes) the client is let in after the first minute |
| `rate_v_sliding` | `SlidingWindow` | the window is a fixed one that opens with the first request, not the sliding window of the RU README, so an interval may see more than the limit |

Others were seen while modelling and have no run of their own; where a property holds only under a
condition, these are the reason for it. `expires_at` of a session is compared nowhere, so an expired
refresh token is exchanged, where the RU README (line 156) has 401. When Logout's DELETE fails, the
retry is refused (the token is revoked by then) and the sessions live on, hence `LogoutIsComplete`
without faults. Within the parser's five seconds of leeway after `exp` the denylist key is gone and a
revoked token is valid, hence `now <= t.exp` in `RevokedTokenRejected`. A block time of 0, which the
comment of `RateLimiter` (`internal/api/middleware.go:84`) has for "no block", makes `SETEX` and with it
the script fail at the limit, and the request over it is let in; so does any block time below one second
(`AtMostTwoWindows` counts such a request as one without a verdict). An interval below one second has
the counter dropped as soon as it is made, hence the condition of `AtMostTwoWindows`; a limit of zero or
less is accepted and refuses everybody for good, hence the one of `LimitEnds`. A `SyncAPIKey` cut off
after it wrote `apikey:current` is not repeated, and the old key is then judged by the time of the
rotation before, hence the one of `GraceHeld`. Of two overlapping Logouts with one token, and of two
overlapping first issues for one guid, the second is answered 500. With two instances of the service and
different environments, TLC finds `GraceHeld`, `ServesItsKey` and `RetiredKeyExpires` violated. The
comment of `ListenGracefulShutdown` (`internal/api/api.go:130`) expects the closing of the stores to
wait for what uses them, which neither `Close` does: after the timeout a handler meets a closed store.
`JWT_SECRET` is looked at after `SyncAPIKey`, so that a start that fails for the lack of it has rotated
the API key.

## 4. Proofs

Every safety property of a passing run is a theorem, under the conditions named here. Assumptions on the
constants: `TTLAssumption` (durations are naturals), `AuthAssumption` (`Unknown` is no pair, the flags are
Boolean, the clock's bound is a natural), `APIKeyAssumption` (`Nothing` is no value of a Redis key,
durations are naturals, a second has ticks) and `LimiterAssumption` (the settings are integers of any
sign). The sets of requests, connections, pairs, users, guids, User-Agents, addresses and keys are
arbitrary, infinite ones included, except where a theorem says otherwise. Three conditions are
hypotheses of theorems: requests do not overlap (`Alone`), nothing fails (`~Faulty`), there is one
instance (`Single`). They are the instances of the runs that check the same property, and without them
it is false: the two violation runs and the text above say how. TLC checked every inductive invariant on
the instances of the runs before it was proved.

**AuthService.** `AuthServiceProofs` has `TypeCorrect` (`Spec => []TypeOK`), one lemma for each handler.
`AuthServiceSafety` proves `Spec => []IInv` and from it `RotationRecorded` (`StatusMatchesHistory`),
`PairsBound` (`SessionBinding`), `NoFalseAlarm` (`TheftOnlyAfterExchange`) and `RevocationHolds`
(`RevokedTokenRejected`). None of the four is inductive alone. `IInv` adds

* `TokensDistinct` and `HistoryIssued`: a pair drawn fresh occurs in no row, no history and no other
  token, so that a new row is never taken for an old one;
* `Remembered(r)`: what a goroutine has read is still so when it acts on it. In particular, a goroutine
  about to run the second SELECT of `detectTheftAndRevoke` knows that no row of its selector is active,
  and that stays true because issued selectors never become active again. This is the whole reason why
  reuse is not reported falsely, and it needs `StatusMatchesHistory`. A goroutine that deletes knows
  that the rows of its snapshot are its user's, which the refinement needs;
* `RevokedListed`: the denylist holds a revoked token at least up to its `exp`, or for good.

The proof separates the two halves: lemmas `Stored...` show that each change of the tables keeps
`Stored` and lets the tables only grow as far as goroutines remember them (`Grows`); `RememberedStable`
carries every other goroutine's memory over such a step; `InvIssue`, `InvRefresh`, `InvBearer` and
`InvOther` go through the actions. On top of `IInv`, `DenylistBounded` (`PersistentOnlyExpired`) holds
under any failures: a key without expiry is only ever made in the leeway after the token's `exp`.

`AuthServiceRefinement` proves `SessionsRefine` (`Spec => ImplementsLineage`): under `IInv` every step
of a handler maps to the abstract step of its name or changes nothing abstract.

`AuthServiceConditions` has what needs a condition. Three of its theorems are arguments about
`SessionLineage` alone, carried over by the refinement:

* `ExchangesBounded` (`ExchangesBoundedByOverlap`), for any finite set of requests: the exchanges of a
  pair and the grants for it that are still held never exceed the number of requests (`OverlapInv`),
  since nobody is granted a pair that has been exchanged;
* `SequentialSingleUse` (`SingleUse`) and `SequentialRevocation` (`RevocationEndsLineage`), where
  requests do not overlap, with every failure and crash. The invariant `AloneInv` of both: a pair that is
  granted is still active, a successor has its parent's owner and does not outlive it, and a revocation
  under way that takes a pair takes its live successor.

The other one is about the handlers where nothing fails, with any number of them overlapping.
`LogoutCompletes` (`LogoutIsComplete`): a session whose access token is revoked has a Logout at work
that will delete it, be it still before its DELETE or with the row in the DELETE's snapshot
(`LogoutInv`). That no rotation commits such a session late rests on pairs being drawn fresh.

**PostgresTx.** `PostgresTxProofs` proves `TypeCorrect` and `GuidsUnique` (`OneUserPerGuid`). The
invariant says what makes locks enough: rows are apart (`RowsApart`), users are apart, committed or not
(`UsersApart`: the wait for the other INSERT is what keeps this), what a transaction has written fits
its next statement (`Written`), and what it has read is still so (`Knows`). `DeadlockIsDeletes`
(`OnlyDeletesDeadlock`) follows from it: in a circle everyone waits and is waited for, and only a DELETE
still has a statement that can wait when it holds something another one wants.
`TransactionsRefine` (`Spec => ImplementsLineage`): all statements but the COMMIT stutter or grant, and a
COMMIT is `Issue`, `Exchange` or `RevokeEnd`, whole.

**Lifecycle.** `TypeCorrect` and `GracefulShutdown` (`CutOnlyByTimeout`) for any number of handlers. The
invariant says which stores are open where `main` is, that handlers run only under a server that was
started, and that the stores are closed only when no handler runs or the timer has expired
(`ClosedInTime`).

**RateLimiter.** `TypeCorrect` and `WindowsBounded` (`AtMostTwoWindows`) for all settings, addresses and
lengths of a second. `Counted(a)` relates the history to the counter: while the key is there, its
window is `Window + 1 - ttl` ticks old, the requests of that age are at most `count`, and those before it
fit into one window; once it has expired, what is left in the interval fits into one window. Each of
these says `AtMost(a, i, n)`: at most `n` requests were let in during the last `i` ticks, unless one of
them was undecided. So an undecided request, counted or not, makes every claim about the intervals it lies in void at once, and
`Tick` carries the rest over. A negative limit is why the property speaks of `Quota` and not of the limit
itself: such a limit lets nothing in, and twice a negative number is less than nothing.

**APIKeyService.** `TypeCorrect` for any number of instances; `OwnKeyServed` (`ServesItsKey`),
`RetiredKeysDie` (`RetiredKeyExpires`) and `GraceKept` (`GraceHeld`) for one (`Single`), all with any
keys, validations and grace period. `SyncInstalls` says how far a pipeline has come, failed commands included;
`OldDies` that `apikey:old` holds the current key or expires in time; `ChecksServed` that a validation
that has found its key there found it in time, which stays true because no rotation runs beside it.
`GraceKept` needs a second invariant, `GraceInv`: up to where the pipeline is, it has written what the
grace period needs of each key (`Rotates`: `apikey:old` outlives the 24 hours of the key it holds, the
time is that of the same rotation), unless a command failed, which the end of the pipeline reports. Both
of its clocks are in it: the expiry of `apikey:old` counts from its SET, the rotation time from when the
pipeline was built.

Only model-checked: liveness, that is `TxEnds`, `StopEnds`, `LimitEnds` and `WebhookReported`. Liveness
under fairness, and anything about ENABLED or by induction over data, is out of the prover's reach and
stays with TLC.

## 5. Not modelled

* The generated routing, the OpenAPI validator (a library) and the stand-alone test receiver
  `webhook_receiver.go`.
* Logging, and the contents of the migrations beyond the tables and their keys.
* Settings that only name an address, and the timeouts of `net/http`, which end connections of clients
  the model asks nothing of.
* Signatures: a token whose signature does not verify is refused like an unknown one.
* `DeleteSession`, which nothing calls, and the deletion of expired rows, which does not exist.
* The webhook receiver's status code, which is only logged, and the wording of messages.

## 6. Plan

Done: every component with state of its own, the abstract specification and its two implementations, and
a theorem for every safety property of the passing runs. What is left, in this order:

1. Safety lemmas the liveness properties rest on: where a shutdown or a transaction can stand still at
   all, and that the counter's remaining life never grows while a client is refused.
2. `APIKeyService` with two instances, once it is decided what should hold there.
