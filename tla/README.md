# ShieldCaptcha in TLA+

TLA+ models of ShieldCaptcha (the Go service under `internal/` and
`cmd/server`, the TypeScript SDK under `sdk/src`, the worker of the legacy page
under `web/`), the TLC configurations that
check them on small instances, and theorems about them that TLAPS proves for
every value of their constants. Paths below are relative to the root of the
source tree.

    tlc -config MCVerification_verify.cfg MCVerification.tla    # a run
    tlapm VerificationProofs.tla                                # a proof

## 1. The system

ShieldCaptcha hands out signed challenges and verifies answers to them. A
browser fetches a challenge, the user drags a slider, a worker searches a proof
of work, and everything is posted to `/api/verify`, where it passes a chain of
checks. A request that survives them spends the nonce of its challenge and is
answered with a token, the challenge's ID.

### 1.1 Components

| Component | State | Operations | Modelled in |
|---|---|---|---|
| Verification handler `internal/handler/handler.go` and challenge service `internal/challenge/challenge.go` | signing key; per request, the progress through the checks | `GetChallenge`, `VerifyChallenge`, `Generate`, `Verify`, `VerifyPoW` | `Verification`, `SingleUse`; `ChallengeService` for the difficulty and the proof of work |
| Nonce stores `internal/store/nonce.go`, `nonce_redis.go` | used nonces and their expiry, in memory or in Redis | `MarkUsed`, the janitor `cleanup` | `Verification` |
| Redis client `internal/storage/redis.go` | `circuitOpen`, `failures`, `lastAttempt`, three atomics | `Available`, `recordSuccess`, `recordFailure` around every command | `CircuitBreaker` |
| Verification log (`handler.go:484-544`) | bounded channel, batch, rows | `asyncLog`, `logWriter`, `flushLogs`; shutdown in `main()` | `LogPipeline`, `LossyLog` |
| Adaptive limiter `internal/ratelimit/adaptive.go`, and `ratelimit_redis.go` | per dimension value a Redis sorted set and, in memory, a deadline until which it is tightened | `AllowMulti`, `RecordBlock`, `Unblock`, janitor | `AdaptiveLimiter` |
| In-memory limiter `internal/ratelimit/ratelimit.go` | map of token buckets, never evicted | `GetLimiter`, `Allow`, `Middleware` | `ChallengeService`, `TokenBucket` |
| Difficulty and live configuration `challenge.go:96-107`, `handler.go:385-402`, `admin.go:468-487` | load counter, base/min/max read without a lock | `computeDifficulty`, `SetDifficulty`, `nextDifficulty` | `ChallengeService` |
| Risk engine and scorers `internal/risk/engine.go`, `behavior.go`, `replay.go`, `reputation.go` | stored trajectories, counters per IP and fingerprint | `Evaluate`, `Score`, `RecordResult` | `RiskEngine`, `TrajectorySignature` |
| Rule evaluator `internal/risk/rules.go` | an atomic pointer to the rule set, a mutex, a ticker | `Evaluate`, `GetActionOverride`, `Reload`, `pollLoop` | `RuleStore` |
| Admin API `internal/handler/admin.go`, `internal/middleware/auth.go` | sessions as signed tokens, rules, audit log | login, rules, unblock, difficulty, widget, experiments | rules in `RuleStore`, `Unblock` in `AdaptiveLimiter`, `SetDifficulty` in `ChallengeService` |
| SDK widget `sdk/src/index.ts`, `widget.ts`, `transport.ts` | slider status, drag, timers, current challenge, token | `runVerification`, `prefetchChallenge`, `loadRemoteConfig`, `reset`, `destroy` | `SdkWidget` |
| Proof of work in the browser: `sdk/src/core/pow-worker.ts`, `web/worker.js` | a counter | a hand-written SHA-256 and the search | `ProofOfWork`, `ChallengeService` |
| SDK biometrics, features and fingerprint `sdk/src/core` | point buffer | `start`, `stop`, `reset` | not modelled |
| Legacy page `web/captcha.js` | DOM and listeners | drag, retry | not modelled |
| Middleware and metrics | counters, the gauge of active sessions | wrappers | not modelled |
| Configuration, feature flags | read once at start | `Load` | constants of the modules; `Sane` in `ChallengeService` |
| PostgreSQL client, migrations | a pool | pure I/O | statements that succeed or fail in `LogPipeline` and `RuleStore` |
| Server start and shutdown `cmd/server/main.go` | selection of the nonce store; shutdown phases | `main` | `Verification` (`Restart`), `LogPipeline` (`Stop`) |
| Admin panel `admin/`, deployment, tests | | | not modelled |

### 1.2 How they interact

* The handler calls, in this order, `AllowMulti` (when the adaptive limiter is
  enabled), `Verify`, `VerifyPoW`, the interaction check, the risk engine,
  `MarkUsed`, `RecordResult`; every return passes by `asyncLog`
  (`handler.go:200-438`). README.md:29-33 lists the nonce before the proof of
  work; the code spends it last, and handler.go:359 says why.
* The risk engine runs its scorers side by side, takes their weighted mean, and
  lets a rule that hits replace the action (`engine.go:38-124`); the handler
  reports the outcome back to the reputation by `RecordResult`.
* The rules are edited in PostgreSQL by the admin API, which reloads them at
  once; the poller reloads them on a ticker.
* The nonce store, the limiter, the replay scorer and the reputation share one
  Redis client and hence one circuit breaker: a failure counted for one opens
  the circuit for all.
* A blocked request tightens the limiter for its IP and its fingerprint;
  administrators undo that by `Unblock`.
* `asyncLog` and `logWriter` share a channel. `main()` closes the database
  under them.
* The SDK and the server share the challenge, the answer, and nothing else:
  the SDK prefetches a challenge long before it knows that it needs it.

### 1.3 What is hard about it

Check-then-act over two or three Redis commands (limiter, replay, reputation);
three atomics that are read and written one after the other by any number of
goroutines (breaker); a configuration of three integers that is changed while
handlers read it one integer at a time (difficulty); a rule set that is loaded
twice in one evaluation and swapped in between; a double-checked map (token
buckets); three implementations of SHA-256's padding and two of its leading
zeros, which must agree; a store that forgets by wall clock; failures that are
taken for success (fail-open); a lossy queue with a batch, a ticker, a deadline
and a process exit; a closure in the browser that is read before and after an
await. `PROJECT.json` lists each hazard at its line, with the properties that
would notice it.

## 2. The modules

Each module opens with a comment saying which code it models. An action is one
atomic piece of code: what a mutex protects, one Redis command, one load or
store of an atomic, one stretch of JavaScript between two awaits. `PROJECT.json`
maps every definition to its lines. Definitions such as `Stale_Exactly` beside
`Stale` are deliberately wrong variants of a definition; substituted for it they
make a property fail, which shows that the property depends on that code.

### 2.1 `Verification` and `SingleUse`

`Verification` follows every request through the handler. `GetChallenge` issues
a challenge with the current key and an expiry; `Receive`, `CheckBody`,
`RateLimit`, `CheckChallenge`, `CheckSolution`, `Evaluate`, `Accept`,
`MarkUsed...`, `Credit` and `Succeed` are the stretches between two effects
that others can see; `Conclude` is what every return does: log, then answer.
A request that the risk engine blocks goes through `TightenLimiter`, `Blame` and
`Block`, one step for each call of `handler.go:334-346`, and between them the
others go on. `wired` says which collaborators the process was given at its
start; a call to one that is absent is left out (`Tell`).
`MarkUsedMemory` is one critical section, `MarkUsedRedis` one SETNX with expiry,
`MarkUsedFault` a SETNX that fails before or after it took effect, which the
code counts as a first use. `Cleanup` is a round of the janitor. `Restart`
starts the process anew: the memory store is empty, the store is selected again,
and the key is new unless it is configured (`main.go:28-80`).

Time is a clock of `Tick`s, of which `Second` make a second, because
the expiry that a challenge carries is truncated to seconds (`challenge.go:54`)
whereas nonces expire with full precision. `MaxStall` bounds how long a request
stays between the check of its expiry and `MarkUsed`.

Abstracted: strings and hashes. A challenge is a model value with a key and an
expiry; a request has at most one flaw (`body`, `signature`, `solution`, `interaction`); the risk
decision is any of the engine's outcomes (`RiskEngine` makes it), and whether a
solution is right is an input (`ChallengeService` finds it).

`accepted` and `faults` are history variables: how often a challenge was let
through by a store, and how often by a failing SETNX. `SingleUse` is the
promise: a challenge is issued, redeemed once while open, and closed.
`ImplementsSingleUse` states that `Verification` implements it. It, and
`AtMostOnce`, make no claim for a challenge that a failing SETNX let through.

`SoundDeployment` names what the configuration must guarantee and
`config.Load` does not check: nonces are remembered longer than the rest of a
challenge's life plus `MaxStall`, and a key that survives a restart comes with
a store that survives it. Redis is assumed to keep a nonce until its expiry.
`deploy/docker-compose.yml` configures `allkeys-lru`, under which a full Redis
drops keys before that; a challenge whose nonce is dropped can be redeemed again,
and none of the claims covers that.

### 2.2 `CircuitBreaker`

Each caller of the Redis client is a process. `Available` is split at every
load and store of the three atomics (`AvailableLoad`, `AvailableDue`,
`AvailableClaim`, `AvailablePing`, `AvailableClose`, `AvailableReset`), the
outcome of a command at `RecordSuccess`, and `RecordFailure`,
`RecordFailureOpen`, `RecordFailureStamp`. Redis goes down and comes back at
any time. A caller may cancel: its request's context ends, and the command
returns an error although Redis is up. The failure counter saturates at
`MaxCount`, at least the threshold (`Count`), since only the comparison with the
threshold is ever used.

### 2.3 `LogPipeline` and `LossyLog`

`AsyncLog` is the non-blocking send. `Receive`, `Ticker` and the flush (one
entry per `Insert` or `InsertFails`, `FlushDeadline` for the ten-second context)
are `logWriter`'s goroutine; `Stop` is `main()` after SIGTERM, step by step.
`LossyLog` is the promise: entries are accepted into an ordered backlog or
dropped, and leave it from its front, written or lost. The mapping takes the
rest of the batch followed by the channel for the backlog.

### 2.4 `AdaptiveLimiter`

Requests inside `AllowMulti` read the effective rate of the next dimension
(`Dimension`), then `Trim`, `Count` and `Add` are three Redis commands; a
command that fails leaves the decision to an in-memory token bucket, which may
answer either way (`Fallback`), while a failed ZADD may still have been
executed. `RecordBlock` and `Tighten` set the dimension values' deadlines one by
one. `Purge`, `Relax` and `Delete` are the admin handler's unblock in the order
of its calls; `Cleanup` is the janitor. `Slots` bounds the requests that are
inside at once; the code sets no such bound, so read the properties as
"by as much as there is concurrency".

### 2.5 `SdkWidget`

The closure of `render()` with its slider. A run is one call of
`runVerification`, cut at its awaits. Between any two of its steps a prefetch
may arrive (`PrefetchEnds`), the two-second timer of an older error may fire
(`Timer`), the remote theme may render the slider again (`ConfigEnds`), and the
page may call `reset()` or `destroy()`. None of these stops a run. `Serve` is
the server as `Verification` describes it. A slider outside the page has no
width, so a drag that outlives `destroy()` cannot reach its end. The page's own
callbacks are assumed to return; one that calls `reset()` is the step before it
followed by `Reset`. `Serve` may refuse a solution for its digest as well, which
`ChallengeService` shows to happen to every solution of the SDK but by luck.

### 2.6 `RuleStore`

The table of rules, the administrators' edits (`CreateRule`, `UpdateRule`,
`DeleteRule`: a commit, a reload, an answer), the poller, and evaluations.
`loadRules` is cut at its mutex and its query: `Lock`, `QueryFails`, `ReadRows`
or `ReadSome` (the stream of rows breaks and nobody asks `rows.Err`),
`StoreRules`. An evaluation loads the rules to find those that hit (`Hit`) and
again to see what they ask for (`Decide`), with any number of reloads between.
A rule stands at its place in the order of weights; its body is what its row
does to the request: its name, whether its condition holds, and its action, which
may be a value no code knows (`"other"`). What an evaluation carries from the first
load to the second are names (`hits`), and an update may give a rule another name or
another weight; the schema keeps names apart (`Distinct`). The first load at the start
of the process may fail or be cut short like any other. `version`, `loaded` and `whole` are history
variables: how many edits were committed, at which the rules in memory were
read, and whether all of them were.

### 2.7 `RiskEngine` and `TrajectorySignature`

Evaluations whose scorers run side by side. The replay scorer's read
(`ReplayGet`) and write (`ReplaySet`), the reputation scorer's reads, and each
command of `RecordResult` (`Add`, `Expire`) are steps, each of which may fail;
an open circuit skips a scorer (`ReplaySkip`) or the whole of `RecordResult`
(`Recorded`). `Decide` is what follows `wg.Wait`: the weighted mean, the
thresholds, the rules, and what the handler makes of it. Redis forgets
trajectories (`Forget`) and counters (`Lapse`). `Crash` ends the process between any
two commands, also between an increment and its `Expire`. `known` is a history
variable: the evaluations that began with their own trajectory remembered for their
fingerprint, for as long as it is and the scorer has read it or can.

Scores are counted in twentieths, the unit of every penalty, and compared
without rounding; a sum of floats that lies on a threshold may fall on either
side of it. What the behaviour scorer takes of a request is a set of signs, each
with its penalty; the statistics behind a sign are data. The four reads of the
reputation scorer give any of `Counts`, because other requests may change the
counters between them.

`TrajectorySignature` is the pure part: which points a signature samples, the
edit distance as `levenshtein` computes it, row by row, and the two thresholds
of similarity. `MCRiskEngine` compares the distance with its definition (the
least number of insertions, deletions and replacements) on short signatures, and
`RiskEngineProofs` proves that they agree on all. `RiskEngine` takes from it the
score of each trajectory when another one is stored (`ReplayScore`).

### 2.8 `ChallengeService`, `TokenBucket` and `ProofOfWork`

One round of a client: a challenge, the search, the verification, each request
behind the in-memory limiter. `Look` and `Create` are `GetLimiter` under its two
locks. The key of a bucket is what `extractIP` gives (`ExtractIP`): the whole of
`X-Forwarded-For`, else `X-Real-IP`, else `RemoteAddr` with its port, so that a client
may come under several keys and two clients under one (`OriginsOf`). `ReadLoad`, `ReadBase`, `ReadMin`, `Raise`, `ReadMax` and `Lower` are
`computeDifficulty`, one access to the shared configuration each, while `Store`
writes it field by field; the fields are any integers that pass the handler's one
check, negative ones included. `Advise` is the difficulty that the verify handler
recommends, `DecrementLoad` the deferred end of `GetChallenge`, after the challenge
or the error was written. One call of `SetDifficulty` runs at a time. `inForce` is a history
variable: the settings in force since a handler began.

`TokenBucket` promises one bucket per key; a token that a request takes is taken
from the bucket of a key that its client comes under (`ImplementsTokenBucket`). It is
not a limit per address: see 3.1.

`ProofOfWork` writes down the padding of SHA-256 as FIPS 180-4, `worker.js` and
`pow-worker.ts` have it, and the two ways of counting leading zeros. The
compression function is not modelled: who hashes the same blocks gets the same
digest, who hashes others gets any digest at all.

## 3. What TLC checks

Configurations are named `<module>_<run>.cfg`. Deadlock is checked in the runs of
`Verification`, `CircuitBreaker` and `RuleStore`. It is not where the model really
ends: when the process has exited (`LogPipeline`), when every request has been
through (`AdaptiveLimiter`, `RiskEngine`, `ChallengeService`), when the page does
nothing more (`SdkWidget`).

| Run | Bounds | Properties |
|---|---|---|
| `verify` | one challenge, two requests, either store, one failing SETNX, one restart that may select the other store and lose the collaborators, clock beyond every expiry | `TypeOK`, `AtMostOnce`, `SpentIsRemembered`, `ReplayIsHonest`, `RecordsAgree`, `ImplementsSingleUse`, `EveryRequestAnswered`, `NoncesAreForgotten` |
| `breaker` | two callers, threshold two, cancellations | `TypeOK`, `CounterAgrees`, `OutageIsNoticed`, `RecoveryIsNoticed` |
| `log_pipeline` | channel and batch of two, six entries, with and without PostgreSQL | `TypeOK`, `Bounded`, `ImplementsLossyLog`, `EveryEntrySettles` |
| `limiter` | base rate four, two slots, window and tightening of two ticks, two blocks, one unblock, failing Redis | `TypeOK`, `OvershootBounded`, `TightenedBounded`, `TighteningKept` |
| `sdk_widget` | two runs, two challenges, one reset, one new theme | `TypeOK`, `TokenIsEarned`, `StatusIsHonest`, `SliderComesBack` |
| `rules` | two rules, two names, two edits by one administrator, the poller, one evaluation, failing and broken queries, also at the start | `TypeOK`, `AcknowledgedIsLive`, `NeverOlder`, `VerdictIsGrounded`, `RulesCatchUp` |
| `risk` | two evaluations from one address with two fingerprints, three trajectories and a short one, three readings of the counters, crashes | `TypeOK`, `HarshMeansReplay`, `RememberedIsReviewed`, `ForeverOnlyByFault` |
| `challenges` | a client of each worker behind one proxy, one of them also coming directly, two tokens, three settings of which one has negative fields and one is refused | `TypeOK`, `DifficultyInForce`, `LoadIsInside`, `WebSolutionAccepted`, `ImplementsTokenBucket` |

What they show:

* **`AtMostOnce`, `SpentIsRemembered`**: two requests that hold the same
  challenge at the same time, across the janitor, the expiry of the Redis key and
  restarts, never both win, unless a SETNX failed, and the store remembers an
  accepted challenge for as long as any request could still redeem it.
* **`ReplayIsHonest`**: nobody is told of a replay whose challenge had not been
  accepted before. A handler that spent the nonce before checking the solution
  would break it.
* **`RecordsAgree`**: what the limiter, the reputation and the log are told
  agrees with what the client is told: only the winner of a solved challenge of the
  key in force is credited; only such a request, stopped by the risk engine, is
  blamed or has its keys tightened; who was told "blocked" has been reported to each
  collaborator there is, and to the log; a pass is logged for a success alone. A
  handler that returned early between the three calls would break it.
* **`EveryRequestAnswered`, `NoncesAreForgotten`**: every request that entered
  the handler leaves it; the memory store forgets every nonce.
* **`CounterAgrees`**: a closed circuit whose counter has reached the threshold
  means that some caller is about to open it or to reset the counter. **`OutageIsNoticed`**: an outage that
  lasts ends with the circuit open for good, but for probes.
  **`RecoveryIsNoticed`**: if Redis stays up and commands stop failing, the
  circuit is closed for good in the end, whatever late failures were still
  on their way.
* **`Bounded`, `ImplementsLossyLog`, `EveryEntrySettles`**: memory is bounded
  however slow PostgreSQL is; every entry is written at most once and in order,
  or lost; none waits for ever, even in a batch that never fills.
* **`OvershootBounded`, `TightenedBounded`**: three separate commands let more
  through than the limit, but by less than the number of requests inside at
  once; for a tightened key also when requests still hold the old limit.
  **`TighteningKept`**: neither a further block nor the janitor ends or shortens a
  tightening that is in force, although both write the deadlines without
  coordination. It does not speak of other ends (3.1).
* **`TokenIsEarned`, `StatusIsHonest`, `SliderComesBack`**: whatever overtakes
  a run in the browser, the token is a challenge the server accepted, the
  status never claims work, an error or a success that is not there, and the
  slider never stays stuck.

* **`NeverOlder`, `AcknowledgedIsLive`**: query and swap are one critical
  section, so a slow load never overwrites a newer one, and an administrator who
  is told "created" can rely on it unless the reload failed. **`RulesCatchUp`**:
  whatever failed, the poller brings memory and table together again and again.
  **`VerdictIsGrounded`**: the second load of an evaluation may find other rules
  than the first; then the severest decides of the rules that have the names that
  hit. A rule that was deleted or renamed is silent. One that was *changed* decides
  as it now is, even if its new condition would not hold: the code looks up names,
  and the property records it rather than excludes it.
* **`HarshMeansReplay`**: the score alone escalates or blocks nobody whose
  trajectory was not met before, in another evaluation of the fingerprint;
  failures of Redis block nobody, nor does a bad reputation, which every block
  makes worse. **`RememberedIsReviewed`**: who replays what Redis remembers of
  the fingerprint, when the evaluation begins and when the scorer reads it, is not
  passed by the score, however the scorers interleave. The exceptions are part of the
  model: an open circuit or a failed `Get` counts for nothing, what was remembered may
  expire or be replaced before the scorer reads, and a rule that hits may decide
  otherwise. **`ForeverOnlyByFault`**: a counter whose
  hour never ends is due to an `Expire` that failed or that a crash forestalled; both
  happen in the model, and both are left to stand by the code.
* **`DifficultyInForce`**: although three integers are stored and read one by
  one, each difficulty lies between a minimum and a maximum that were in force
  while it was computed; the two may be of different settings, so a mixture is not
  excluded. **`LoadIsInside`**: a request that fails gives its load
  back. **`ImplementsTokenBucket`**: requests that meet in `GetLimiter` under one key
  share a bucket. **`WebSolutionAccepted`**: the legacy worker's solution is accepted,
  whatever the difficulty has become meanwhile.

### 3.1 Disagreements with the documents

Four are runs that TLC must find violated; `PROJECT.json` quotes the text.

* `log_shutdown`: accepted entries are lost in an orderly shutdown.
* `sdk_mismatch`: a drag faster than the first prefetch solves one challenge
  and submits another; the server refuses an honest user.
* `rules_truncated`: an outage that begins while rows are read takes rules out
  of memory, where the documents promise that loading is skipped.
* `pow_sdk`: the SDK's worker writes the message length twice into its last
  block (a JavaScript shift by 32 is a shift by 0), so its digests are not
  SHA-256 and the server refuses its solutions.

Two more contradict what a reader of the documents would expect of properties that
hold here:

* **A tightened limit does not recover by good behaviour.** docs/architecture.md:126
  says that a tightened limit is restored after ten passes in a row. Nothing in the
  code counts passes: a tightening ends when its duration is over, or by an
  administrator's `Unblock`. `TighteningKept` is therefore silent about the ends of a
  tightening that the documents promise and the code lacks; that the only ends are
  these two is visible in the actions that write `tightened` (`Tighten`, `Cleanup`,
  `Relax`).
* **The in-memory limiter does not limit an address.** README.md:47 promises a limit
  per IP. The key is `extractIP`'s string (`ratelimit.go:61-69`): without a proxy's
  header it is `host:port`, so every connection of a client has a bucket of its own;
  with `X-Forwarded-For` it is that whole header as it comes, of whatever content.
  The map of buckets is never emptied, so it grows with every key. What is proved is
  one bucket per key.

Seen while modelling, and not run:

* Nonces: a failing SETNX is taken for a first use, where the documents promise
  a fall-back to memory. With `NonceExpiry` equal to `ChallengeTTL`, as the
  end-to-end test configures them, a nonce is forgotten while its challenge is
  still valid, because the expiry of the challenge is compared in whole seconds.
* Breaker: `circuitOpen` is stored before `lastAttempt`, so a caller in between
  probes at once; several callers may pass the check of `lastAttempt` and all
  ping (docs/architecture.md:100 speaks of one); contexts that the client
  cancelled count as failures of Redis and open the circuit of a healthy server.
* Limiter: `int(cfg.RateLimit) * 60` (`main.go:135`) is zero for a rate below one
  per second, and the adaptive limiter then refuses every request;
  `LimiterAssumption` asks for a rate whose quarter is still positive.
* Two administrators who call `SetDifficulty` at once may leave the base of one
  and the maximum of the other. Its check is `min <= base <= max`: negative
  difficulties, and zeros for omitted fields, are taken, and then every digest meets
  the difficulty.
* The gauge of active sessions falls below zero: a verify request decrements it
  without a challenge having incremented it.
* Audit entries are lost without a word when `ip::inet` cannot cast an address
  with a port.
* Risk: without Redis the behaviour alone is weighed, so a Redis that is
  configured and down is more lenient than none; a signature keeps every second
  point of forty, but of thirty-nine only the first twenty; only the last
  dissimilar trajectory of a fingerprint is remembered.
* Feature flags: `FlagAdaptiveRate` and `FlagRiskEngine` are consulted
  (`handler.go:253,321`); `FlagBehavior`, `FlagReplayDetect` and `FlagAdminPanel` are
  set and never read.
* SDK: after an exception the biometrics stay stopped and the old points are
  submitted again; a theme that arrives after `destroy()` brings the slider
  back; a token may be set after `reset()` by a run begun before it.
* Legacy page: every retry adds the listeners again, and a rejected promise
  leaves the page stuck.

### 3.2 Bounds

Two requests race for one challenge in `Verification`: the stores treat
challenges independently, and the theorems remove the bound. The clock runs past the latest expiry, so each entry is
remembered, stale and forgotten within a run. Two callers suffice for the
breaker's races, which involve one late store against one complete probe; the
theorems remove the bound for the counter (three callers, 1.1 million states, hold
as well). The limiter starts when three
requests have been through already (a state they reach by themselves), which
leaves three to fill the window to the bound; `View` drops the locals of handlers
that have returned. In `SdkWidget` two challenges are enough for one to overtake
the other, and a fetch beyond the bound fails.

Two rules are enough for the truncated set, for the order of severity and for a
rule that goes between two loads; two edits, for a load that is overtaken. Two
evaluations meet at every command of the replay scorer and the reputation; of
the three trajectories one replays both others, which merely resemble each other,
and the readings of the counters lie below, on and above the thresholds. Two
clients are the race in `GetLimiter`, and two settings of which neither range
holds the other make every mixture visible; the two tokens run out when they make
four requests. `MessageLengths` are the lengths that the workers really hash.
`SecretSurvives = TRUE` (a configured key, with Redis) is left to the theorems.

### 3.3 Fairness

Liveness is checked under weak fairness of code that the runtime schedules and
that has a deadline, never of what users do. Two assumptions reach further, and are
justified below: that somebody keeps calling Redis (the breaker) and that PostgreSQL
does not fail for ever (the rules):

* `Verification`: a handler's steps go on, the clock ticks, the janitor's ticker
  fires (`nonce.go:53-60`).
* `CircuitBreaker`: a caller that has begun goes on, since commands have read
  and dial timeouts; and callers keep coming, for the Docker health check calls
  `/health`, and with it the client, for as long as the service runs
  (deploy/docker-compose.yml:70-71). Without traffic a circuit would have no
  occasion to close.
* `LogPipeline`: `logWriter` runs, its ticker fires, an insert returns because
  its context has a deadline (`handler.go:523`).
* `RuleStore`: the poller's ticker fires, the mutex is handed to every waiter in
  the end (Go's starvation mode, hence strong fairness of `Lock`), a query ends
  within five seconds (`rules.go:209`), and PostgreSQL does not fail the poller for
  ever (strong fairness of its `ReadRows`): without that assumption nothing in
  the code brings the rules up to date.
* `SdkWidget`: fetches end, the search is bounded (`pow-worker.ts:75`), timers
  fire.

## 4. What TLAPS proves

| Module | Theorem | States |
|---|---|---|
| `VerificationProofs` | `TypeCorrect` | `TypeOK` in every deployment |
| | `HonestReplay`, `AgreeingRecords` | `ReplayIsHonest`, `RecordsAgree` in every deployment |
| | `SingleAcceptance`, `SpentRemembered` | `AtMostOnce`, `SpentIsRemembered` in every sound deployment |
| | `Refinement` | `Verification` implements `SingleUse` in every sound deployment |
| `CircuitBreakerProofs` | `BreakerTypes`, `CounterSettles` | `TypeOK`, `CounterAgrees` |
| `LogPipelineProofs` | `PipelineTypes`, `PipelineBounded` | `TypeOK`, `Bounded` |
| | `PipelineImplements` | `LogPipeline` implements `LossyLog` |
| `AdaptiveLimiterProofs` | `LimiterTypes`, `OvershootIsBounded`, `TightenedIsBounded` | `TypeOK`, `OvershootBounded`, `TightenedBounded` |
| | `TighteningIsKept` | `TighteningKept` |
| `SdkWidgetProofs` | `WidgetTypes`, `EarnedToken`, `HonestStatus` | `TypeOK`, `TokenIsEarned`, `StatusIsHonest` |
| `RuleStoreProofs` | `RuleTypes`, `RulesNeverOlder`, `AcknowledgedLive`, `VerdictGrounded` | `TypeOK`, `NeverOlder`, `AcknowledgedIsLive`, `VerdictIsGrounded` |
| `ChallengeServiceProofs` | `WebPadding`, `SdkPadding` | the legacy worker pads every message below 512 MB as SHA-256 does, the SDK's worker none between one byte and 512 MB |
| | `ZerosAgree` | both ways of counting leading zeros agree on every digest, for any number of bits |
| | `ServiceTypes`, `LoadSettles`, `WebAccepted`, `DifficultyStaysInForce` | `TypeOK`, `LoadIsInside`, `WebSolutionAccepted`, `DifficultyInForce` |
| | `LimiterRefines` | the map of buckets implements `TokenBucket`: one bucket per key |
| `RiskEngineProofs` | `EngineTypes`, `MortalCounters`, `HarshIsReplay`, `RememberedReviewed` | `TypeOK`, `ForeverOnlyByFault`, `HarshMeansReplay`, `RememberedIsReviewed` |
| | `DistanceIsLeast` | what `levenshtein` computes is the least number of edits, for all signatures |
| | `SimilarIsFewEdits`, `SimilaritySymmetric` | what the two thresholds accept; similarity does not depend on the order |
| | `CopyScoresAsReplay` | a copy of a stored trajectory scores as a replay |
| | `SampledPoints` | a signature samples twenty points, or all of fewer |

The assumptions are the named `ASSUME`s of the modules, which the runs
evaluate, and for `SingleAcceptance`, `SpentRemembered` and `Refinement` the
hypothesis `SoundDeployment`.

**Single use.** `AtMostOnce` alone is not inductive: a second winner is stopped
by what the store remembers, not by a counter. `IInv` adds that the selected store
holds an accepted challenge, as long as it is not closed, until `Expiry` after its
birth (`Covered`); that a request past the checks found its challenge in date, under
the key in force, at most `MaxStall` ago, so that it reaches `MarkUsed` while the
entry is still there (`InFlight`: this is where `MaxStall` and `SoundDeployment`
enter); and that every winner holds an accepted challenge of its own (`Winning`).
`Presented`, `Past`, `Keys` and `Unissued` say that a checked challenge was issued,
in the past, under a key drawn no later than the one in force. The refinement
theorem maps each step to an issue, a redemption, a closing or a stutter by the
same invariant.

`HonestReplay` and `AgreeingRecords` need no sound deployment: a nonce is in a store
only because its challenge was let through (`Earned`), and what a request has told
the others is fixed by how far it has come (`Truthful`).

**The breaker's counter.** `CounterAgrees` is inductive together with the types,
because it names who owes the next step: a counter at the threshold with the flag
clear is owed to a caller at `trip`, which has counted and not stored, or to one at
`reset`, which has closed and not reset.

**The log.** Besides the sizes, the invariant keeps the batch short of a full
one whenever no flush is running. For the refinement, `Rest` is what is left of
the batch; each step of the writer takes the front of the backlog or leaves the
backlog as it is, and the steps of `main()` leave it alone: what is in it when the
process exits is neither written nor counted as lost.

**The overshoot.** A request that was counted in but not yet added holds a slot
and has a place reserved: size of the window plus the additions on their way is
at most the base rate plus the slots minus one. When one more is counted in, the
window itself was below the limit and everybody else inside holds another slot.
While a key is tightened the same holds for the tightened rate and for those who
read it since (`Tight`); who read the old limit did so before, and whatever they
add is older than the tightening (`Timely`). For `TighteningKept` the deadline of a
key is at most a duration away (`Due`), so a further block only moves it on.

**The token.** An answer that is on its way speaks of the challenge submitted
(`AnswersAreTrue`), and a run submits once (`PostedOnce`); hence a success has
a token, which `HonestStatus` needs.

**The rules.** Whoever queries or stores holds the mutex (`Exclusive`), so what it
has fetched is as new as memory (`Fresh`); an administrator past the reload has
seen its own edit loaded (`Own`); a whole load of the newest version is the table
(`Real`). For `VerdictIsGrounded`, no two rules have one name, in the table, in memory
or on the way (`Named`), so a name finds its rule (`AskedByName`); what the loop of `GetActionOverride` has so far is
the severest action among the names it has passed (`OverrideLoop`, by induction over
the places, from what one turn prefers: `PreferType`), and hence, at the end, among
all that hit (`OverrideIsSeverest`).

**The challenges.** A key has one bucket, and whoever holds a bucket holds that of its
key (`OneBucket`): the one thing the second look under the write lock is for. The
load is the cardinality of the handlers inside. The configuration is at each
instant old in the fields not yet stored and new in the others (`Stored`), both of
which every handler inside has among its settings in force (`Witnessed`); hence a
bound read from either field is one of theirs (`Bounds`). What the web worker found
meets the difficulty it was given (`Found`), and with `WebPadding` the server
computes the same digest. The padding theorems are arithmetic about the length of
the last block.

**The risk engine.** What is remembered for a fingerprint was brought by an
evaluation of that fingerprint whose replay scorer is done (`MetStored`); so who
matches it, being at its scorer, is another one (`MetReplay`). Without a replay or
a resemblance the weighted score stays below an escalation whatever the others say,
and with a replay above a review (`ScoresDecide`, by the ranges of the scores).
`RememberedIsReviewed` needs that the replay scorer of an evaluation in `known` has
found the replay, once it is done, or still finds it stored (`StillKnown`, kept by
every step of every other evaluation). `Judged` keeps the decision to a score that no longer changes (`Kept`).

**The edit distance.** The two rows that `levenshtein` swaps are the rows of one
table (`LevenshteinTable`), whose cells obey the textbook's recurrence (`Cell`).
That the last cell is a lower bound: an edit of `b` at one place leaves the columns
before it as they are and moves those behind it by one place at most, each at a
cost of one at most (`Shifted`, with the seam by `Neighbours`), so one edit changes
the distance by one at most (`EditStep`), and `n` edits by `n`. That it is an upper
bound: cell `i, j` counts the edits that lead from `a` to the first `j` characters
of `b` followed by what `a` has after its first `i` (`Mixed`), since each of the
three neighbours is one edit away, or none (`MixedEdits`).

**Induction.** The library's induction theorems take an operator as a parameter,
which no installed prover instantiates. `Induction` does without: the elements of
`0..N` outside a set have a least one, because `<` is well-founded on the naturals
(`WFMin`, `NatLessThanWellFounded`), and a least one cannot be. From it follow
induction over the cells of a table (`GridInduction`) and that a recursive function
over `0..N` exists (`Recursion`), which is what unfolds `Override`, `NextRow`,
`Levenshtein` and `EditBall`. `RuleStoreProofs` has its own copy of the two lemmas.

Only model-checked: liveness, which is out of the prover's reach
(`EveryRequestAnswered`, `NoncesAreForgotten`, `OutageIsNoticed`,
`RecoveryIsNoticed`, `EveryEntrySettles`, `SliderComesBack`, `RulesCatchUp`). Every
invariant and every other action property of the runs is a theorem.

## 5. What is not modelled, and why

* The legacy page `captcha.js`: kept for compatibility; its fault (listeners that
  double with every retry) grows with the very number a model would bound. Its
  worker is modelled.
* The SDK's biometrics, features and fingerprint: browser data and floating
  point. Points submitted twice are scored as a replay, and `RiskEngine` says what
  that leads to.
* `GetWidgetConfig`, the statistics and log queries, the CRUD of widgets and
  experiments: SQL and template data that no other code path depends on.
* Authentication of the admin API: stateless signed tokens, without a transition
  that two requests share.
* Middleware, metrics (and with them the gauge of active sessions), HTTP plumbing,
  layout, the admin panel, generated bundles, migrations and deployment files.
* `Verification`, `RiskEngine`, `RuleStore` and `ChallengeService` are not composed
  into one state machine: each takes the others' outcome as any that they may give,
  which is more than the composition allows, so what is shown holds of it.
* A process restarted with a configured key and the memory store forgets its
  nonces; `SoundDeployment` excludes it, and nothing in the code does.
* Retries inside go-redis may turn a lost SETNX answer into a false replay; its
  source is not part of the repository.
