# A TLA+ model of CredBroker

CredBroker hands AI agents short-lived *grants* for single tools and makes the
provider calls itself, so that no agent ever holds a user's credential. This
directory models the broker's core in TLA+, model-checks it with TLC and proves
its main safety properties with TLAPS. The modules are translated from the
Python source under `src/credbroker`; a definition keeps its source name where
TLA+ allows, and `PROJECT.json` gives the lines each definition stands for.

## 1. The system

| Component | State | Operations | Talks to |
|---|---|---|---|
| Grant service (`grants/service.py`) | rows of `grants`, row lock on `agents` | `request_grant`, `revoke_grant` | PostgreSQL, rate limiter, grant cache, tool registry |
| Grant cache (`cache/grants_cache.py`) | Redis `grant:*`, `revoked:*` | `record_issued`, `record_revoked`, `is_revoked` | written by the grant service, read by the invoke pipeline |
| Rate limiter (`cache/ratelimit.py`) | Redis counter per key and window | `check` | called first by `request_grant`, mid-way by `invoke` |
| Invoke pipeline (`invoke/service.py`) | per call: outcome, reservation, refreshed flag; per provider: a breaker | `invoke` and its steps, 401 recovery, refresh | everything here, OAuth client, Drive adapter |
| Idempotency store (`reliability/idempotency.py`) | Redis `idem:*`: marker with owner token, or result | `get`, `reserve`, `complete`, `release` | used by the invoke pipeline |
| Circuit breaker, retries (`reliability/retry.py`) | state, failure count, probe slot, trip time | `allow`, `record_success`, `record_failure`, `call_with_retries` | wraps each outbound call |
| Audit log (`invoke/audit.py`) | rows of `tool_call_audit_log` | `record_call` | last step of `invoke` |
| Grant tokens (`grants/tokens.py`) | none (signed JWT) | `sign_grant_token`, `verify_grant_token` | issue and first step of `invoke` |
| Tools (`tools/`) | fixed registry | `get_tool`, an adapter's `call` | policy checks, outbound call |
| OAuth connect (`oauth/`) | rows of `connected_accounts`, signed state parameter (stateless) | `authorize`, `callback`, refresh | grant service binds to its accounts |
| Encryption (`crypto/`) | master key, one data key per value | `encrypt`, `decrypt`, `build_token_cipher` | connect flow, refresh, each call |
| Log redaction (`logging_config.py`) | registry of secrets, per process | `register_secret`, `scrub`, the filter | fed by encryption and the OAuth client |
| Process (`main.py`, `app.py`, `grpcserver/server.py`) | two servers over one HTTP client, one Redis client, one engine | `serve`, the signal handlers, the lifespan | owns everything above |
| gRPC servicer, console API | none | one session per handler | wrap both services |
| Settings, metrics, demo | process-wide | read, count, seed | - |

What is hard to get right. All handlers are asyncio tasks of one or more broker
processes that share PostgreSQL and Redis. A handler can be overtaken, cancelled
or killed at any `await`. Redis is treated as losable: any key may vanish, and a
command may raise before or after it was applied. Clocks move between steps: a grant expires, a reservation runs
out during the call it protects, a rate window rolls over. The correctness
questions, per component:

* grants: the active-grant limit under races; no grant across tenants; a
  revocation that was answered stays; a cached revocation is never ahead of the
  database; no leaked row lock;
* breaker: trips exactly on an unbroken run of failures; one probe per half-open
  episode; the probe slot comes back; retries are bounded;
* idempotency: one call in flight per key; one success per window; a stale holder
  harms nobody; no key stays pending;
* rate limiter: never stricter than the limit; never laxer within one window;
* invoke: an audited reply has its row before it is given, no call has two, and the
  row tells what the broker learnt; a revoked grant is not used; a reservation is
  settled; the provider is called a bounded number of times;
* credentials: the one refresh token the provider still accepts is not overwritten
  by an invocation that loaded the row earlier; what is stored can be opened, what
  is damaged cannot; no record that can be formatted carries a credential to the log,
  restarts included;
* process: a signal ends it, whenever it comes; no task runs on a client that was
  closed, unless uvicorn has left it unattended; what was opened is closed.

The `hazards` of `PROJECT.json` list each danger at its line, with the property
that would catch it or the reason why none does.

## 2. Modules

| Module | Models | Used by |
|---|---|---|
| `GrantLedger` | what the grant service promises: atomic issue and revoke | instance in `GrantService` |
| `GrantService` | `request_grant`, `revoke_grant`, their database steps and cache writes | `MCGrantService`, `GrantServiceProofs` |
| `CircuitBreaker` | `CircuitBreaker` and `call_with_retries` | `MCCircuitBreaker`, `CircuitBreakerProofs` |
| `IdempotencyStore` | the store and its use in `_invoke_resolved` | `MCIdempotencyStore`, `IdempotencyStoreProofs` |
| `RateLimiter` | `RateLimiter.check` | `MCRateLimiter`, `RateLimiterProofs` |
| `CallOnce` | what the idempotency store promises to agents that retry | instance in `IdempotencyStore` |
| `InvokeService` | `invoke` from token to audit row | `MCInvokeService`, `InvokeServiceProofs` |
| `TokenCipher` | `crypto/kms.py` as operators on sequences of symbols | `CredentialVault`, `TokenCipherProofs` |
| `CredentialVault` | connect flow, stored credentials, refresh, restarts, redaction | `MCCredentialVault`, `CredentialVaultProofs` |
| `BrokerProcess` | `serve`, signals, both servers' shutdown, closing the clients | `MCBrokerProcess`, `BrokerProcessProofs` |

In every module one action is the code between two awaits: that is what another
task can observe, and where a task can be cut. Conventions shared by all: `pc` is
the await a handler is in, or how it ended; a definition headed "Mutation" is a
plausible wrong version of the definition after it and is used by no
specification; variables marked *history* are never read by an action's guard or
by another variable's new value.

**GrantService.** `CheckRate`, `LockAgent`, `BindAccount`, `CountActive`,
`CommitGrant`, `RecordIssued` are `request_grant` in order. `LockAgent` is the
`SELECT ... FOR UPDATE`; any way of leaving the session (`End`) frees the lock.
`now` is taken in `BindAccount`, before the count and the insert, as in the code.
`LoadGrant`, `UpdateRevoked`, `MarkRevoked`, `UnmarkIssued` are `revoke_grant`; its
row is read without a lock, so two revokers may both get to the update. The
environment connects accounts, loses Redis keys, cuts handlers and lets time pass.
PostgreSQL is READ COMMITTED with row locks; agents are a fixed table; all
instances share one clock.

**CircuitBreaker.** The methods are functions of the breaker's fields, applied
atomically (they contain no await). A call interleaves with others while sending
or sleeping. `sinceTrip` stands for `clock() - _opened_at` and stops at
`ResetTime`, beyond which the code cannot tell values apart.

**IdempotencyStore.** `complete` and `release` are a compare step and an act step,
since they are two Redis round trips. `CallBudget` bounds how long a call may take
from its reservation, compared with `ReservationTTL`; `UrgentAct` says whether a
key may go away between compare and act (the race the module's docstring accepts).

`CallOnce` knows neither Redis nor time: a call starts if no other with its key is
under way and no success is remembered; a caller that does not start is given the
result of a call that succeeded, or refused because of another call. The mapping
hides the two round trips of `complete` and `release` and the wait for `reserve`
(`Stage`), and remembers a key while the window of its success is open.

**RateLimiter.** One key; the window index, `INCR` and `EXPIRE` are separate steps
with time between them. A counter without `EXPIRE` lives forever, as in Redis.

**InvokeService.** The whole pipeline with every early return: refusals before a
grant is resolved are not audited, later ones are. An exception in
`_invoke_resolved` is the backstop's outcome `failed`; a Redis or database error
outside it is `raised`; a cancellation passes everything. The answers of the
limiter and the breaker are free choices (their modules say which occur),
`complete`/`release` are one step and a refresh is one step (`CredentialVault`
takes it apart). A command whose answer is lost, to an error or to a cancellation, may
have been applied: a `SET NX` then leaves a marker that its invocation knows nothing of
(the history variable `orphaned`), and `complete`, `release`, the refresh's commit and
the audit commit may have taken effect. `RecordCall` makes the audit row durable, and
`Reply` is a step of its own: between them lie the COMMIT's answer and the session's
exit, at which a task can fail or be cut.

**TokenCipher.** A blob is a sequence of symbols: magic, length, wrapped key, nonce,
sealed value. AES-GCM is ideal, so a sealed value opens only whole, with its key and
its nonce; all the rest (offsets, length checks, the order of refusals) is the
code's. `Damaged(b)` is every truncation of a blob, a longer one, and every change of
one symbol, among them every other key length.

**CredentialVault.** `Authorize`, `BeginCallback`, `Exchange`, `EncryptAccess`,
`EncryptRefresh`, `Insert` are the connect flow, in which a browser may repeat its
redirect. `Load` reads the row as `session.get` does; from then on the invocation
works with its copy, as the identity map does. `DecryptRefresh`, `Redeem`, the two
encryptions and `Commit` are `_refresh_credential`, `OpenAccess` the other branch. A
commit writes the columns the session has changed, no others (`Flushed`); and
`RecordCall` commits the same session, with what a failed refresh had assigned. The
provider (external) accepts a code once and, of one consent, the newest refresh
token. Staleness of a credential is a free choice. `Log` may happen at every await
and mentions everything the task holds, in message, traceback and stack; the record is
well-formed or malformed, and the filter passes a malformed one as it is. `Restart`
ends every task, empties the registry and, without a configured key, changes the
master key. The history variable `lost` holds the consents whose newest refresh token
was dropped between the provider's answer and the commit.

**BrokerProcess.** `Build`, `StartGrpc`, `Install`, `Bind`, `Gathered`, `FinallyStop`,
`FinallyStopped`, `Close` are `serve`; `InitiateShutdown` sets `should_exit` and
schedules a stop that runs later (`RunStopTask`). uvicorn, grpc.aio and asyncio are
external and modelled as `serve` relies on them: uvicorn waits for its requests
without a limit and then ends the lifespan. It does not always: if `should_exit` is set
when its startup ends, `http_server.serve()` returns at once and leaves its socket open
(`http = "deserted"`), and a SIGINT when it is to exit already sets `force_exit`
(`HandleExit`), which skips the wait and the lifespan. A stopping gRPC server cancels what runs
after the grace period, ends when nothing runs, and is not affected by another stop;
a failed bind raises `SystemExit`, whereupon asyncio cancels all tasks and the
finally block still runs; when `serve` has returned, asyncio cancels what still runs.
A cancelled task is gone at once.

## 3. Runs

| Run | Instance | Checks |
|---|---|---|
| `GrantRequests` | 2 requests, 6 kinds of argument, 2 users with an account each, fairness | `TenantIsolation`, `LockHeldByRunning`, `RequestsAnswered` |
| `GrantRevocation` | 2 requests, 2 revokers, limit 1, one expiry, lossy Redis | `TypeOK`, `ActiveLimit`, `CacheBehindDB`, `RevocationDurable`, `ImplementsLedger` |
| `BreakerSafety` | 3 calls restarting forever, threshold 2, 2 retries, every outcome, fairness | `TypeOK`, `TripsOnUnbrokenRun`, `OneProbePerEpisode`, `CallsEnd` |
| `BreakerWedge` | 2 calls, a probe may end in a 4xx, fairness | `ProbeSlotReturned` is violated |
| `IdemInTime` | 3 calls with one key, 1 with another, budget below the reservation | `TypeOK`, `OneCallInFlight`, `OncePerWindow`, `ImplementsCallOnce` |
| `IdemStale` | 3 calls with one key, budget of twice the reservation, cuts and flushes, fairness | `ActsOnOwnMarker`, `ResultsKept`, `KeyNotWedged` |
| `IdemSlowCall` | the default settings, one tick = 15 s | `OneCallInFlight` is violated |
| `InvokeSafety` | 2 invocations with one key, 1 retry, Redis/database errors before or after the effect, cancellation | `TypeOK`, `AuditedOnce`, `RevokedNeverSent`, `AuditTruthful`, `ReservationSettled`, `SendsBounded` |
| `InvokeBackoff` | 1 invocation, 1 retry, no faults | `RetriesStopOnRevocation` is violated |
| `LimiterSafety` | 4 checks, limit 1, windows of 2 ticks, 3 windows, cuts and flushes | `TypeOK`, `NeverTightens`, `WindowBudget` |
| `VaultSafety` | 1 consent, 2 callbacks, 2 invocations, 1 restart, key configured or not, fields of one symbol | `TypeOK`, `RefreshTokenKept`, `StoredReadable`, `DamageRefused`, `OnlyMalformedLeaks` |
| `ProcessLifecycle` | 2 gRPC calls, 2 HTTP requests, unlimited SIGTERM and SIGINT, fairness | `TypeOK`, `NoUseAfterClose`, `CleanExit`, `ShutdownCompletes` |

**Bounds.** Two requests of one agent are enough to race for one slot, and with
limit 1 the race is lost by one grant; a grant expires within the clock bound, so
the stale `now` occurs. Two revokers are the smallest set that crosses an update.
Three breaker calls give a straggler, a probe and a rejected third; threshold 2
tells a broken run from an unbroken one. Three calls on one key give a stale
holder, its successor and a late comer; the fourth shows that keys do not mix. Two
invocations suffice for the key they share, since nothing else couples them but
the grant and the account. Four checks over three windows let a late check meet a
counter that expired. Two invocations are the smallest set in which one commits over
the other's refresh, a second callback for the consent is the repeated redirect, and
one restart separates the process that encrypted from the one that decrypts. Fields
of one symbol keep each boundary of the blob: every length check can be missed by
exactly one. Two calls and two requests let each server drain one while the other
server still runs one. Calls of the breaker restart from their end, so that run is
unbounded in time; the other modules' handlers run once.

**Deadlock.** Grant, invoke, limiter and vault runs stop when every handler has ended
and the clock is at its bound, and a process ends, so they do not check deadlock; the breaker and the
store always have a next step and do.

**Fairness.** An await on PostgreSQL or Redis returns (client timeouts), an
outbound call ends (`httpx` timeout of 15 s, `main.py`), a `sleep` ends and time
passes: weak fairness of a started handler's steps and of the clock. PostgreSQL
queues the waiters of a row lock: strong fairness of `LockAgent`. In the process the
event loop runs what is ready, the grace timer fires, and a running request ends
(15 s timeouts, bounded retries): weak fairness of `serve`'s steps, of the scheduled
stop, of both servers' steps and of each `Answer`. No request is
ever forced to arrive, no signal to be sent, no handler to be cut, no key to be lost, and no particular
answer of the provider is assumed.

**Symmetry** is used for handlers, checks and grant ids, in runs without liveness.

## 4. Where the code and its words differ

* *Wedged breaker* (`BreakerWedge`, a bug). A half-open probe that ends in a
  non-retryable error, such as a 4xx, is re-raised before anything is recorded
  (`retry.py:173`). `_probe_in_flight` stays true, and every later call to that
  provider is refused until a call that was in flight before records, or the
  process restarts. A cancelled probe does the same.
* *Reservation shorter than a call* (`IdemSlowCall`). Four attempts of 15 s plus
  backoff exceed the 60 s reservation, and a second call starts beside the first.
* *Retries after a revocation* (`InvokeBackoff`). Revocation is asked again before
  the first attempt, not before the retries.

Further limits that the models contain and no property forbids:

* a second revoker may overwrite `revoked_at` (the row stays revoked), although
  `grants/service.py:167` calls revoking again a no-op; `GrantLedger` allows it;
* a straggler's failure during a probe frees its slot, so that after the next
  reset window a second probe may run beside it; a straggler's success closes an
  open circuit early;
* a handler that dies between the provider's success and `complete` leaves only
  the 60 s marker: `OncePerWindow` holds without cuts only;
* a stale holder whose marker expires between its compare and its act deletes or
  overwrites its successor's entry, the race the docstring of `idempotency.py` accepts:
  `ActsOnOwnMarker` and `ResultsKept` are stated under `UrgentAct`, which excludes it;
* a cancelled invocation may leave no audit row, even if its call went out; one that is
  cut, or whose COMMIT loses its answer, after the row is durable has a row and no
  reply. `AuditedOnce` says what is left: no reply without its one row, never two rows;
* a call that the provider executed and whose answer timed out or could not be parsed is
  a `failed` row: `AuditTruthful` speaks of the results that reached the broker;
* a Redis error in `complete` turns such a result into a `failed` row: `AuditTruthful`
  and `ReservationSettled` except it (`unsettled`);
* a `SET NX` that is applied while its answer is lost leaves the key pending until the
  marker's 60 s are over: `ReservationSettled` excepts it (`orphaned`);
* a log statement whose arguments do not fit its message passes the filter unscrubbed
  (`logging_config.py:55-57`), message, traceback and stack, and `logging` prints its raw
  arguments, although `logging_config.py:4-5` promises to hold for a buggy log statement:
  `OnlyMalformedLeaks` says that nothing else leaks;
* a wrapped data key that is damaged is refused by KMS with a `ClientError`, not with the
  `ValueError` of `kms.py`'s own checks; `DamageRefused` says that it is refused;
* a refresh token that the provider rotated is lost if the handler is cut, or an
  encryption or the commit fails, before it is stored: `RefreshTokenKept` excepts
  exactly these (`lost`);
* after a refresh that failed half-way `record_call` commits the new access token
  beside the old expiry and refresh token;
* an invocation whose loaded refresh token was rotated by another is refused by the
  provider and fails, although the row is fine;
* a code is spent when the callback fails after the exchange: the user starts over;
* if an `aclose` in the finally block raises, what follows it is not closed;
* a signal before the handlers are installed ends the process without cleanup, and
  so does a failure to build or to start;
* after a signal that comes before uvicorn's startup is over, or a SIGINT when it is to
  exit already, HTTP requests still run, and without a drain are still accepted, while
  the finally block closes their clients, and asyncio cancels what is left:
  `NoUseAfterClose` and `CleanExit` except exactly these (`Unattended`);
* the task that stops the gRPC server is held by nobody but the loop; the model takes
  it to run;
* an `INCR` sent after its window is over may find its counter expired and be
  allowed: `WindowBudget` speaks of the requests counted during their window.

## 5. Proofs

TLAPS proves these for every value of the constants that satisfies the `ASSUME`s
of the module: any number of handlers, keys, accounts, any limits and durations.
Every invariant that a passing run checks is stated by a theorem. TLC also finds the
inductive invariants of the pipeline and the limiter true on the instances of
`InvokeSafety` and `LimiterSafety`, and those of the vault on one with a single consent.

**`GrantServiceProofs`**: `TypeCorrect`, `LimitHolds`, `TenantsIsolated`,
`CacheHitIsSafe`, `RevocationIsDurable`, `LockNeverLeaks`,
`ServiceImplementsLedger`. `ActiveLimit` is not inductive: the count was taken two
steps before the insert. `IndInv` adds that a request past `LockAgent` holds its
agent's lock (`HoldersLocked`), that its policy check and account still hold
(`BoundWithinPolicy`), and the core of it, `CountStillHolds`: between count and
commit the competing grants stay below the limit. That survives other requests
because their rows are of other agents (they would need the same lock), and
revocation and time because both only shrink the active set. Cardinalities come
from the library's finite-set theorems. The refinement maps `CommitGrant` to the
ledger's atomic `Issue`, `UpdateRevoked` to `Revoke`, and every other step to a
tick or a stutter.

**`CircuitBreakerProofs`**: `TypeCorrect`, `TripsExactlyOnUnbrokenRun`,
`ProbeSlotHandedOutOnce`, from lemmas on what each method does to state and count.

**`IdempotencyStoreProofs`**: `TypeCorrect`; `CallsExcludeEachOther`, from
`CallBudget < ReservationTTL` and no flush, through `HoldersOwn` (a holder's marker
is in the store and exactly as old as the call); `AtMostOncePerWindow`, if moreover
nothing is cut (`Faults = {}`), through `WindowCovered`
(while a success is fresh the key is taken by its result or its author);
`StaleHolderHarmless` and `ResultsSurvive`, from `UrgentAct` alone. The hypotheses
stand in the theorems; they are what the runs `IdemInTime` and `IdemStale` choose.

`StoreRefinesCallOnce`, under the hypotheses of `AtMostOncePerWindow`, adds
`EntriesExplained` (what is stored was put there by a call that is still under way or
has succeeded), which makes every replay and every refusal legitimate; the two
invariants above make every start legitimate.

**`BrokerProcessProofs`**: `TypeCorrect`, `ClientsOutliveTasks`, `ExitsClean`. The
invariant says where each server is in each phase of `serve` (`ServersInPhase`), that
a server that is off or down runs nothing, unless uvicorn was forced
(`QuietServers`), and which clients are open in each phase (`ClientsInPhase`). The gRPC
half of both theorems has no exception: `serve` awaits that server's stop itself.

**`InvokeServiceProofs`**, for any number of invocations with and without the key,
any `MaxRetries` and any faults. Each theorem has its own strengthening, which says what
an invocation can rely on at each await:

* `TypeCorrect`: an invocation that comes to settle, audit or reply has an outcome
  (`OutcomeKnown`), and one in backoff has a retry left (`RetryLeft`);
* `SendsAreBounded`: nothing is sent before the first re-check, at most one round of
  retries before the one refresh that follows a send, and at most one after it
  (`SendsCounted`);
* `ReplyIsAudited` (`AuditedOnce`): inductive together with the type invariant, once the
  row's commit and the reply are told apart: one row from "close" on, none before;
* `RevokedIsNeverSent`: `doomed` is only ever filled under a revoked grant
  (`DoomedRevoked`), and rows are never un-revoked, so the database re-check answers
  even when Redis has forgotten the marker;
* `ReservationIsSettled`: the author of the marker knows of it or is `orphaned`, and one
  that knows has given it up when it comes to audit, unless it is `unsettled`
  (`ReservationHeld`);
* `AuditIsTruthful`: a cached result, and an outcome "success" on its way to the log,
  stand for a result that the provider returned to the broker, and an invocation that
  got one keeps that outcome (`SuccessEarned`).

**`RateLimiterProofs`**: `TypeCorrect`; `LimitNeverTightens`, through "a counter, and
what `INCR` returned, never exceeds the number of requests counted for it"; and
`BudgetKept`, which is the other direction. It needs that a counter outlives its window
(`LivesThrough`: `EXPIRE` sets a full window, wherever in the window it comes), so the
counter of the current window was not reset since its first request (`CounterAhead`),
so no two requests of the window were told the same number (`CountsDistinct`). The
allowed ones were told different numbers of `1..Limit`, and by the pigeonhole principle
there are at most `Limit` of them.

**`TokenCipherProofs`**, about the operators, for any sizes of nonce, tag and key:
`DecryptEncrypt` (the value comes back under the same master key, and every other key is
refused) and `DamagedRefused` (every blob of `Damaged` is refused, under every key).
Both rest on `EncryptLayout` (which symbol is at which offset of a blob) and
`DecryptAccepts` (what a blob must contain to be opened at all): damage anywhere
contradicts one of the two. The hypothesis `Encrypt(m, t) # <<>>` leaves out the one
case in which there is no blob, a wrapped key too long for its two length bytes.

**`CredentialVaultProofs`**, for any number of consents, callbacks, invocations and
restarts:

* `FormattedLogsAreClean` (`OnlyMalformedLeaks`), through "what a task holds in plaintext is registered": the
  tasks that held anything die with the registry, and whoever decrypts or parses a token
  registers it in the same step;
* `TypeCorrect`, `RowsStayReadable`, `DamageIsRefused`, from `VaultInv`: every column,
  stored, loaded or about to be written, is the encryption under some earlier or present
  master key of a token of its kind issued to the flow of its row (`Sealed`), and so is
  every plaintext a task holds (`GoodLocals`). What such a column opens to is then the
  business of `TokenCipherProofs`;
* `NewestTokenKept`, from `VaultInv` and `KeptInv`: one callback per consent ever stores
  an account (`OneOwner`, since a code is accepted once); a refresh token that is not yet
  committed is the one the provider accepts, is held by one task and is in no column,
  loaded or stored (`SoleHolder`); a refresh column is assigned right before the commit
  that writes it (`ColumnsAssigned`). Hence an invocation with an outdated copy never has
  a refresh column to write, and its commit leaves the newer token alone. The
  strengthening is what the claim lacks: from the claim alone, nothing keeps two
  invocations from both holding "the newest" token. `KeptInv` speaks of a configured key,
  as the property does.

Only model-checked: the liveness properties (`RequestsAnswered`, `CallsEnd`,
`KeyNotWedged`, `ShutdownCompletes`), since temporal reasoning with fairness and
`ENABLED` is out of the prover's reach. The three runs of section 4 are counterexamples
on their instance and state nothing in general.

## 6. Not modelled

Signatures and AES-GCM themselves (cryptography is ideal), the wording of errors, logs
and metrics, request building of the Drive adapter, the console's listings and its
`create_agent`, generated protobuf code, migrations and deployment, the demo. Absent
collaborators (`limiter=None`, `idempotency=None`) only skip steps and are not separate
instances. Of the redaction: values shorter than 8 characters, which are never
registered, and overlapping secrets. Of the process: the ephemeral signing key of
`ensure_dev_jwt_keys`, SIGKILL, and the moments a cancelled task still needs. Of the
vault and the grant service: a COMMIT that is applied while its answer is lost is not a
step of its own. The rows it leaves are those of the commit followed by a cut of the
handler, which both modules have.

## 7. Plan

1. Done: all modules above with their runs, two refinements, and a proof of every
   invariant and of both refinements.
2. Possible next steps: the attempts of `IdempotencyStore` and `InvokeService` joined by
   a refinement (the latter takes `complete` and `release` as one step); action properties
   of the vault (a commit writes no column its task did not assign) as theorems of their
   own; bounds on the calls a half-open breaker admits while stragglers return.
