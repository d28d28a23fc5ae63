# rtp-bff: a TLA+ verification project

`rtp-bff` is a backend-for-frontend (Rust, axum, tokio). It logs a browser in
with OpenID Connect, keeps the OAuth tokens in a Redis session that the browser
knows only as a cookie, and refreshes the access token when it is about to
expire. This project models that behaviour in TLA+, checks it with TLC on small
instances, and proves part of it with TLAPS for every value of the constants.
Paths below are relative to the repository, which lies in `src/`.

## 1. The system

| Component | Code | State | Operations |
|---|---|---|---|
| Login and callback | `src/oidc/handlers.rs`, `transaction.rs` | `pending`: map from `state` to transaction (nonce, PKCE verifier, hash of the browser binding, creation time, client address); process-local | `GET /auth/login`, `GET /auth/callback` |
| Token refresh | `src/oidc/refresh.rs` | none that outlives a request; deadlines and delays of each request | `resolve_access_token` |
| Session store | `src/session.rs` | in Redis: one hash with a time to live per session, one lock with a lease per session being refreshed | `put`, `get`, `try_acquire_refresh_lock`, `release_refresh_lock`, `update_after_refresh`, `invalidate_for_refresh` |
| Session check | `src/oidc/handlers.rs` | none | `GET /auth/session` |
| Provider metadata | `src/oidc/provider.rs` | cached discovery document and keys, behind an async mutex | `provider_metadata`, `refresh_provider_metadata`, ID-token verification with one refresh |
| Resource route policy | `src/proxy/policy.rs` | active snapshot behind an `RwLock` | `try_new`, `resolve`, `activate_candidate` |
| Configuration, router, rate limiter, client address, cookies, health | `config.rs`, `mod.rs`, `lib.rs`, `main.rs` | none of their own, except the limiter's (a library) | |
| Authorization server | external | codes, refresh tokens, keys | authorization, token, userinfo and discovery endpoints |

How they interact:

* login reads the provider metadata, then inserts a transaction into `pending`
  in one critical section and hands the browser a cookie with the binding;
* callback takes the transaction out of `pending` in one critical section, then
  awaits, one after the other: the metadata, the token endpoint, the
  verification of the ID token (which may refresh the metadata once), the
  userinfo endpoint, and the store (`put`); only then is the cookie set;
* `resolve_access_token` reads the session, the metadata, and then competes
  with other requests of the same session for the lock in Redis. The owner
  reads again, exchanges the refresh token, updates or invalidates the session
  by a Lua script that checks the lock's owner, and releases the lock. Others
  poll. No handler calls it yet: it is the interface of the resource proxy the
  ADRs announce, so any number of concurrent callers is assumed;
* all handlers run concurrently; any of them may be dropped at an await when
  its client disconnects.

What is hard here: the lock is a lease, so time decides who owns it; an await
given up does not recall its command; a refresh token may be good for one use
only; the session may expire while it is refreshed; transactions are consumed
before the calls that may fail. `PROJECT.json` lists these hazards, each at its
line and with the properties that cover it.

What makes each component correct:

* refresh: one owner at a time; a rotation is never raced; a result says only
  what the store confirms; no session outlives its time or comes back; every
  request ends; a dead owner holds nobody up for longer than its lease;
* login and callback: a transaction is used once, in its lifetime, by the
  browser that began it; nobody else can consume it; the session belongs to that
  login; the limits hold;
* metadata: a genuine token is not refused because of a stale cache, the
  provider is not asked again for what is known, and nobody waits for ever;
* session store: what is stored is read back, every record expires, and the
  store that runs behaves as the one the tests use;
* session life: a token that is returned is alive if its lifetime is known, none is
  refreshed early, and cookie, session and session check tell the same story;
* route policy: no two accepted routes match one request; a reader sees one
  whole snapshot; a rejected candidate changes nothing.

## 2. The modules

| Module | What it is |
|---|---|
| `SessionStore` | the Redis commands about one session, each one step |
| `TokenRefresh` | `EXTENDS SessionStore`; the requests, the authorization server, time |
| `BoundedSession` | abstract: what is promised about a session, whoever uses it |
| `AuthTransactions` | login, callback, `pending`, the browsers' cookies |
| `RoutePolicy` | pure: validation of route policies, resolution of requests, what templates mean |
| `RouteRegistry` | `EXTENDS RoutePolicy`; administrators and readers of the active snapshot, the digest |
| `PolicyRegister` | abstract: one register of sound policies |
| `ProviderMetadata` | the cached metadata, its mutex, refreshes, ID-token verification |
| `TimelyVerification` | abstract: verdicts that are right by the keys of some moment since the signing |
| `SessionRecord` | pure: how a session is written into a Redis hash and read back |
| `RedisSession` | `EXTENDS SessionRecord`; the store of a running BFF, field by field |
| `MemorySession` | abstract: the in-memory store of the tests |
| `SessionLife` | one session from its callback to its end: expiries, cookie, session check |
| `MC...` | symmetry and the inputs for TLC |
| `...Proofs` | theorems |

Operators whose name begins with `Bug` are changed forms of the definition
below them (a dropped check, a swapped order). No specification uses them; each
one, put in the place of its original, makes a property fail (`mutants` in
`PROJECT.json`), which shows that the property can fail.

### 2.1 SessionStore

Redis runs commands one at a time, so a command is a step, and so is a Lua
script. `session` is `[ttl, at, rt]` and exists while `ttl > 0`; `lock` is
`[owner, left]`. Tokens are numbered in the order in which the authorization
server issued them; 0 is an absent refresh token. `OwnedMutation` is the head
both scripts share (not the owner, session missing, applied). `UpdatedSession`
leaves `ttl` alone, as `HSET` does. `StoreTick` is a unit of time in Redis. A
read that cannot be decoded is an error of the store (`AwaitFails` below).

### 2.2 TokenRefresh

`pc[p]` is the await a request is in:

| `pc` | code (`refresh.rs`) | left by |
|---|---|---|
| `read` | 90-102 | `InitialRead` |
| `discover` | 108-123 | `Discover` |
| `acquire` | 130-137 | `Acquired`, `Refused`, `GiveUp` |
| `sleep` | 158 | `Wake` |
| `reread` | 160-180 and the head of the loop | `Reread`, `GiveUp` |
| `recheck` | 272-299 | `Recheck` |
| `exchange` | 301-330 | `Exchanged` |
| `update`, `invalidate` | 332-343, 350-361 | `Updated`, `Invalidated` |
| `release` | 255-261 | `Released` |

An await has three parts. Entering the state sends the command. `Serve` runs it
in Redis and puts the answer in `reply`. The action in the table acts on the
answer. So anything may happen between the execution of a command and the
moment its caller sees the answer. A caller that stops waiting (`AwaitFails`,
`OwnerDeadlineElapses`, `DropRequest`) either has its answer lost, or its
command lost, or leaves the command in `late`, from where `ServeLate` may run
it at any time. That Redis may then run commands in another order than they
were sent is more than one connection does; two processes, or a reconnection,
can. Token exchanges are treated the same way (`asWork`).

Time is discrete. `await`, `waitLeft`, `ownerLeft`, the `ttl` and the lease count
down together in `Tick`. An await cannot be outstayed: `Tick` waits for it
(`MayTick`), so the bound includes the scheduling of the task. Only the owner's
deadline may be acted on late, by at most `Stall`; `Stall` also stands for a
difference in rate between the clocks of the BFF and of Redis.

The authorization server is external. It may rotate the refresh token or keep
it, refuse a token it does not know, fail, answer after its client has left, and
revoke. Which access tokens are inside the refresh window (`expiring`) is
chosen freely by `EntersSkew`; so a token may be expiring as soon as it is
issued, and one without an expiry never is.

Ghost variables: `blockers` (the owners that refused a waiter), `persisted`
(access tokens the store has held), `kept` (FALSE once a token pair was lost on
the way between the authorization server and Redis, or a token was revoked) and
`faults`, which bounds the failures. The code has none of them, and no guard
reads them except the bound on faults.

### 2.3 BoundedSession

The promise about a session: the lifetime only shrinks, the token generation
only grows, and what has ended stays ended. `TokenRefresh` implements it with
`remaining <- session.ttl`, `generation <- session.at`; `SessionLife`, where a login
stores the session first, with `Remaining` and the moment its token was issued.

### 2.4 AuthTransactions

Both uses of `pending` happen under its mutex with no await inside, so each is
one step: `Login` or `LoginRefused`, and `TakeBound` (which is
`take_bound_transaction` and the early returns around it). `Login` reads nothing
before its critical section that a concurrent step could change. The `state`,
nonce, verifier and binding of a transaction are random and its own: the name of
the transaction stands for all of them, and the code issued for it carries its
name. `TakeBound` chooses any browser, any `state`, any issued code and any
binding: the browser's own cookie for that state if it holds one, otherwise
nothing, or the secret of another transaction. After it the callback goes from
await to await; every await may fail (`CallbackFails`) or never return
(`DropCallback`), having done its work or not (`HalfDone`). The preauth cookie is
removed by the response, as in the code, not when the transaction is taken. The
token endpoint is not assumed to check PKCE, so `SessionIsBound` rests on the
BFF's own checks. `age` stops at `LoginTtl`, where a transaction is no longer live.

A browser drops a preauth cookie after five minutes; that is the case of
`RejectUnread`, which does not ask why the cookie is missing.

### 2.5 RoutePolicy and RouteRegistry

A template is a sequence of segments, static or parameters; since the only path
constraint is a UUID, the constraints of a route are the set of its parameter
names. All text a lexical check refuses (bytes, length, a host, a scheme, port 0)
is the one value `Malformed`, all forbidden headers are `Forbidden`. `TryNew`
follows `try_new`: each definition is validated and compared with those before
it. `Resolve` follows `resolve`; the errors of either are not told apart, since
nothing depends on which one is reported first. `MatchesPath` and `IsUnambiguous`
are not in the code: they say what the templates mean, and are what the checks
are measured against. `Supplied` is external as well: the arguments a browser's path
gives to a route, in every order, since `resolve` takes them from an iterator.

`Digest` is the text before hashing, SHA-256 being taken as free of collisions. The
routes come in the order of their ids, as they do from a `BTreeMap`; well-formed ids are
numbered in their order. The lines of a route are one piece of it, as no validated text holds a newline;
the version is a sequence of pieces, because it is free text and may itself
contain such lines.

In `RouteRegistry` a candidate is validated before the write lock is taken, and a
reader resolves against a pointer it copied under the read lock. Each lock covers
one read or one write and is never held across another step, so taking it,
waiting included, is one step. `PolicyRegister` has only the policy in force and the
answers; `RouteRegistry` implements it with the answer of a request fixed when its
snapshot is taken.

### 2.6 ProviderMetadata

Metadata is the number of the key set it was answered from; a key stays published
for `Behind` rotations after it is retired. A task is a request that uses the
cache: a reader (login, token refresh) once, a callback before the code exchange,
possibly to refresh, and again for the userinfo request.

| `stage` | code | left by |
|---|---|---|
| `metadata`, `userinfo` | `provider.rs` 31-43: waiting for the mutex, or holding it across discovery | `ReadCached`, `Fill`, `DiscoveryFails` |
| `exchange` | `handlers.rs` 204-230 | `Exchange`, `ExchangeFails` |
| `verify` | `provider.rs` 92-101 | `Verify` |
| `refresh` | `provider.rs` 49-52, without the mutex | `RefreshArrives`, `DiscoveryFails` |
| `store` | `provider.rs` 54-56 and the second verification | `StoreRefreshed` |

Tokio's mutex is fair, so `ahead[t]` is the set of tasks that get it before `t`; the
holder has nobody ahead. A dropped future leaves the queue or frees the mutex
(`Left`). `ProviderAnswers` fixes the answer, the action in the table receives it: in
between, keys may rotate and other refreshes may pass. A token has one of three faults: a wrong
issuer or audience (checked before the key is looked up), a foreign key, or a
wrong nonce (checked after it). `TimelyVerification` has only the keys, the tokens
and the verdicts. It is weaker than a verification that asks the provider every time:
since the keys at signing verify every genuine token, it accepts one whose key has been
retired meanwhile, as the code does from an old copy. It refuses only a faulty token or
one whose key was no longer published at some moment between signing and verdict.

### 2.7 SessionRecord, RedisSession and MemorySession

`Encode` and `Decode` are what `redis_put` writes and `redis_get` makes of it: an
absent string is empty, an absent expiry 0, and `email_verified` has three
spellings. `RedisSession` keeps the hash and its TTL, the lock and its lease, and
the answer of the last call. `RedisPut` includes the case in which `EXPIRE` rejects
the lifetime: inside `MULTI` the `HSET` before it stays. A call is one step: calls
whose answer is lost or late are in `TokenRefresh`. `MemorySession` is the
`#[cfg(test)]` store; `BehavesAsTestStore` maps a hash to the decoded session with its
age, and a key to a lock. Inputs are sessions without empty strings (`Canonical`):
the double keeps those, while Redis reads an empty refresh token or email back as
absent, and a session with an empty issuer or subject as no session
(`session.rs` 547-562). That none is stored is an assumption about the provider (`InputsAssumption`): the callback takes
tokens, subject and email as they come (`handlers.rs` 274-296) and does not check
them.

### 2.8 SessionLife

The wall clock counts ticks, `Sub` of them a second, so every rounding of the code
takes place: `SystemTime` to seconds (`Second`), the base second plus whole elapsed
seconds (`EffectiveNow`). A token carries the tick in which it was issued and its
lifetime; the BFF sees only the lifetime, when the response arrives. 0 stands for no
recorded expiry, as it does in Redis; `MaxSystemTime` and `MaxU64` are the widths at
which the two additions give up. The callback (`login`) and the requests go from
await to await with the time each may take (`left`); a command takes effect when
its answer arrives, and the lock is exclusive, since `TokenRefresh` is about the
rest. A request is either a session check or a resolution of the access token.
What takes several calls has a bound of its own, the queue for the metadata included:
`VerifyBound` for the verification of the ID token and the userinfo request,
`DiscoveryBound` for the metadata of a refresh. A token without `expires_in` has no known
death: `MayBeDead` says of it that it may always be dead.
`Skew * Sub > HttpBound + RedisBound + 2 * Sub` (`WindowAssumption`) holds of the
shipped constants: 30 > 15 + 2 + 2. The wall clock is assumed to be past the first
second of 1970, not to be set while a session lives, and to stay below the last
second of a `SystemTime` until the session is over (`HorizonAssumption`).

## 3. The runs

| Run | Instance | Checks |
|---|---|---|
| `refresh_safety` | 2 requests, 3 token generations, 1 fault, lease 4 > timeout 2 + stall 1, wait timeout 9 > 2 + 1 + 4 * 1 + 1 | `TypeOK`, `OwnerExclusive`, `LeaseCoversOwner`, `SnapshotIsCurrent`, `RotationNotRaced`, `NoSpuriousInvalidation`, `HealthyOwnerIsAwaited` |
| `refresh_fencing` | lease 2 and stall 2: exclusivity is lost; wait timeout 3 = 2 + 1 | `ReadyIsPersisted`, `ReauthenticationIsFinal`, `SessionIsBounded`, `LeaseIsOutlasted` |
| `refresh_patience` | 2 requests, 1 fault, the shipped lease 35, wait timeout 40 and Redis bound 2 | `WaiterOutlastsOneOwner` is violated |
| `refresh_liveness` | 2 requests, 1 fault, `FairSpec` | `RequestsEnd`, `LockIsFreed` |
| `refresh_exchanges` | 2 requests, 1 fault | `AtMostOneExchange` is violated |
| `login_safety` | 3 transactions, 2 browsers, 3 clients, limits 2 and 1 per client, 2 callbacks, 1 restart | `TypeOK`, `TakenOnce`, `SessionIsBound`, `WithinLimits`, `LiveTransactionKept`, `TakenAlive` |
| `policy_candidates` | about 180 candidates: all pairs of templates of up to 2 segments out of a word, a UUID and a parameter, with two UUIDs to request, 16 defective routes, versions with the lines of routes | `Unambiguous`, `MatchedPathsResolve`, `DigestNamesPolicy`, `RefusalIsJustified` |
| `policy_concurrency` | 2 administrators, 2 readers, 3 candidates, 5 calls | `TypeOK`, `ImplementsRegister` |
| `provider_metadata` | 2 callbacks, 1 reader, 3 key sets, keys published for one rotation more, all faults, `FairSpec` | `TypeOK`, `FilledOnce`, `SingleRefresh`, `RegressesOnlyByOverlap`, `VerdictsAreTimely`, `EveryTaskEnds` |
| `session_store` | 2 owners, 4 sessions, lifetime 3, lease 2 | `TypeOK`, `EveryRecordExpires`, `BehavesAsTestStore` |
| `session_ttl_limit` | the same with lifetime 5 where `EXPIRE` takes 4 | `EveryRecordExpires` is violated |
| `session_life` | 2 requests at a time, half seconds, window 4 s, session 4 s, token lifetimes none, 0, 1, 6, and one that overflows | `TypeOK`, `NoExpiryIsHarmless`, `CookieOutlivesSession`, `ReadyIsAlive`, `RefreshedOnlyWhenDue`, `NoFalseLogout` |

What they show:

* **Exclusivity needs the lease, and no more than the lease.** With
  `OwnerTimeout + Stall < Lease` (`LeaseOutlivesOwner`) no two owners work at
  once. The shipped constants, 25 s and 35 s, leave `Stall` just under 10 s.
  Since the awaits of an owner add up to 2 + 2 + 15 + 2 = 21 s, its deadline is
  a backstop; the instances make the deadline short enough to strike.
* **Beyond it the scripts still fence.** `refresh_fencing` breaks the assumption:
  two owners do work at once. The owner check of the scripts keeps results
  truthful and the session bounded all the same.
* **A waiter's patience falls short of one dead owner** (`refresh_patience`). The comment
  of `refresh.rs` 37 has a waiter "tolerate the complete lease and a small observation
  margin". The lease of a dead owner may begin 2 s into the wait, while the waiter's
  first `SET` is under way; its last refused `SET` may be answered 2 s after Redis executed
  it, just before the lease ends; then come a poll delay and up to 2 s for reading the
  session, and only then would it ask again: 35 + 3 * 2 + 0.5 = 41.5 s, and it has 40 s. The
  run has these times in seconds, with a poll delay of 1 s for 0.5 s; the owner's own
  times are short, since it dies holding the lock. It shows a waiter that gives up behind this one owner,
  whose lease has ended since the waiter last looked. The slow answers have to come
  together: with answers within 1.5 s the sum stays within 40 s.
* **What the wait timeout does give.** No waiter that met one owner only gives up while
  that owner still holds the lock (`LeaseIsOutlasted`), if
  `Lease + RedisBound <= WaitTimeout` (`WaiterOutlivesLease`; shipped, 37 <= 40). And while
  nothing fails, who gives up has met two owners (`HealthyOwnerIsAwaited`), if
  `OwnerTimeout + Stall + 4 * RedisBound + PollMax < WaitTimeout`
  (`WaiterOutlivesHealthyOwner`; shipped, 33.5 s and the stall, so up to 6.5 s of stall): what
  the comment says of a healthy owner (lines 38-39) is kept. The instances meet both
  bounds by one unit of time.
* **One exchange at a time is not what the code ensures** (`refresh_exchanges`).
  AC-BFF-REFRESH-006 has the token endpoint observe at most one concurrent
  exchange per session. An owner that gives up on its exchange (deadline, HTTP
  timeout) releases the lock while the authorization server may still be
  working on it, and the next owner sends another. It takes such a failure: as
  long as no pair was lost and none revoked there is only one
  (`ExchangesAreSingle`), and it presents a token that is still good
  (`RotationNotRaced`).
* **One-time use survives everything modelled**: concurrent callbacks, wrong
  browsers, failures after the transaction was taken, a restart.
* **The overlap check of route policies is exact**: it accepts no ambiguous policy
  and refuses none without cause, static segments that happen to be UUIDs
  included. A path that matches a route can be resolved by it, because both of
  its templates must use all of its parameters, and each argument arrives where its
  parameter stands. Policies with different content
  have different digests even if a version imitates the lines of a route.
* **A stale cache of keys refuses no good token.** Refreshes may store out of order and
  put older keys back, but only if they overlapped. The verdict on a token follows from
  the keys of some moment between its signing and the verdict (`VerdictsAreTimely`), because
  a callback decides on its own copy, never on the cache: no faulty token is accepted, and
  a genuine one is refused only when its key was retired after it was signed. That a token
  is still accepted whose key has been retired meanwhile is not excluded, and happens.
* **The mutex held across discovery delays but never blocks.** Each queued request
  ends with its own timeout at the latest one after the other; a failed discovery
  leaves the cache empty, and the next in line repeats it.
* **The double of the tests is faithful**, for sessions without empty strings.
* **A lifetime that Redis cannot count is accepted** (`session_ttl_limit`). With
  `RTP_BFF_SESSION_TTL_SECONDS` above i64::MAX / 1000 every login fails with 503 and
  leaves a session behind that never expires.
* **The refresh window is wide enough, for a lifetime that is known.** A recorded expiry
  may be late by a whole token response and by two roundings. A token with `expires_in` is
  returned alive all the same, unless it was issued for less time than its own delivery
  takes. A token without `expires_in` is returned as long as its session exists, dead or
  alive, since there is no safe threshold (`refresh.rs` 365-369); what holds of it is that
  this ends with the session, whose lifetime its refreshes do not renew
  (`ReadyIsAlive`, `NoExpiryIsHarmless`).

Why the bounds are enough. Two requests show every overlap of two critical
sections; the lock and the scripts do not count requests, and what a queue of waiters
adds is covered by the theorems. Timers range over every order of lease, deadline and wait
timeout. Three token generations allow two refreshes, the second by a request
that read before the first. One fault at a time already reaches every error
path, late command and lost answer; the theorems have no such bound. Two
callbacks and three transactions are enough for races, mix-ups of codes and
two logins of one browser. Overlap is decided segment by segment, so two segments
show every combination, and the theorems cover the rest. All bounds (`MaxIssued`, `MaxFaults`, `MaxRestarts`)
are in guards of the environment only, never of the BFF's own steps.
Two callbacks make every overlap of two refreshes, and three key sets let a key be
retired while they overlap. `session_life` runs past the latest end of a session begun with the first token;
its longest request takes more than four seconds, twice what the roundings can hide.
Deadlock is checked, except in `session_life`, which stops at `Horizon`.

Symmetry is used for safety only (requests, transactions, browsers, callbacks,
clients are interchangeable); the liveness runs have none.

Fairness (`FairSpec`). `WF(Tick)`: time passes unless an await is at its bound.
`WF(Progress)`: if a ready task, a command in Redis or an exchange can go on, one
of them eventually does. That is what tokio's scheduler, the response timeout of
Redis and the HTTP timeout give, and they give it to each, while the model asks
it only of one. `ProviderMetadata` asks it of each task: an await of a task ends with its
timeout or when the mutex comes to it, and the future is then polled. Nothing is assumed of failures, of late commands, of new
requests, or of which branch the runtime takes. `RequestsEnd` uses that the loop
cannot turn for ever in no time: that is why the variant whose delay halves to
zero violates it.

## 4. The proofs

All theorems hold for every value of the constants that satisfies the named
assumptions (`NoOwnerAssumption`, `LeaseAssumption`, ... in the modules), so for any
number of requests, transactions, browsers and faults.

`TokenRefreshProofs`:

* `TypeCorrect`: `Spec => []TypeOK`. One lemma per group of actions; the parts of
  `TypeOK` are inductive as they stand.
* `Exclusive` and `LeaseCovers`: under `LeaseOutlivesOwner`,
  `Spec => []OwnerExclusive` and `Spec => []LeaseCoversOwner`. `OwnerExclusive` is
  not inductive: it must be known why the lock of a request at work is still
  there. The invariant `LockInv` has two parts that say the same of two
  moments: a request in its critical section (`CriticalCovered`), and one whose
  positive answer to the acquisition has arrived while it has budget left
  (`AcquisitionCovered`), owns the lock; the budget of the former is at least
  `-Stall`; and the lease has at least
  `Lease - OwnerTimeout` more left than the budget. A third part (`LeftBehind`) keeps
  late commands harmless: a request with commands in `late` is releasing or done,
  and a release deletes only its sender's lock. `Tick` ages both sides alike, and
  `MayTick` keeps the budget from falling below `-Stall`, so the lease stays
  positive.

`RefreshResultProofs`. `StepCases` first sorts the
steps by what they do to a request (`MovesToExchange`, `LeavesAnswered`, ...), and
`AllKinded` says which answers a request can hold in which state; then, without any
assumption on the lease:

* `OnlyPersistedReady`: `Spec => []ReadyIsPersisted`. The invariant `PersistInv` follows a
  token back: from the result, to the answer that led to it, to the session.
* `OnlyOverReauthenticates`: `Spec => []ReauthenticationIsFinal`. That a session is over
  must stay true after a request was told so. A missing session stays missing since
  updates need it to exist; one without refresh token stays so because nobody ever
  gets to update it, nor has left an update behind (`FinalInv`).
* `SessionBounded`: `Spec => SessionIsBounded`.
  What makes a stored pair newer is that the owner of the lock in Redis, whoever that is,
  re-read under this very lock: `CurrentInv` says that the owner goes by what is stored, and
  what it is about to store, or has left behind to be stored, is newer. It
  needs that nothing is newer than what was issued (`IssuedInv`), and that a
  request leaves at most one command behind besides a release, when it is past its
  critical section (`LateInv`): else a late `SET` could give an old update its lock back.

And with `LeaseOutlivesOwner`:

* `SnapshotsCurrent`: with `LeaseCovers`, a request at its exchange is that owner.
* `RotationsNotRaced` and `NoneInvalidatedSpuriously`, from
  `KeptInv`. While no pair was lost, the newest refresh token is in the session or with
  the only request in the critical section, the one that will store it
  (`Carries`); every exchange under way is still awaited, and no update is late.
* `ExchangesAreSingle`: `Spec => [](kept => AtMostOneExchange)`. Every exchange
  under way is awaited (`KeptInv`), and one request at a time awaits one (`OwnerExclusive`).
  `kept` ends with an exchange or an update that is given up, and with a revocation.

`RefreshWaitingProofs`, about how long a request can wait:

* `LeasesAreOutlasted`: under `WaiterOutlivesLease`, `Spec => LeaseIsOutlasted`.
* `HealthyOwnerIsOutlasted`: under `WaiterOutlivesHealthyOwner`,
  `Spec => HealthyOwnerIsAwaited`.
* `RequestsDoNotCircle`: for every timing, a request moves or is answered at most
  `MaxSteps` (`6 * WaitTimeout + 17`) times. `StepsLeft` counts them down; a round of the waiting
  loop takes at least one unit from the time left, since the delay is never zero
  (`Paced`). The bound is crude, as the delay grows; that there is one is the part of
  `RequestsEnd` that needs no fairness.

The first two speak of a history, and the invariant has to make it one of numbers. A request that
has owned the lock, or has refused a waiter, never asks for it again (`SpentInv`: it has
left the loop, and no `SET` of its own is late). So if only one owner has ever refused
a waiter, it has held the lock without a break since the first refusal, and `TenureInv`
bounds what is left of that by what the waiter has waited (`HasWaitedFor`). Time takes from
both sides alike. What differs between the theorems is how long the lock may still be held
(`HoldLeft`): its lease, or, while nothing has failed, the owner's budget, its stall and
its release (`HealthInv`: the lock has an owner at work). For the first theorem that is all:
at the deadline nothing is left of the lease. The second needs that the waiter also looks
again after the release, so `CanLookAgain` bounds, state by state, the awaits that separate
it from the moment it would ask again; a waiter that gives up all the same has met another
owner.

`AuthTransactionsProofs`:

* `OneTimeUse`: `Spec => []TakenOnce`. The invariant `Consumed` adds that a
  transaction in the map has been taken by nobody, and one not begun neither.
* `SessionsAreBound`: `Spec => []SessionIsBound`. The invariant `Binding` says that
  a cookie is only in the browser that began its login, that a callback at work
  took its own transaction in that browser, and that past the verification the
  nonce matched.
* `TypeCorrect`, and `LimitsHold`: `Spec => []WithinLimits`; the map is finite, and a step
  either removes entries or adds one where there is room.
* `OnlyLiveTaken`, `LiveKept`: what a step may do to a transaction, from
  `Consumed`, `Binding` and the finiteness of the map.

`RouteRegistryProofs`, from `WordsAssumption` (there is a UUID) and
`CandidatesAssumption` (versions, definitions and templates are sequences, and well-formed
ids are numbered):

* `OverlapIsExact`: two valid routes overlap for the code exactly when some path
  matches both; one direction builds the path segment by segment (`Witness`).
* `AcceptedIsUnambiguous`, `NeverAmbiguous`: definitions are compared only with earlier
  ones, which is enough because the comparison is symmetric; so every accepted
  candidate, and every snapshot in use, is unambiguous.
* `TypeCorrect` and `RefusalsJustified`, from the invariant `RegistryInv`: `TypeOK`, and
  an error answers only a candidate that `TryNew` refuses.
* `Implementation`: `Spec => ImplementsRegister`. `Activate` maps to `Replace` (or to a
  stutter), `TakeSnapshot` to `Request`, `Return` to `Finish`, the rest to stutters.
* `PathsResolve`: `Spec => []MatchedPathsResolve`. Whatever order the arguments come in, each
  parameter of the route is among them once (`SuppliedArguments`); both templates of a
  valid route name all its parameters, so they are what `resolve` asks for
  (`SuppliedAreAccepted`). `SomethingIsSupplied` shows that there is such an order.
* `DigestsNamePolicies`: `Spec => []DigestNamesPolicy`. The length in front says where the
  version ends (`FramedTextIsRead`), and the routes have exactly one order by id: a route
  comes at the place that counts the ids up to its own (`RoutesHaveAnOrder`). Counting is what
  makes both provable without an induction over sequences.

`ProviderMetadataProofs`, from the invariant `IInv`: what a callback has done is told
by its stage (`Phase`), only a discovery under way has an answer (`InFlight`), nothing is
newer than the provider's keys (`NotAhead`), and a refresh brings keys at least as new as
its token's and, unless another one stored meanwhile, as the cache's (`Newer`):

* `TypeCorrect`: the mutex's queue stays a queue, whoever joins or leaves it;
* `FillsOnce`, `RefreshesOnce`, `RegressionNeedsOverlap`;
* `VerdictsHold`: `Spec => VerdictsAreTimely`. `Verify` and `StoreRefreshed` map to `Accept`
  and `Refuse`; a refusal is justified because `Newer` leaves a missing key only one
  cause, that it has been retired.

`RedisSessionProofs`:

* `RoundTrip`: `Decode(Encode(s)) = s` for every canonical session, and the same of
  `Overwrite` (`DecodeOverwrite`);
* `TypeCorrect`: the hash exists exactly as long as it has a time to live, and decodes;
* `RecordsExpire` and `Implements`: if `SessionTtl <= ExpireLimit` (`Accepted`), every record
  expires, and the Redis store implements the in-memory one, step by step.
* `ImplementsSessionStore`: also if `Accepted`, every call of the store on a session or
  its lock, and every expiry, is one command of `SessionStore`, or its tick, with the
  answer that module gives (`IsStoreStep`). `SessionStore` numbers the tokens and has 0 for
  none: the theorem holds for any numbering that gives 0 to the empty string. So what
  `TokenRefresh` builds on is what the scripts do to the fields of the hash.

`SessionLifeProofs`, from `WindowAssumption`, `HorizonAssumption` and the types of the
constants. First the arithmetic, with products that involve `Sub`: `SecondOf` and
`EffectiveNowOf` bound what rounding loses, `ExpiryIsTold` what a recorded expiry says of its
token (`Told`: at most two seconds early, late by no more than the response, and none only
for a token that outlives every session), and `ValidOrDue` what the check makes of it: the
token outlives the release, or it is due. The invariant `Inv` then says that every stored or
pending expiry is told so, how old a response under way can be (`UnderWay`, `Fresh`), that
only the lock's owner is past the lock (so nobody changes the session between the owner's
check and its answer), and that a session missing after login has ended for a reason. From
it:

* `TypeCorrect`, `CookieOutlives`, each a part of `Inv`;
* `AliveWhenReady`, `RefreshedWhenDue`, `LogoutsJustified`: `ReturnsFrom` and `MovesItself` find
  the step that ends or moves a request, and `ResolutionFacts` what it had read;
* `PromiseKept`: `Spec => KeepsPromise`, the session implements `BoundedSession`. Until the
  callback has stored it, its lifetime is all ahead (`Remaining`); it begins before it
  ends, and what the lock's owner brings was issued after what is stored (`NewerInv`).
  `TokenRefresh` keeps the same promise (`SessionBounded`) with late commands and lost
  leases, but without the login and in one unit of time.
* `HarmlessWithoutExpiry`, and the part of `AliveWhenReady` about tokens without a lifetime,
  need to know when a session ends, from its token's issue (`AgeInv`, `AgesInductive`): the
  stages of the login add up to its delay, `Tick` takes from the time to live what it adds
  to the clock, and an update keeps the end but brings a token no older (`NewerInv`).

Only model-checked: the liveness properties `RequestsEnd`, `LockIsFreed` and `EveryTaskEnds`,
since fairness and `ENABLED` are beyond TLAPS, and the three properties that are found
violated.

## 5. Not modelled

* The matching of a browser's path to a route, and everything behind a resolved
  route: the code has no proxy handler yet.
* A wall clock that is set while a session lives; cookie attributes, URL layout, hashing and randomness: names are
  model values, and secrets are assumed not to collide or be guessed.
* A poisoned mutex or lock (a panic inside a critical section), the rate limiter, the
  extraction of client addresses, the health endpoint: library code or stateless.
* Configuration: parsing and validation at start-up, with no state afterwards; the
  one accepted value that matters later, the session lifetime, is in `RedisSession`.
* Several replicas: `pending` is process-local and the deployment is documented
  as one replica (`mod.rs` 34-37). The refresh is modelled for any number, since
  it shares only Redis.

## 6. Plan

Done: every component with state of its own, the composition of callback, store,
cookie and refresh in `SessionLife`, and six refinements with proofs: two of
`BoundedSession` (`SessionBounded`, `PromiseKept`), and one each of the register
(`Implementation`), of timely verification (`VerdictsHold`), of the in-memory
store (`Implements`) and of the commands of `SessionStore` (`ImplementsSessionStore`).
Left:

1. The overlap that `refresh_exchanges` finds, quantified: at most one exchange more than
   have been given up. It needs a ghost that counts those, deadlines included.
2. The proxy handler, when the code has one: the composition of `RouteRegistry`
   with `TokenRefresh`.
