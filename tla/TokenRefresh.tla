---------------------------- MODULE TokenRefresh ----------------------------
(***************************************************************************)
(* resolve_access_token_at (src/src/oidc/refresh.rs): what concurrent      *)
(* requests of one BFF session do to obtain a usable access token.         *)
(*                                                                         *)
(* A request reads the session, discovers the provider, and competes for   *)
(* the refresh lock.  The owner re-reads, exchanges the refresh token at   *)
(* the authorization server, stores the new pair (or invalidates the       *)
(* session) and releases the lock; a waiter polls.  Every await has a      *)
(* bound; the owner works against a deadline set before it asked for the   *)
(* lock.                                                                   *)
(*                                                                         *)
(* Time is a set of countdowns that Tick ages together.  A Redis command   *)
(* is sent when the request enters the state that awaits its answer and    *)
(* runs later; if the caller gives up first, the command may still run     *)
(* (`late').  The same holds for a token exchange (`asWork').              *)
(***************************************************************************)
EXTENDS SessionStore, FiniteSets

CONSTANTS
    OwnerTimeout,   \* REFRESH_OWNER_OPERATION_TIMEOUT
    Stall,          \* how late the runtime may act on an elapsed owner deadline
    WaitTimeout,    \* REFRESH_WAIT_TIMEOUT
    PollInitial,    \* REFRESH_WAIT_INITIAL_DELAY
    PollMax,        \* REFRESH_WAIT_MAX_DELAY
    RedisBound,     \* REDIS_RESPONSE_TIMEOUT
    HttpBound,      \* OIDC_REQUEST_TIMEOUT
    MaxIssued,      \* bound: token generations the authorization server issues
    MaxFaults       \* bound: failed awaits, dropped requests, revocations

ASSUME OwnerTimeoutAssumption == OwnerTimeout \in Nat \ {0}
ASSUME StallAssumption        == Stall \in Nat
ASSUME WaitAssumption ==
    /\ WaitTimeout \in Nat \ {0}
    /\ PollInitial \in Nat \ {0}
    /\ PollMax \in Nat \ {0}
    /\ PollInitial <= PollMax
ASSUME AwaitAssumption ==
    /\ RedisBound \in Nat \ {0}
    /\ HttpBound \in Nat \ {0}
ASSUME BoundsAssumption == MaxIssued \in Nat \ {0} /\ MaxFaults \in Nat

VARIABLES
    pc,         \* where each request is
    reply,      \* the answer that has arrived for the command it awaits
    held,       \* the token pair the owner read, then the pair it stores
    result,     \* what the request returns
    await,      \* time left for the current await
    waitLeft,   \* time left until wait_deadline
    ownerLeft,  \* time left until owner_deadline; negative: overdue
    pollDelay,  \* wait_delay
    blockers,   \* ghost: owners that have refused this waiter the lock
    late,       \* commands whose caller has stopped waiting
    asWork,     \* token exchanges the authorization server has to answer
    asValid,    \* refresh tokens it accepts
    issued,     \* the newest token generation it has issued
    expiring,   \* access tokens inside the refresh window or expired
    persisted,  \* ghost: access tokens the store has held
    kept,       \* ghost: no issued token pair was lost, none was revoked
    faults      \* ghost: faults so far

asVars      == <<asWork, asValid, issued, expiring>>
timerVars   == <<await, waitLeft, ownerLeft, pollDelay>>
requestVars == <<pc, reply, held, result, timerVars, blockers>>
ghostVars   == <<persisted, kept, faults>>
vars        == <<storeVars, requestVars, late, asVars, ghostVars>>

-----------------------------------------------------------------------------
(* States of a request and their awaits.                                   *)

Waiting   == {"acquire", "sleep", "reread"}           \* loop of lines 119-184
Critical  == {"recheck", "exchange", "update", "invalidate"}
RedisCall == {"read", "acquire", "reread", "recheck", "update", "invalidate",
              "release"}
Awaiting  == RedisCall \cup {"sleep", "exchange"}
States    == {"idle", "discover", "done"} \cup Awaiting

Kinds == {"none", "session", "missing", "yes", "no", "applied",
          "ownershipLost", "tokens", "invalidGrant", "failed"}
NoReply  == Reply("none")
NoTokens == [at |-> NoToken, rt |-> NoToken]

Unresolved == [kind |-> "none", at |-> NoToken]
Ready(at)  == [kind |-> "ready", at |-> at]
ReauthenticationRequired == [kind |-> "reauthenticate", at |-> NoToken]
TemporarilyUnavailable   == [kind |-> "unavailable", at |-> NoToken]
Dropped    == [kind |-> "dropped", at |-> NoToken]

OpOf == [s \in RedisCall |->
    IF s \in {"read", "reread", "recheck"} THEN "get" ELSE s]

\* The command a request in a RedisCall state is waiting for.
Command(p) == [op |-> OpOf[pc[p]], req |-> p, at |-> held[p].at, rt |-> held[p].rt]

Exchange(p) == [req |-> p, rt |-> held[p].rt]

LeastOf(a, b) == IF a < b THEN a ELSE b
Decrement(n)  == IF n > 0 THEN n - 1 ELSE 0

AwaitBound == [s \in States |->
    IF s \in RedisCall THEN RedisBound
    ELSE IF s = "exchange" THEN HttpBound ELSE 0]

-----------------------------------------------------------------------------
(* access_token_is_sufficiently_valid.  A token without expiry hint never  *)
(* enters `expiring'; one issued for less than the skew enters it at once. *)
SufficientlyValid(at) == at \notin expiring

(* Moving a request.  Timers that mean nothing in the new state are reset. *)
Enter(p, s) ==
    /\ pc' = [pc EXCEPT ![p] = s]
    /\ reply' = [reply EXCEPT ![p] = NoReply]
    /\ await' = [await EXCEPT ![p] = AwaitBound[s]]

StopWaiting(p) ==
    /\ waitLeft' = [waitLeft EXCEPT ![p] = 0]
    /\ pollDelay' = [pollDelay EXCEPT ![p] = 0]
    /\ blockers' = [blockers EXCEPT ![p] = {}]

StopOwning(p) ==
    /\ ownerLeft' = [ownerLeft EXCEPT ![p] = 0]
    /\ held' = [held EXCEPT ![p] = NoTokens]

Resolve(p, r) == result' = [result EXCEPT ![p] = r]

\* Return r from resolve_access_token_at.
Return(p, r) == Enter(p, "done") /\ StopWaiting(p) /\ StopOwning(p) /\ Resolve(p, r)

\* run_owned_refresh: owner work is over with r; the lock is released next.
Release(p, r) == Enter(p, "release") /\ StopWaiting(p) /\ StopOwning(p) /\ Resolve(p, r)

RequestOnly == UNCHANGED <<storeVars, late, asVars, ghostVars>>

-----------------------------------------------------------------------------
(* resolve_access_token_at up to the loop.                                 *)

Start(p) ==
    /\ pc[p] = "idle"
    /\ Enter(p, "read")
    /\ RequestOnly /\ UNCHANGED <<held, result, waitLeft, ownerLeft, pollDelay, blockers>>

\* What a read outside the lock lets a request return at once.
ResolvesAtOnce(s) == s.kind = "missing" \/ SufficientlyValid(s.at) \/ s.rt = NoToken
ResolutionOf(s) ==
    IF s.kind = "session" /\ SufficientlyValid(s.at) THEN Ready(s.at)
                                                     ELSE ReauthenticationRequired

InitialRead(p) ==
    /\ pc[p] = "read" /\ reply[p] # NoReply
    /\ \/ /\ ResolvesAtOnce(reply[p])
          /\ Return(p, ResolutionOf(reply[p]))
       \/ /\ ~ResolvesAtOnce(reply[p])
          /\ Enter(p, "discover")
          /\ UNCHANGED <<held, result, waitLeft, ownerLeft, pollDelay, blockers>>
    /\ RequestOnly

\* Send SET NX PX.  The owner deadline starts before the command is sent.
TryAcquire(p) ==
    /\ Enter(p, "acquire")
    /\ ownerLeft' = [ownerLeft EXCEPT ![p] = OwnerTimeout]

Discover(p) ==
    /\ pc[p] = "discover"
    /\ \/ /\ TryAcquire(p)
          /\ waitLeft' = [waitLeft EXCEPT ![p] = WaitTimeout]
          /\ pollDelay' = [pollDelay EXCEPT ![p] = PollInitial]
          /\ UNCHANGED <<held, result, blockers>>
       \/ Return(p, TemporarilyUnavailable)
    /\ RequestOnly

-----------------------------------------------------------------------------
(* The waiting loop.                                                       *)

BugDeadlineFromResponse(p) ==
    /\ pc[p] = "acquire" /\ reply[p].kind = "yes"
    /\ Enter(p, "recheck") /\ StopWaiting(p)
    /\ ownerLeft' = [ownerLeft EXCEPT ![p] = OwnerTimeout]
    /\ RequestOnly /\ UNCHANGED <<held, result>>

\* Ok(true): the deadline may already have passed while the answer travelled.
Acquired(p) ==
    /\ pc[p] = "acquire" /\ reply[p].kind = "yes"
    /\ \/ /\ ownerLeft[p] <= 0
          /\ Release(p, TemporarilyUnavailable)
       \/ /\ ownerLeft[p] > 0
          /\ Enter(p, "recheck") /\ StopWaiting(p)
          /\ UNCHANGED <<held, result, ownerLeft>>
    /\ RequestOnly

\* Ok(false) with time left: sleep for min(wait_delay, remaining).
Refused(p) ==
    /\ pc[p] = "acquire" /\ reply[p].kind = "no"
    /\ waitLeft[p] > 0
    /\ pc' = [pc EXCEPT ![p] = "sleep"]
    /\ reply' = [reply EXCEPT ![p] = NoReply]
    /\ await' = [await EXCEPT ![p] = LeastOf(pollDelay[p], waitLeft[p])]
    /\ ownerLeft' = [ownerLeft EXCEPT ![p] = 0]
    /\ RequestOnly /\ UNCHANGED <<held, result, waitLeft, pollDelay, blockers>>

Wake(p) ==
    /\ pc[p] = "sleep" /\ await[p] = 0
    /\ Enter(p, "reread")
    /\ RequestOnly /\ UNCHANGED <<held, result, waitLeft, ownerLeft, pollDelay, blockers>>

BugBackoffHalves(p)   == pollDelay[p] \div 2
BugBackoffUncapped(p) == 2 * pollDelay[p]
NextDelay(p) == LeastOf(2 * pollDelay[p], PollMax)

Reread(p) ==
    /\ pc[p] = "reread" /\ reply[p] # NoReply
    /\ \/ /\ ResolvesAtOnce(reply[p])
          /\ Return(p, ResolutionOf(reply[p]))
       \/ /\ ~ResolvesAtOnce(reply[p]) /\ waitLeft[p] > 0
          /\ TryAcquire(p)
          /\ pollDelay' = [pollDelay EXCEPT ![p] = NextDelay(p)]
          /\ UNCHANGED <<held, result, waitLeft, blockers>>
    /\ RequestOnly

\* wait_deadline has passed: at the head of the loop or on Ok(false).
GiveUp(p) ==
    /\ waitLeft[p] = 0
    /\ \/ pc[p] = "acquire" /\ reply[p].kind = "no"
       \/ pc[p] = "reread" /\ reply[p].kind = "session" /\ ~ResolvesAtOnce(reply[p])
    /\ Return(p, TemporarilyUnavailable)
    /\ RequestOnly

-----------------------------------------------------------------------------
(* refresh_with_ownership_inner.                                           *)

SendExchange(p, s) ==
    /\ Enter(p, "exchange")
    /\ held' = [held EXCEPT ![p] = [at |-> s.at, rt |-> s.rt]]
    /\ asWork' = asWork \cup {[req |-> p, rt |-> s.rt]}
    /\ UNCHANGED <<result, waitLeft, ownerLeft, pollDelay, blockers, asValid, issued, expiring>>

Recheck(p) ==
    /\ pc[p] = "recheck" /\ reply[p] # NoReply
    /\ \/ /\ ResolvesAtOnce(reply[p])
          /\ Release(p, ResolutionOf(reply[p]))
          /\ UNCHANGED asVars
       \/ /\ ~ResolvesAtOnce(reply[p])
          /\ SendExchange(p, reply[p])
    /\ UNCHANGED <<storeVars, late, ghostVars>>

\* The pair to store: a response without refresh token keeps the old one.
BugKeepOldRefreshToken(p)   == [at |-> reply[p].at, rt |-> held[p].rt]
Refreshed(p) ==
    [at |-> reply[p].at,
     rt |-> IF reply[p].rt = NoToken THEN held[p].rt ELSE reply[p].rt]

Exchanged(p) ==
    /\ pc[p] = "exchange"
    /\ \/ /\ reply[p].kind = "tokens"
          /\ Enter(p, "update")
          /\ held' = [held EXCEPT ![p] = Refreshed(p)]
          /\ UNCHANGED <<result, waitLeft, ownerLeft, pollDelay, blockers>>
       \/ /\ reply[p].kind = "invalidGrant"
          /\ Enter(p, "invalidate")
          /\ UNCHANGED <<held, result, waitLeft, ownerLeft, pollDelay, blockers>>
       \/ /\ reply[p].kind = "failed"
          /\ Release(p, TemporarilyUnavailable)
    /\ RequestOnly

BugLostOwnershipIsFinal(k, at) ==
    IF k = "applied" THEN Ready(at) ELSE ReauthenticationRequired
BugReadyWhenLost(k, at) ==
    IF k = "missing" THEN ReauthenticationRequired ELSE Ready(at)
UpdateResolution(k, at) ==
    CASE k = "applied"       -> Ready(at)
      [] k = "missing"       -> ReauthenticationRequired
      [] OTHER             -> TemporarilyUnavailable

Updated(p) ==
    /\ pc[p] = "update" /\ reply[p] # NoReply
    /\ Release(p, UpdateResolution(reply[p].kind, held[p].at))
    /\ RequestOnly

\* invalidate_rejected_refresh.
InvalidateResolution(k) ==
    IF k = "ownershipLost" THEN TemporarilyUnavailable ELSE ReauthenticationRequired

Invalidated(p) ==
    /\ pc[p] = "invalidate" /\ reply[p] # NoReply
    /\ Release(p, InvalidateResolution(reply[p].kind))
    /\ RequestOnly

\* release_refresh_lock: a lock that was not ours any more voids the result.
ReleaseResolution(p) ==
    IF reply[p].kind = "yes" THEN result[p] ELSE TemporarilyUnavailable

Released(p) ==
    /\ pc[p] = "release" /\ reply[p] # NoReply
    /\ Return(p, ReleaseResolution(p))
    /\ RequestOnly

-----------------------------------------------------------------------------
(* Giving up an await: its command or exchange is lost on the way, or stays *)
(* behind and takes effect later, or has taken effect and only the answer   *)
(* is lost.                                                                 *)

Unanswered(p) == reply[p] = NoReply

Abandon(p, stays) ==
    /\ late' = IF /\ pc[p] \in RedisCall /\ OpOf[pc[p]] # "get"
                  /\ Unanswered(p) /\ stays
               THEN late \cup {Command(p)} ELSE late
    /\ asWork' = IF pc[p] = "exchange" /\ Unanswered(p) /\ ~stays
                 THEN asWork \ {Exchange(p)} ELSE asWork
    /\ kept' = (kept /\ ~ \/ /\ pc[p] = "exchange"
                             /\ reply[p].kind = "tokens" \/ (Unanswered(p) /\ stays)
                          \/ pc[p] = "update" /\ Unanswered(p))
    /\ UNCHANGED <<storeVars, asValid, issued, expiring, persisted>>

Fault == faults < MaxFaults /\ faults' = faults + 1

\* Err(()) from the store, or any error of the token request but a refusal.
AwaitFails(p) ==
    /\ pc[p] \in RedisCall \cup {"exchange"}
    /\ \E stays \in BOOLEAN : Abandon(p, stays)
    /\ \/ pc[p] \in Critical /\ Release(p, TemporarilyUnavailable)
       \/ pc[p] \notin Critical /\ Return(p, TemporarilyUnavailable)
    /\ Fault

\* tokio::time::timeout_at(owner_deadline, owner_work) elapses.
OwnerDeadlineElapses(p) ==
    /\ pc[p] \in Critical /\ ownerLeft[p] <= 0
    /\ \E stays \in BOOLEAN : Abandon(p, stays)
    /\ Release(p, TemporarilyUnavailable)
    /\ UNCHANGED faults

\* The client disconnects and the handler's future is dropped, or the
\* process restarts: nothing is released.
DropRequest(p) ==
    /\ pc[p] \notin {"idle", "done"}
    /\ \E stays \in BOOLEAN : Abandon(p, stays)
    /\ Return(p, Dropped)
    /\ Fault

-----------------------------------------------------------------------------
(* Redis runs a command.                                                   *)

Served == persisted' = persisted \cup (IF session'.ttl > 0 THEN {session'.at} ELSE {})

Serve(p) ==
    /\ pc[p] \in RedisCall /\ Unanswered(p)
    /\ Execute(Command(p))
    /\ reply' = [reply EXCEPT ![p] = Answer(Command(p))]
    /\ Served
    /\ blockers' = IF pc[p] = "acquire" /\ ~CanAcquire(p)
                   THEN [blockers EXCEPT ![p] = @ \cup {lock.owner}] ELSE blockers
    /\ UNCHANGED <<pc, held, result, timerVars, late, asVars, kept, faults>>

ServeLate(c) ==
    /\ c \in late
    /\ Execute(c)
    /\ late' = late \ {c}
    /\ Served
    /\ UNCHANGED <<requestVars, asVars, kept, faults>>

-----------------------------------------------------------------------------
(* The authorization server (external).  It may rotate the refresh token   *)
(* or not; a late answer reaches nobody.                                   *)

AnswerExchange(x, a) ==
    /\ asWork' = asWork \ {x}
    /\ reply' = IF pc[x.req] = "exchange" /\ Unanswered(x.req)
                THEN [reply EXCEPT ![x.req] = a] ELSE reply
    /\ UNCHANGED <<storeVars, pc, held, result, timerVars, blockers, late, ghostVars>>

ASGrants(x) ==
    /\ x \in asWork /\ x.rt \in asValid /\ issued < MaxIssued
    /\ issued' = issued + 1
    /\ \/ /\ asValid' = (asValid \ {x.rt}) \cup {issued'}
          /\ AnswerExchange(x, [kind |-> "tokens", at |-> issued', rt |-> issued'])
       \/ /\ AnswerExchange(x, [kind |-> "tokens", at |-> issued', rt |-> NoToken])
          /\ UNCHANGED asValid
    /\ UNCHANGED expiring

ASRefuses(x) ==
    /\ x \in asWork /\ x.rt \notin asValid
    /\ AnswerExchange(x, Reply("invalidGrant"))
    /\ UNCHANGED <<asValid, issued, expiring>>

ASFails(x) ==
    /\ x \in asWork
    /\ AnswerExchange(x, Reply("failed"))
    /\ UNCHANGED <<asValid, issued, expiring>>

ASRevokes(t) ==
    /\ t \in asValid
    /\ asValid' = asValid \ {t}
    /\ kept' = FALSE
    /\ Fault
    /\ UNCHANGED <<storeVars, requestVars, late, asWork, issued, expiring, persisted>>

-----------------------------------------------------------------------------
(* Time.                                                                   *)

\* An access token enters the last ACCESS_TOKEN_REFRESH_SKEW of its life.
EntersSkew(at) ==
    /\ at \in (1..issued) \ expiring
    /\ expiring' = expiring \cup {at}
    /\ UNCHANGED <<storeVars, requestVars, late, asWork, asValid, issued, ghostVars>>

MayTick ==
    \A p \in Requests :
        /\ pc[p] \in Awaiting => await[p] > 0
        /\ pc[p] \in Critical => ownerLeft[p] > -Stall

Tick ==
    /\ MayTick
    /\ StoreTick
    /\ await' = [p \in Requests |-> Decrement(await[p])]
    /\ waitLeft' = [p \in Requests |-> Decrement(waitLeft[p])]
    /\ ownerLeft' = [p \in Requests |->
           IF pc[p] \in Critical \cup {"acquire"} THEN ownerLeft[p] - 1 ELSE ownerLeft[p]]
    /\ UNCHANGED <<pc, reply, held, result, pollDelay, blockers, late, asVars, ghostVars>>

-----------------------------------------------------------------------------
Init ==
    /\ session \in [ttl : {SessionTtl}, at : {1}, rt : {NoToken, 1}]
    /\ lock = Unlocked
    /\ pc = [p \in Requests |-> "idle"]
    /\ reply = [p \in Requests |-> NoReply]
    /\ held = [p \in Requests |-> NoTokens]
    /\ result = [p \in Requests |-> Unresolved]
    /\ await = [p \in Requests |-> 0]
    /\ waitLeft = [p \in Requests |-> 0]
    /\ ownerLeft = [p \in Requests |-> 0]
    /\ pollDelay = [p \in Requests |-> 0]
    /\ blockers = [p \in Requests |-> {}]
    /\ late = {} /\ asWork = {}
    /\ asValid = {session.rt} \ {NoToken}
    /\ issued = 1
    /\ expiring = {}
    /\ persisted = {1}
    /\ kept = TRUE
    /\ faults = 0

\* What the runtime does for request p once it can.
Step(p) ==
    \/ InitialRead(p) \/ Discover(p)
    \/ Acquired(p) \/ Refused(p) \/ Wake(p) \/ Reread(p) \/ GiveUp(p)
    \/ Recheck(p) \/ Exchanged(p) \/ Updated(p) \/ Invalidated(p) \/ Released(p)
    \/ OwnerDeadlineElapses(p)

ASAnswers(x) == ASGrants(x) \/ ASRefuses(x) \/ ASFails(x)

Next ==
    \/ \E p \in Requests : Start(p) \/ Step(p) \/ Serve(p) \/ AwaitFails(p) \/ DropRequest(p)
    \/ \E c \in late : ServeLate(c)
    \/ \E x \in asWork : ASAnswers(x)
    \/ \E t \in asValid : ASRevokes(t)
    \/ \E at \in 1..issued : EntersSkew(at)
    \/ Tick

Spec == Init /\ [][Next]_vars

\* Time passes, and whoever can act (the runtime on a ready task, Redis on a
\* command, the authorization server on an exchange) eventually one of them
\* does.  Nothing is assumed of faults, of late commands or of new requests.
Progress ==
    \/ \E p \in Requests : Step(p) \/ Serve(p)
    \/ \E x \in asWork : ASAnswers(x)

FairSpec == Spec /\ WF_vars(Tick) /\ WF_vars(Progress)

-----------------------------------------------------------------------------
(* The timing configuration the constants of refresh.rs lines 25-45 aim at. *)

\* Lines 29-32: the lease outlives the owner's bounded critical section.
LeaseOutlivesOwner == OwnerTimeout + Stall < Lease

\* Lines 37-39: a lease granted before the first refusal has run out by then;
\* 35 + 2 <= 40 as shipped.
WaiterOutlivesLease == Lease + RedisBound <= WaitTimeout

\* Lines 38-39: a waiter outlasts the time a healthy owner can hold the lock,
\* whatever the awaits in between cost; 25 + Stall + 8 + 0.5 < 40 as shipped.
WaiterOutlivesHealthyOwner ==
    /\ RedisBound <= OwnerTimeout
    /\ OwnerTimeout + Stall + 4 * RedisBound + PollMax < WaitTimeout

-----------------------------------------------------------------------------
Resolutions ==
    [kind : {"none", "ready", "reauthenticate", "unavailable", "dropped"}, at : Tokens]

RequestTypeOK ==
    /\ pc \in [Requests -> States]
    /\ reply \in [Requests -> [kind : Kinds, at : Tokens, rt : Tokens]]
    /\ held \in [Requests -> [at : Tokens, rt : Tokens]]
    /\ result \in [Requests -> Resolutions]
    /\ await \in [Requests -> Nat]
    /\ waitLeft \in [Requests -> Nat]
    /\ ownerLeft \in [Requests -> Int]
    /\ pollDelay \in [Requests -> Nat]
    /\ blockers \in [Requests -> SUBSET Requests]

ServerTypeOK ==
    /\ asWork \in SUBSET [req : Requests, rt : Tokens]
    /\ asValid \in SUBSET Tokens
    /\ issued \in Nat \ {0}
    /\ expiring \in SUBSET Tokens

(* The type invariant: the state of the store, of every request, of the     *)
(* authorization server, the commands left behind, and the ghosts.         *)
TypeOK ==
    /\ StoreTypeOK /\ RequestTypeOK /\ ServerTypeOK
    /\ late \in SUBSET Commands
    /\ persisted \in SUBSET Tokens /\ kept \in BOOLEAN /\ faults \in 0..MaxFaults

(* At most one request is between a successful acquisition and the release *)
(* (re-read, exchange, mutation): refresh.rs lines 29-32.                  *)
OwnerExclusive ==
    \A p, q \in Requests : pc[p] \in Critical /\ pc[q] \in Critical => p = q

(* While a request is in its critical section the lock is its own, and the  *)
(* lease has more left to run than the owner's budget: refresh.rs lines     *)
(* 125-131 and 243-245.                                                    *)
LeaseCoversOwner ==
    \A p \in Requests : pc[p] \in Critical =>
        lock.owner = p /\ lock.left > ownerLeft[p]

(* What the owner read after taking the lock is still what is stored when   *)
(* it uses it, for as long as the session lives: no other request, and no   *)
(* command left behind by one, changes the session under it.               *)
SnapshotIsCurrent ==
    \A p \in Requests : pc[p] = "exchange" /\ SessionExists =>
        held[p] = [at |-> session.at, rt |-> session.rt]

(* A request is told it has an access token only if that token has been in *)
(* the session: an exchange whose update was not applied, or not known to  *)
(* be, is never used (refresh.rs lines 335-343).                           *)
ReadyIsPersisted ==
    \A p \in Requests : result[p].kind = "ready" => result[p].at \in persisted

(* Reauthentication is demanded only of a session that is really over: it  *)
(* is gone from the store or has no refresh token; a temporary condition   *)
(* never logs a user out (refresh.rs lines 335-361).                       *)
ReauthenticationIsFinal ==
    \A p \in Requests :
        result[p].kind = "reauthenticate" => ~SessionExists \/ session.rt = NoToken

(* As long as no token pair was lost on the way and none revoked, every    *)
(* exchange under way presents a refresh token the server still accepts:   *)
(* concurrent requests do not race a rotation (ADR-0005 line 159).         *)
RotationNotRaced ==
    kept => \A x \in asWork : x.rt \in asValid

(* ... and so no session is invalidated for a refused refresh token.       *)
NoSpuriousInvalidation == kept => \A p \in Requests : pc[p] # "invalidate"

(* The session implements BoundedSession: fixed lifetime, ever newer       *)
(* tokens, no resurrection.                                                *)
Bounded == INSTANCE BoundedSession WITH
    MaxLifetime <- SessionTtl, remaining <- session.ttl, generation <- session.at
SessionIsBounded == Bounded!Spec

(* The comment of refresh.rs lines 37-39: a waiter "must tolerate the       *)
(* complete lease and a small observation margin".  So one owner, dead or  *)
(* alive, never turns a waiter away: who gives up has met two.             *)
WaiterOutlastsOneOwner ==
    [][\A p \in Requests : GiveUp(p) => Cardinality(blockers[p]) >= 2]_vars

(* What the shipped times give for every owner, dead ones included: a      *)
(* waiter may give up before it has seen that the lock is free, but never  *)
(* while the only owner it ever met still holds it (lines 118-184).        *)
LeaseIsOutlasted ==
    [][\A p, q \in Requests : GiveUp(p) /\ blockers[p] = {q} => lock.owner # q]_vars

(* ... and for the owner of lines 38-39, "another healthy request": while  *)
(* nothing has failed, no waiter is turned away by a single owner.         *)
HealthyOwnerIsAwaited ==
    [][\A p \in Requests : GiveUp(p) /\ faults = 0 => Cardinality(blockers[p]) >= 2]_vars

(* AC-BFF-REFRESH-006, src/docs/requirements/bff-token-refresh-acceptance-   *)
(* criteria.md line 17: the token endpoint observes at most one concurrent  *)
(* refresh exchange for the session.                                        *)
AtMostOneExchange == Cardinality(asWork) <= 1

(* Every request comes to an end (refresh.rs lines 119-184: bounded loop,  *)
(* bounded awaits, bounded owner work).                                    *)
RequestsEnd == \A p \in Requests : pc[p] # "idle" ~> pc[p] = "done"

(* No owner keeps the lock for ever, not even one that was dropped.        *)
LockIsFreed == \A p \in Requests : lock.owner = p ~> lock.owner # p
=============================================================================
