------------------------- MODULE TokenRefreshProofs -------------------------
(***************************************************************************)
(* Theorems about TokenRefresh, for every number of requests and every     *)
(* value of the timing constants that satisfies the module's assumptions.  *)
(***************************************************************************)
EXTENDS TokenRefresh, TLAPS

USE NoOwnerAssumption, LeaseAssumption, TtlAssumption, OwnerTimeoutAssumption,
    StallAssumption, WaitAssumption, AwaitAssumption, BoundsAssumption

-----------------------------------------------------------------------------
(* Type correctness.                                                       *)

\* The parts of the state a request moves through with Enter.
LEMMA EnterType ==
    ASSUME RequestTypeOK, NEW p \in Requests, NEW s \in States, Enter(p, s)
    PROVE  /\ pc' \in [Requests -> States]
           /\ reply' \in [Requests -> [kind : Kinds, at : Tokens, rt : Tokens]]
           /\ await' \in [Requests -> Nat]
<1>1. NoReply \in [kind : Kinds, at : Tokens, rt : Tokens]
  BY DEF NoReply, Reply, Kinds, Tokens, NoToken
<1>2. AwaitBound[s] \in Nat
  BY DEF AwaitBound, States
<1> QED
  BY <1>1, <1>2 DEF Enter, RequestTypeOK

\* Returning or releasing keeps the request's part of the type invariant.
LEMMA LeaveType ==
    ASSUME RequestTypeOK, NEW p \in Requests, NEW r \in Resolutions,
           Return(p, r) \/ Release(p, r)
    PROVE  RequestTypeOK'
<1>1. PICK s \in {"done", "release"} :
          Enter(p, s) /\ StopWaiting(p) /\ StopOwning(p) /\ Resolve(p, r)
  BY DEF Return, Release
<1>2. s \in States
  BY DEF States, Awaiting, RedisCall
<1>3. NoTokens \in [at : Tokens, rt : Tokens]
  BY DEF NoTokens, Tokens, NoToken
<1> QED
  BY <1>1, <1>2, <1>3, EnterType DEF RequestTypeOK, StopWaiting, StopOwning, Resolve

LEMMA ResolutionTypes ==
    /\ TemporarilyUnavailable \in Resolutions
    /\ ReauthenticationRequired \in Resolutions
    /\ Dropped \in Resolutions
    /\ \A at \in Tokens : Ready(at) \in Resolutions
  BY DEF TemporarilyUnavailable, ReauthenticationRequired, Dropped, Ready,
         Resolutions, Tokens, NoToken

\* Every action of Step leaves the request's part of the state well typed.
LEMMA StepType ==
    ASSUME TypeOK, NEW p \in Requests, Start(p) \/ Step(p)
    PROVE  RequestTypeOK'
<1> USE DEF TypeOK
<1>0. /\ reply[p] \in [kind : Kinds, at : Tokens, rt : Tokens]
      /\ held[p] \in [at : Tokens, rt : Tokens]
      /\ result[p] \in Resolutions
      /\ pollDelay[p] \in Nat /\ waitLeft[p] \in Nat
  BY DEF RequestTypeOK
<1>1. ResolutionOf(reply[p]) \in Resolutions
  BY <1>0, ResolutionTypes DEF ResolutionOf
<1>2. {"read", "discover", "acquire", "sleep", "reread", "recheck", "exchange",
       "update", "invalidate"} \subseteq States
  BY DEF States, Awaiting, RedisCall
<1>a. CASE Start(p)
  BY <1>a, <1>2, EnterType DEF Start, RequestTypeOK
<1>b. CASE InitialRead(p)
  BY <1>b, <1>1, <1>2, EnterType, LeaveType DEF InitialRead, RequestTypeOK
<1>c. CASE Discover(p)
  <2>1. CASE Return(p, TemporarilyUnavailable)
    BY <2>1, LeaveType, ResolutionTypes
  <2>2. CASE /\ TryAcquire(p)
             /\ waitLeft' = [waitLeft EXCEPT ![p] = WaitTimeout]
             /\ pollDelay' = [pollDelay EXCEPT ![p] = PollInitial]
             /\ UNCHANGED <<held, result, blockers>>
    <3>1. Enter(p, "acquire") /\ ownerLeft' = [ownerLeft EXCEPT ![p] = OwnerTimeout]
      BY <2>2 DEF TryAcquire
    <3> QED
      BY <2>2, <3>1, <1>2, EnterType DEF RequestTypeOK
  <2> QED
    BY <1>c, <2>1, <2>2 DEF Discover
<1>d. CASE Acquired(p)
  <2>1. CASE Release(p, TemporarilyUnavailable)
    BY <2>1, LeaveType, ResolutionTypes
  <2>2. CASE /\ Enter(p, "recheck") /\ StopWaiting(p)
             /\ UNCHANGED <<held, result, ownerLeft>>
    BY <2>2, <1>2, EnterType DEF StopWaiting, RequestTypeOK
  <2> QED
    BY <1>d, <2>1, <2>2 DEF Acquired
<1>e. CASE Refused(p)
  <2>1. LeastOf(pollDelay[p], waitLeft[p]) \in Nat
    BY <1>0 DEF LeastOf
  <2>2. NoReply \in [kind : Kinds, at : Tokens, rt : Tokens]
    BY DEF NoReply, Reply, Kinds, Tokens, NoToken
  <2> QED
    BY <1>e, <1>2, <2>1, <2>2 DEF Refused, RequestTypeOK
<1>f. CASE Wake(p)
  BY <1>f, <1>2, EnterType DEF Wake, RequestTypeOK
<1>g. CASE Reread(p)
  <2>1. NextDelay(p) \in Nat
    BY <1>0 DEF NextDelay, LeastOf
  <2> QED
    BY <1>g, <1>1, <1>2, <2>1, EnterType, LeaveType DEF Reread, TryAcquire, RequestTypeOK
<1>h. CASE GiveUp(p)
  BY <1>h, LeaveType, ResolutionTypes DEF GiveUp
<1>i. CASE Recheck(p)
  <2>1. CASE Release(p, ResolutionOf(reply[p]))
    BY <2>1, <1>1, LeaveType
  <2>2. CASE SendExchange(p, reply[p])
    <3>1. /\ Enter(p, "exchange")
          /\ held' = [held EXCEPT ![p] = [at |-> reply[p].at, rt |-> reply[p].rt]]
          /\ UNCHANGED <<result, waitLeft, ownerLeft, pollDelay, blockers>>
      BY <2>2 DEF SendExchange
    <3> QED
      BY <3>1, <1>0, <1>2, EnterType DEF RequestTypeOK
  <2> QED
    BY <1>i, <2>1, <2>2 DEF Recheck
<1>j. CASE Exchanged(p)
  <2>1. Refreshed(p) \in [at : Tokens, rt : Tokens]
    BY <1>0 DEF Refreshed
  <2>2. CASE Release(p, TemporarilyUnavailable)
    BY <2>2, LeaveType, ResolutionTypes
  <2>3. CASE /\ Enter(p, "update")
             /\ held' = [held EXCEPT ![p] = Refreshed(p)]
             /\ UNCHANGED <<result, waitLeft, ownerLeft, pollDelay, blockers>>
    BY <2>1, <2>3, <1>2, EnterType DEF RequestTypeOK
  <2>4. CASE /\ Enter(p, "invalidate")
             /\ UNCHANGED <<held, result, waitLeft, ownerLeft, pollDelay, blockers>>
    BY <2>4, <1>2, EnterType DEF RequestTypeOK
  <2> QED
    BY <1>j, <2>2, <2>3, <2>4 DEF Exchanged
<1>k. CASE Updated(p)
  <2>1. UpdateResolution(reply[p].kind, held[p].at) \in Resolutions
    BY <1>0, <1>k, ResolutionTypes DEF UpdateResolution, Updated
  <2> QED
    BY <1>k, <2>1, LeaveType DEF Updated
<1>l. CASE Invalidated(p)
  <2>1. InvalidateResolution(reply[p].kind) \in Resolutions
    BY ResolutionTypes DEF InvalidateResolution
  <2> QED
    BY <1>l, <2>1, LeaveType DEF Invalidated
<1>m. CASE Released(p)
  <2>1. ReleaseResolution(p) \in Resolutions
    BY <1>0, ResolutionTypes DEF ReleaseResolution
  <2> QED
    BY <1>m, <2>1, LeaveType DEF Released
<1>n. CASE OwnerDeadlineElapses(p)
  BY <1>n, LeaveType, ResolutionTypes DEF OwnerDeadlineElapses
<1> QED
  BY <1>a, <1>b, <1>c, <1>d, <1>e, <1>f, <1>g, <1>h, <1>i, <1>j, <1>k, <1>l, <1>m, <1>n
     DEF Step

\* Whatever a well-typed command does leaves the store well typed.
LEMMA ExecuteType ==
    ASSUME StoreTypeOK, NEW c \in Commands, Execute(c)
    PROVE  StoreTypeOK' /\ Answer(c) \in [kind : Kinds, at : Tokens, rt : Tokens]
<1> USE DEF StoreTypeOK, Tokens, LockExists, SessionExists, IsLockOwner
<1>1. NoToken \in Tokens /\ NoSession \in [ttl : 0..SessionTtl, at : Tokens, rt : Tokens]
  BY DEF NoToken, NoSession
<1>2. Answer(c) \in [kind : Kinds, at : Tokens, rt : Tokens]
  <2>1. c.op \in Operations
    BY DEF Commands
  <2> QED
    BY <1>1, <2>1 DEF Operations, Answer, RedisGetAnswer, Reply, OwnedMutation, Kinds
<1>3. StoreTypeOK'
  <2>1. CASE RedisGet(c)
    BY <2>1 DEF RedisGet, storeVars
  <2>2. CASE RedisTryAcquireRefreshLock(c)
    BY <2>2 DEF RedisTryAcquireRefreshLock, Commands, CanAcquire
  <2>3. CASE RefreshUpdateScript(c)
    <3>1. CASE OwnedMutation(c.req) = "applied"
      <4>1. session.ttl > 0
        BY <3>1 DEF OwnedMutation
      <4>2. session' = [session EXCEPT !.at = c.at, !.rt = c.rt] /\ lock' = lock
        BY <2>3, <3>1 DEF RefreshUpdateScript, UpdatedSession
      <4> QED
        BY <4>1, <4>2 DEF Commands
    <3>2. CASE OwnedMutation(c.req) # "applied"
      BY <2>3, <3>2 DEF RefreshUpdateScript
    <3> QED
      BY <3>1, <3>2
  <2>4. CASE RefreshInvalidateScript(c)
    BY <2>4, <1>1 DEF RefreshInvalidateScript, NoSession
  <2>5. CASE RefreshLockReleaseScript(c)
    BY <2>5 DEF RefreshLockReleaseScript, LockAfterRelease, Unlocked
  <2> QED
    BY <2>1, <2>2, <2>3, <2>4, <2>5 DEF Execute
<1> QED
  BY <1>2, <1>3

LEMMA StoreTickType ==
    ASSUME StoreTypeOK, StoreTick
    PROVE  StoreTypeOK'
  BY DEF StoreTypeOK, StoreTick, AgedSession, AgedLock, NoSession, Unlocked, Tokens,
         NoToken, LockExists, SessionExists

\* A request's current command is well typed.
LEMMA CommandType ==
    ASSUME RequestTypeOK, NEW p \in Requests, pc[p] \in RedisCall
    PROVE  Command(p) \in Commands
<1>1. OpOf[pc[p]] \in Operations
  BY DEF OpOf, Operations, RedisCall
<1> QED
  BY <1>1 DEF Command, Commands, RequestTypeOK

LEMMA AbandonType ==
    ASSUME TypeOK, NEW p \in Requests, NEW stays \in BOOLEAN, Abandon(p, stays)
    PROVE  /\ StoreTypeOK' /\ ServerTypeOK' /\ late' \in SUBSET Commands
           /\ persisted' \in SUBSET Tokens /\ kept' \in BOOLEAN
<1>1. StoreTypeOK'
  BY DEF Abandon, TypeOK, StoreTypeOK, storeVars, LockExists, SessionExists
<1>2. ServerTypeOK'
  BY DEF Abandon, TypeOK, ServerTypeOK
<1>3. late' \in SUBSET Commands
  BY CommandType DEF Abandon, TypeOK
<1> QED
  BY <1>1, <1>2, <1>3 DEF Abandon, TypeOK

LEMMA FaultType == faults \in 0..MaxFaults /\ Fault => faults' \in 0..MaxFaults
  BY DEF Fault

LEMMA AnswerExchangeType ==
    ASSUME TypeOK, NEW x \in asWork, NEW a \in [kind : Kinds, at : Tokens, rt : Tokens],
           AnswerExchange(x, a)
    PROVE  /\ StoreTypeOK' /\ RequestTypeOK' /\ late' \in SUBSET Commands
           /\ asWork' \in SUBSET [req : Requests, rt : Tokens]
           /\ persisted' \in SUBSET Tokens /\ kept' \in BOOLEAN /\ faults' \in 0..MaxFaults
<1>1. StoreTypeOK'
  BY DEF AnswerExchange, TypeOK, StoreTypeOK, storeVars, LockExists, SessionExists
<1>2. RequestTypeOK'
  BY DEF AnswerExchange, TypeOK, RequestTypeOK, timerVars
<1> QED
  BY <1>1, <1>2 DEF AnswerExchange, TypeOK, ServerTypeOK, ghostVars

THEOREM InitType == Init => TypeOK
<1> SUFFICES ASSUME Init PROVE TypeOK
  OBVIOUS
<1>1. StoreTypeOK
  BY DEF Init, StoreTypeOK, Unlocked, Tokens, NoToken, LockExists, SessionExists
<1>2. RequestTypeOK
  BY DEF Init, RequestTypeOK, States, NoReply, Reply, NoTokens, NoToken, Tokens, Kinds,
         Unresolved, Resolutions
<1>3. ServerTypeOK
  BY DEF Init, ServerTypeOK, Tokens, NoToken
<1> QED
  BY <1>1, <1>2, <1>3 DEF Init, TypeOK, Tokens

(* Every step of the system preserves the type invariant.                  *)
THEOREM NextType == TypeOK /\ [Next]_vars => TypeOK'
<1> SUFFICES ASSUME TypeOK, [Next]_vars PROVE TypeOK'
  OBVIOUS
<1>1. ASSUME NEW p \in Requests, Start(p) \/ Step(p) PROVE TypeOK'
  <2>1. RequestTypeOK'
    BY <1>1, StepType
  <2>2. CASE Recheck(p)
    <3>1. UNCHANGED <<storeVars, late, ghostVars>>
      BY <2>2 DEF Recheck
    <3>2. ServerTypeOK'
      <4>1. reply[p].rt \in Tokens
        BY DEF TypeOK, RequestTypeOK
      <4> QED
        BY <2>2, <4>1 DEF Recheck, SendExchange, asVars, TypeOK, ServerTypeOK
    <3> QED
      BY <2>1, <3>1, <3>2 DEF TypeOK, StoreTypeOK, storeVars, ghostVars, LockExists, SessionExists
  <2>3. CASE OwnerDeadlineElapses(p)
    BY <2>1, <2>3, AbandonType DEF OwnerDeadlineElapses, TypeOK
  <2>4. CASE RequestOnly
    BY <2>1, <2>4 DEF RequestOnly, TypeOK, StoreTypeOK, ServerTypeOK, storeVars, ghostVars,
                      asVars, LockExists, SessionExists
  <2> QED
    BY <1>1, <2>2, <2>3, <2>4 DEF Start, Step, InitialRead, Discover, Acquired, Refused,
       Wake, Reread, GiveUp, Exchanged, Updated, Invalidated, Released
<1>2. ASSUME NEW p \in Requests, Serve(p) PROVE TypeOK'
  <2>1. Command(p) \in Commands
    BY <1>2, CommandType DEF Serve, TypeOK
  <2>2. StoreTypeOK' /\ Answer(Command(p)) \in [kind : Kinds, at : Tokens, rt : Tokens]
    BY <1>2, <2>1, ExecuteType DEF Serve, TypeOK
  <2>3. blockers' \in [Requests -> SUBSET Requests]
    BY <1>2 DEF Serve, TypeOK, RequestTypeOK, StoreTypeOK, CanAcquire, LockExists
  <2>4. RequestTypeOK'
    BY <1>2, <2>2, <2>3 DEF Serve, TypeOK, RequestTypeOK, timerVars
  <2>5. persisted' \in SUBSET Tokens
    BY <1>2, <2>2 DEF Serve, Served, TypeOK, StoreTypeOK
  <2> QED
    BY <1>2, <2>2, <2>4, <2>5 DEF Serve, TypeOK, ServerTypeOK, asVars
<1>3. ASSUME NEW c \in late, ServeLate(c) PROVE TypeOK'
  <2>1. StoreTypeOK'
    BY <1>3, ExecuteType DEF ServeLate, TypeOK
  <2>2. persisted' \in SUBSET Tokens
    BY <1>3, <2>1 DEF ServeLate, Served, TypeOK, StoreTypeOK
  <2> QED
    BY <1>3, <2>1, <2>2 DEF ServeLate, TypeOK, RequestTypeOK, ServerTypeOK, asVars,
                            requestVars, timerVars
<1>4. ASSUME NEW p \in Requests, AwaitFails(p) \/ DropRequest(p) PROVE TypeOK'
  <2>1. RequestTypeOK'
    BY <1>4, LeaveType, ResolutionTypes DEF AwaitFails, DropRequest, TypeOK
  <2> QED
    BY <1>4, <2>1, AbandonType, FaultType DEF AwaitFails, DropRequest, TypeOK
<1>5. ASSUME NEW x \in asWork, ASAnswers(x) PROVE TypeOK'
  <2>1. CASE ASGrants(x)
    <3>1. /\ issued + 1 \in Tokens
          /\ issued' = issued + 1
          /\ [kind |-> "tokens", at |-> issued', rt |-> issued']
                 \in [kind : Kinds, at : Tokens, rt : Tokens]
          /\ [kind |-> "tokens", at |-> issued', rt |-> NoToken]
                 \in [kind : Kinds, at : Tokens, rt : Tokens]
      BY <2>1 DEF ASGrants, TypeOK, ServerTypeOK, Tokens, Kinds, NoToken
    <3>2. PICK a \in [kind : Kinds, at : Tokens, rt : Tokens] : AnswerExchange(x, a)
      BY <2>1, <3>1 DEF ASGrants
    <3>3. asValid' \in SUBSET Tokens /\ issued' \in Nat \ {0} /\ expiring' = expiring
      <4>1. asValid' = asValid \/ asValid' = (asValid \ {x.rt}) \cup {issued'}
        BY <2>1 DEF ASGrants
      <4>2. issued' \in Nat \ {0} /\ issued' \in Tokens
        BY <3>1 DEF TypeOK, ServerTypeOK, Tokens
      <4>3. asValid' \in SUBSET Tokens
        BY <4>1, <4>2 DEF TypeOK, ServerTypeOK
      <4> QED
        BY <2>1, <4>2, <4>3 DEF ASGrants
    <3>4. /\ StoreTypeOK' /\ RequestTypeOK' /\ late' \in SUBSET Commands
          /\ asWork' \in SUBSET [req : Requests, rt : Tokens]
          /\ persisted' \in SUBSET Tokens /\ kept' \in BOOLEAN /\ faults' \in 0..MaxFaults
      BY <3>2, AnswerExchangeType
    <3>5. expiring' \in SUBSET Tokens
      BY <3>3 DEF TypeOK, ServerTypeOK
    <3> QED
      BY <3>3, <3>4, <3>5 DEF TypeOK, ServerTypeOK
  <2>2. CASE ASRefuses(x) \/ ASFails(x)
    <3>1. /\ Reply("invalidGrant") \in [kind : Kinds, at : Tokens, rt : Tokens]
          /\ Reply("failed") \in [kind : Kinds, at : Tokens, rt : Tokens]
      BY DEF Reply, Kinds, Tokens, NoToken
    <3>2. \E a \in [kind : Kinds, at : Tokens, rt : Tokens] : AnswerExchange(x, a)
      BY <2>2, <3>1 DEF ASRefuses, ASFails
    <3> QED
      BY <2>2, <3>2, AnswerExchangeType DEF ASRefuses, ASFails, TypeOK, ServerTypeOK
  <2> QED
    BY <1>5, <2>1, <2>2 DEF ASAnswers
<1>6. ASSUME NEW t \in asValid, ASRevokes(t) PROVE TypeOK'
  BY <1>6, FaultType DEF ASRevokes, TypeOK, StoreTypeOK, RequestTypeOK, ServerTypeOK,
     storeVars, requestVars, timerVars, LockExists, SessionExists
<1>7. ASSUME NEW at \in 1..issued, EntersSkew(at) PROVE TypeOK'
  BY <1>7 DEF EntersSkew, TypeOK, StoreTypeOK, RequestTypeOK, ServerTypeOK, Tokens,
     storeVars, requestVars, timerVars, ghostVars, LockExists, SessionExists
<1>8. CASE Tick
  <2>1. StoreTypeOK'
    BY <1>8, StoreTickType DEF Tick, TypeOK
  <2>2. /\ await' \in [Requests -> Nat] /\ waitLeft' \in [Requests -> Nat]
        /\ ownerLeft' \in [Requests -> Int]
    BY <1>8 DEF Tick, Decrement, TypeOK, RequestTypeOK
  <2> QED
    BY <1>8, <2>1, <2>2 DEF Tick, TypeOK, RequestTypeOK, ServerTypeOK, asVars, ghostVars
<1>9. CASE UNCHANGED vars
  BY <1>9 DEF vars, TypeOK, StoreTypeOK, RequestTypeOK, ServerTypeOK, storeVars, asVars,
     requestVars, timerVars, ghostVars, LockExists, SessionExists
<1> QED
  BY <1>1, <1>2, <1>3, <1>4, <1>5, <1>6, <1>7, <1>8, <1>9 DEF Next

(* The type invariant holds in every reachable state.                      *)
THEOREM TypeCorrect == Spec => []TypeOK
  BY InitType, NextType, PTL DEF Spec

-----------------------------------------------------------------------------
(* Exclusive ownership.  The owner's budget starts before its SET is sent   *)
(* and the lease when Redis runs it, so a lease that has run for a while    *)
(* has at least Margin more left than the budget.  Nobody else can remove  *)
(* the lock meanwhile: SET NX is refused, a release compares the owner,    *)
(* and the commands a request left behind belong to a request that has     *)
(* stopped owning.                                                         *)

Margin == Lease - OwnerTimeout

\* An owner at work, or one about to learn that it is the owner.
Covered(p) == lock.owner = p /\ lock.left >= ownerLeft[p] + Margin

CriticalCovered(p) == pc[p] \in Critical => ownerLeft[p] >= -Stall /\ Covered(p)

AcquisitionCovered(p) ==
    pc[p] = "acquire" =>
        /\ ownerLeft[p] <= OwnerTimeout
        /\ reply[p].kind = "yes" /\ ownerLeft[p] > 0 => Covered(p)

AcquireAnswers(p) == pc[p] = "acquire" => reply[p].kind \in {"none", "yes", "no"}

LeftBehind == \A c \in late : pc[c.req] \in {"release", "done"}

Holding(p) == CriticalCovered(p) /\ AcquisitionCovered(p) /\ AcquireAnswers(p)

LockInv == (\A p \in Requests : Holding(p)) /\ LeftBehind

\* A request the step does not touch keeps its part while the lock stays.
LEMMA HoldingKept ==
    ASSUME NEW p \in Requests, Holding(p),
           pc'[p] = pc[p], reply'[p] = reply[p], ownerLeft'[p] = ownerLeft[p],
           lock' = lock
    PROVE  Holding(p)'
  BY DEF Holding, CriticalCovered, AcquisitionCovered, AcquireAnswers, Covered

\* A request outside the acquisition and the critical section claims nothing.
LEMMA HoldingElsewhere ==
    ASSUME NEW p \in Requests, pc[p] \notin Critical \cup {"acquire"}
    PROVE  Holding(p)
  BY DEF Holding, CriticalCovered, AcquisitionCovered, AcquireAnswers

\* Enter and everything built on it touches the state of one request only.
LEMMA EnterLocal ==
    ASSUME RequestTypeOK, NEW p \in Requests, NEW s \in States, Enter(p, s)
    PROVE  /\ pc'[p] = s /\ reply'[p] = NoReply
           /\ \A q \in Requests \ {p} : pc'[q] = pc[q] /\ reply'[q] = reply[q]
  BY DEF Enter, RequestTypeOK

LEMMA LeaveLocal ==
    ASSUME RequestTypeOK, NEW p \in Requests, NEW r, Return(p, r) \/ Release(p, r)
    PROVE  /\ pc'[p] \in {"release", "done"}
           /\ \A q \in Requests \ {p} :
                  pc'[q] = pc[q] /\ reply'[q] = reply[q] /\ ownerLeft'[q] = ownerLeft[q]
<1>1. {"done", "release"} \subseteq States
  BY DEF States, Awaiting, RedisCall
<1> QED
  BY <1>1, EnterLocal DEF Return, Release, StopOwning, RequestTypeOK

\* The requests a step of p does not touch; p moves, the lock does not.
LEMMA StepLocal ==
    ASSUME RequestTypeOK, NEW p \in Requests, NEW q \in Requests \ {p}, Start(p) \/ Step(p)
    PROVE  pc'[q] = pc[q] /\ reply'[q] = reply[q] /\ ownerLeft'[q] = ownerLeft[q]
<1>1. {"read", "discover", "acquire", "sleep", "reread", "recheck", "exchange",
       "update", "invalidate"} \subseteq States
  BY DEF States, Awaiting, RedisCall
<1>2. CASE \E r : Return(p, r) \/ Release(p, r)
  BY <1>2, LeaveLocal
<1>3. CASE (\E s \in States : Enter(p, s)) /\ UNCHANGED ownerLeft
  BY <1>3, EnterLocal
<1>4. CASE TryAcquire(p)
  BY <1>1, <1>4, EnterLocal DEF TryAcquire, RequestTypeOK
<1>5. CASE Refused(p)
  BY <1>5 DEF Refused, RequestTypeOK
<1>6. \/ \E r : Return(p, r) \/ Release(p, r)
      \/ (\E s \in States : Enter(p, s)) /\ UNCHANGED ownerLeft
      \/ TryAcquire(p) \/ Refused(p)
  <2>1. CASE Start(p) \/ InitialRead(p) \/ Wake(p) \/ Exchanged(p)
    BY <1>1, <2>1 DEF Start, InitialRead, Wake, Exchanged
  <2>2. CASE Acquired(p) \/ Recheck(p)
    BY <1>1, <2>2 DEF Acquired, Recheck, SendExchange
  <2>3. CASE Discover(p) \/ Reread(p) \/ GiveUp(p)
    BY <2>3 DEF Discover, Reread, GiveUp
  <2>4. CASE Updated(p) \/ Invalidated(p) \/ Released(p) \/ OwnerDeadlineElapses(p)
    BY <2>4 DEF Updated, Invalidated, Released, OwnerDeadlineElapses
  <2> QED
    BY <2>1, <2>2, <2>3, <2>4 DEF Step
<1> QED
  BY <1>2, <1>3, <1>4, <1>5, <1>6

\* What a step does to the request that takes it.
LEMMA StepHolding ==
    ASSUME TypeOK, NEW p \in Requests, Holding(p), Start(p) \/ Step(p)
    PROVE  Holding(p)'
<1> USE DEF TypeOK
<1>1. {"read", "discover", "acquire", "sleep", "reread", "recheck", "exchange",
       "update", "invalidate"} \subseteq States
  BY DEF States, Awaiting, RedisCall
<1>2. CASE pc'[p] \notin Critical \cup {"acquire"}
  BY <1>2 DEF Holding, CriticalCovered, AcquisitionCovered, AcquireAnswers
<1>3. CASE TryAcquire(p)
  <2>1. pc'[p] = "acquire" /\ reply'[p].kind = "none" /\ ownerLeft'[p] = OwnerTimeout
    BY <1>1, <1>3, EnterLocal DEF TryAcquire, RequestTypeOK, NoReply, Reply
  <2> QED
    BY <2>1 DEF Holding, CriticalCovered, AcquisitionCovered, AcquireAnswers, Critical
<1>4. CASE /\ pc[p] \in Critical /\ pc'[p] \in Critical
           /\ UNCHANGED <<ownerLeft, lock>>
  BY <1>4 DEF Holding, CriticalCovered, AcquisitionCovered, AcquireAnswers, Covered, Critical
<1>5. CASE /\ Acquired(p) /\ pc'[p] = "recheck" /\ ownerLeft[p] > 0
           /\ UNCHANGED <<ownerLeft, lock>>
  <2>1. Covered(p) /\ ownerLeft[p] >= -Stall
    BY <1>5 DEF Acquired, Holding, AcquisitionCovered, RequestTypeOK
  <2> QED
    BY <1>5, <2>1 DEF Holding, CriticalCovered, AcquisitionCovered, AcquireAnswers, Covered
<1>6. CASE \E r : Return(p, r) \/ Release(p, r)
  BY <1>2, <1>6, LeaveLocal DEF Critical
<1>7. CASE Start(p) \/ InitialRead(p) \/ Wake(p) \/ Refused(p)
  <2>1. pc'[p] \notin Critical \cup {"acquire"}
    BY <1>1, <1>7, EnterLocal, LeaveLocal
       DEF Start, InitialRead, Wake, Refused, Critical, RequestTypeOK
  <2> QED
    BY <1>2, <2>1
<1>8. CASE Recheck(p) \/ Exchanged(p)
  <2>1. \/ \E r : Return(p, r) \/ Release(p, r)
        \/ /\ pc[p] \in Critical /\ pc'[p] \in Critical /\ UNCHANGED <<ownerLeft, lock>>
    BY <1>1, <1>8, EnterLocal
       DEF Recheck, SendExchange, Exchanged, Critical, RequestOnly, storeVars
  <2> QED
    BY <1>4, <1>6, <2>1
<1>9. CASE Acquired(p)
  <2>1. \/ \E r : Return(p, r) \/ Release(p, r)
        \/ pc'[p] = "recheck" /\ ownerLeft[p] > 0 /\ UNCHANGED <<ownerLeft, lock>>
    BY <1>1, <1>9, EnterLocal DEF Acquired, RequestOnly, storeVars
  <2> QED
    BY <1>5, <1>6, <1>9, <2>1
<1>10. CASE Discover(p) \/ Reread(p) \/ GiveUp(p)
  BY <1>1, <1>3, <1>6, <1>10 DEF Discover, Reread, GiveUp
<1>11. CASE Updated(p) \/ Invalidated(p) \/ Released(p) \/ OwnerDeadlineElapses(p)
  BY <1>6, <1>11 DEF Updated, Invalidated, Released, OwnerDeadlineElapses
<1> QED
  BY <1>7, <1>8, <1>9, <1>10, <1>11 DEF Step

\* Requests that have left something behind only go from release to done.
LEMMA LeftBehindKept ==
    ASSUME TypeOK, LeftBehind, late' = late,
           \A q \in Requests :
               pc[q] \in {"release", "done"} => pc'[q] \in {"release", "done"}
    PROVE  LeftBehind'
  BY DEF LeftBehind, TypeOK, Commands

LEMMA StepLeavesNothing ==
    ASSUME TypeOK, NEW p \in Requests, Start(p) \/ Step(p),
           pc[p] \in {"release", "done"}
    PROVE  pc'[p] \in {"release", "done"}
<1>1. Released(p)
  BY DEF Start, Step, InitialRead, Discover, Acquired, Refused, Wake, Reread, GiveUp,
         Recheck, Exchanged, Updated, Invalidated, OwnerDeadlineElapses, Critical
<1> QED
  BY <1>1, LeaveLocal DEF Released, TypeOK

\* Giving up an await: the caller is releasing or done when its command is late.
LEMMA AbandonLocks ==
    ASSUME TypeOK, LockInv, NEW p \in Requests, NEW r, Return(p, r) \/ Release(p, r),
           NEW stays \in BOOLEAN, Abandon(p, stays)
    PROVE  LockInv'
<1>1. /\ pc'[p] \in {"release", "done"}
      /\ \A q \in Requests \ {p} :
             pc'[q] = pc[q] /\ reply'[q] = reply[q] /\ ownerLeft'[q] = ownerLeft[q]
  BY LeaveLocal DEF TypeOK
<1>2. ASSUME NEW q \in Requests PROVE Holding(q)'
  <2>1. CASE q = p
    BY <1>1, <2>1 DEF Holding, CriticalCovered, AcquisitionCovered, AcquireAnswers, Critical
  <2>2. CASE q # p
    BY <1>1, <2>2, HoldingKept DEF LockInv, Abandon, storeVars
  <2> QED
    BY <2>1, <2>2
<1>3. ASSUME NEW c \in late' PROVE pc'[c.req] \in {"release", "done"}
  <2>1. CASE c \in late
    <3>1. c.req \in Requests /\ pc[c.req] \in {"release", "done"}
      BY <2>1 DEF LockInv, LeftBehind, TypeOK, Commands
    <3> QED
      BY <1>1, <3>1
  <2>2. CASE c = Command(p)
    BY <1>1, <2>2 DEF Command
  <2> QED
    BY <1>3, <2>1, <2>2 DEF Abandon
<1> QED
  BY <1>2, <1>3 DEF LockInv, LeftBehind

\* The only commands that touch the lock: a free lock is taken by the sender,
\* or the sender's own lock is removed.
LEMMA LockMoves ==
    ASSUME NEW c \in Commands, Execute(c)
    PROVE  \/ lock' = lock
           \/ c.op = "acquire" /\ ~LockExists /\ lock' = [owner |-> c.req, left |-> Lease]
           \/ c.op = "release" /\ lock.owner = c.req
  BY DEF Execute, RedisGet, RedisTryAcquireRefreshLock, RefreshUpdateScript,
         RefreshInvalidateScript, RefreshLockReleaseScript, LockAfterRelease, IsLockOwner,
         CanAcquire, storeVars

\* A command of somebody else does not take the lock from an owner.
LEMMA OthersKeepHolding ==
    ASSUME TypeOK, NEW c \in Commands, Execute(c), NEW q \in Requests, Holding(q),
           c.req # q, pc'[q] = pc[q], reply'[q] = reply[q], ownerLeft'[q] = ownerLeft[q]
    PROVE  Holding(q)'
<1>1. Covered(q) => lock' = lock
  BY LockMoves, NoOwnerAssumption DEF Covered, LockExists
<1> QED
  BY <1>1 DEF Holding, CriticalCovered, AcquisitionCovered, AcquireAnswers, Covered

LEMMA InitLocks == Init => LockInv
  BY DEF Init, LockInv, LeftBehind, Holding, CriticalCovered, AcquisitionCovered,
         AcquireAnswers, Critical

(* Every step preserves LockInv, if the lease outlives the owner.          *)
LEMMA NextLocks ==
    ASSUME LeaseOutlivesOwner, TypeOK, LockInv, [Next]_vars
    PROVE  LockInv'
<1>1. ASSUME NEW p \in Requests, Start(p) \/ Step(p) PROVE LockInv'
  <2>1. CASE OwnerDeadlineElapses(p)
    BY <2>1, AbandonLocks DEF OwnerDeadlineElapses
  <2>2. CASE ~OwnerDeadlineElapses(p)
    <3>1. late' = late /\ lock' = lock
      BY <1>1, <2>2 DEF Start, Step, InitialRead, Discover, Acquired, Refused, Wake, Reread,
         GiveUp, Recheck, Exchanged, Updated, Invalidated, Released, RequestOnly, storeVars
    <3>2. \A q \in Requests \ {p} :
             pc'[q] = pc[q] /\ reply'[q] = reply[q] /\ ownerLeft'[q] = ownerLeft[q]
      BY <1>1, StepLocal DEF TypeOK
    <3>3. LeftBehind'
      BY <1>1, <3>1, <3>2, LeftBehindKept, StepLeavesNothing DEF LockInv
    <3>4. \A q \in Requests : Holding(q)'
      BY <1>1, <3>1, <3>2, StepHolding, HoldingKept DEF LockInv
    <3> QED
      BY <3>3, <3>4 DEF LockInv
  <2> QED
    BY <2>1, <2>2
<1>2. ASSUME NEW p \in Requests, Serve(p) PROVE LockInv'
  <2>1. Command(p) \in Commands /\ Command(p).req = p /\ Command(p).op = OpOf[pc[p]]
    BY <1>2, CommandType DEF Serve, TypeOK, Command
  <2>2. /\ Execute(Command(p)) /\ reply'[p] = Answer(Command(p))
        /\ UNCHANGED <<pc, ownerLeft, late>>
        /\ \A q \in Requests \ {p} : reply'[q] = reply[q]
    BY <1>2 DEF Serve, TypeOK, RequestTypeOK, timerVars
  <2>3. ASSUME NEW q \in Requests, q # p PROVE Holding(q)'
    BY <2>1, <2>2, <2>3, OthersKeepHolding DEF LockInv
  <2>4. Holding(p)'
    <3>1. CASE pc[p] \in Critical
      <4>1. Command(p).op \in {"get", "update", "invalidate"}
        BY <1>2, <2>1, <3>1 DEF Serve, Critical, OpOf, RedisCall
      <4>2. lock' = lock
        BY <2>1, <2>2, <4>1, LockMoves
      <4> QED
        BY <2>2, <3>1, <4>2 DEF LockInv, Holding, CriticalCovered, AcquisitionCovered,
                               AcquireAnswers, Covered, Critical
    <3>2. CASE pc[p] = "acquire"
      <4>1. Command(p).op = "acquire"
        BY <2>1, <3>2 DEF OpOf, RedisCall
      <4>2. Answer(Command(p)) = Reply(IF CanAcquire(p) THEN "yes" ELSE "no")
        BY <2>1, <4>1 DEF Answer
      <4>3. CanAcquire(p) => lock' = [owner |-> p, left |-> Lease]
        BY <2>1, <2>2, <4>1 DEF Execute, RedisTryAcquireRefreshLock, RedisGet,
           RefreshUpdateScript, RefreshInvalidateScript, RefreshLockReleaseScript
      <4>4. reply'[p].kind \in {"yes", "no"} /\ (reply'[p].kind = "yes" => CanAcquire(p))
        BY <2>2, <4>2 DEF Reply
      <4>5. ownerLeft[p] \in Int /\ ownerLeft[p] <= OwnerTimeout
        BY <3>2 DEF LockInv, Holding, AcquisitionCovered, TypeOK, RequestTypeOK
      <4>6. reply'[p].kind = "yes" => Covered(p)'
        BY <2>2, <4>3, <4>4, <4>5 DEF Covered, Margin
      <4> QED
        BY <2>2, <3>2, <4>4, <4>5, <4>6 DEF Holding, CriticalCovered, AcquisitionCovered,
                                      AcquireAnswers, Critical
    <3>3. CASE pc[p] \notin Critical \cup {"acquire"}
      BY <2>2, <3>3 DEF Holding, CriticalCovered, AcquisitionCovered, AcquireAnswers
    <3> QED
      BY <3>1, <3>2, <3>3
  <2>5. LeftBehind'
    BY <2>2, LeftBehindKept DEF LockInv
  <2> QED
    BY <2>3, <2>4, <2>5 DEF LockInv
<1>3. ASSUME NEW c \in late, ServeLate(c) PROVE LockInv'
  <2>1. c \in Commands /\ Execute(c) /\ pc[c.req] \in {"release", "done"}
    BY <1>3 DEF ServeLate, TypeOK, LockInv, LeftBehind
  <2>2. UNCHANGED <<pc, reply, ownerLeft>> /\ late' = late \ {c}
    BY <1>3 DEF ServeLate, requestVars, timerVars
  <2>3. ASSUME NEW q \in Requests PROVE Holding(q)'
    <3>1. CASE q = c.req
      BY <2>1, <2>2, <3>1 DEF Holding, CriticalCovered, AcquisitionCovered, AcquireAnswers,
                              Critical
    <3>2. CASE q # c.req
      BY <2>1, <2>2, <3>2, OthersKeepHolding DEF LockInv
    <3> QED
      BY <3>1, <3>2
  <2>4. LeftBehind'
    BY <2>2 DEF LockInv, LeftBehind
  <2> QED
    BY <2>3, <2>4 DEF LockInv
<1>4. ASSUME NEW p \in Requests, AwaitFails(p) \/ DropRequest(p) PROVE LockInv'
  BY <1>4, AbandonLocks DEF AwaitFails, DropRequest
<1>5. ASSUME NEW x \in asWork, ASAnswers(x) PROVE LockInv'
  <2>1. PICK a : AnswerExchange(x, a)
    BY <1>5 DEF ASAnswers, ASGrants, ASRefuses, ASFails
  <2>2. UNCHANGED <<pc, ownerLeft, lock, late>>
    BY <2>1 DEF AnswerExchange, storeVars, timerVars
  <2>3. \A q \in Requests : pc[q] # "exchange" => reply'[q] = reply[q]
    BY <2>1 DEF AnswerExchange, TypeOK, RequestTypeOK
  <2>4. ASSUME NEW q \in Requests PROVE Holding(q)'
    BY <2>2, <2>3 DEF LockInv, Holding, CriticalCovered, AcquisitionCovered, AcquireAnswers,
                      Covered, Critical
  <2> QED
    BY <2>2, <2>4 DEF LockInv, LeftBehind
<1>6. CASE UNCHANGED <<pc, reply, ownerLeft, lock, late>>
  BY <1>6, HoldingKept DEF LockInv, LeftBehind
<1>7. CASE Tick
  <2>1. UNCHANGED <<pc, reply, late>> /\ lock' = AgedLock
    BY <1>7 DEF Tick, StoreTick
  <2>2. ASSUME NEW q \in Requests PROVE Holding(q)'
    <3>1. ownerLeft[q] \in Int /\ lock.left \in Nat
      BY DEF TypeOK, RequestTypeOK, StoreTypeOK
    <3>2. pc[q] \in Critical \cup {"acquire"} => ownerLeft'[q] = ownerLeft[q] - 1
      BY <1>7 DEF Tick
    <3>3. Covered(q) /\ ownerLeft[q] > -Stall /\ ownerLeft'[q] = ownerLeft[q] - 1
              => Covered(q)'
      BY <2>1, <3>1 DEF Covered, Margin, AgedLock, LeaseOutlivesOwner
    <3>4. pc[q] \in Critical => ownerLeft[q] > -Stall
      BY <1>7 DEF Tick, MayTick
    <3> QED
      BY <2>1, <3>1, <3>2, <3>3, <3>4 DEF LockInv, Holding, CriticalCovered,
         AcquisitionCovered, AcquireAnswers, Critical
  <2> QED
    BY <2>1, <2>2 DEF LockInv, LeftBehind
<1> QED
  BY <1>1, <1>2, <1>3, <1>4, <1>5, <1>6, <1>7
     DEF Next, ASRevokes, EntersSkew, vars, storeVars, requestVars, timerVars

\* LockInv gives the two properties of the runs.
LEMMA LocksSuffice ==
    ASSUME LeaseOutlivesOwner, TypeOK, LockInv
    PROVE  OwnerExclusive /\ LeaseCoversOwner
<1>1. ASSUME NEW p \in Requests, pc[p] \in Critical
      PROVE  lock.owner = p /\ lock.left > ownerLeft[p]
  <2>1. lock.owner = p /\ lock.left >= ownerLeft[p] + Margin
    BY <1>1 DEF LockInv, Holding, CriticalCovered, Covered
  <2>2. ownerLeft[p] \in Int /\ lock.left \in Nat
    BY DEF TypeOK, RequestTypeOK, StoreTypeOK
  <2> QED
    BY <2>1, <2>2 DEF Margin, LeaseOutlivesOwner
<1> QED
  BY <1>1 DEF OwnerExclusive, LeaseCoversOwner

(* If the lease outlives the owner's deadline and the runtime's delay in    *)
(* acting on it, no two requests of a session are ever in the critical     *)
(* section together, whatever is delayed, lost or dropped.                 *)
THEOREM Exclusive == ASSUME LeaseOutlivesOwner PROVE Spec => []OwnerExclusive
<1>1. TypeOK /\ LockInv /\ [Next]_vars => LockInv'
  BY NextLocks
<1>2. TypeOK /\ LockInv => OwnerExclusive
  BY LocksSuffice
<1> QED
  BY InitLocks, TypeCorrect, <1>1, <1>2, PTL DEF Spec

(* Under the same condition the lease always covers the owner's budget.    *)
THEOREM LeaseCovers == ASSUME LeaseOutlivesOwner PROVE Spec => []LeaseCoversOwner
<1>1. TypeOK /\ LockInv /\ [Next]_vars => LockInv'
  BY NextLocks
<1>2. TypeOK /\ LockInv => LeaseCoversOwner
  BY LocksSuffice
<1> QED
  BY InitLocks, TypeCorrect, <1>1, <1>2, PTL DEF Spec
=============================================================================
