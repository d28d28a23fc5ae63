------------------------ MODULE RefreshWaitingProofs ------------------------
(***************************************************************************)
(* Theorems about the patience of a waiter of TokenRefresh: how long one   *)
(* owner can keep the lock of a session; that its lease has ended before a *)
(* waiter gives up behind it; and that, while nothing has failed, who gives *)
(* up was refused by more than one owner.  And that no request waits in a  *)
(* circle: it moves at most a fixed number of times.                       *)
(***************************************************************************)
EXTENDS RefreshResultProofs

-----------------------------------------------------------------------------
(* Patience.  A request that has once taken the lock, or has stopped       *)
(* asking for it, never takes it again; so every refusal by another owner  *)
(* is a refusal by another request.                                        *)

Spent(q) ==
    /\ pc[q] \notin {"idle", "read", "discover", "sleep", "reread"}
    /\ pc[q] = "acquire" => reply[q].kind = "yes"
    /\ \A c \in late : c.req = q => c.op # "acquire"

SpentInv ==
    /\ \A q \in Requests : lock.owner = q => Spent(q)
    /\ \A p \in Requests : \A q \in blockers[p] : Spent(q)

LEMMA InitSpent == Init => SpentInv
  BY NoOwnerAssumption DEF Init, SpentInv, Unlocked

LEMMA SpentForever ==
    ASSUME TypeOK, NEW q \in Requests, Spent(q), [Next]_vars
    PROVE  Spent(q)'
<1>1. CASE Untouched(q) /\ \A c \in late' \ late : c.req # q
  BY <1>1 DEF Spent, Untouched
<1>2. ASSUME NEW p \in Requests, AllMoves(p), \A r \in Requests \ {p} : Untouched(r), late' = late
      PROVE  Spent(q)'
  <2>1. CASE q = p
    <3>1. ~MovesOutside(p)
      <4>1. pc[q] \in States
        BY DEF TypeOK, RequestTypeOK
      <4> QED
        BY <2>1, <4>1 DEF MovesOutside, Spent, Critical, States, Awaiting, RedisCall
    <3> QED
      BY <1>2, <2>1, <3>1 DEF AllMoves, MovesIn, MovesToExchange, MovesToUpdate,
         MovesToInvalidate, LeavesAnswered, Leaves, Moves, Spent
  <2> QED
    BY <1>1, <1>2, <2>1
<1>3. ASSUME NEW p \in Requests, NEW stays \in BOOLEAN, GivesUp(p, stays)
      PROVE  Spent(q)'
  <2>1. /\ pc'[p] \in {"release", "done"} /\ \A r \in Requests \ {p} : Untouched(r)
        /\ \/ late' = late
           \/ /\ pc[p] \in RedisCall /\ reply[p] = NoReply /\ late' = late \cup {Command(p)}
    BY <1>3 DEF GivesUp, Abandon, Leaves, Unanswered
  <2>2. CASE q # p
    BY <1>1, <2>1, <2>2, CommandCarries
  <2>3. CASE q = p
    <3>1. reply[p] = NoReply => pc[p] # "acquire"
      BY <2>3 DEF Spent, NoReply, Reply
    <3>2. pc[p] \in RedisCall /\ reply[p] = NoReply => Command(p).op # "acquire"
      BY <3>1, CommandCarries DEF OpOf, RedisCall
    <3> QED
      BY <2>1, <2>3, <3>2, CommandCarries DEF Spent
  <2> QED
    BY <2>2, <2>3
<1>4. ASSUME NEW p \in Requests, Serve(p) PROVE Spent(q)'
  <2>1. /\ UNCHANGED <<pc, late>> /\ reply[p] = NoReply
        /\ \A r \in Requests \ {p} : reply'[r] = reply[r]
    BY <1>4, ServeAnswers
  <2>2. q = p => pc[q] # "acquire"
    BY <2>1 DEF Spent, NoReply, Reply
  <2> QED
    BY <2>1, <2>2 DEF Spent
<1>5. ASSUME NEW c \in late, ServeLate(c) PROVE Spent(q)'
  BY <1>5 DEF ServeLate, requestVars, Spent
<1>6. ASSUME NEW x \in asWork, ASAnswers(x) PROVE Spent(q)'
  <2>1. UNCHANGED <<pc, late>> /\ (reply'[q] # reply[q] => pc[q] = "exchange")
    BY <1>6, ServerAnswers
  <2> QED
    BY <2>1 DEF Spent
<1>7. CASE Tick \/ Elsewhere \/ \E t \in asValid : ASRevokes(t)
  BY <1>1, <1>7 DEF Tick, Elsewhere, ASRevokes, requestVars, Untouched
<1> QED
  BY <1>2, <1>3, <1>4, <1>5, <1>6, <1>7, StepCases

\* How the lock changes hands, whatever the step.
LEMMA OwnerChanges ==
    ASSUME TypeOK, [Next]_vars, NEW q \in Requests, lock'.owner = q, lock.owner # q
    PROVE  \/ Serve(q) /\ pc[q] = "acquire" /\ reply[q] = NoReply /\ reply'[q].kind = "yes"
           \/ \E c \in late : ServeLate(c) /\ c.op = "acquire" /\ c.req = q
<1>1. lock' # lock
  OBVIOUS
<1>2. CASE \E p \in Requests : Serve(p)
  <2>1. PICK p \in Requests : Serve(p)
    BY <1>2
  <2>2. /\ Command(p) \in Commands /\ Execute(Command(p)) /\ Command(p).req = p
        /\ Command(p).op = OpOf[pc[p]] /\ pc[p] \in RedisCall /\ reply[p] = NoReply
    BY <2>1, ServeAnswers
  <2>3. Command(p).op = "acquire" /\ p = q /\ ~LockExists
    <3>1. \/ Command(p).op = "acquire" /\ ~LockExists /\ lock' = [owner |-> p, left |-> Lease]
          \/ Command(p).op = "release" /\ lock.owner = p
      BY <1>1, <2>2, LockMoves
    <3>2. Command(p).op = "acquire" /\ Command(p).req = q
      BY <2>2, OwnerMoves
    <3> QED
      BY <2>2, <3>1, <3>2
  <2>4. pc[p] = "acquire"
    BY <2>2, <2>3 DEF OpOf, RedisCall
  <2>5. Answer(Command(p)) = Reply("yes")
    BY <2>2, <2>3 DEF Answer, CanAcquire
  <2>6. reply'[p] = Reply("yes")
    BY <2>1, <2>5 DEF Serve, TypeOK, RequestTypeOK
  <2> QED
    BY <2>1, <2>2, <2>3, <2>4, <2>6 DEF Reply
<1>3. CASE \E c \in late : ServeLate(c)
  <2>1. PICK c \in late : ServeLate(c)
    BY <1>3
  <2>2. c \in Commands /\ Execute(c)
    BY <2>1 DEF ServeLate, TypeOK
  <2> QED
    BY <2>1, <2>2, OwnerMoves
<1>4. CASE Tick
  BY <1>4, NoOwnerAssumption DEF Tick, StoreTick, AgedLock, Unlocked, TypeOK, StoreTypeOK
<1>5. ~ \/ \E p \in Requests : AllMoves(p) /\ UNCHANGED storeVars
        \/ \E p \in Requests, stays \in BOOLEAN : GivesUp(p, stays)
        \/ \E x \in asWork : ASAnswers(x)
        \/ \E t \in asValid : ASRevokes(t)
        \/ Elsewhere
  BY <1>1, ServerAnswers DEF GivesUp, Abandon, ASRevokes, Elsewhere, storeVars
<1> QED
  BY <1>2, <1>3, <1>4, <1>5, StepCases

\* A spent request does not come back as the owner.
LEMMA SpentStaysOut ==
    ASSUME TypeOK, [Next]_vars, NEW q \in Requests, Spent(q), lock'.owner = q
    PROVE  lock.owner = q
  BY OwnerChanges DEF Spent, NoReply, Reply

\* A new owner is spent from then on.
LEMMA OwnerIsSpent ==
    ASSUME TypeOK, LateInv, SpentInv, [Next]_vars, NEW q \in Requests, lock'.owner = q
    PROVE  Spent(q)'
<1>1. CASE lock.owner = q
  BY <1>1, SpentForever DEF SpentInv
<1>2. CASE Serve(q) /\ pc[q] = "acquire" /\ reply[q] = NoReply /\ reply'[q].kind = "yes"
  <2>1. UNCHANGED <<pc, late>>
    BY <1>2, ServeAnswers
  <2> QED
    BY <1>2, <2>1 DEF Spent, LateInv, LeftBehind
<1>3. CASE \E c \in late : ServeLate(c) /\ c.op = "acquire" /\ c.req = q
  <2>1. PICK c \in late : ServeLate(c) /\ c.op = "acquire" /\ c.req = q
    BY <1>3
  <2>2. UNCHANGED <<pc, reply>> /\ late' = late \ {c} /\ pc[q] \in {"release", "done"}
    BY <2>1 DEF ServeLate, requestVars, LateInv, LeftBehind
  <2>3. \A d \in late' : d.req = q => d.op # "acquire"
    BY <2>1, <2>2 DEF LateInv, OneLeft
  <2> QED
    BY <2>2, <2>3 DEF Spent
<1> QED
  BY <1>1, <1>2, <1>3, OwnerChanges
-----------------------------------------------------------------------------
(* What a step of a request does to its waiting, by cases.                 *)

WaitsOn(q) ==
    /\ pc'[q] = pc[q] /\ reply'[q] = reply[q] /\ await'[q] = await[q]
    /\ waitLeft'[q] = waitLeft[q] /\ pollDelay'[q] = pollDelay[q] /\ blockers'[q] = blockers[q]

WaitsNot(p) ==
    /\ pc'[p] \notin Waiting /\ await'[p] = AwaitBound[pc'[p]]
    /\ pollDelay'[p] \in {0, pollDelay[p]}
    /\ blockers'[p] = {} \/ (pc[p] \notin Waiting /\ blockers'[p] = blockers[p])
Asks(p) ==
    /\ pc'[p] = "acquire" /\ reply'[p] = NoReply /\ await'[p] = RedisBound
    /\ blockers'[p] = blockers[p]
    /\ \/ pc[p] = "discover" /\ waitLeft'[p] = WaitTimeout /\ pollDelay'[p] = PollInitial
       \/ pc[p] = "reread" /\ waitLeft'[p] = waitLeft[p] /\ pollDelay'[p] = NextDelay(p)
Sleeps(p) ==
    /\ pc[p] = "acquire" /\ reply[p].kind = "no" /\ pc'[p] = "sleep"
    /\ await'[p] = LeastOf(pollDelay[p], waitLeft[p])
    /\ waitLeft'[p] = waitLeft[p] /\ pollDelay'[p] = pollDelay[p] /\ blockers'[p] = blockers[p]
Wakes(p) ==
    /\ pc[p] = "sleep" /\ await[p] = 0 /\ pc'[p] = "reread" /\ await'[p] = RedisBound
    /\ waitLeft'[p] = waitLeft[p] /\ pollDelay'[p] = pollDelay[p] /\ blockers'[p] = blockers[p]

Waits(p) == WaitsNot(p) \/ Asks(p) \/ Sleeps(p) \/ Wakes(p)

LEMMA EnterWaits ==
    ASSUME TypeOK, NEW p \in Requests, NEW s \in States, Enter(p, s)
    PROVE  /\ pc'[p] = s /\ reply'[p] = NoReply /\ await'[p] = AwaitBound[s]
           /\ \A q \in Requests \ {p} :
                  pc'[q] = pc[q] /\ reply'[q] = reply[q] /\ await'[q] = await[q]
  BY DEF Enter, TypeOK, RequestTypeOK

LEMMA LeaveWaits ==
    ASSUME TypeOK, NEW p \in Requests, NEW s \in States \ Waiting, Enter(p, s), StopWaiting(p)
    PROVE  WaitsNot(p) /\ \A q \in Requests \ {p} : WaitsOn(q)
<1>1. /\ waitLeft'[p] = 0 /\ pollDelay'[p] = 0 /\ blockers'[p] = {}
      /\ \A q \in Requests \ {p} :
             /\ waitLeft'[q] = waitLeft[q] /\ pollDelay'[q] = pollDelay[q]
             /\ blockers'[q] = blockers[q]
  BY DEF StopWaiting, TypeOK, RequestTypeOK
<1> QED
  BY <1>1, EnterWaits DEF WaitsNot, WaitsOn

LEMMA WaiterMoves ==
    ASSUME TypeOK, NEW p \in Requests,
           Start(p) \/ Step(p) \/ AwaitFails(p) \/ DropRequest(p)
    PROVE  Waits(p) /\ \A q \in Requests \ {p} : WaitsOn(q)
<1>1. /\ {"read", "discover", "recheck", "exchange", "update", "invalidate", "release",
          "done"} \subseteq States \ Waiting
      /\ {"acquire", "reread", "sleep"} \subseteq States
  BY DEF States, Awaiting, RedisCall, Waiting
<1>2. CASE \E s \in {"recheck", "release", "done"} : Enter(p, s) /\ StopWaiting(p)
  BY <1>1, <1>2, LeaveWaits DEF Waits
<1>3. CASE /\ pc[p] \notin Waiting /\ UNCHANGED <<waitLeft, pollDelay, blockers>>
           /\ \E s \in {"read", "discover", "exchange", "update", "invalidate"} : Enter(p, s)
  BY <1>1, <1>3, EnterWaits DEF Waits, WaitsNot, WaitsOn
<1>4. CASE Discover(p) /\ TryAcquire(p)
  <2>1. /\ pc'[p] = "acquire" /\ reply'[p] = NoReply /\ await'[p] = RedisBound
        /\ \A q \in Requests \ {p} :
               pc'[q] = pc[q] /\ reply'[q] = reply[q] /\ await'[q] = await[q]
    BY <1>1, <1>4, EnterWaits DEF TryAcquire, AwaitBound, RedisCall
  <2>2. ~Return(p, TemporarilyUnavailable)
    BY <1>1, <2>1, EnterWaits DEF Return
  <2> QED
    BY <1>4, <2>1, <2>2 DEF Discover, Waits, Asks, WaitsOn, TypeOK, RequestTypeOK
<1>5. CASE Reread(p) /\ TryAcquire(p)
  <2>1. /\ pc'[p] = "acquire" /\ reply'[p] = NoReply /\ await'[p] = RedisBound
        /\ \A q \in Requests \ {p} :
               pc'[q] = pc[q] /\ reply'[q] = reply[q] /\ await'[q] = await[q]
    BY <1>1, <1>5, EnterWaits DEF TryAcquire, AwaitBound, RedisCall
  <2>2. ~Return(p, ResolutionOf(reply[p]))
    BY <1>1, <2>1, EnterWaits DEF Return
  <2> QED
    BY <1>5, <2>1, <2>2 DEF Reread, Waits, Asks, WaitsOn, TypeOK, RequestTypeOK
<1>6. CASE Refused(p)
  BY <1>6 DEF Refused, Waits, Sleeps, WaitsOn, TypeOK, RequestTypeOK
<1>7. CASE Wake(p)
  <2>1. AwaitBound["reread"] = RedisBound
    BY <1>1 DEF AwaitBound, RedisCall
  <2> QED
    BY <1>1, <1>7, <2>1, EnterWaits DEF Wake, Waits, Wakes, WaitsOn
<1>8. \/ \E s \in {"recheck", "release", "done"} : Enter(p, s) /\ StopWaiting(p)
      \/ /\ pc[p] \notin Waiting /\ UNCHANGED <<waitLeft, pollDelay, blockers>>
         /\ \E s \in {"read", "discover", "exchange", "update", "invalidate"} : Enter(p, s)
      \/ Discover(p) /\ TryAcquire(p)
      \/ Reread(p) /\ TryAcquire(p)
      \/ Refused(p) \/ Wake(p)
  <2>1. CASE Start(p) \/ InitialRead(p) \/ Discover(p)
    BY <2>1 DEF Start, InitialRead, Discover, Return, Waiting
  <2>2. CASE Acquired(p) \/ Reread(p) \/ GiveUp(p)
    BY <2>2 DEF Acquired, Reread, GiveUp, Return, Release
  <2>3. CASE Recheck(p) \/ Exchanged(p)
    BY <2>3 DEF Recheck, SendExchange, Exchanged, Release, Waiting
  <2>4. CASE Updated(p) \/ Invalidated(p) \/ Released(p) \/ OwnerDeadlineElapses(p)
    BY <2>4 DEF Updated, Invalidated, Released, OwnerDeadlineElapses, Return, Release
  <2>5. CASE AwaitFails(p) \/ DropRequest(p)
    BY <2>5 DEF AwaitFails, DropRequest, Return, Release
  <2> QED
    BY <2>1, <2>2, <2>3, <2>4, <2>5 DEF Step
<1> QED
  BY <1>2, <1>3, <1>4, <1>5, <1>6, <1>7, <1>8

\* Every step of the system, by what it does to those who wait.
WaitsServed(p) ==
    /\ Serve(p)
    /\ \A q \in Requests \ {p} : WaitsOn(q)
    /\ UNCHANGED <<pc, timerVars, late, faults>>
    /\ pc[p] = "acquire" =>
           \/ reply'[p].kind = "yes" /\ blockers'[p] = blockers[p]
           \/ /\ reply'[p].kind = "no" /\ lock.owner \in Requests /\ lock' = lock
              /\ blockers'[p] = blockers[p] \cup {lock.owner}
    /\ pc[p] # "acquire" => blockers'[p] = blockers[p]

\* Nobody's waiting is affected, except that an exchange may be answered.
NobodyWaits ==
    /\ UNCHANGED <<pc, timerVars, blockers>>
    /\ \A q \in Requests :
           reply'[q] # reply[q] => pc[q] = "exchange" /\ reply[q] = NoReply

LEMMA WaitCases ==
    ASSUME TypeOK, [Next]_vars
    PROVE  \/ \E p \in Requests :
                 /\ Start(p) \/ Step(p) \/ AwaitFails(p) \/ DropRequest(p)
                 /\ Waits(p) /\ \A q \in Requests \ {p} : WaitsOn(q)
           \/ \E p \in Requests : WaitsServed(p)
           \/ NobodyWaits
           \/ Tick
<1>1. ASSUME NEW p \in Requests, Serve(p) PROVE WaitsServed(p)
  <2>1. /\ UNCHANGED <<pc, timerVars, late, faults>>
        /\ \A q \in Requests \ {p} : reply'[q] = reply[q]
        /\ Command(p) \in Commands /\ Execute(Command(p)) /\ Command(p).req = p
        /\ Command(p).op = OpOf[pc[p]]
    BY <1>1, ServeAnswers DEF Serve
  <2>2. \A q \in Requests \ {p} : WaitsOn(q)
    BY <1>1, <2>1 DEF Serve, WaitsOn, timerVars, TypeOK, RequestTypeOK
  <2>3. pc[p] # "acquire" => blockers'[p] = blockers[p]
    BY <1>1 DEF Serve
  <2>4. ASSUME pc[p] = "acquire", CanAcquire(p)
        PROVE  reply'[p].kind = "yes" /\ blockers'[p] = blockers[p]
    <3>1. Command(p).op = "acquire"
      BY <2>1, <2>4 DEF OpOf, RedisCall
    <3>2. Answer(Command(p)) = Reply("yes")
      BY <2>1, <2>4, <3>1 DEF Answer
    <3> QED
      BY <1>1, <2>4, <3>2 DEF Serve, Reply, TypeOK, RequestTypeOK
  <2>5. ASSUME pc[p] = "acquire", ~CanAcquire(p)
        PROVE  /\ reply'[p].kind = "no" /\ lock.owner \in Requests /\ lock' = lock
               /\ blockers'[p] = blockers[p] \cup {lock.owner}
    <3>1. Command(p).op = "acquire"
      BY <2>1, <2>5 DEF OpOf, RedisCall
    <3>2. lock' = lock
      BY <2>1, <2>5, <3>1, LockMoves DEF CanAcquire
    <3>3. Answer(Command(p)) = Reply("no")
      BY <2>1, <2>5, <3>1 DEF Answer
    <3>4. reply'[p].kind = "no"
      BY <1>1, <3>3 DEF Serve, Reply, TypeOK, RequestTypeOK
    <3> QED
      BY <1>1, <2>5, <3>2, <3>4 DEF Serve, CanAcquire, LockExists, TypeOK, StoreTypeOK, RequestTypeOK
  <2> QED
    BY <1>1, <2>1, <2>2, <2>3, <2>4, <2>5 DEF WaitsServed
<1>2. ASSUME NEW x \in asWork, ASAnswers(x) PROVE NobodyWaits
  <2>1. PICK a : AnswerExchange(x, a)
    BY <1>2 DEF ASAnswers, ASGrants, ASRefuses, ASFails
  <2> QED
    BY <1>2, <2>1, ServerAnswers DEF AnswerExchange, NobodyWaits
<1>3. CASE \/ \E c \in late : ServeLate(c)
           \/ \E t \in asValid : ASRevokes(t)
           \/ \E at \in 1..issued : EntersSkew(at)
           \/ UNCHANGED vars
  BY <1>3 DEF ServeLate, ASRevokes, EntersSkew, vars, requestVars, NobodyWaits
<1> QED
  BY <1>1, <1>2, <1>3, WaiterMoves DEF Next

LEMMA NextSpent == TypeOK /\ LateInv /\ SpentInv /\ [Next]_vars => SpentInv'
<1> SUFFICES ASSUME TypeOK, LateInv, SpentInv, [Next]_vars PROVE SpentInv'
  OBVIOUS
<1>1. \A p \in Requests : blockers[p] \subseteq Requests /\ blockers'[p] \subseteq Requests
  BY NextType DEF TypeOK, RequestTypeOK
<1>2. ASSUME NEW p \in Requests, NEW q \in blockers'[p] PROVE q \in blockers[p] \/ lock.owner = q
  BY <1>2, WaitCases DEF Waits, WaitsNot, Asks, Sleeps, Wakes, WaitsOn, WaitsServed,
     NobodyWaits, Tick
<1>3. \A p \in Requests : \A q \in blockers'[p] : Spent(q)'
  BY <1>1, <1>2, SpentForever DEF SpentInv
<1> QED
  BY <1>3, OwnerIsSpent DEF SpentInv

LEMMA SpentAlways == Spec => [](LateInv /\ SpentInv)
  BY InitLate, NextLate, InitSpent, NextSpent, TypeCorrect, PTL DEF Spec
-----------------------------------------------------------------------------
(* How long an owner can hold the lock: for the rest of its lease; and, as *)
(* long as nothing has failed, for the rest of its own time and the        *)
(* release.  The lemmas are about both at once: by `lease' they take the   *)
(* one or the other.                                                       *)

USE LeaseAssumption, OwnerTimeoutAssumption, StallAssumption, WaitAssumption, AwaitAssumption

InTime(p) ==
    /\ pc[p] = "acquire" => await[p] <= ownerLeft[p] /\ ownerLeft[p] <= OwnerTimeout
    /\ pc[p] \in Critical => ownerLeft[p] >= -Stall /\ ownerLeft[p] <= OwnerTimeout
OwnsUntilReleased(p) ==
    lock.owner = p => pc[p] # "done" /\ (pc[p] = "release" => reply[p] = NoReply)
Healthy(p) == InTime(p) /\ OwnsUntilReleased(p)

HealthInv ==
    faults = 0 => /\ \A p \in Requests : Healthy(p)
                  /\ \A c \in late : c.op # "acquire"

LEMMA InitHealth == Init => HealthInv
  BY NoOwnerAssumption DEF Init, HealthInv, Healthy, InTime, OwnsUntilReleased, Unlocked, Critical

\* A step of a request that leaves nothing but itself changed.
LEMMA StepHealth ==
    ASSUME RedisBound <= OwnerTimeout, TypeOK, SpentInv,
           NEW p \in Requests, Healthy(p), Start(p) \/ Step(p)
    PROVE  Healthy(p)'
<1>1. /\ {"read", "discover", "recheck", "exchange", "update", "invalidate", "release",
          "done", "acquire", "reread", "sleep"} \subseteq States
      /\ ownerLeft[p] \in Int /\ await[p] \in Nat
  BY DEF States, Awaiting, RedisCall, TypeOK, RequestTypeOK
<1>2. lock' = lock
  BY DEF Start, Step, InitialRead, Discover, Acquired, Refused, Wake, Reread, GiveUp, Recheck,
     Exchanged, Updated, Invalidated, Released, OwnerDeadlineElapses, Abandon, RequestOnly,
     storeVars
<1>3. CASE /\ pc'[p] \in {"read", "discover", "sleep", "reread"}
           /\ pc[p] \in {"idle", "read", "sleep"} \/ (pc[p] = "acquire" /\ reply[p].kind = "no")
  <2>1. lock.owner # p
    BY <1>3 DEF SpentInv, Spent
  <2>2. InTime(p)'
    BY <1>3 DEF InTime, Critical
  <2> QED
    BY <1>2, <2>1, <2>2 DEF Healthy, OwnsUntilReleased
<1>4. CASE TryAcquire(p) /\ pc[p] \in {"discover", "reread"}
  <2>1. pc'[p] = "acquire" /\ await'[p] = RedisBound
    BY <1>1, <1>4, EnterWaits DEF TryAcquire, AwaitBound, RedisCall
  <2>2. ownerLeft'[p] = OwnerTimeout
    BY <1>4 DEF TryAcquire, TypeOK, RequestTypeOK
  <2>3. lock.owner # p
    BY <1>4 DEF SpentInv, Spent
  <2>4. InTime(p)'
    BY <2>1, <2>2 DEF InTime, Critical
  <2> QED
    BY <1>2, <2>3, <2>4 DEF Healthy, OwnsUntilReleased
<1>5. CASE /\ \E s \in Critical : Enter(p, s)
           /\ UNCHANGED ownerLeft
           /\ pc[p] \in Critical \/ (pc[p] = "acquire" /\ ownerLeft[p] > 0)
  <2>1. pc'[p] \in Critical /\ ownerLeft'[p] = ownerLeft[p]
    BY <1>1, <1>5, EnterWaits DEF Critical
  <2>2. ownerLeft[p] >= -Stall /\ ownerLeft[p] <= OwnerTimeout
    BY <1>1, <1>5 DEF Healthy, InTime
  <2> QED
    BY <1>2, <2>1, <2>2 DEF Healthy, InTime, OwnsUntilReleased, Critical
<1>6. CASE \E r : Release(p, r)
  <2>1. pc'[p] = "release" /\ reply'[p] = NoReply
    BY <1>1, <1>6, EnterWaits DEF Release
  <2> QED
    BY <2>1 DEF Healthy, InTime, OwnsUntilReleased, Critical
<1>7. CASE /\ \E r : Return(p, r)
           /\ \/ pc[p] \in {"read", "discover", "reread"}
              \/ pc[p] = "acquire" /\ reply[p].kind = "no"
              \/ pc[p] = "release" /\ reply[p] # NoReply
  <2>1. pc'[p] = "done"
    BY <1>1, <1>7, EnterWaits DEF Return
  <2>2. lock.owner # p
    BY <1>7 DEF SpentInv, Spent, Healthy, OwnsUntilReleased
  <2> QED
    BY <1>2, <2>1, <2>2 DEF Healthy, InTime, OwnsUntilReleased, Critical
<1>8. CASE Start(p) \/ InitialRead(p) \/ Discover(p) \/ Refused(p) \/ Wake(p)
  <2>1. CASE Start(p) \/ Wake(p)
    BY <1>1, <1>3, <2>1, EnterWaits DEF Start, Wake
  <2>2. CASE InitialRead(p)
    BY <1>1, <1>3, <1>7, <2>2, EnterWaits DEF InitialRead
  <2>3. CASE Discover(p)
    BY <1>4, <1>7, <2>3 DEF Discover
  <2>4. CASE Refused(p)
    BY <1>3, <2>4 DEF Refused, TypeOK, RequestTypeOK
  <2> QED
    BY <1>8, <2>1, <2>2, <2>3, <2>4
<1>9. CASE Reread(p) \/ GiveUp(p) \/ Released(p)
  BY <1>4, <1>7, <1>9 DEF Reread, GiveUp, Released
<1>10. CASE Acquired(p) \/ Recheck(p) \/ Exchanged(p)
  BY <1>5, <1>6, <1>10 DEF Acquired, Recheck, SendExchange, Exchanged, Critical
<1>11. CASE Updated(p) \/ Invalidated(p) \/ OwnerDeadlineElapses(p)
  BY <1>6, <1>11 DEF Updated, Invalidated, OwnerDeadlineElapses
<1> QED
  BY <1>8, <1>9, <1>10, <1>11 DEF Step

LEMMA NextHealth ==
    ASSUME RedisBound <= OwnerTimeout, TypeOK, LateInv, SpentInv, HealthInv, [Next]_vars
    PROVE  HealthInv'
<1> SUFFICES ASSUME faults' = 0
             PROVE  (\A p \in Requests : Healthy(p)') /\ \A c \in late' : c.op # "acquire"
  BY DEF HealthInv
<1>0. faults \in Nat /\ \A q \in Requests : ownerLeft[q] \in Int /\ await[q] \in Nat
  BY DEF TypeOK, RequestTypeOK
<1>1. ASSUME faults = 0, NEW q \in Requests, pc'[q] = pc[q], await'[q] = await[q],
             ownerLeft'[q] = ownerLeft[q], lock'.owner = q => lock.owner = q,
             reply'[q] = reply[q] \/ pc[q] # "release"
      PROVE  Healthy(q)'
  BY <1>1 DEF HealthInv, Healthy, InTime, OwnsUntilReleased
<1>2. ASSUME NEW p \in Requests, Start(p) \/ Step(p)
      PROVE  (\A q \in Requests : Healthy(q)') /\ \A c \in late' : c.op # "acquire"
  <2>1. faults = 0 /\ lock' = lock
    BY <1>2 DEF Start, Step, InitialRead, Discover, Acquired, Refused, Wake, Reread, GiveUp,
       Recheck, Exchanged, Updated, Invalidated, Released, OwnerDeadlineElapses, Abandon,
       RequestOnly, storeVars, ghostVars
  <2>2. \A q \in Requests \ {p} : Healthy(q)'
    BY <1>1, <1>2, <2>1, StepLocal, WaiterMoves DEF TypeOK, WaitsOn
  <2>3. Healthy(p)'
    BY <1>2, <2>1, StepHealth DEF HealthInv
  <2>4. late' = late \/ (pc[p] \in Critical \cap RedisCall /\ late' = late \cup {Command(p)})
    BY <1>2 DEF Start, Step, InitialRead, Discover, Acquired, Refused, Wake, Reread, GiveUp,
       Recheck, Exchanged, Updated, Invalidated, Released, OwnerDeadlineElapses, Abandon,
       RequestOnly
  <2>5. pc[p] \in Critical \cap RedisCall => Command(p).op # "acquire"
    BY CommandCarries DEF OpOf, RedisCall, Critical
  <2> QED
    BY <2>1, <2>2, <2>3, <2>4, <2>5 DEF HealthInv
<1>3. ASSUME NEW p \in Requests, AwaitFails(p) \/ DropRequest(p) PROVE FALSE
  BY <1>0, <1>3 DEF AwaitFails, DropRequest, Fault
<1>4. ASSUME NEW p \in Requests, Serve(p)
      PROVE  (\A q \in Requests : Healthy(q)') /\ \A c \in late' : c.op # "acquire"
  <2>1. /\ faults = 0 /\ UNCHANGED <<pc, timerVars, late>>
        /\ \A q \in Requests \ {p} : reply'[q] = reply[q]
        /\ Command(p) \in Commands /\ Execute(Command(p)) /\ Command(p).req = p
        /\ Command(p).op = OpOf[pc[p]] /\ pc[p] \in RedisCall
    BY <1>4, ServeAnswers DEF Serve
  <2>2. \A q \in Requests : lock'.owner = q => lock.owner = q \/ (q = p /\ pc[p] = "acquire")
    BY <2>1, OwnerMoves DEF OpOf
  <2>3. UNCHANGED <<await, ownerLeft>>
    BY <2>1 DEF timerVars
  <2>4. \A q \in Requests \ {p} : Healthy(q)'
    BY <1>1, <2>1, <2>2, <2>3
  <2>5. pc[p] = "release" => lock'.owner # p
    <3>1. pc[p] = "release" => Command(p).op = "release"
      BY <2>1 DEF OpOf
    <3> QED
      BY <2>1, <3>1, NoOwnerAssumption DEF Execute, RedisGet, RedisTryAcquireRefreshLock,
         RefreshUpdateScript, RefreshInvalidateScript, RefreshLockReleaseScript,
         LockAfterRelease, IsLockOwner, Unlocked
  <2>6. Healthy(p)'
    BY <2>1, <2>2, <2>3, <2>5 DEF HealthInv, Healthy, InTime, OwnsUntilReleased, Critical, RedisCall
  <2> QED
    BY <2>1, <2>4, <2>6 DEF HealthInv
<1>5. ASSUME NEW c \in late, ServeLate(c)
      PROVE  (\A q \in Requests : Healthy(q)') /\ \A d \in late' : d.op # "acquire"
  <2>1. /\ faults = 0 /\ UNCHANGED <<pc, reply, await, ownerLeft>> /\ late' \subseteq late
        /\ c \in Commands /\ Execute(c)
    BY <1>5 DEF ServeLate, requestVars, timerVars, TypeOK
  <2>2. \A q \in Requests : lock'.owner = q => lock.owner = q
    BY <1>5, <2>1, OwnerMoves DEF HealthInv
  <2> QED
    BY <1>1, <2>1, <2>2 DEF HealthInv
<1>6. ASSUME NEW x \in asWork, ASAnswers(x)
      PROVE  (\A q \in Requests : Healthy(q)') /\ \A d \in late' : d.op # "acquire"
  <2>1. PICK a : AnswerExchange(x, a)
    BY <1>6 DEF ASAnswers, ASGrants, ASRefuses, ASFails
  <2>2. faults = 0 /\ UNCHANGED <<lock, pc, await, ownerLeft, late>>
    BY <2>1 DEF AnswerExchange, storeVars, timerVars, ghostVars
  <2>3. \A q \in Requests : reply'[q] = reply[q] \/ pc[q] # "release"
    BY <1>6, ServerAnswers
  <2> QED
    BY <1>1, <2>2, <2>3 DEF HealthInv
<1>7. CASE (\E at \in 1..issued : EntersSkew(at)) \/ UNCHANGED vars
  <2>1. faults = 0 /\ UNCHANGED <<lock, pc, reply, await, ownerLeft, late>>
    BY <1>7 DEF EntersSkew, vars, storeVars, requestVars, timerVars, ghostVars
  <2> QED
    BY <1>1, <2>1 DEF HealthInv
<1>8. ~ \E t \in asValid : ASRevokes(t)
  BY <1>0 DEF ASRevokes, Fault
<1>9. CASE Tick
  <2>1. /\ faults = 0 /\ UNCHANGED <<pc, reply, late>>
        /\ \A q \in Requests : lock'.owner = q => lock.owner = q
    BY <1>9, NoOwnerAssumption DEF Tick, StoreTick, AgedLock, Unlocked, ghostVars, TypeOK,
       StoreTypeOK
  <2>2. ASSUME NEW q \in Requests PROVE Healthy(q)'
    <3>1. /\ pc[q] \in Critical \cup {"acquire"} => ownerLeft'[q] = ownerLeft[q] - 1
          /\ pc[q] = "acquire" => await[q] > 0 /\ await'[q] = await[q] - 1
          /\ pc[q] \in Critical => ownerLeft[q] > -Stall
      BY <1>0, <1>9 DEF Tick, MayTick, Decrement, Awaiting, RedisCall
    <3>2. pc[q] = "acquire" => InTime(q)'
      BY <1>0, <2>1, <3>1 DEF HealthInv, Healthy, InTime, Critical
    <3>3. pc[q] \in Critical => InTime(q)'
      BY <1>0, <2>1, <3>1 DEF HealthInv, Healthy, InTime, Critical
    <3>4. InTime(q)'
      BY <2>1, <3>2, <3>3 DEF InTime
    <3> QED
      BY <2>1, <3>4 DEF HealthInv, Healthy, OwnsUntilReleased
  <2> QED
    BY <2>1, <2>2 DEF HealthInv
<1> QED
  BY <1>2, <1>3, <1>4, <1>5, <1>6, <1>7, <1>8, <1>9 DEF Next

LEMMA HealthAlways == ASSUME RedisBound <= OwnerTimeout PROVE Spec => []HealthInv
<1>1. TypeOK /\ LateInv /\ SpentInv /\ HealthInv /\ [Next]_vars => HealthInv'
  BY NextHealth
<1> QED
  BY <1>1, InitHealth, SpentAlways, TypeCorrect, PTL DEF Spec
-----------------------------------------------------------------------------
HoldLeft(q, lease) ==
    IF lease THEN lock.left
    ELSE IF pc[q] = "release" THEN await[q] + 1
    ELSE ownerLeft[q] + Stall + RedisBound + 1
HoldMax(lease) == IF lease THEN Lease ELSE OwnerTimeout + Stall + RedisBound + 1

\* What a waiter has to be able to wait for, if it is to see the lock free.
Patient(lease) == lease \/ WaiterOutlivesHealthyOwner
Applies(lease) == lease \/ faults = 0

\* How long one await of a waiter takes at most.
AwaitsBounded(p) ==
    /\ pollDelay[p] <= PollMax
    /\ pc[p] \in RedisCall => await[p] <= RedisBound
    /\ pc[p] = "sleep" => await[p] <= PollMax

RefusedBefore(p) == pc[p] \in {"sleep", "reread"} \/ (pc[p] = "acquire" /\ reply[p].kind = "no")

Behind(p) ==
    /\ IsFiniteSet(blockers[p])
    /\ pc[p] \notin Waiting => blockers[p] = {}
    /\ RefusedBefore(p) => blockers[p] # {}

\* A request that nobody has refused so far has waited for its first answer only.
Asking(p) ==
    pc[p] = "acquire" /\ blockers[p] = {} =>
        waitLeft[p] + RedisBound >= WaitTimeout + await[p]

WaitOK(p) == AwaitsBounded(p) /\ Behind(p) /\ Asking(p)

\* A request that only q has refused so far has waited for q only.
HasWaitedFor(p, q, lease) ==
    lock.owner = q =>
        waitLeft[p] + HoldMax(lease) + RedisBound >= HoldLeft(q, lease) + WaitTimeout

\* It has time to look again.
CanLookAgain(p) ==
    /\ pc[p] = "acquire" /\ reply[p].kind = "no" =>
           waitLeft[p] > RedisBound + PollMax + await[p]
    /\ pc[p] = "sleep" => waitLeft[p] > RedisBound + await[p]
    /\ pc[p] = "reread" => waitLeft[p] > await[p]

Tenure(p, q, lease) == HasWaitedFor(p, q, lease) /\ (lease \/ CanLookAgain(p))

TenureInv(lease) ==
    Applies(lease) =>
        \A p, q \in Requests : blockers[p] = {q} => Tenure(p, q, lease)

LEMMA InitWait == Init => (\A p \in Requests : WaitOK(p)) /\ TenureInv(TRUE) /\ TenureInv(FALSE)
<1> SUFFICES ASSUME Init PROVE (\A p \in Requests : WaitOK(p)) /\ TenureInv(TRUE) /\ TenureInv(FALSE)
  OBVIOUS
<1>1. ASSUME NEW p \in Requests PROVE WaitOK(p)
  <2>1. pc[p] = "idle" /\ pollDelay[p] = 0 /\ blockers[p] = {}
    BY DEF Init
  <2> QED
    BY <2>1, FS_EmptySet DEF WaitOK, AwaitsBounded, Behind, Asking, RefusedBefore, RedisCall
<1>2. \A p, q \in Requests : blockers[p] # {q}
  BY DEF Init
<1> QED
  BY <1>1, <1>2 DEF TenureInv

\* The awaits of a waiter, and who has refused it.
LEMMA NextWaitOK ==
    ASSUME TypeOK, [Next]_vars, NEW p \in Requests, WaitOK(p)
    PROVE  WaitOK(p)'
<1>0. /\ pollDelay[p] \in Nat /\ await[p] \in Nat /\ waitLeft[p] \in Nat
      /\ pc[p] \in States /\ pc'[p] \in States
  BY NextType DEF TypeOK, RequestTypeOK
<1>1. CASE WaitsOn(p)
  BY <1>1 DEF WaitOK, AwaitsBounded, Behind, Asking, RefusedBefore, WaitsOn
<1>2. CASE WaitsNot(p)
  <2>1. blockers'[p] = {} /\ pc'[p] \notin Waiting
    BY <1>2 DEF WaitsNot, WaitOK, Behind
  <2>2. AwaitsBounded(p)'
    BY <1>0, <1>2 DEF WaitsNot, WaitOK, AwaitsBounded, AwaitBound, Waiting, States
  <2> QED
    BY <2>1, <2>2, FS_EmptySet DEF WaitOK, Behind, Asking, RefusedBefore, Waiting
<1>3. CASE Asks(p)
  <2>1. /\ pc'[p] = "acquire" /\ reply'[p] = NoReply /\ await'[p] = RedisBound
        /\ blockers'[p] = blockers[p]
    BY <1>3 DEF Asks
  <2>2. AwaitsBounded(p)'
    <3>1. NextDelay(p) <= PollMax
      BY <1>0 DEF NextDelay, LeastOf
    <3>2. pollDelay'[p] <= PollMax
      BY <1>3, <3>1 DEF Asks
    <3> QED
      BY <2>1, <3>2 DEF AwaitsBounded
  <2>3. Behind(p)'
    BY <2>1 DEF WaitOK, Behind, RefusedBefore, Waiting, NoReply, Reply
  <2>4. Asking(p)'
    BY <1>0, <1>3, <2>1 DEF Asks, Asking, WaitOK, Behind, RefusedBefore, Waiting
  <2> QED
    BY <2>2, <2>3, <2>4 DEF WaitOK
<1>4. CASE Sleeps(p) \/ Wakes(p)
  <2>1. RefusedBefore(p) /\ blockers'[p] = blockers[p] /\ pc'[p] \in {"sleep", "reread"}
    BY <1>4 DEF Sleeps, Wakes, RefusedBefore
  <2>2. AwaitsBounded(p)'
    BY <1>0, <1>4 DEF Sleeps, Wakes, WaitOK, AwaitsBounded, LeastOf, RedisCall
  <2> QED
    BY <2>1, <2>2 DEF WaitOK, Behind, Asking, Waiting
<1>5. CASE WaitsServed(p)
  <2>1. UNCHANGED <<pc, await, waitLeft, pollDelay>> /\ pc[p] \in RedisCall
    BY <1>5 DEF WaitsServed, timerVars, Serve
  <2>2. IsFiniteSet(blockers'[p]) /\ (blockers[p] # {} => blockers'[p] # {})
    BY <1>5, FS_AddElement DEF WaitsServed, WaitOK, Behind
  <2>3. pc[p] = "acquire" /\ reply'[p].kind = "no" => blockers'[p] # {}
    BY <1>5 DEF WaitsServed
  <2>4. pc[p] \notin Waiting => blockers'[p] = {}
    BY <1>5 DEF WaitsServed, WaitOK, Behind, Waiting
  <2> QED
    BY <2>1, <2>2, <2>3, <2>4 DEF WaitOK, AwaitsBounded, Behind, Asking, RefusedBefore
<1>6. CASE NobodyWaits
  BY <1>6 DEF NobodyWaits, timerVars, WaitOK, AwaitsBounded, Behind, Asking, RefusedBefore
<1>7. CASE Tick
  <2>1. /\ UNCHANGED <<pc, reply, pollDelay, blockers>>
        /\ await'[p] = Decrement(await[p]) /\ waitLeft'[p] = Decrement(waitLeft[p])
        /\ pc[p] \in Awaiting => await[p] > 0
    BY <1>7 DEF Tick, MayTick
  <2>2. AwaitsBounded(p)'
    BY <1>0, <2>1 DEF WaitOK, AwaitsBounded, Decrement
  <2>3. Asking(p)'
    BY <1>0, <2>1 DEF WaitOK, Asking, Decrement, Awaiting, RedisCall
  <2> QED
    BY <2>1, <2>2, <2>3 DEF WaitOK, Behind, RefusedBefore
<1>8. \/ WaitsOn(p) \/ Waits(p) \/ WaitsServed(p) \/ NobodyWaits \/ Tick
  BY WaitCases DEF WaitsServed
<1> QED
  BY <1>1, <1>2, <1>3, <1>4, <1>5, <1>6, <1>7, <1>8 DEF Waits
\* Failures are counted.
LEMMA FaultsCount ==
    ASSUME TypeOK, [Next]_vars, faults' = 0
    PROVE  faults = 0 /\ \A p \in Requests : ~AwaitFails(p) /\ ~DropRequest(p)
<1>1. faults \in Nat
  BY DEF TypeOK
<1>2. ~Fault
  BY <1>1 DEF Fault
<1>3. \A p \in Requests : ~AwaitFails(p) /\ ~DropRequest(p)
  BY <1>2 DEF AwaitFails, DropRequest
<1>4. ASSUME NEW p \in Requests, Start(p) \/ Step(p) \/ Serve(p) PROVE faults' = faults
  BY <1>4 DEF Start, Step, InitialRead, Discover, Acquired, Refused, Wake, Reread,
     GiveUp, Recheck, Exchanged, Updated, Invalidated, Released, OwnerDeadlineElapses,
     RequestOnly, ghostVars, Serve
<1>5. ASSUME NEW x \in asWork, ASAnswers(x) PROVE faults' = faults
  BY <1>5 DEF ASAnswers, ASGrants, ASRefuses, ASFails, AnswerExchange, ghostVars
<1>6. CASE \/ \E c \in late : ServeLate(c)
           \/ \E at \in 1..issued : EntersSkew(at)
           \/ Tick \/ UNCHANGED vars
  BY <1>3, <1>6 DEF ServeLate, EntersSkew, Tick, vars, ghostVars
<1> QED
  BY <1>2, <1>3, <1>4, <1>5, <1>6 DEF Next, ASRevokes

\* While the lock stays with its owner, its lease runs out.
LEMMA LeaseShrinks ==
    ASSUME TypeOK, [Next]_vars, NEW q \in Requests, lock.owner = q, lock'.owner = q
    PROVE  lock'.left <= lock.left /\ (Tick => lock'.left <= lock.left - 1)
<1>0. lock.left \in Nat /\ lock.left > 0 /\ LockExists
  BY NoOwnerAssumption DEF TypeOK, StoreTypeOK, LockExists
<1>1. CASE Tick
  BY <1>0, <1>1, NoOwnerAssumption DEF Tick, StoreTick, AgedLock, Unlocked
<1>2. ASSUME NEW c \in Commands, Execute(c) PROVE lock' = lock
  BY <1>0, <1>2, NoOwnerAssumption DEF Execute, RedisGet, RedisTryAcquireRefreshLock,
     RefreshUpdateScript, RefreshInvalidateScript, RefreshLockReleaseScript,
     LockAfterRelease, IsLockOwner, CanAcquire, Unlocked, storeVars
<1>3. ASSUME NEW p \in Requests, Serve(p) PROVE lock' = lock
  BY <1>2, <1>3, ServeAnswers
<1>4. ASSUME NEW c \in late, ServeLate(c) PROVE lock' = lock
  BY <1>2, <1>4 DEF ServeLate, TypeOK
<1>5. lock' = lock \/ Tick
  BY <1>3, <1>4, StepCases, ServerAnswers DEF GivesUp, Abandon, ASRevokes, Elsewhere, storeVars
<1> QED
  BY <1>0, <1>1, <1>2, <1>5

\* What a healthy owner does: it works on, or turns to the release.
LEMMA OwnerWorks ==
    ASSUME TypeOK, NEW q \in Requests, Spent(q), pc[q] # "done",
           pc[q] = "release" => reply[q] = NoReply, Start(q) \/ Step(q)
    PROVE  /\ pc[q] \in Critical \cup {"acquire"}
           /\ \/ pc'[q] = "release" /\ await'[q] = RedisBound
              \/ pc'[q] \in Critical /\ ownerLeft'[q] = ownerLeft[q]
<1>1. {"recheck", "exchange", "update", "invalidate", "release"} \subseteq States
  BY DEF States, Awaiting, RedisCall
<1>2. \/ Acquired(q) \/ Recheck(q) \/ Exchanged(q) \/ Updated(q) \/ Invalidated(q)
      \/ OwnerDeadlineElapses(q)
  BY DEF Start, Step, InitialRead, Discover, Refused, Wake, Reread, GiveUp, Released, Spent
<1>3. pc[q] \in Critical \cup {"acquire"}
  BY <1>2 DEF Acquired, Recheck, Exchanged, Updated, Invalidated, OwnerDeadlineElapses, Critical
<1>4. CASE \E r : Release(q, r)
  BY <1>1, <1>3, <1>4, EnterWaits DEF Release, AwaitBound, RedisCall
<1>5. CASE (\E s \in Critical : Enter(q, s)) /\ UNCHANGED ownerLeft
  BY <1>1, <1>3, <1>5, EnterWaits DEF Critical
<1> QED
  BY <1>2, <1>4, <1>5 DEF Acquired, Recheck, SendExchange, Exchanged, Updated, Invalidated,
     OwnerDeadlineElapses, Critical

LEMMA HoldType ==
    ASSUME NEW lease \in BOOLEAN, TypeOK, NEW q \in Requests
    PROVE  HoldLeft(q, lease) \in Int
  BY DEF HoldLeft, TypeOK, StoreTypeOK, RequestTypeOK

LEMMA HoldShrinks ==
    ASSUME NEW lease \in BOOLEAN, TypeOK, SpentInv, lease \/ (faults' = 0 /\ HealthInv),
           [Next]_vars, NEW q \in Requests, lock.owner = q, lock'.owner = q
    PROVE  /\ HoldLeft(q, lease)' <= HoldLeft(q, lease)
           /\ Tick => HoldLeft(q, lease)' <= HoldLeft(q, lease) - 1
<1>1. CASE lease
  BY <1>1, LeaseShrinks DEF HoldLeft
<1>2. CASE ~lease
  <2>0. /\ ownerLeft[q] \in Int /\ await[q] \in Nat /\ pc[q] \in States
        /\ Spent(q) /\ Healthy(q)
    BY <1>2, FaultsCount DEF TypeOK, RequestTypeOK, SpentInv, HealthInv
  <2>1. pc[q] \in Critical \cup {"acquire", "release"}
    BY <2>0 DEF Spent, Healthy, OwnsUntilReleased, States, Awaiting, RedisCall, Critical
  <2>2. pc[q] \in Critical \cup {"acquire"} => ownerLeft[q] + Stall >= 0
    BY <2>0 DEF Healthy, InTime
  <2>3. CASE Start(q) \/ Step(q)
    <3>1. /\ pc[q] \in Critical \cup {"acquire"}
          /\ \/ pc'[q] = "release" /\ await'[q] = RedisBound
             \/ pc'[q] \in Critical /\ ownerLeft'[q] = ownerLeft[q]
      BY <2>0, <2>3, OwnerWorks DEF Healthy, OwnsUntilReleased
    <3>2. ~Tick
      BY <2>0, <3>1 DEF Tick, Critical
    <3> QED
      BY <1>2, <2>0, <2>2, <3>1, <3>2 DEF HoldLeft, Critical
  <2>4. CASE pc'[q] = pc[q] /\ await'[q] = await[q] /\ ownerLeft'[q] = ownerLeft[q] /\ ~Tick
    BY <1>2, <2>0, <2>4 DEF HoldLeft
  <2>5. CASE Tick
    <3>1. /\ pc'[q] = pc[q]
          /\ pc[q] \in Critical \cup {"acquire"} => ownerLeft'[q] = ownerLeft[q] - 1
          /\ pc[q] = "release" => await'[q] = await[q] - 1
      BY <2>0, <2>5 DEF Tick, MayTick, Decrement, Awaiting, RedisCall
    <3> QED
      BY <1>2, <2>0, <2>1, <3>1 DEF HoldLeft, Critical
  <2>6. ASSUME NEW p \in Requests \ {q}, Start(p) \/ Step(p), WaitsOn(q)
        PROVE  pc'[q] = pc[q] /\ await'[q] = await[q] /\ ownerLeft'[q] = ownerLeft[q]
    BY <2>6, StepLocal DEF WaitsOn, TypeOK
  <2>7. CASE NobodyWaits \/ \E p \in Requests : WaitsServed(p)
    BY <2>4, <2>5, <2>7 DEF NobodyWaits, WaitsServed, timerVars
  <2> QED
    BY <1>2, <2>3, <2>4, <2>5, <2>6, <2>7, WaitCases, FaultsCount
<1> QED
  BY <1>1, <1>2

\* An owner has some time left, and never more than the maximum.
LEMMA HoldBounds ==
    ASSUME NEW lease \in BOOLEAN, TypeOK, SpentInv, HealthInv \/ lease, Applies(lease),
           NEW q \in Requests, WaitOK(q), lock.owner = q
    PROVE  HoldLeft(q, lease) \in 1..HoldMax(lease)
<1>1. CASE lease
  BY <1>1, NoOwnerAssumption DEF HoldLeft, HoldMax, TypeOK, StoreTypeOK, LockExists
<1>2. CASE ~lease
  <2>1. /\ ownerLeft[q] \in Int /\ await[q] \in Nat /\ pc[q] \in States
        /\ Spent(q) /\ Healthy(q)
    BY <1>2 DEF TypeOK, RequestTypeOK, SpentInv, HealthInv, Applies
  <2>2. pc[q] \in Critical \cup {"acquire", "release"}
    BY <2>1 DEF Spent, Healthy, OwnsUntilReleased, States, Awaiting, RedisCall, Critical
  <2>3. CASE pc[q] = "release"
    BY <1>2, <2>1, <2>3 DEF HoldLeft, HoldMax, WaitOK, AwaitsBounded, RedisCall
  <2>4. CASE pc[q] \in Critical \cup {"acquire"}
    <3>1. ownerLeft[q] + Stall >= 0 /\ ownerLeft[q] <= OwnerTimeout
      BY <2>1, <2>4 DEF Healthy, InTime
    <3> QED
      BY <1>2, <2>1, <2>4, <3>1 DEF HoldLeft, HoldMax, Critical
  <2> QED
    BY <2>2, <2>3, <2>4
<1> QED
  BY <1>1, <1>2

\* A patient waiter behind the owner that refused it has more than an await left.
LEMMA PatienceSuffices ==
    ASSUME NEW lease \in BOOLEAN, Patient(lease)
    PROVE  /\ HoldMax(lease) \in Nat \ {0}
           /\ ~lease => HoldMax(lease) + 3 * RedisBound + PollMax <= WaitTimeout
  BY DEF Patient, HoldMax, WaiterOutlivesHealthyOwner

\* The waiter's clock runs no faster than the owner's.
LEMMA NextHasWaited ==
    ASSUME NEW lease \in BOOLEAN, Patient(lease), TypeOK, SpentInv, lease \/ HealthInv,
           \A r \in Requests : WaitOK(r), TenureInv(lease), [Next]_vars, Applies(lease)',
           NEW p \in Requests, NEW q \in Requests, blockers'[p] = {q}
    PROVE  HasWaitedFor(p, q, lease)'
<1> SUFFICES ASSUME lock'.owner = q
             PROVE  waitLeft'[p] + HoldMax(lease) + RedisBound >= HoldLeft(q, lease)' + WaitTimeout
  BY DEF HasWaitedFor, HoldMax
<1>0. /\ waitLeft[p] \in Nat /\ await[p] \in Nat /\ waitLeft'[p] \in Nat
      /\ HoldMax(lease) \in Nat
  BY NextType, PatienceSuffices DEF TypeOK, RequestTypeOK
<1>1. Applies(lease) /\ (lease \/ (faults' = 0 /\ HealthInv))
  BY FaultsCount DEF Applies
\* Who holds the lock has held it before, and has less time left.
<1>2. lock.owner = q
  <2>1. q \in blockers[p] => Spent(q)
    BY DEF SpentInv
  <2>2. q \in blockers[p] \/ (lock.owner \in Requests /\ lock' = lock)
    BY WaitCases DEF Waits, WaitsNot, Asks, Sleeps, Wakes, WaitsOn, WaitsServed,
       NobodyWaits, Tick
  <2> QED
    BY <2>1, <2>2, SpentStaysOut
<1>3. /\ HoldLeft(q, lease) \in 1..HoldMax(lease) /\ HoldLeft(q, lease)' \in Int
      /\ HoldLeft(q, lease)' <= HoldLeft(q, lease)
      /\ Tick => HoldLeft(q, lease)' <= HoldLeft(q, lease) - 1
  <2>1. HoldLeft(q, lease)' \in Int
    BY NextType, HoldType DEF HoldLeft, TypeOK, StoreTypeOK, RequestTypeOK
  <2> QED
    BY <1>1, <1>2, <2>1, HoldShrinks, HoldBounds
<1>4. blockers[p] = {q} =>
          waitLeft[p] + HoldMax(lease) + RedisBound >= HoldLeft(q, lease) + WaitTimeout
  BY <1>1, <1>2 DEF TenureInv, Tenure, HasWaitedFor
<1>5. CASE blockers[p] = {q} /\ waitLeft'[p] = waitLeft[p]
  BY <1>0, <1>3, <1>4, <1>5
<1>6. CASE blockers[p] = {q} /\ Tick
  BY <1>0, <1>3, <1>4, <1>6 DEF Tick, Decrement
\* The first refusal: the waiter has waited for this answer only.
<1>7. CASE blockers[p] = {} /\ pc[p] = "acquire" /\ waitLeft'[p] = waitLeft[p]
  <2>1. waitLeft[p] + RedisBound >= WaitTimeout + await[p]
    BY <1>7 DEF WaitOK, Asking
  <2> QED
    BY <1>0, <1>3, <1>7, <2>1
<1>8. \/ blockers[p] = {q} /\ (waitLeft'[p] = waitLeft[p] \/ Tick)
      \/ blockers[p] = {} /\ pc[p] = "acquire" /\ waitLeft'[p] = waitLeft[p]
  <2>1. CASE WaitsOn(p) \/ NobodyWaits \/ Tick
    BY <2>1 DEF WaitsOn, NobodyWaits, timerVars, Tick
  <2>2. CASE Waits(p)
    BY <2>2 DEF Waits, WaitsNot, Asks, Sleeps, Wakes, WaitOK, Behind, Waiting
  <2>3. CASE WaitsServed(p)
    <3>1. blockers[p] \subseteq Requests /\ waitLeft'[p] = waitLeft[p]
      BY <2>3 DEF WaitsServed, timerVars, TypeOK, RequestTypeOK
    <3>2. \/ blockers'[p] = blockers[p]
          \/ pc[p] = "acquire" /\ blockers'[p] = blockers[p] \cup {lock.owner}
      BY <2>3 DEF WaitsServed
    <3>3. CASE pc[p] = "acquire" /\ blockers'[p] = blockers[p] \cup {lock.owner}
      <4>1. blockers[p] = {} \/ blockers[p] = {q}
        BY <3>3
      <4> QED
        BY <3>1, <3>3, <4>1
    <3> QED
      BY <3>1, <3>2, <3>3
  <2> QED
    BY <2>1, <2>2, <2>3, WaitCases DEF WaitsServed
<1> QED
  BY <1>5, <1>6, <1>7, <1>8

LEMMA NextTenure ==
    ASSUME NEW lease \in BOOLEAN, Patient(lease), TypeOK, SpentInv, lease \/ HealthInv,
           \A p \in Requests : WaitOK(p), TenureInv(lease), [Next]_vars
    PROVE  TenureInv(lease)'
<1> SUFFICES ASSUME Applies(lease)', NEW p \in Requests, NEW q \in Requests, blockers'[p] = {q},
                    ~lease
             PROVE  CanLookAgain(p)'
  <2>1. \A p, q \in Requests : Applies(lease)' /\ blockers'[p] = {q} => HasWaitedFor(p, q, lease)'
    BY NextHasWaited
  <2> QED
    BY <2>1 DEF TenureInv, Tenure
<1>0. /\ waitLeft[p] \in Nat /\ await[p] \in Nat /\ waitLeft'[p] \in Nat /\ await'[p] \in Nat
      /\ pc[p] \in States
  BY NextType DEF TypeOK, RequestTypeOK
<1>1. Applies(lease) /\ HealthInv
  BY FaultsCount DEF Applies
<1>2. /\ HoldMax(lease) \in Nat \ {0}
      /\ HoldMax(lease) + 3 * RedisBound + PollMax <= WaitTimeout
  BY PatienceSuffices
<1>3. blockers[p] = {q} => CanLookAgain(p) /\ HasWaitedFor(p, q, lease)
  BY <1>1 DEF TenureInv, Tenure
<1>4. CASE WaitsOn(p) \/ NobodyWaits
  <2>1. /\ blockers[p] = {q} /\ UNCHANGED <<pc[p], await[p], waitLeft[p]>>
        /\ pc[p] = "acquire" => reply'[p] = reply[p]
    BY <1>4 DEF WaitsOn, NobodyWaits, timerVars
  <2> QED
    BY <1>3, <2>1 DEF CanLookAgain
<1>5. CASE WaitsNot(p)
  BY <1>5 DEF WaitsNot, WaitOK, Behind
<1>6. CASE Asks(p)
  BY <1>6 DEF Asks, CanLookAgain, NoReply, Reply
<1>7. CASE Sleeps(p)
  <2>1. /\ blockers[p] = {q} /\ waitLeft'[p] = waitLeft[p] /\ pc'[p] = "sleep"
        /\ waitLeft[p] > RedisBound + PollMax + await[p]
    BY <1>3, <1>7 DEF Sleeps, CanLookAgain
  <2>2. await'[p] <= PollMax
    <3>1. pollDelay[p] \in Nat /\ pollDelay[p] <= PollMax
      BY DEF WaitOK, AwaitsBounded, TypeOK, RequestTypeOK
    <3>2. await'[p] = LeastOf(pollDelay[p], waitLeft[p])
      BY <1>7 DEF Sleeps
    <3> QED
      BY <1>0, <3>1, <3>2 DEF LeastOf
  <2>3. waitLeft'[p] > RedisBound + await'[p]
    BY <1>0, <2>1, <2>2
  <2> QED
    BY <2>1, <2>3 DEF CanLookAgain
<1>8. CASE Wakes(p)
  <2>1. /\ blockers[p] = {q} /\ waitLeft'[p] = waitLeft[p] /\ pc'[p] = "reread"
        /\ waitLeft'[p] > await'[p]
    BY <1>0, <1>3, <1>8 DEF Wakes, CanLookAgain
  <2> QED
    BY <2>1 DEF CanLookAgain
<1>9. CASE WaitsServed(p)
  <2>1. UNCHANGED <<pc[p], await[p], waitLeft[p]>>
    BY <1>9 DEF WaitsServed, timerVars
  <2>2. CASE pc[p] # "acquire" \/ reply'[p].kind = "yes"
    <3>1. blockers[p] = {q} /\ (pc'[p] = "acquire" => reply'[p].kind # "no")
      BY <1>9, <2>1, <2>2 DEF WaitsServed
    <3> QED
      BY <1>3, <2>1, <3>1 DEF CanLookAgain
  <2>3. CASE pc[p] = "acquire" /\ reply'[p].kind # "yes"
    <3>1. /\ lock.owner = q /\ blockers[p] \in {{}, {q}}
          /\ await[p] <= RedisBound
      BY <1>9, <2>3 DEF WaitsServed, WaitOK, AwaitsBounded, RedisCall
    <3>2. HoldLeft(q, lease) \in 1..HoldMax(lease)
      BY <1>1, <3>1, HoldBounds
    <3>3. waitLeft[p] > RedisBound + PollMax + await[p]
      <4>1. CASE blockers[p] = {}
        <5>1. waitLeft[p] + RedisBound >= WaitTimeout + await[p]
          BY <2>3, <4>1 DEF WaitOK, Asking
        <5> QED
          BY <1>0, <1>2, <5>1
      <4>2. CASE blockers[p] = {q}
        <5>1. waitLeft[p] + HoldMax(lease) + RedisBound >= HoldLeft(q, lease) + WaitTimeout
          BY <1>3, <3>1, <4>2 DEF HasWaitedFor
        <5> QED
          BY <1>0, <1>2, <3>1, <3>2, <5>1
      <4> QED
        BY <3>1, <4>1, <4>2
    <3> QED
      BY <2>1, <2>3, <3>3 DEF CanLookAgain
  <2> QED
    BY <2>2, <2>3
<1>10. CASE Tick
  <2>1. /\ blockers[p] = {q} /\ UNCHANGED <<pc[p], reply[p]>>
        /\ await'[p] = Decrement(await[p]) /\ waitLeft'[p] = Decrement(waitLeft[p])
        /\ pc[p] \in Awaiting => await[p] > 0
    BY <1>10 DEF Tick, MayTick
  <2>2. /\ waitLeft'[p] >= waitLeft[p] - 1
        /\ pc[p] \in Awaiting => await'[p] = await[p] - 1
    BY <1>0, <2>1 DEF Decrement
  <2>3. {"acquire", "sleep", "reread"} \subseteq Awaiting
    BY DEF Awaiting, RedisCall
  <2> QED
    BY <1>0, <1>3, <2>1, <2>2, <2>3 DEF CanLookAgain
<1> QED
  BY <1>4, <1>5, <1>6, <1>7, <1>8, <1>9, <1>10, WaitCases DEF Waits, WaitsServed

\* Who gives up behind one healthy owner alone would have had time left.
LEMMA GivesUpBehindTwo ==
    ASSUME TypeOK, \A r \in Requests : WaitOK(r), TenureInv(FALSE), faults = 0,
           NEW p \in Requests, GiveUp(p)
    PROVE  Cardinality(blockers[p]) >= 2
<1>1. /\ waitLeft[p] = 0 /\ await[p] \in Nat /\ blockers[p] \subseteq Requests
      /\ pc[p] = "reread" \/ (pc[p] = "acquire" /\ reply[p].kind = "no")
  BY DEF GiveUp, TypeOK, RequestTypeOK
<1>2. IsFiniteSet(blockers[p]) /\ blockers[p] # {}
  BY <1>1 DEF WaitOK, Behind, RefusedBefore
<1>3. ASSUME NEW q, blockers[p] = {q} PROVE FALSE
  <2>1. q \in Requests /\ ~CanLookAgain(p)
    BY <1>1, <1>3 DEF CanLookAgain
  <2>2. Tenure(p, q, FALSE)
    BY <1>3, <2>1 DEF TenureInv, Applies
  <2> QED
    BY <2>1, <2>2 DEF Tenure
<1>4. Cardinality(blockers[p]) \in Nat /\ Cardinality(blockers[p]) # 0
  BY <1>2, FS_CardinalityType, FS_EmptySet
<1>5. Cardinality(blockers[p]) # 1
  BY <1>2, <1>3, FS_Singleton
<1> QED
  BY <1>4, <1>5

LEMMA WaitAlways == Spec => [](\A p \in Requests : WaitOK(p))
<1>1. TypeOK /\ (\A p \in Requests : WaitOK(p)) /\ [Next]_vars => (\A p \in Requests : WaitOK(p))'
  BY NextWaitOK
<1>2. Init => \A p \in Requests : WaitOK(p)
  BY InitWait
<1> QED
  BY <1>1, <1>2, TypeCorrect, PTL DEF Spec

(* Whatever fails: a waiter that gives up after a single owner has refused *)
(* it does so after that owner's lock has gone, released or expired; the   *)
(* lease it was granted before the first refusal is always over            *)
(* (src/src/oidc/refresh.rs lines 118-184, constants of lines 34-41).      *)
THEOREM LeasesAreOutlasted == ASSUME WaiterOutlivesLease PROVE Spec => LeaseIsOutlasted
<1>1. Patient(TRUE)
  BY DEF Patient
<1>2. TypeOK /\ SpentInv /\ (\A p \in Requests : WaitOK(p)) /\ TenureInv(TRUE) /\ [Next]_vars
          => TenureInv(TRUE)'
  BY <1>1, NextTenure
<1>3. ASSUME TypeOK, TenureInv(TRUE), NEW p \in Requests, NEW q \in Requests,
             GiveUp(p), blockers[p] = {q}
      PROVE  lock.owner # q
  <2>1. lock.owner = q => waitLeft[p] + Lease + RedisBound >= lock.left + WaitTimeout
    BY <1>3 DEF TenureInv, Applies, Tenure, HasWaitedFor, HoldMax, HoldLeft
  <2>2. waitLeft[p] = 0
    BY <1>3 DEF GiveUp
  <2>3. lock.owner = q => lock.left \in Nat /\ lock.left > 0
    BY <1>3, NoOwnerAssumption DEF TypeOK, StoreTypeOK, LockExists
  <2> QED
    BY <2>1, <2>2, <2>3 DEF WaiterOutlivesLease
<1>4. TypeOK /\ TenureInv(TRUE)
          => \A p, q \in Requests : GiveUp(p) /\ blockers[p] = {q} => lock.owner # q
  BY <1>3
<1>5. Init => TenureInv(TRUE)
  BY InitWait
<1> QED
  BY <1>2, <1>4, <1>5, SpentAlways, WaitAlways, TypeCorrect, PTL DEF Spec, LeaseIsOutlasted

(* As long as nothing has failed, a waiter whose patience exceeds the time *)
(* an owner has for its work, and the awaits in between, is never turned   *)
(* away by that owner alone, however long the lease; the shipped constants *)
(* leave 6.5 s of stall for it (refresh.rs lines 37-41).                   *)
THEOREM HealthyOwnerIsOutlasted ==
    ASSUME WaiterOutlivesHealthyOwner PROVE Spec => HealthyOwnerIsAwaited
<1>1. Patient(FALSE) /\ RedisBound <= OwnerTimeout /\ (Applies(FALSE) <=> faults = 0)
  BY DEF Patient, Applies, WaiterOutlivesHealthyOwner
<1>2. TypeOK /\ SpentInv /\ HealthInv /\ (\A p \in Requests : WaitOK(p)) /\ TenureInv(FALSE)
          /\ [Next]_vars => TenureInv(FALSE)'
  BY <1>1, NextTenure
<1>3. TypeOK /\ (\A p \in Requests : WaitOK(p)) /\ TenureInv(FALSE)
          => \A p \in Requests : GiveUp(p) /\ faults = 0 => Cardinality(blockers[p]) >= 2
  BY GivesUpBehindTwo
<1>4. Init => TenureInv(FALSE)
  BY InitWait
<1>5. Spec => []HealthInv
  BY <1>1, HealthAlways
<1> QED
  BY <1>2, <1>3, <1>4, <1>5, SpentAlways, WaitAlways, TypeCorrect, PTL
     DEF Spec, HealthyOwnerIsAwaited
-----------------------------------------------------------------------------
(* No request goes round for ever.  StepsLeft counts what can still happen  *)
(* to a request, its own steps and the answers they wait for: a waiter that *)
(* is refused sleeps for at least one unit of the time it has left.         *)

\* With w the time a waiter has left and a the rest of its sleep.
StageAt(s, w, a) ==
    CASE s = "idle"     -> 3 * WaitTimeout + 8
      [] s = "read"     -> 3 * WaitTimeout + 7
      [] s = "discover" -> 3 * WaitTimeout + 6
      [] s = "sleep"    -> 3 * (w - a) + 7
      [] s = "reread"   -> 3 * w + 6
      [] s = "acquire"  -> 3 * w + 5
      [] s = "recheck"  -> 4
      [] s = "exchange" -> 3
      [] s \in {"update", "invalidate"} -> 2
      [] s = "release"  -> 1
      [] s = "done"     -> 0

Stage(p) == StageAt(pc[p], waitLeft[p], await[p])
StepsLeft(p) == 2 * Stage(p) + (IF reply[p] = NoReply THEN 1 ELSE 0)
MaxSteps == 6 * WaitTimeout + 17

\* A waiter keeps its time, and never polls without a pause.
Paced(p) ==
    /\ pc[p] \in Waiting => pollDelay[p] >= 1 /\ waitLeft[p] <= WaitTimeout
    /\ pc[p] = "sleep" => await[p] <= waitLeft[p]

LEMMA InitPaced == Init => \A p \in Requests : Paced(p)
  BY DEF Init, Paced, Waiting

LEMMA NextPaced ==
    ASSUME TypeOK, [Next]_vars, NEW p \in Requests, Paced(p)
    PROVE  Paced(p)'
<1>0. pollDelay[p] \in Nat /\ await[p] \in Nat /\ waitLeft[p] \in Nat
  BY DEF TypeOK, RequestTypeOK
<1>1. CASE WaitsOn(p)
  BY <1>1 DEF Paced, WaitsOn
<1>2. CASE WaitsNot(p)
  BY <1>2 DEF Paced, WaitsNot, Waiting
<1>3. CASE Asks(p)
  BY <1>0, <1>3 DEF Paced, Asks, NextDelay, LeastOf, Waiting
<1>4. CASE Sleeps(p) \/ Wakes(p)
  BY <1>0, <1>4 DEF Paced, Sleeps, Wakes, LeastOf, Waiting
<1>5. CASE WaitsServed(p) \/ NobodyWaits
  BY <1>5 DEF Paced, WaitsServed, NobodyWaits, timerVars
<1>6. CASE Tick
  <2>1. /\ UNCHANGED <<pc, pollDelay>>
        /\ await'[p] = Decrement(await[p]) /\ waitLeft'[p] = Decrement(waitLeft[p])
    BY <1>6 DEF Tick
  <2> QED
    BY <1>0, <2>1 DEF Paced, Decrement
<1>7. \/ WaitsOn(p) \/ Waits(p) \/ WaitsServed(p) \/ NobodyWaits \/ Tick
  BY WaitCases DEF WaitsServed
<1> QED
  BY <1>1, <1>2, <1>3, <1>4, <1>5, <1>6, <1>7 DEF Waits

LEMMA PacedAlways == Spec => [](\A p \in Requests : Paced(p))
<1>1. TypeOK /\ (\A p \in Requests : Paced(p)) /\ [Next]_vars => (\A p \in Requests : Paced(p))'
  BY NextPaced
<1> QED
  BY <1>1, InitPaced, TypeCorrect, PTL DEF Spec

LEMMA Stages ==
    ASSUME NEW w, NEW a
    PROVE  /\ StageAt("idle", w, a) = 3 * WaitTimeout + 8
           /\ StageAt("read", w, a) = 3 * WaitTimeout + 7
           /\ StageAt("discover", w, a) = 3 * WaitTimeout + 6
           /\ StageAt("sleep", w, a) = 3 * (w - a) + 7
           /\ StageAt("reread", w, a) = 3 * w + 6
           /\ StageAt("acquire", w, a) = 3 * w + 5
           /\ StageAt("recheck", w, a) = 4
           /\ StageAt("exchange", w, a) = 3
           /\ StageAt("update", w, a) = 2 /\ StageAt("invalidate", w, a) = 2
           /\ StageAt("release", w, a) = 1
           /\ StageAt("done", w, a) = 0
  BY DEF StageAt

LEMMA StepsCounted ==
    ASSUME TypeOK, NEW p \in Requests, Paced(p)
    PROVE  Stage(p) \in Nat /\ StepsLeft(p) \in 0..MaxSteps
<1>1. pc[p] \in States /\ await[p] \in Nat /\ waitLeft[p] \in Nat
  BY DEF TypeOK, RequestTypeOK
<1>2. Stage(p) \in 0..(3 * WaitTimeout + 8)
  <2>1. CASE pc[p] \in Waiting
    BY <1>1, <2>1, Stages DEF Stage, Paced, Waiting
  <2>2. CASE pc[p] \notin Waiting
    BY <1>1, <2>2, Stages DEF Stage, Waiting, States, Awaiting, RedisCall
  <2> QED
    BY <2>1, <2>2
<1> QED
  BY <1>2 DEF StepsLeft, MaxSteps

\* A request only ever moves towards its end.
LEMMA StageFalls ==
    ASSUME TypeOK, NEW p \in Requests, Paced(p),
           Start(p) \/ Step(p) \/ AwaitFails(p) \/ DropRequest(p)
    PROVE  Stage(p)' < Stage(p) /\ reply'[p] = NoReply
<1>0. /\ States = {"idle", "read", "discover", "acquire", "sleep", "reread", "recheck",
                   "exchange", "update", "invalidate", "release", "done"}
      /\ pc[p] \in States /\ pollDelay[p] \in Nat /\ await[p] \in Nat /\ waitLeft[p] \in Nat
  BY DEF States, Awaiting, RedisCall, TypeOK, RequestTypeOK
<1>1. ASSUME Asks(p) PROVE Stage(p)' < Stage(p)
  BY <1>0, <1>1, Stages DEF Asks, Stage, Paced, Waiting
<1>2. ASSUME Refused(p) PROVE Stage(p)' < Stage(p)
  <2>1. /\ pc[p] = "acquire" /\ pc'[p] = "sleep" /\ waitLeft'[p] = waitLeft[p]
        /\ await'[p] = LeastOf(pollDelay[p], waitLeft[p]) /\ waitLeft[p] > 0
    BY <1>2 DEF Refused, TypeOK, RequestTypeOK
  <2>2. pollDelay[p] >= 1
    BY <2>1 DEF Paced, Waiting
  <2> QED
    BY <1>0, <2>1, <2>2, Stages DEF Stage, LeastOf
<1>3. ASSUME Wakes(p) PROVE Stage(p)' < Stage(p)
  BY <1>0, <1>3, Stages DEF Wakes, Stage
<1>4. ASSUME \/ pc[p] = "idle" /\ pc'[p] = "read"
             \/ pc[p] = "read" /\ pc'[p] = "discover"
             \/ pc[p] = "acquire" /\ pc'[p] = "recheck"
             \/ pc[p] = "recheck" /\ pc'[p] = "exchange"
             \/ pc[p] = "exchange" /\ pc'[p] \in {"update", "invalidate"}
             \/ pc[p] \in Critical \cup {"acquire"} /\ pc'[p] = "release"
             \/ pc[p] # "done" /\ pc'[p] = "done"
      PROVE  Stage(p)' < Stage(p)
  <2>1. pc[p] \in Waiting \cup {"idle", "read", "discover"} => Stage(p) >= 5
    BY <1>0, Stages DEF Stage, Paced, Waiting
  <2>2. pc[p] \notin Waiting \cup {"idle", "read", "discover", "done"} => Stage(p) >= 1
    BY <1>0, Stages DEF Stage, Waiting
  <2> QED
    BY <1>0, <1>4, <2>1, <2>2, Stages DEF Stage, Critical, Waiting
<1>5. /\ reply'[p] = NoReply /\ pc'[p] # "idle"
      /\ pc'[p] \in {"read", "discover", "recheck", "exchange", "update", "invalidate",
                     "release", "done"} =>
             \/ pc[p] = "idle" /\ pc'[p] = "read"
             \/ pc[p] = "read" /\ pc'[p] = "discover"
             \/ pc[p] = "acquire" /\ pc'[p] = "recheck"
             \/ pc[p] = "recheck" /\ pc'[p] = "exchange"
             \/ pc[p] = "exchange" /\ pc'[p] \in {"update", "invalidate"}
             \/ pc[p] \in Critical \cup {"acquire"} /\ pc'[p] = "release"
             \/ pc[p] # "done" /\ pc'[p] = "done"
      /\ pc'[p] = "sleep" => Refused(p)
  <2>0. \A s \in States : Enter(p, s) => pc'[p] = s /\ reply'[p] = NoReply
    BY EnterWaits
  <2>1. CASE Start(p) \/ InitialRead(p) \/ Discover(p)
    BY <1>0, <2>0, <2>1 DEF Start, InitialRead, Discover, TryAcquire, Return
  <2>2. CASE Acquired(p) \/ Reread(p) \/ GiveUp(p) \/ Wake(p)
    BY <1>0, <2>0, <2>2 DEF Acquired, Reread, GiveUp, Wake, TryAcquire, Return, Release
  <2>3. CASE Refused(p)
    BY <2>3 DEF Refused, TypeOK, RequestTypeOK
  <2>4. CASE Recheck(p) \/ Exchanged(p)
    BY <1>0, <2>0, <2>4 DEF Recheck, SendExchange, Exchanged, Release, Critical
  <2>5. CASE Updated(p) \/ Invalidated(p) \/ Released(p) \/ OwnerDeadlineElapses(p)
    BY <1>0, <2>0, <2>5
       DEF Updated, Invalidated, Released, OwnerDeadlineElapses, Return, Release, Critical
  <2>6. CASE AwaitFails(p) \/ DropRequest(p)
    BY <1>0, <2>0, <2>6 DEF AwaitFails, DropRequest, Return, Release, RedisCall, Critical
  <2> QED
    BY <2>1, <2>2, <2>3, <2>4, <2>5, <2>6 DEF Step
<1>6. /\ pc'[p] \in {"read", "discover", "recheck", "exchange", "update", "invalidate",
                     "release", "done"} \cup Waiting
      /\ pc'[p] = "acquire" => Asks(p)
      /\ pc'[p] = "reread" => Wakes(p)
  <2>1. Waits(p) /\ pc'[p] \in States
    BY WaiterMoves, NextType DEF TypeOK, RequestTypeOK, Next
  <2> QED
    BY <1>0, <1>5, <2>1 DEF Waits, WaitsNot, Asks, Sleeps, Wakes, Waiting
<1> QED
  BY <1>1, <1>2, <1>3, <1>4, <1>5, <1>6 DEF Waiting

\* What brings a request on: a step of its own, or an answer to it.
Advances(p) == pc'[p] # pc[p] \/ reply'[p] # reply[p]

LEMMA StepsFall ==
    ASSUME TypeOK, NEW p \in Requests, Paced(p), [Next]_vars
    PROVE  StepsLeft(p)' <= StepsLeft(p) /\ (Advances(p) => StepsLeft(p)' < StepsLeft(p))
<1>0. /\ pc[p] \in States /\ await[p] \in Nat /\ waitLeft[p] \in Nat
      /\ Stage(p) \in Nat /\ Stage(p)' \in Nat
  <2>1. TypeOK' /\ Paced(p)'
    BY NextType, NextPaced
  <2>2. (TypeOK /\ Paced(p) => Stage(p) \in Nat)'
    BY StepsCounted, PTL
  <2> QED
    BY <2>1, <2>2, StepsCounted DEF TypeOK, RequestTypeOK
<1>1. CASE Start(p) \/ Step(p) \/ AwaitFails(p) \/ DropRequest(p)
  BY <1>0, <1>1, StageFalls DEF StepsLeft
<1>2. CASE WaitsOn(p)
  BY <1>0, <1>2 DEF WaitsOn, StepsLeft, Stage, Advances
<1>3. CASE WaitsServed(p)
  <2>1. UNCHANGED <<pc, waitLeft, await>> /\ reply[p] = NoReply
    BY <1>3, ServeAnswers DEF WaitsServed, timerVars
  <2> QED
    BY <1>0, <2>1 DEF StepsLeft, Stage, Advances
<1>4. CASE NobodyWaits
  <2>1. UNCHANGED <<pc, waitLeft, await>>
    BY <1>4 DEF NobodyWaits, timerVars
  <2>2. reply'[p] # reply[p] => reply[p] = NoReply
    BY <1>4 DEF NobodyWaits
  <2> QED
    BY <1>0, <2>1, <2>2 DEF StepsLeft, Stage, Advances
<1>5. CASE Tick
  <2>1. /\ UNCHANGED <<pc, reply>>
        /\ pc[p] = "sleep" => await[p] > 0
        /\ await'[p] = Decrement(await[p]) /\ waitLeft'[p] = Decrement(waitLeft[p])
    BY <1>5 DEF Tick, MayTick, Awaiting
  <2>2. waitLeft'[p] <= waitLeft[p] /\ waitLeft'[p] \in Nat
    BY <1>0, <2>1 DEF Decrement
  <2>3. pc[p] = "sleep" => waitLeft'[p] - await'[p] = waitLeft[p] - await[p]
    BY <1>0, <2>1 DEF Decrement, Paced
  <2>4. CASE pc[p] \in {"sleep", "reread", "acquire"}
    BY <1>0, <2>1, <2>2, <2>3, <2>4, Stages DEF StepsLeft, Stage, Advances
  <2>5. CASE pc[p] \notin {"sleep", "reread", "acquire"}
    BY <1>0, <2>1, <2>5, Stages DEF StepsLeft, Stage, Advances, States, Awaiting, RedisCall
  <2> QED
    BY <2>4, <2>5
<1>6. \/ Start(p) \/ Step(p) \/ AwaitFails(p) \/ DropRequest(p)
      \/ WaitsOn(p) \/ WaitsServed(p) \/ NobodyWaits \/ Tick
  BY WaitCases DEF WaitsServed
<1> QED
  BY <1>1, <1>2, <1>3, <1>4, <1>5, <1>6

(* A step never sets a request back, and one that moves it or answers it    *)
(* brings it nearer to its end.                                            *)
EveryMoveIsOnwards ==
    [][\A p \in Requests :
           /\ StepsLeft(p)' <= StepsLeft(p)
           /\ Advances(p) => StepsLeft(p)' < StepsLeft(p)]_vars

(* No request goes round for ever (resolve_access_token_at, refresh.rs     *)
(* lines 119-184): from its start it can move or be answered at most       *)
(* MaxSteps times, whatever fails, however often others take the lock      *)
(* first, and also if time stands still while it runs.  What is left to    *)
(* TLC is that it is not kept waiting for ever (RequestsEnd).              *)
THEOREM RequestsDoNotCircle ==
    Spec => [](\A p \in Requests : StepsLeft(p) \in 0..MaxSteps) /\ EveryMoveIsOnwards
<1>1. TypeOK /\ (\A p \in Requests : Paced(p))
          => \A p \in Requests : StepsLeft(p) \in 0..MaxSteps
  BY StepsCounted
<1>2. TypeOK /\ (\A p \in Requests : Paced(p)) /\ [Next]_vars
          => \A p \in Requests : /\ StepsLeft(p)' <= StepsLeft(p)
                                 /\ Advances(p) => StepsLeft(p)' < StepsLeft(p)
  BY StepsFall
<1> QED
  BY <1>1, <1>2, PacedAlways, TypeCorrect, PTL DEF Spec, EveryMoveIsOnwards

=============================================================================
