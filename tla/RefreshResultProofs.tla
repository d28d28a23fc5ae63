------------------------ MODULE RefreshResultProofs ------------------------
(***************************************************************************)
(* What TokenRefresh tells its callers is true, and its token pairs: the   *)
(* stored session only moves forward, an owner works on what is stored,    *)
(* and no request races the rotation of another.                           *)
(***************************************************************************)
EXTENDS TokenRefreshProofs, FiniteSetTheorems

-----------------------------------------------------------------------------
(* What a step of a request does to the request, by cases.                 *)

Untouched(q) ==
    pc'[q] = pc[q] /\ reply'[q] = reply[q] /\ held'[q] = held[q] /\ result'[q] = result[q]

Moves(p, s) == pc'[p] = s /\ reply'[p] = NoReply /\ result'[p] = result[p]

Reads == {"read", "reread", "recheck"}

\* The results a request may leave with.
Outcome(p, r) ==
    \/ r \in {TemporarilyUnavailable, Dropped}
    \/ /\ pc[p] \in Reads /\ reply[p] # NoReply /\ ResolvesAtOnce(reply[p])
       /\ r = ResolutionOf(reply[p])
    \/ /\ pc[p] = "update" /\ reply[p] # NoReply
       /\ r = UpdateResolution(reply[p].kind, held[p].at)
    \/ /\ pc[p] = "invalidate" /\ reply[p] # NoReply
       /\ r = InvalidateResolution(reply[p].kind)
    \/ pc[p] = "release" /\ r = result[p]

MovesOutside(p) ==
    /\ \E s \in {"read", "discover", "acquire", "sleep", "reread"} : Moves(p, s)
    /\ pc[p] \notin Critical \cup {"release", "done"}
    /\ pc[p] = "acquire" => reply[p].kind = "no"
    /\ held'[p] = held[p] /\ asWork' = asWork
MovesIn(p) ==
    /\ pc[p] = "acquire" /\ reply[p].kind = "yes" /\ Moves(p, "recheck")
    /\ held'[p] = held[p] /\ asWork' = asWork
MovesToExchange(p) ==
    /\ pc[p] = "recheck" /\ reply[p] # NoReply /\ ~ResolvesAtOnce(reply[p])
    /\ Moves(p, "exchange")
    /\ held'[p] = [at |-> reply[p].at, rt |-> reply[p].rt]
    /\ asWork' = asWork \cup {[req |-> p, rt |-> reply[p].rt]}
MovesToUpdate(p) ==
    /\ pc[p] = "exchange" /\ reply[p].kind = "tokens" /\ Moves(p, "update")
    /\ held'[p] = Refreshed(p) /\ asWork' = asWork
MovesToInvalidate(p) ==
    /\ pc[p] = "exchange" /\ reply[p].kind = "invalidGrant" /\ Moves(p, "invalidate")
    /\ held'[p] = held[p] /\ asWork' = asWork
Leaves(p) ==
    /\ pc'[p] \in {"release", "done"} /\ reply'[p] = NoReply /\ held'[p] = NoTokens
    /\ Outcome(p, result'[p])
\* Leaving with an answer in hand, or on the way from one await to the next.
LeavesAnswered(p) ==
    /\ Leaves(p) /\ pc[p] # "done" /\ asWork' = asWork
    /\ pc[p] \in {"exchange", "update"} => reply[p] # NoReply
    /\ pc[p] = "exchange" => reply[p].kind = "failed"

AllMoves(p) ==
    \/ MovesOutside(p) \/ MovesIn(p) \/ MovesToExchange(p)
    \/ MovesToUpdate(p) \/ MovesToInvalidate(p) \/ LeavesAnswered(p)

LEMMA EnterMoves ==
    ASSUME TypeOK, NEW p \in Requests, NEW s \in States, Enter(p, s), UNCHANGED result
    PROVE  Moves(p, s)
  BY EnterLocal DEF Moves, TypeOK

LEMMA LeaveMoves ==
    ASSUME TypeOK, NEW p \in Requests, NEW r, Return(p, r) \/ Release(p, r)
    PROVE  /\ pc'[p] \in {"release", "done"} /\ reply'[p] = NoReply /\ held'[p] = NoTokens
           /\ result'[p] = r
           /\ \A q \in Requests \ {p} : Untouched(q)
<1>1. {"done", "release"} \subseteq States
  BY DEF States, Awaiting, RedisCall
<1>2. PICK s \in {"done", "release"} : Enter(p, s) /\ StopOwning(p) /\ Resolve(p, r)
  BY DEF Return, Release
<1>3. /\ pc'[p] = s /\ reply'[p] = NoReply
      /\ \A q \in Requests \ {p} : pc'[q] = pc[q] /\ reply'[q] = reply[q]
  BY <1>1, <1>2, EnterLocal DEF TypeOK
<1>4. /\ held'[p] = NoTokens /\ result'[p] = r
      /\ \A q \in Requests \ {p} : held'[q] = held[q] /\ result'[q] = result[q]
  BY <1>2 DEF StopOwning, Resolve, TypeOK, RequestTypeOK
<1> QED
  BY <1>3, <1>4 DEF Untouched

LEMMA StepMoves ==
    ASSUME TypeOK, NEW p \in Requests, Start(p) \/ Step(p), ~OwnerDeadlineElapses(p)
    PROVE  /\ AllMoves(p)
           /\ \A q \in Requests \ {p} : Untouched(q)
           /\ UNCHANGED <<storeVars, late, asValid, issued, expiring, persisted, kept>>
<1>1. {"read", "discover", "acquire", "sleep", "reread", "recheck", "exchange",
       "update", "invalidate"} \subseteq States
  BY DEF States, Awaiting, RedisCall
<1>2. UNCHANGED <<storeVars, late, asValid, issued, expiring, persisted, kept>>
  BY DEF Start, Step, InitialRead, Discover, Acquired, Refused, Wake, Reread, GiveUp,
     Recheck, SendExchange, Exchanged, Updated, Invalidated, Released, RequestOnly, asVars,
     ghostVars
<1>3. ~Recheck(p) => asWork' = asWork
  BY DEF Start, Step, InitialRead, Discover, Acquired, Refused, Wake, Reread, GiveUp,
     Exchanged, Updated, Invalidated, Released, RequestOnly, asVars
<1>4. \A q \in Requests \ {p} : Untouched(q)
  <2>1. CASE \E r : Return(p, r) \/ Release(p, r)
    BY <2>1, LeaveMoves
  <2>2. CASE \A r : ~Return(p, r) /\ ~Release(p, r)
    <3>1. \A q \in Requests \ {p} : pc'[q] = pc[q] /\ reply'[q] = reply[q]
      BY StepLocal DEF TypeOK
    <3>2. result' = result /\ (held' = held \/ \E h : held' = [held EXCEPT ![p] = h])
      BY <2>2 DEF Start, Step, InitialRead, Discover, Acquired, Refused, Wake, Reread, GiveUp,
         Recheck, SendExchange, Exchanged, Updated, Invalidated, Released
    <3> QED
      BY <3>1, <3>2 DEF Untouched, TypeOK, RequestTypeOK
  <2> QED
    BY <2>1, <2>2
<1>5. AllMoves(p)
  <2>1. CASE Start(p) \/ Wake(p)
    BY <1>1, <1>3, <2>1, EnterMoves
       DEF Start, Wake, Recheck, AllMoves, MovesOutside, Critical
  <2>2. CASE InitialRead(p) \/ Reread(p)
    <3>1. CASE Return(p, ResolutionOf(reply[p])) /\ ResolvesAtOnce(reply[p])
      <4>1. Outcome(p, result'[p]) /\ Leaves(p)
        BY <2>2, <3>1, LeaveMoves DEF InitialRead, Reread, Leaves, Outcome, Reads
      <4> QED
        BY <1>3, <2>2, <4>1 DEF InitialRead, Reread, Recheck, AllMoves, LeavesAnswered
    <3>2. CASE \E s \in {"discover", "acquire"} : Enter(p, s) /\ UNCHANGED <<held, result>>
      BY <1>1, <1>3, <2>2, <3>2, EnterMoves
         DEF InitialRead, Reread, Recheck, AllMoves, MovesOutside, Critical
    <3> QED
      BY <2>2, <3>1, <3>2 DEF InitialRead, Reread, TryAcquire
  <2>3. CASE Discover(p) \/ GiveUp(p)
    <3>1. CASE Return(p, TemporarilyUnavailable)
      <4>1. Leaves(p)
        BY <3>1, LeaveMoves DEF Leaves, Outcome
      <4> QED
        BY <1>3, <2>3, <4>1 DEF Discover, GiveUp, Recheck, AllMoves, LeavesAnswered
    <3>2. CASE Enter(p, "acquire") /\ UNCHANGED <<held, result>> /\ pc[p] = "discover"
      BY <1>1, <1>3, <3>2, EnterMoves DEF Recheck, AllMoves, MovesOutside, Critical
    <3> QED
      BY <2>3, <3>1, <3>2 DEF Discover, GiveUp, TryAcquire
  <2>4. CASE Acquired(p)
    <3>1. CASE Release(p, TemporarilyUnavailable)
      <4>1. Leaves(p)
        BY <3>1, LeaveMoves DEF Leaves, Outcome
      <4> QED
        BY <1>3, <2>4, <4>1 DEF Acquired, Recheck, AllMoves, LeavesAnswered
    <3>2. CASE Enter(p, "recheck") /\ UNCHANGED <<held, result>>
      BY <1>1, <1>3, <2>4, <3>2, EnterMoves DEF Acquired, Recheck, AllMoves, MovesIn
    <3> QED
      BY <2>4, <3>1, <3>2 DEF Acquired
  <2>5. CASE Refused(p)
    BY <1>3, <2>5 DEF Refused, Recheck, AllMoves, MovesOutside, Moves, Critical, TypeOK,
       RequestTypeOK
  <2>6. CASE Recheck(p)
    <3>1. CASE Release(p, ResolutionOf(reply[p])) /\ ResolvesAtOnce(reply[p]) /\ UNCHANGED asVars
      <4>1. Leaves(p)
        BY <2>6, <3>1, LeaveMoves DEF Recheck, Leaves, Outcome, Reads
      <4> QED
        BY <2>6, <3>1, <4>1 DEF Recheck, AllMoves, LeavesAnswered, asVars
    <3>2. CASE SendExchange(p, reply[p]) /\ ~ResolvesAtOnce(reply[p])
      <4>1. Moves(p, "exchange")
        BY <1>1, <3>2, EnterMoves DEF SendExchange
      <4> QED
        BY <2>6, <3>2, <4>1 DEF Recheck, SendExchange, AllMoves, MovesToExchange, TypeOK,
           RequestTypeOK
    <3> QED
      BY <2>6, <3>1, <3>2 DEF Recheck
  <2>7. CASE Exchanged(p)
    <3>1. CASE Release(p, TemporarilyUnavailable) /\ reply[p].kind = "failed"
      <4>1. Leaves(p) /\ reply[p] # NoReply
        BY <3>1, LeaveMoves DEF Leaves, Outcome, NoReply, Reply
      <4> QED
        BY <1>3, <2>7, <3>1, <4>1 DEF Exchanged, Recheck, AllMoves, LeavesAnswered
    <3>2. CASE /\ reply[p].kind = "tokens" /\ Enter(p, "update")
               /\ held' = [held EXCEPT ![p] = Refreshed(p)] /\ UNCHANGED result
      BY <1>1, <1>3, <2>7, <3>2, EnterMoves
         DEF Exchanged, Recheck, AllMoves, MovesToUpdate, TypeOK, RequestTypeOK
    <3>3. CASE /\ reply[p].kind = "invalidGrant" /\ Enter(p, "invalidate")
               /\ UNCHANGED <<held, result>>
      BY <1>1, <1>3, <2>7, <3>3, EnterMoves DEF Exchanged, Recheck, AllMoves, MovesToInvalidate
    <3> QED
      BY <2>7, <3>1, <3>2, <3>3 DEF Exchanged
  <2>8. CASE Updated(p) \/ Invalidated(p)
    <3>1. Leaves(p)
      BY <2>8, LeaveMoves DEF Updated, Invalidated, Leaves, Outcome
    <3> QED
      BY <1>3, <2>8, <3>1 DEF Updated, Invalidated, Recheck, AllMoves, LeavesAnswered
  <2>9. CASE Released(p)
    <3>1. Leaves(p)
      BY <2>9, LeaveMoves DEF Released, Leaves, Outcome, ReleaseResolution
    <3> QED
      BY <1>3, <2>9, <3>1 DEF Released, Recheck, AllMoves, LeavesAnswered
  <2> QED
    BY <2>1, <2>2, <2>3, <2>4, <2>5, <2>6, <2>7, <2>8, <2>9 DEF Step
<1> QED
  BY <1>2, <1>4, <1>5

\* An await given up, for whatever reason.
GivesUp(p, stays) ==
    /\ Abandon(p, stays) /\ Leaves(p) /\ pc[p] \notin {"idle", "done"}
    /\ pc'[p] = "release" => pc[p] \in Critical
    /\ \A q \in Requests \ {p} : Untouched(q)

LEMMA AbandonMoves ==
    ASSUME TypeOK, NEW p \in Requests,
           OwnerDeadlineElapses(p) \/ AwaitFails(p) \/ DropRequest(p)
    PROVE  \E stays \in BOOLEAN : GivesUp(p, stays)
<1>1. PICK stays \in BOOLEAN : Abandon(p, stays)
  BY DEF OwnerDeadlineElapses, AwaitFails, DropRequest
<1>2. \E r \in {TemporarilyUnavailable, Dropped} :
         Return(p, r) \/ (Release(p, r) /\ pc[p] \in Critical)
  BY DEF OwnerDeadlineElapses, AwaitFails, DropRequest
<1>3. Leaves(p) /\ \A q \in Requests \ {p} : Untouched(q)
  BY <1>2, LeaveMoves DEF Leaves, Outcome
<1>4. pc[p] \notin {"idle", "done"}
  BY DEF OwnerDeadlineElapses, AwaitFails, DropRequest, Critical, RedisCall
<1>5. pc'[p] = "release" => pc[p] \in Critical
  <2>1. CASE \E r : Return(p, r)
    BY <2>1, EnterLocal DEF Return, TypeOK, States
  <2> QED
    BY <1>2, <2>1
<1> QED
  BY <1>1, <1>3, <1>4, <1>5 DEF GivesUp

\* Every step of the system, by what the invariants below need of it.
Elsewhere ==
    /\ \A q \in Requests : Untouched(q)
    /\ UNCHANGED <<storeVars, late, asWork, asValid, issued, persisted, kept>>

LEMMA StepCases ==
    ASSUME TypeOK, [Next]_vars
    PROVE  \/ \E p \in Requests :
                 /\ AllMoves(p) /\ \A q \in Requests \ {p} : Untouched(q)
                 /\ UNCHANGED <<storeVars, late, asValid, issued, expiring, persisted, kept>>
           \/ \E p \in Requests, stays \in BOOLEAN : GivesUp(p, stays)
           \/ \E p \in Requests : Serve(p)
           \/ \E c \in late : ServeLate(c)
           \/ \E x \in asWork : ASAnswers(x)
           \/ \E t \in asValid : ASRevokes(t)
           \/ Tick
           \/ Elsewhere
<1>1. ASSUME NEW p \in Requests, Start(p) \/ Step(p) \/ AwaitFails(p) \/ DropRequest(p)
      PROVE  \/ /\ AllMoves(p) /\ \A q \in Requests \ {p} : Untouched(q)
                /\ UNCHANGED <<storeVars, late, asValid, issued, expiring, persisted, kept>>
             \/ \E stays \in BOOLEAN : GivesUp(p, stays)
  BY <1>1, StepMoves, AbandonMoves
<1>2. CASE UNCHANGED vars \/ \E at \in 1..issued : EntersSkew(at)
  BY <1>2 DEF vars, EntersSkew, requestVars, asVars, ghostVars, Elsewhere, Untouched
<1> QED
  BY <1>1, <1>2 DEF Next

-----------------------------------------------------------------------------
(* Which answers a request may hold where.                                 *)

Kinded(p) ==
    \/ reply[p] = NoReply
    \/ pc[p] \in Reads /\ reply[p].kind \in {"session", "missing"}
    \/ pc[p] \in {"update", "invalidate"}
       /\ reply[p].kind \in {"applied", "missing", "ownershipLost"}
    \/ pc[p] \in {"acquire", "release"} /\ reply[p].kind \in {"yes", "no"}
    \/ pc[p] = "exchange" /\ reply[p].kind \in {"tokens", "invalidGrant", "failed"}

AllKinded == \A p \in Requests : Kinded(p)

LEMMA InitKinded == Init => AllKinded
  BY DEF Init, AllKinded, Kinded

\* What Redis answers to the command of a request.
LEMMA ServeAnswers ==
    ASSUME TypeOK, NEW p \in Requests, Serve(p)
    PROVE  /\ UNCHANGED <<pc, held, result, late, asVars, kept, faults>>
           /\ \A q \in Requests \ {p} : reply'[q] = reply[q]
           /\ pc[p] \in RedisCall /\ reply[p] = NoReply
           /\ Command(p) \in Commands /\ Command(p).req = p /\ Execute(Command(p))
           /\ Command(p).op = OpOf[pc[p]] /\ Served
           /\ pc[p] \in Reads => reply'[p] = RedisGetAnswer
           /\ pc[p] \in {"update", "invalidate"} => reply'[p] = Reply(OwnedMutation(p))
           /\ pc[p] \in {"acquire", "release"} => reply'[p] \in {Reply("yes"), Reply("no")}
<1>1. /\ UNCHANGED <<pc, held, result, late, asVars, kept, faults>>
      /\ pc[p] \in RedisCall /\ reply[p] = NoReply /\ Execute(Command(p)) /\ Served
      /\ reply' = [reply EXCEPT ![p] = Answer(Command(p))]
  BY DEF Serve, Unanswered
<1>2. /\ reply'[p] = Answer(Command(p))
      /\ \A q \in Requests \ {p} : reply'[q] = reply[q]
  BY <1>1 DEF TypeOK, RequestTypeOK
<1>3. Command(p) \in Commands /\ Command(p).req = p /\ Command(p).op = OpOf[pc[p]]
  BY <1>1, CommandType DEF TypeOK, Command
<1>4. /\ pc[p] \in Reads => Command(p).op = "get"
      /\ pc[p] \in {"acquire", "release", "update", "invalidate"} => Command(p).op = pc[p]
  BY <1>1, <1>3 DEF OpOf, Reads, RedisCall
<1>5. pc[p] \in Reads => reply'[p] = RedisGetAnswer
  BY <1>2, <1>4 DEF Answer
<1>6. pc[p] \in {"update", "invalidate"} => reply'[p] = Reply(OwnedMutation(p))
  <2>1. CASE pc[p] = "update"
    BY <1>2, <1>3, <1>4, <2>1 DEF Answer
  <2>2. CASE pc[p] = "invalidate"
    BY <1>2, <1>3, <1>4, <2>2 DEF Answer
  <2> QED
    BY <2>1, <2>2
<1>7. pc[p] \in {"acquire", "release"} => reply'[p] \in {Reply("yes"), Reply("no")}
  <2>1. CASE pc[p] = "acquire"
    BY <1>2, <1>3, <1>4, <2>1 DEF Answer
  <2>2. CASE pc[p] = "release"
    BY <1>2, <1>3, <1>4, <2>2 DEF Answer
  <2> QED
    BY <2>1, <2>2
<1> QED
  BY <1>1, <1>2, <1>3, <1>5, <1>6, <1>7

LEMMA MutationAnswers ==
    ASSUME NEW p \in Requests
    PROVE  OwnedMutation(p) \in {"applied", "missing", "ownershipLost"}
  BY DEF OwnedMutation

\* The authorization server answers only a request that still awaits it.
LEMMA ServerAnswers ==
    ASSUME TypeOK, NEW x \in asWork, ASAnswers(x)
    PROVE  /\ UNCHANGED <<storeVars, pc, held, result, late, persisted, kept>>
           /\ asWork' = asWork \ {x} /\ x.req \in Requests
           /\ \A q \in Requests : reply'[q] # reply[q] =>
                  /\ q = x.req /\ pc[q] = "exchange" /\ reply[q] = NoReply
                  /\ reply'[q].kind \in {"tokens", "invalidGrant", "failed"}
<1>1. PICK a \in [kind : {"tokens", "invalidGrant", "failed"}, at : Nat, rt : Nat] :
          AnswerExchange(x, a)
  <2>1. issued + 1 \in Nat /\ NoToken \in Nat
    BY DEF TypeOK, ServerTypeOK, NoToken
  <2> QED
    BY <2>1 DEF ASAnswers, ASGrants, ASRefuses, ASFails, Reply
<1>2. x.req \in Requests
  BY DEF TypeOK, ServerTypeOK
<1> QED
  BY <1>1, <1>2 DEF AnswerExchange, Unanswered, ghostVars, TypeOK, RequestTypeOK

LEMMA NextKinded == TypeOK /\ AllKinded /\ [Next]_vars => AllKinded'
<1> SUFFICES ASSUME TypeOK, AllKinded, [Next]_vars, NEW q \in Requests PROVE Kinded(q)'
  BY DEF AllKinded
<1>0. Kinded(q)
  BY DEF AllKinded
<1>1. CASE Untouched(q) \/ (pc'[q] = pc[q] /\ reply'[q] = reply[q])
  BY <1>0, <1>1 DEF Kinded, Untouched
<1>2. CASE reply'[q] = NoReply
  BY <1>2 DEF Kinded
<1>3. ASSUME NEW p \in Requests, AllMoves(p), \A u \in Requests \ {p} : Untouched(u)
      PROVE  Kinded(q)'
  BY <1>1, <1>2, <1>3 DEF AllMoves, MovesOutside, MovesIn, MovesToExchange, MovesToUpdate,
     MovesToInvalidate, LeavesAnswered, Leaves, Moves
<1>4. ASSUME NEW p \in Requests, NEW stays \in BOOLEAN, GivesUp(p, stays)
      PROVE  Kinded(q)'
  BY <1>1, <1>2, <1>4 DEF GivesUp, Leaves
<1>5. ASSUME NEW p \in Requests, Serve(p) PROVE Kinded(q)'
  <2>1. CASE q # p
    BY <1>1, <1>5, <2>1, ServeAnswers
  <2>2. CASE q = p
    <3>1. pc'[p] = pc[p] /\ pc[p] \in RedisCall
      BY <1>5, ServeAnswers
    <3>2. CASE pc[p] \in Reads
      <4>1. reply'[p] = RedisGetAnswer
        BY <1>5, <3>2, ServeAnswers
      <4> QED
        BY <2>2, <3>1, <3>2, <4>1 DEF Kinded, RedisGetAnswer, Reply
    <3>3. CASE pc[p] \in {"update", "invalidate"}
      <4>1. reply'[p] = Reply(OwnedMutation(p))
        BY <1>5, <3>3, ServeAnswers
      <4> QED
        BY <2>2, <3>1, <3>3, <4>1, MutationAnswers DEF Kinded, Reply
    <3>4. CASE pc[p] \in {"acquire", "release"}
      <4>1. reply'[p] \in {Reply("yes"), Reply("no")}
        BY <1>5, <3>4, ServeAnswers
      <4> QED
        BY <2>2, <3>1, <3>4, <4>1 DEF Kinded, Reply
    <3> QED
      BY <3>1, <3>2, <3>3, <3>4 DEF RedisCall, Reads
  <2> QED
    BY <2>1, <2>2
<1>6. ASSUME NEW x \in asWork, ASAnswers(x) PROVE Kinded(q)'
  <2>1. pc'[q] = pc[q]
    BY <1>6, ServerAnswers
  <2>2. CASE reply'[q] # reply[q]
    <3>1. pc[q] = "exchange" /\ reply'[q].kind \in {"tokens", "invalidGrant", "failed"}
      BY <1>6, <2>2, ServerAnswers
    <3> QED
      BY <2>1, <3>1 DEF Kinded
  <2> QED
    BY <1>1, <2>1, <2>2
<1>7. CASE Tick \/ (\E c \in late : ServeLate(c)) \/ \E t \in asValid : ASRevokes(t)
  BY <1>1, <1>7 DEF Tick, ServeLate, ASRevokes, requestVars
<1>8. CASE Elsewhere
  BY <1>1, <1>8 DEF Elsewhere
<1> QED
  BY <1>3, <1>4, <1>5, <1>6, <1>7, <1>8, StepCases
LEMMA KindedAlways == Spec => []AllKinded
  BY InitKinded, NextKinded, TypeCorrect, PTL DEF Spec

\* The answers a request may go by, and where it gets them.
LEMMA KindsKnown ==
    ASSUME NEW p \in Requests, Kinded(p)
    PROVE  /\ reply[p].kind = "session" => pc[p] \in Reads
           /\ reply[p].kind = "missing" => pc[p] \in Reads \cup {"update", "invalidate"}
           /\ reply[p].kind = "applied" => pc[p] \in {"update", "invalidate"}
           /\ reply[p].kind \in {"tokens", "invalidGrant"} => pc[p] = "exchange"
           /\ pc[p] \in Reads /\ reply[p] # NoReply =>
                  reply[p].kind \in {"session", "missing"}
  BY DEF Kinded, NoReply, Reply, Reads

\* What a command does to the session.
LEMMA SessionMoves ==
    ASSUME NEW c \in Commands, Execute(c)
    PROVE  \/ session' = session
           \/ /\ c.op = "update" /\ lock.owner = c.req /\ SessionExists
              /\ session' = UpdatedSession(c)
           \/ /\ c.op = "invalidate" /\ lock.owner = c.req /\ session' = NoSession
  BY DEF Execute, RedisGet, RedisTryAcquireRefreshLock, RefreshUpdateScript,
     RefreshInvalidateScript, RefreshLockReleaseScript, OwnedMutation, IsLockOwner, storeVars

LEMMA UpdateMoves ==
    ASSUME StoreTypeOK, NEW c \in Commands, SessionExists, session' = UpdatedSession(c)
    PROVE  SessionExists' /\ session'.at = c.at /\ session'.rt = c.rt
  BY DEF StoreTypeOK, UpdatedSession, SessionExists

\* An applied update has been stored, an applied invalidation has removed the session.
LEMMA AppliedMutations ==
    ASSUME NEW c \in Commands, Execute(c), OwnedMutation(c.req) = "applied"
    PROVE  /\ SessionExists
           /\ c.op = "update" => session' = UpdatedSession(c)
           /\ c.op = "invalidate" => session' = NoSession
  BY DEF Execute, RedisGet, RedisTryAcquireRefreshLock, RefreshUpdateScript,
     RefreshInvalidateScript, RefreshLockReleaseScript, OwnedMutation

-----------------------------------------------------------------------------
(* A token a request goes by has been stored.                              *)

Persists(p) ==
    /\ reply[p].kind = "session" => reply[p].at \in persisted
    /\ pc[p] = "update" /\ reply[p].kind = "applied" => held[p].at \in persisted
    /\ result[p].kind = "ready" => result[p].at \in persisted

PersistInv ==
    /\ SessionExists => session.at \in persisted
    /\ \A p \in Requests : Persists(p)

LEMMA InitPersists == Init => PersistInv
  BY DEF Init, PersistInv, Persists, NoReply, Reply, Unresolved

LEMMA OutcomePersists ==
    ASSUME NEW p \in Requests, NEW r, Kinded(p), Persists(p), Outcome(p, r)
    PROVE  r.kind = "ready" => r.at \in persisted
<1>1. CASE pc[p] \in Reads /\ reply[p] # NoReply /\ r = ResolutionOf(reply[p])
  BY <1>1 DEF Persists, ResolutionOf, Ready, ReauthenticationRequired
<1>2. CASE pc[p] = "update" /\ reply[p] # NoReply /\ r = UpdateResolution(reply[p].kind, held[p].at)
  BY <1>2 DEF Kinded, Reads, Persists, UpdateResolution, Ready, ReauthenticationRequired,
     TemporarilyUnavailable
<1>3. CASE r = InvalidateResolution(reply[p].kind) \/ r \in {TemporarilyUnavailable, Dropped}
  BY <1>3 DEF InvalidateResolution, ReauthenticationRequired, TemporarilyUnavailable, Dropped
<1>4. CASE r = result[p]
  BY <1>4 DEF Persists
<1> QED
  BY <1>1, <1>2, <1>3, <1>4 DEF Outcome

LEMMA NextPersists == TypeOK /\ AllKinded /\ PersistInv /\ [Next]_vars => PersistInv'
<1> SUFFICES ASSUME TypeOK, AllKinded, PersistInv, [Next]_vars PROVE PersistInv'
  OBVIOUS
<1>0. ASSUME NEW q \in Requests PROVE Kinded(q) /\ Persists(q)
  BY DEF AllKinded, PersistInv
<1>1. ASSUME NEW q \in Requests, Untouched(q), persisted \subseteq persisted'
      PROVE  Persists(q)'
  BY <1>0, <1>1 DEF Persists, Untouched
<1>2. ASSUME NEW q \in Requests, reply'[q] = NoReply, persisted' = persisted,
             result'[q] = result[q] \/ Outcome(q, result'[q])
      PROVE  Persists(q)'
  <2>1. result'[q].kind = "ready" => result'[q].at \in persisted
    BY <1>0, <1>2, OutcomePersists DEF Persists
  <2> QED
    BY <1>2, <2>1 DEF Persists, NoReply, Reply
<1>3. ASSUME UNCHANGED <<session, persisted>>, NEW p \in Requests,
             \A q \in Requests \ {p} : Untouched(q), Persists(p)'
      PROVE  PersistInv'
  BY <1>1, <1>3 DEF PersistInv, SessionExists
<1>4. ASSUME NEW p \in Requests, AllMoves(p), \A q \in Requests \ {p} : Untouched(q),
             UNCHANGED <<storeVars, persisted>>
      PROVE  PersistInv'
  <2>1. reply'[p] = NoReply /\ (result'[p] = result[p] \/ Outcome(p, result'[p]))
    BY <1>4 DEF AllMoves, MovesOutside, MovesIn, MovesToExchange, MovesToUpdate,
       MovesToInvalidate, LeavesAnswered, Leaves, Moves
  <2> QED
    BY <1>2, <1>3, <1>4, <2>1 DEF storeVars
<1>5. ASSUME NEW p \in Requests, NEW stays \in BOOLEAN, GivesUp(p, stays)
      PROVE  PersistInv'
  BY <1>2, <1>3, <1>5 DEF GivesUp, Leaves, Abandon, storeVars
<1>6. ASSUME Served
      PROVE  persisted \subseteq persisted' /\ (SessionExists' => session'.at \in persisted')
  BY <1>6 DEF Served, SessionExists
<1>7. ASSUME NEW p \in Requests, Serve(p) PROVE PersistInv'
  <2>1. Served /\ \A q \in Requests \ {p} : Untouched(q)
    BY <1>7, ServeAnswers DEF Untouched
  <2>2. UNCHANGED <<pc, held, result>>
    BY <1>7, ServeAnswers
  <2>3. CASE pc[p] \in Reads
    <3>1. reply'[p] = RedisGetAnswer
      BY <1>7, <2>3, ServeAnswers
    <3>2. reply'[p].kind = "session" => reply'[p].at \in persisted
      BY <3>1 DEF RedisGetAnswer, Reply, PersistInv
    <3> QED
      BY <1>0, <1>1, <1>6, <2>1, <2>2, <2>3, <3>2 DEF PersistInv, Persists, Reads
  <2>4. CASE pc[p] \in {"update", "invalidate"}
    <3>1. reply'[p] = Reply(OwnedMutation(p))
      BY <1>7, <2>4, ServeAnswers
    <3>2. reply'[p].kind # "session"
      BY <3>1, MutationAnswers DEF Reply
    <3>3. ASSUME pc[p] = "update", reply'[p].kind = "applied" PROVE held[p].at \in persisted'
      <4>1. OwnedMutation(p) = "applied"
        BY <3>1, <3>3 DEF Reply
      <4>2. Command(p) \in Commands /\ Execute(Command(p)) /\ Command(p).op = "update"
        BY <1>7, <3>3, ServeAnswers DEF OpOf, RedisCall
      <4>3. session' = UpdatedSession(Command(p)) /\ SessionExists
        BY <4>1, <4>2, AppliedMutations DEF Command
      <4>4. SessionExists' /\ session'.at = held[p].at
        BY <4>2, <4>3, UpdateMoves DEF TypeOK, Command
      <4> QED
        BY <1>6, <2>1, <4>4
    <3> QED
      BY <1>0, <1>1, <1>6, <2>1, <2>2, <2>4, <3>2, <3>3 DEF PersistInv, Persists
  <2>5. CASE pc[p] \in {"acquire", "release"}
    <3>1. reply'[p] \in {Reply("yes"), Reply("no")}
      BY <1>7, <2>5, ServeAnswers
    <3> QED
      BY <1>0, <1>1, <1>6, <2>1, <2>2, <2>5, <3>1 DEF PersistInv, Persists, Reply
  <2> QED
    BY <1>7, <2>3, <2>4, <2>5, ServeAnswers DEF RedisCall, Reads
<1>8. ASSUME NEW c \in late, ServeLate(c) PROVE PersistInv'
  <2>1. Served /\ \A q \in Requests : Untouched(q)
    BY <1>8 DEF ServeLate, requestVars, Untouched
  <2> QED
    BY <1>1, <1>6, <2>1 DEF PersistInv
<1>9. ASSUME NEW x \in asWork, ASAnswers(x) PROVE PersistInv'
  <2>1. UNCHANGED <<session, persisted, pc, held, result>>
    BY <1>9, ServerAnswers DEF storeVars
  <2>2. ASSUME NEW q \in Requests PROVE Persists(q)'
    <3>1. CASE reply'[q] = reply[q]
      BY <1>0, <2>1, <3>1 DEF Persists
    <3>2. CASE reply'[q] # reply[q]
      <4>1. pc[q] = "exchange" /\ reply'[q].kind \in {"tokens", "invalidGrant", "failed"}
        BY <1>9, <3>2, ServerAnswers
      <4> QED
        BY <1>0, <2>1, <4>1 DEF Persists
    <3> QED
      BY <3>1, <3>2
  <2> QED
    BY <2>1, <2>2 DEF PersistInv, SessionExists
<1>10. CASE Tick
  <2>1. UNCHANGED <<pc, reply, held, result, persisted>> /\ session' = AgedSession
    BY <1>10 DEF Tick, StoreTick, ghostVars
  <2>2. SessionExists' => SessionExists /\ session'.at = session.at
    BY <2>1 DEF AgedSession, NoSession, SessionExists, TypeOK, StoreTypeOK
  <2> QED
    BY <1>1, <2>1, <2>2 DEF PersistInv, Untouched
<1>11. CASE Elsewhere \/ \E t \in asValid : ASRevokes(t)
  <2>1. UNCHANGED <<session, persisted>> /\ \A q \in Requests : Untouched(q)
    BY <1>11 DEF Elsewhere, ASRevokes, Untouched, storeVars, requestVars
  <2> QED
    BY <1>1, <2>1 DEF PersistInv, SessionExists
<1> QED
  BY <1>4, <1>5, <1>7, <1>8, <1>9, <1>10, <1>11, StepCases

(* A request is told it has an access token only if the store has held it: *)
(* for every timing, with owners that overran their lease too              *)
(* (refresh_with_ownership_inner, src/src/oidc/refresh.rs lines 335-343).  *)
THEOREM OnlyPersistedReady == Spec => []ReadyIsPersisted
<1>1. PersistInv => ReadyIsPersisted
  BY DEF PersistInv, Persists, ReadyIsPersisted
<1> QED
  BY <1>1, InitPersists, NextPersists, TypeCorrect, KindedAlways, PTL DEF Spec
-----------------------------------------------------------------------------
(* A session that is over stays over: a session without refresh token never *)
(* meets a request that would give it one.                                 *)

Over == ~SessionExists \/ session.rt = NoToken

Refreshing == {"exchange", "update", "invalidate"}

Final(p) ==
    /\ pc[p] \in Refreshing => held[p].rt # NoToken
    /\ reply[p].kind = "missing" => ~SessionExists
    /\ pc[p] = "invalidate" /\ reply[p].kind = "applied" => ~SessionExists
    /\ reply[p].kind = "session" /\ reply[p].rt = NoToken => Over
    /\ result[p].kind = "reauthenticate" => Over

\* Nobody is about to refresh a session that has no refresh token.
Unrefreshable(p) ==
    pc[p] \notin Refreshing /\ (reply[p].kind = "session" => reply[p].rt = NoToken)

FinalInv ==
    /\ \A p \in Requests : Final(p)
    /\ \A c \in late : c.op = "update" => c.rt # NoToken
    /\ SessionExists /\ session.rt = NoToken =>
           /\ \A p \in Requests : Unrefreshable(p)
           /\ \A c \in late : c.op # "update"

LEMMA InitFinal == Init => FinalInv
  BY DEF Init, FinalInv, Final, Unrefreshable, Refreshing, NoReply, Reply, Unresolved

LEMMA OutcomeFinal ==
    ASSUME NEW p \in Requests, NEW r, Kinded(p), Final(p), Outcome(p, r)
    PROVE  r.kind = "reauthenticate" => Over
<1>1. CASE pc[p] \in Reads /\ reply[p] # NoReply /\ ResolvesAtOnce(reply[p])
           /\ r = ResolutionOf(reply[p])
  BY <1>1, KindsKnown
     DEF Final, ResolutionOf, ResolvesAtOnce, Ready, ReauthenticationRequired, Over
<1>2. CASE pc[p] = "update" /\ reply[p] # NoReply /\ r = UpdateResolution(reply[p].kind, held[p].at)
  BY <1>2 DEF Final, Over, UpdateResolution, Ready, TemporarilyUnavailable
<1>3. CASE pc[p] = "invalidate" /\ reply[p] # NoReply /\ r = InvalidateResolution(reply[p].kind)
  BY <1>3 DEF Kinded, Reads, Final, Over, InvalidateResolution, TemporarilyUnavailable
<1>4. CASE r \in {TemporarilyUnavailable, Dropped} \/ r = result[p]
  BY <1>4 DEF Final, TemporarilyUnavailable, Dropped
<1> QED
  BY <1>1, <1>2, <1>3, <1>4 DEF Outcome

\* A step that leaves the session in its state of health preserves the rest.
LEMMA FinalKept ==
    ASSUME FinalInv, ~SessionExists => ~SessionExists', Over => Over',
           NEW q \in Requests, Untouched(q)
    PROVE  Final(q)'
  BY DEF FinalInv, Final, Untouched, Over

LEMMA NextFinal == TypeOK /\ AllKinded /\ FinalInv /\ [Next]_vars => FinalInv'
<1> SUFFICES ASSUME TypeOK, AllKinded, FinalInv, [Next]_vars PROVE FinalInv'
  OBVIOUS
<1>0. ASSUME NEW q \in Requests
      PROVE  /\ Kinded(q) /\ Final(q)
             /\ SessionExists /\ session.rt = NoToken => Unrefreshable(q)
  BY DEF AllKinded, FinalInv
<1>1. ASSUME UNCHANGED <<session, late>>, NEW p \in Requests,
             \A q \in Requests \ {p} : Untouched(q), Final(p)',
             Unrefreshable(p) => Unrefreshable(p)'
      PROVE  FinalInv'
  <2>1. \A q \in Requests : Final(q)'
    BY <1>1, FinalKept DEF Over, SessionExists
  <2>2. \A q \in Requests : Unrefreshable(q) => Unrefreshable(q)'
    BY <1>1 DEF Unrefreshable, Untouched
  <2> QED
    BY <1>1, <2>1, <2>2 DEF FinalInv, SessionExists
<1>2. ASSUME NEW p \in Requests, AllMoves(p), \A q \in Requests \ {p} : Untouched(q),
             UNCHANGED <<storeVars, late>>
      PROVE  FinalInv'
  <2>1. reply'[p] = NoReply /\ (result'[p] = result[p] \/ Outcome(p, result'[p]))
    BY <1>2 DEF AllMoves, MovesOutside, MovesIn, MovesToExchange, MovesToUpdate,
       MovesToInvalidate, LeavesAnswered, Leaves, Moves
  <2>2. result'[p].kind = "reauthenticate" => Over'
    BY <1>0, <1>2, <2>1, OutcomeFinal DEF Final, Over, SessionExists, storeVars
  <2>3. pc'[p] \in Refreshing =>
          \/ pc[p] \in Refreshing /\ (held'[p] = held[p] \/ held'[p] = Refreshed(p))
          \/ MovesToExchange(p)
    BY <1>2 DEF AllMoves, MovesOutside, MovesIn, MovesToUpdate,
       MovesToInvalidate, LeavesAnswered, Leaves, Moves, Refreshing
  <2>4. MovesToExchange(p) => held'[p].rt # NoToken /\ ~Unrefreshable(p)
    BY <1>0, KindsKnown DEF MovesToExchange, ResolvesAtOnce, Unrefreshable, Reads
  <2>5. pc'[p] \in Refreshing => held'[p].rt # NoToken
    BY <1>0, <2>3, <2>4 DEF Final, Refreshed
  <2>6. Final(p)'
    BY <2>1, <2>2, <2>5 DEF Final, NoReply, Reply
  <2>7. Unrefreshable(p) => Unrefreshable(p)'
    BY <2>1, <2>3, <2>4 DEF Unrefreshable, NoReply, Reply
  <2> QED
    BY <1>1, <1>2, <2>6, <2>7 DEF storeVars
<1>3. ASSUME NEW p \in Requests, NEW stays \in BOOLEAN, GivesUp(p, stays)
      PROVE  FinalInv'
  <2>1. /\ UNCHANGED session /\ Leaves(p) /\ \A q \in Requests \ {p} : Untouched(q)
        /\ late' = late \/ (pc[p] \in RedisCall /\ late' = late \cup {Command(p)})
    BY <1>3 DEF GivesUp, Abandon, storeVars
  <2>2. result'[p].kind = "reauthenticate" => Over'
    BY <1>0, <2>1, OutcomeFinal DEF Leaves, Over, SessionExists
  <2>3. Final(p)' /\ Unrefreshable(p)'
    BY <2>1, <2>2 DEF Final, Unrefreshable, Leaves, Refreshing, NoReply, Reply
  <2>4. \A q \in Requests : Final(q)'
    BY <2>1, <2>3, FinalKept DEF Over, SessionExists
  <2>5. \A q \in Requests : Unrefreshable(q) => Unrefreshable(q)'
    BY <2>1, <2>3 DEF Unrefreshable, Untouched
  <2>6. pc[p] \in RedisCall /\ Command(p).op = "update" =>
          pc[p] = "update" /\ Command(p).rt = held[p].rt
    BY DEF Command, OpOf
  <2>7. pc[p] = "update" => held[p].rt # NoToken /\ ~Unrefreshable(p)
    BY <1>0 DEF Final, Unrefreshable, Refreshing
  <2> QED
    BY <2>1, <2>4, <2>5, <2>6, <2>7 DEF FinalInv, SessionExists
\* A command keeps a session that is over so, and one that is not refreshable.
<1>4. ASSUME NEW c \in Commands, Execute(c), c.op = "update" => c.rt # NoToken,
             SessionExists /\ session.rt = NoToken => c.op # "update"
      PROVE  /\ ~SessionExists => ~SessionExists'
             /\ Over => Over'
             /\ SessionExists' /\ session'.rt = NoToken => SessionExists /\ session.rt = NoToken
  <2>1. CASE session' = session
    BY <2>1 DEF Over, SessionExists
  <2>2. CASE c.op = "update" /\ SessionExists /\ session' = UpdatedSession(c)
    BY <1>4, <2>2, UpdateMoves DEF Over, TypeOK
  <2>3. CASE session' = NoSession
    BY <2>3 DEF Over, SessionExists, NoSession
  <2> QED
    BY <1>4, <2>1, <2>2, <2>3, SessionMoves
<1>5. ASSUME NEW p \in Requests, Serve(p) PROVE FinalInv'
  <2>1. /\ UNCHANGED <<pc, held, result, late>> /\ \A q \in Requests \ {p} : Untouched(q)
        /\ Command(p) \in Commands /\ Execute(Command(p)) /\ Command(p).req = p
        /\ Command(p).op = OpOf[pc[p]] /\ Command(p).rt = held[p].rt
    BY <1>5, ServeAnswers DEF Untouched, Command
  <2>2. /\ pc[p] = "update" => held[p].rt # NoToken /\ ~Unrefreshable(p)
        /\ Command(p).op = "update" => pc[p] = "update"
    BY <1>0, <1>5, <2>1, ServeAnswers DEF Final, Unrefreshable, Refreshing, OpOf
  <2>3. /\ ~SessionExists => ~SessionExists'
        /\ Over => Over'
        /\ SessionExists' /\ session'.rt = NoToken => SessionExists /\ session.rt = NoToken
    BY <1>0, <1>4, <2>1, <2>2
  <2>4. Final(p)' /\ (SessionExists' /\ session'.rt = NoToken => Unrefreshable(p)')
    <3>1. CASE pc[p] \in Reads
      <4>1. reply'[p] = RedisGetAnswer /\ session' = session
        BY <1>5, <2>1, <3>1, ServeAnswers, SessionMoves DEF Reads, OpOf, RedisCall
      <4> QED
        BY <1>0, <2>1, <2>3, <3>1, <4>1 DEF Final, Unrefreshable, Refreshing, Reads,
           RedisGetAnswer, Reply, Over, SessionExists
    <3>2. CASE pc[p] \in {"update", "invalidate"}
      <4>1. reply'[p] = Reply(OwnedMutation(p))
        BY <1>5, <3>2, ServeAnswers
      <4>2. reply'[p].kind = "missing" => ~SessionExists
        BY <2>3, <4>1, NoOwnerAssumption DEF OwnedMutation, Reply
      <4>3. pc[p] = "invalidate" /\ reply'[p].kind = "applied" => ~SessionExists'
        <5>1. ASSUME pc[p] = "invalidate", reply'[p].kind = "applied" PROVE ~SessionExists'
          <6>1. OwnedMutation(p) = "applied"
            BY <4>1, <5>1 DEF Reply
          <6>2. Command(p).op = "invalidate"
            BY <2>1, <5>1 DEF OpOf, RedisCall
          <6> QED
            BY <2>1, <6>1, <6>2, AppliedMutations DEF NoSession, SessionExists
        <5> QED
          BY <5>1
      <4>4. reply'[p].kind # "session"
        BY <4>1, MutationAnswers DEF Reply
      <4>5. Final(p)'
        BY <1>0, <2>1, <2>3, <3>2, <4>2, <4>3, <4>4 DEF Final
      <4>6. ~Unrefreshable(p)
        BY <3>2 DEF Unrefreshable, Refreshing
      <4> QED
        BY <1>0, <2>3, <4>5, <4>6
    <3>3. CASE pc[p] \in {"acquire", "release"}
      <4>1. reply'[p] \in {Reply("yes"), Reply("no")}
        BY <1>5, <3>3, ServeAnswers
      <4> QED
        BY <1>0, <2>1, <2>3, <3>3, <4>1 DEF Final, Unrefreshable, Refreshing, Reply
    <3> QED
      BY <1>5, <3>1, <3>2, <3>3, ServeAnswers DEF RedisCall, Reads
  <2>5. \A q \in Requests : Final(q)'
    BY <2>1, <2>3, <2>4, FinalKept
  <2>6. SessionExists' /\ session'.rt = NoToken => \A q \in Requests : Unrefreshable(q)'
    BY <1>0, <2>1, <2>3, <2>4 DEF Unrefreshable, Untouched
  <2> QED
    BY <2>1, <2>3, <2>5, <2>6 DEF FinalInv
<1>6. ASSUME NEW c \in late, ServeLate(c) PROVE FinalInv'
  <2>1. c \in Commands /\ Execute(c) /\ late' \subseteq late /\ \A q \in Requests : Untouched(q)
    BY <1>6 DEF ServeLate, requestVars, Untouched, TypeOK
  <2>2. /\ ~SessionExists => ~SessionExists'
        /\ Over => Over'
        /\ SessionExists' /\ session'.rt = NoToken => SessionExists /\ session.rt = NoToken
    BY <1>4, <1>6, <2>1 DEF FinalInv
  <2> QED
    BY <2>1, <2>2, FinalKept DEF FinalInv, Unrefreshable, Untouched
<1>7. ASSUME NEW x \in asWork, ASAnswers(x) PROVE FinalInv'
  <2>1. UNCHANGED <<session, late, pc, held, result>>
    BY <1>7, ServerAnswers DEF storeVars
  <2>2. ASSUME NEW q \in Requests
        PROVE  Final(q)' /\ (Unrefreshable(q) => Unrefreshable(q)')
    <3>1. CASE reply'[q] = reply[q]
      BY <1>0, <2>1, <3>1 DEF Final, Unrefreshable, Over, SessionExists
    <3>2. CASE reply'[q] # reply[q]
      <4>1. pc[q] = "exchange" /\ reply'[q].kind \in {"tokens", "invalidGrant", "failed"}
        BY <1>7, <3>2, ServerAnswers
      <4> QED
        BY <1>0, <2>1, <4>1 DEF Final, Unrefreshable, Refreshing, Over, SessionExists
    <3> QED
      BY <3>1, <3>2
  <2> QED
    BY <2>1, <2>2 DEF FinalInv, SessionExists
<1>8. CASE Tick
  <2>1. UNCHANGED <<pc, reply, held, result, late>> /\ session' = AgedSession
    BY <1>8 DEF Tick, StoreTick
  <2>2. /\ ~SessionExists => ~SessionExists'
        /\ SessionExists' => session'.rt = session.rt
    BY <2>1 DEF AgedSession, NoSession, SessionExists, TypeOK, StoreTypeOK
  <2>3. Over => Over'
    BY <2>2 DEF Over
  <2> QED
    BY <2>1, <2>2, <2>3, FinalKept DEF FinalInv, Unrefreshable, Untouched
<1>9. CASE Elsewhere \/ \E t \in asValid : ASRevokes(t)
  <2>1. UNCHANGED <<session, late>> /\ \A q \in Requests : Untouched(q)
    BY <1>9 DEF Elsewhere, ASRevokes, Untouched, storeVars, requestVars
  <2> QED
    BY <2>1, FinalKept DEF FinalInv, Unrefreshable, Untouched, Over, SessionExists
<1> QED
  BY <1>2, <1>3, <1>5, <1>6, <1>7, <1>8, <1>9, StepCases

(* No request demands reauthentication of a session that is, or could      *)
(* again become, usable: not for a refused exchange that lost its lock,    *)
(* not for an update nobody acknowledged (src/src/oidc/refresh.rs lines    *)
(* 335-361).                                                               *)
THEOREM OnlyOverReauthenticates == Spec => []ReauthenticationIsFinal
<1>1. FinalInv => ReauthenticationIsFinal
  BY DEF FinalInv, Final, Over, ReauthenticationIsFinal
<1> QED
  BY <1>1, InitFinal, NextFinal, TypeCorrect, KindedAlways, PTL DEF Spec

-----------------------------------------------------------------------------
(* Nobody holds a token that was not issued yet.                           *)

Issued(p) == held[p].at <= issued /\ reply[p].at <= issued

IssuedInv ==
    /\ session.at <= issued
    /\ \A p \in Requests : Issued(p)
    /\ \A c \in late : c.at <= issued

LEMMA InitIssued == Init => IssuedInv
  BY DEF Init, IssuedInv, Issued, NoReply, Reply, NoTokens, NoToken

\* A command of a request carries what the request holds.
LEMMA CommandCarries ==
    ASSUME NEW p \in Requests
    PROVE  /\ Command(p).req = p /\ Command(p).at = held[p].at /\ Command(p).rt = held[p].rt
           /\ pc[p] \in RedisCall => Command(p).op = OpOf[pc[p]]
  BY DEF Command

LEMMA ExecuteIssued ==
    ASSUME TypeOK, NEW c \in Commands, Execute(c), session.at <= issued, c.at <= issued,
           issued' = issued
    PROVE  session'.at <= issued'
<1>1. CASE session' = session
  BY <1>1
<1>2. CASE SessionExists /\ session' = UpdatedSession(c)
  BY <1>2, UpdateMoves DEF TypeOK
<1>3. CASE session' = NoSession
  BY <1>3 DEF NoSession, NoToken, TypeOK, ServerTypeOK
<1> QED
  BY <1>1, <1>2, <1>3, SessionMoves

LEMMA NextIssued == TypeOK /\ AllKinded /\ IssuedInv /\ [Next]_vars => IssuedInv'
<1> SUFFICES ASSUME TypeOK, AllKinded, IssuedInv, [Next]_vars PROVE IssuedInv'
  OBVIOUS
<1>0. issued \in Nat /\ NoReply.at <= issued /\ NoTokens.at <= issued
  BY DEF TypeOK, ServerTypeOK, NoReply, Reply, NoTokens, NoToken
<1>1. ASSUME NEW p \in Requests, \A q \in Requests \ {p} : Untouched(q),
             UNCHANGED <<session, late, issued>>,
             reply'[p] = NoReply,
             held'[p] \in {held[p], NoTokens} \/ held'[p].at = reply[p].at
      PROVE  IssuedInv'
  BY <1>0, <1>1 DEF IssuedInv, Issued, Untouched
<1>2. ASSUME NEW p \in Requests, AllMoves(p), \A q \in Requests \ {p} : Untouched(q),
             UNCHANGED <<storeVars, late, issued>>
      PROVE  IssuedInv'
  <2>1. reply'[p] = NoReply /\ (held'[p] \in {held[p], NoTokens} \/ held'[p].at = reply[p].at)
    BY <1>2 DEF AllMoves, MovesOutside, MovesIn, MovesToExchange, MovesToUpdate,
       MovesToInvalidate, LeavesAnswered, Leaves, Moves, Refreshed
  <2> QED
    BY <1>1, <1>2, <2>1 DEF storeVars
<1>3. ASSUME NEW p \in Requests, NEW stays \in BOOLEAN, GivesUp(p, stays)
      PROVE  IssuedInv'
  <2>1. /\ reply'[p] = NoReply /\ held'[p] = NoTokens
        /\ \A q \in Requests \ {p} : Untouched(q)
        /\ UNCHANGED <<session, issued>> /\ late' \subseteq late \cup {Command(p)}
    BY <1>3 DEF GivesUp, Abandon, Leaves, storeVars
  <2>2. Command(p).at <= issued
    BY CommandCarries DEF IssuedInv, Issued
  <2> QED
    BY <1>0, <2>1, <2>2 DEF IssuedInv, Issued, Untouched
<1>4. ASSUME NEW p \in Requests, Serve(p) PROVE IssuedInv'
  <2>1. /\ UNCHANGED <<held, late, issued>> /\ \A q \in Requests \ {p} : reply'[q] = reply[q]
        /\ Command(p) \in Commands /\ Execute(Command(p))
    BY <1>4, ServeAnswers DEF asVars
  <2>2. reply'[p].at \in {session.at, NoToken}
    <3>1. \/ reply'[p] = RedisGetAnswer
          \/ reply'[p] = Reply(OwnedMutation(p))
          \/ reply'[p] \in {Reply("yes"), Reply("no")}
      BY <1>4, ServeAnswers DEF RedisCall, Reads
    <3> QED
      BY <3>1 DEF RedisGetAnswer, Reply
  <2>3. session'.at <= issued'
    BY <2>1, ExecuteIssued, CommandCarries DEF IssuedInv, Issued
  <2>4. reply'[p].at <= issued
    BY <1>0, <2>2 DEF IssuedInv, NoToken
  <2> QED
    BY <2>1, <2>3, <2>4 DEF IssuedInv, Issued
<1>5. ASSUME NEW c \in late, ServeLate(c) PROVE IssuedInv'
  <2>1. /\ c \in Commands /\ Execute(c) /\ late' \subseteq late
        /\ UNCHANGED <<reply, held, issued>>
    BY <1>5 DEF ServeLate, requestVars, asVars, TypeOK
  <2> QED
    BY <2>1, ExecuteIssued DEF IssuedInv, Issued
<1>6. ASSUME NEW x \in asWork, ASAnswers(x) PROVE IssuedInv'
  <2>1. UNCHANGED <<session, late, held>>
    BY <1>6, ServerAnswers DEF storeVars
  <2>2. issued' >= issued /\ \A q \in Requests : reply'[q].at <= issued'
    <3>1. CASE ASGrants(x)
      <4>1. issued' = issued + 1 /\ \E a : AnswerExchange(x, a) /\ a.at = issued'
        BY <3>1 DEF ASGrants
      <4> QED
        BY <1>0, <4>1 DEF AnswerExchange, TypeOK, RequestTypeOK, Tokens, IssuedInv, Issued
    <3>2. CASE ASRefuses(x) \/ ASFails(x)
      <4>1. issued' = issued /\ \E a : AnswerExchange(x, a) /\ a.at = NoToken
        BY <3>2 DEF ASRefuses, ASFails, Reply
      <4> QED
        BY <1>0, <4>1 DEF AnswerExchange, TypeOK, RequestTypeOK, Tokens, IssuedInv, Issued, NoToken
    <3> QED
      BY <1>6, <3>1, <3>2 DEF ASAnswers
  <2>3. /\ session.at \in Nat /\ issued' \in Nat
        /\ \A q \in Requests : held[q].at \in Nat
        /\ \A c \in late : c.at \in Nat
    BY <1>6, <1>0 DEF TypeOK, StoreTypeOK, RequestTypeOK, Tokens, Commands, ASAnswers, ASGrants,
       ASRefuses, ASFails
  <2> QED
    BY <1>0, <2>1, <2>2, <2>3 DEF IssuedInv, Issued
<1>7. CASE Tick
  <2>1. UNCHANGED <<reply, held, late, issued>> /\ session' = AgedSession
    BY <1>7 DEF Tick, StoreTick, asVars
  <2>2. session'.at \in {session.at, NoToken}
    BY <2>1 DEF AgedSession, NoSession, TypeOK, StoreTypeOK
  <2> QED
    BY <1>0, <2>1, <2>2 DEF IssuedInv, Issued, NoToken
<1>8. CASE Elsewhere \/ \E t \in asValid : ASRevokes(t)
  <2>1. UNCHANGED <<session, late, issued>> /\ \A q \in Requests : Untouched(q)
    BY <1>8 DEF Elsewhere, ASRevokes, Untouched, storeVars, requestVars
  <2> QED
    BY <2>1 DEF IssuedInv, Issued, Untouched
<1> QED
  BY <1>2, <1>3, <1>4, <1>5, <1>6, <1>7, <1>8, StepCases
-----------------------------------------------------------------------------
(* What a request has left behind: at most one command besides a release,  *)
(* and the request itself is past its critical section.                    *)

OneLeft ==
    \A c, d \in late :
        c.req = d.req /\ c.op # "release" /\ d.op # "release" => c = d

LateInv == LeftBehind /\ OneLeft

LEMMA InitLate == Init => LateInv
  BY DEF Init, LateInv, LeftBehind, OneLeft

LEMMA NextLate == TypeOK /\ LateInv /\ [Next]_vars => LateInv'
<1> SUFFICES ASSUME TypeOK, LateInv, [Next]_vars PROVE LateInv'
  OBVIOUS
<1>0. \A c \in late : c.req \in Requests /\ pc[c.req] \in {"release", "done"}
  BY DEF LateInv, LeftBehind, TypeOK, Commands
<1>1. ASSUME late' \subseteq late,
             \A q \in Requests : pc[q] \in {"release", "done"} => pc'[q] \in {"release", "done"}
      PROVE  LateInv'
  BY <1>0, <1>1 DEF LateInv, LeftBehind, OneLeft
<1>2. ASSUME NEW p \in Requests, AllMoves(p), \A q \in Requests \ {p} : Untouched(q),
             late' = late
      PROVE  LateInv'
  <2>1. pc[p] \in {"release", "done"} => pc'[p] \in {"release", "done"}
    BY <1>2 DEF AllMoves, MovesOutside, MovesIn, MovesToExchange, MovesToUpdate,
       MovesToInvalidate, LeavesAnswered, Leaves
  <2> QED
    BY <1>1, <1>2, <2>1 DEF Untouched
<1>3. ASSUME NEW p \in Requests, NEW stays \in BOOLEAN, GivesUp(p, stays)
      PROVE  LateInv'
  <2>1. /\ pc'[p] \in {"release", "done"} /\ pc[p] # "done"
        /\ \A q \in Requests \ {p} : pc'[q] = pc[q]
        /\ late' = late \/ (pc[p] \in RedisCall /\ late' = late \cup {Command(p)})
    BY <1>3 DEF GivesUp, Abandon, Leaves, Untouched
  <2>2. LeftBehind'
    BY <1>0, <2>1, CommandCarries DEF LeftBehind
  <2>3. pc[p] \in RedisCall /\ Command(p).op # "release" => \A c \in late : c.req # p
    BY <1>0, CommandCarries DEF OpOf, RedisCall
  <2>4. OneLeft'
    BY <2>1, <2>3, CommandCarries DEF LateInv, OneLeft
  <2> QED
    BY <2>2, <2>4 DEF LateInv
<1>4. CASE (\E p \in Requests : Serve(p)) \/ (\E c \in late : ServeLate(c)) \/ Tick
  BY <1>1, <1>4 DEF Serve, ServeLate, Tick, requestVars
<1>5. CASE (\E x \in asWork : ASAnswers(x)) \/ (\E t \in asValid : ASRevokes(t))
  BY <1>1, <1>5, ServerAnswers DEF ASRevokes, requestVars
<1>6. CASE Elsewhere
  BY <1>1, <1>6 DEF Elsewhere, Untouched
<1> QED
  BY <1>2, <1>3, <1>4, <1>5, <1>6, StepCases

-----------------------------------------------------------------------------
(* The owner of the lock goes by what is stored, and what it is about to   *)
(* store, or has left behind to be stored, is newer.                       *)

Abreast(p) ==
    /\ pc[p] = "recheck" /\ reply[p].kind = "session" =>
           reply[p].at = session.at /\ reply[p].rt = session.rt
    /\ pc[p] = "exchange" => held[p].at = session.at /\ held[p].rt = session.rt
    /\ pc[p] = "exchange" /\ reply[p].kind = "tokens" => reply[p].at > session.at
    /\ pc[p] = "update" /\ reply[p] = NoReply => held[p].at > session.at

Newer(c) == c.op = "update" => c.at > session.at

CurrentInv ==
    SessionExists =>
        /\ \A p \in Requests : lock.owner = p => Abreast(p)
        /\ \A c \in late : lock.owner = c.req => Newer(c)

LEMMA InitCurrent == Init => CurrentInv
  BY DEF Init, CurrentInv, Abreast

\* How the lock changes hands.
LEMMA OwnerMoves ==
    ASSUME NEW c \in Commands, Execute(c), NEW q \in Requests, lock'.owner = q
    PROVE  lock.owner = q \/ (c.op = "acquire" /\ c.req = q /\ session' = session)
  BY NoOwnerAssumption DEF Execute, RedisGet, RedisTryAcquireRefreshLock, RefreshUpdateScript,
     RefreshInvalidateScript, RefreshLockReleaseScript, LockAfterRelease, Unlocked, storeVars

\* An update only takes effect for the owner, an invalidation ends the session.
LEMMA OnlyOwnerStores ==
    ASSUME NEW c \in Commands, Execute(c), SessionExists'
    PROVE  /\ SessionExists
           /\ session' = session \/ (c.op = "update" /\ lock.owner = c.req /\ lock' = lock)
  BY SessionMoves DEF Execute, RedisGet, RedisTryAcquireRefreshLock, RefreshUpdateScript,
     RefreshInvalidateScript, RefreshLockReleaseScript, NoSession, SessionExists, storeVars

LEMMA NextCurrent ==
    TypeOK /\ AllKinded /\ IssuedInv /\ LateInv /\ CurrentInv /\ [Next]_vars => CurrentInv'
<1> SUFFICES ASSUME TypeOK, AllKinded, IssuedInv, LateInv, CurrentInv, [Next]_vars,
                    SessionExists'
             PROVE  /\ \A p \in Requests : lock'.owner = p => Abreast(p)'
                    /\ \A c \in late' : lock'.owner = c.req => Newer(c)'
  BY DEF CurrentInv
<1>0. \A c \in late : c.req \in Requests /\ pc[c.req] \in {"release", "done"}
  BY DEF LateInv, LeftBehind, TypeOK, Commands
<1>1. ASSUME NEW q \in Requests, Untouched(q), session' = session, Abreast(q)
      PROVE  Abreast(q)'
  BY <1>1 DEF Abreast, Untouched
<1>2. ASSUME NEW p \in Requests, AllMoves(p), \A q \in Requests \ {p} : Untouched(q),
             UNCHANGED <<storeVars, late>>
      PROVE  /\ \A q \in Requests : lock'.owner = q => Abreast(q)'
             /\ \A c \in late' : lock'.owner = c.req => Newer(c)'
  <2>1. UNCHANGED <<session, lock, late>> /\ SessionExists
    BY <1>2 DEF storeVars, SessionExists
  <2>2. ASSUME lock.owner = p PROVE Abreast(p)'
    <3>1. Abreast(p) /\ reply'[p] = NoReply
      BY <1>2, <2>1, <2>2 DEF CurrentInv, AllMoves, MovesOutside, MovesIn, MovesToExchange,
         MovesToUpdate, MovesToInvalidate, LeavesAnswered, Leaves, Moves
    <3>2. CASE MovesToExchange(p)
      <4>1. reply[p].kind = "session"
        BY <3>2, KindsKnown DEF MovesToExchange, ResolvesAtOnce, AllKinded, Reads
      <4> QED
        BY <2>1, <3>1, <3>2, <4>1 DEF Abreast, MovesToExchange, Moves, NoReply, Reply
    <3>3. CASE MovesToUpdate(p)
      BY <2>1, <3>1, <3>3 DEF Abreast, MovesToUpdate, Moves, Refreshed
    <3>4. CASE MovesOutside(p) \/ MovesIn(p) \/ MovesToInvalidate(p) \/ LeavesAnswered(p)
      BY <3>1, <3>4 DEF Abreast, MovesOutside, MovesIn, MovesToInvalidate, LeavesAnswered,
         Leaves, Moves, NoReply, Reply
    <3> QED
      BY <1>2, <3>2, <3>3, <3>4 DEF AllMoves
  <2> QED
    BY <1>1, <1>2, <2>1, <2>2 DEF CurrentInv, Newer
<1>3. ASSUME NEW p \in Requests, NEW stays \in BOOLEAN, GivesUp(p, stays)
      PROVE  /\ \A q \in Requests : lock'.owner = q => Abreast(q)'
             /\ \A c \in late' : lock'.owner = c.req => Newer(c)'
  <2>1. /\ UNCHANGED <<session, lock>> /\ SessionExists
        /\ Leaves(p) /\ \A q \in Requests \ {p} : Untouched(q)
        /\ \/ late' = late
           \/ /\ pc[p] \in RedisCall /\ reply[p] = NoReply /\ late' = late \cup {Command(p)}
    BY <1>3 DEF GivesUp, Abandon, storeVars, SessionExists, Unanswered
  <2>2. Abreast(p)'
    BY <2>1 DEF Abreast, Leaves
  <2>3. pc[p] \in RedisCall /\ reply[p] = NoReply /\ lock.owner = p => Newer(Command(p))
    BY <2>1, CommandCarries DEF CurrentInv, Abreast, Newer, OpOf, RedisCall
  <2> QED
    BY <1>1, <2>1, <2>2, <2>3, CommandCarries DEF CurrentInv, Newer
<1>4. ASSUME NEW p \in Requests, Serve(p)
      PROVE  /\ \A q \in Requests : lock'.owner = q => Abreast(q)'
             /\ \A c \in late' : lock'.owner = c.req => Newer(c)'
  <2>1. /\ UNCHANGED <<pc, held, late>> /\ \A q \in Requests \ {p} : Untouched(q)
        /\ Command(p) \in Commands /\ Execute(Command(p)) /\ Command(p).req = p
        /\ Command(p).op = OpOf[pc[p]] /\ pc[p] \in RedisCall
    BY <1>4, ServeAnswers DEF Untouched
  <2>2. /\ SessionExists
        /\ session' = session \/ (pc[p] = "update" /\ lock.owner = p /\ lock' = lock)
    BY <2>1, OnlyOwnerStores DEF OpOf
  <2>3. ASSUME NEW q \in Requests, lock'.owner = q PROVE lock.owner = q \/ (q = p /\ pc[p] = "acquire")
    BY <2>1, <2>3, OwnerMoves DEF OpOf
  <2>4. ASSUME NEW q \in Requests \ {p}, lock'.owner = q PROVE Abreast(q)'
    BY <1>1, <2>1, <2>2, <2>3, <2>4 DEF CurrentInv
  <2>5. ASSUME lock'.owner = p PROVE Abreast(p)'
    <3>1. CASE pc[p] = "recheck"
      <4>1. reply'[p] = RedisGetAnswer /\ session' = session /\ pc'[p] = "recheck"
        BY <1>4, <2>1, <2>2, <3>1, ServeAnswers DEF Reads
      <4>2. reply'[p].at = session'.at /\ reply'[p].rt = session'.rt
        BY <2>2, <4>1 DEF RedisGetAnswer
      <4> QED
        BY <4>1, <4>2 DEF Abreast
    <3>2. CASE pc[p] = "update"
      <4>1. reply'[p] = Reply(OwnedMutation(p))
        BY <1>4, <3>2, ServeAnswers
      <4>2. reply'[p] # NoReply
        BY <4>1, MutationAnswers DEF Reply, NoReply
      <4> QED
        BY <2>1, <3>2, <4>2 DEF Abreast
    <3> QED
      BY <2>1, <3>1, <3>2 DEF Abreast, RedisCall
  <2>6. ASSUME NEW c \in late, lock'.owner = c.req PROVE Newer(c)'
    <3>1. c.req # p \/ pc[p] = "release"
      BY <1>0, <2>1 DEF RedisCall
    <3>2. lock.owner = c.req /\ session' = session
      BY <1>0, <2>2, <2>3, <2>6, <3>1
    <3> QED
      BY <2>2, <3>2 DEF CurrentInv, Newer
  <2> QED
    BY <2>1, <2>4, <2>5, <2>6
<1>5. ASSUME NEW d \in late, ServeLate(d)
      PROVE  /\ \A q \in Requests : lock'.owner = q => Abreast(q)'
             /\ \A c \in late' : lock'.owner = c.req => Newer(c)'
  <2>1. /\ d \in Commands /\ Execute(d) /\ late' = late \ {d} /\ \A q \in Requests : Untouched(q)
    BY <1>5 DEF ServeLate, requestVars, Untouched, TypeOK
  <2>2. /\ SessionExists
        /\ session' = session \/ (d.op = "update" /\ lock.owner = d.req /\ lock' = lock)
    BY <2>1, OnlyOwnerStores
  <2>3. ASSUME NEW q \in Requests, lock'.owner = q PROVE lock.owner = q \/ (q = d.req /\ d.op = "acquire")
    BY <2>1, <2>3, OwnerMoves
  <2>4. ASSUME NEW q \in Requests, lock'.owner = q PROVE Abreast(q)'
    <3>1. CASE q = d.req
      BY <1>0, <2>1, <3>1 DEF Abreast, Untouched
    <3>2. CASE q # d.req
      BY <1>1, <2>1, <2>2, <2>3, <2>4, <3>2 DEF CurrentInv
    <3> QED
      BY <3>1, <3>2
  <2>5. ASSUME NEW c \in late', lock'.owner = c.req PROVE Newer(c)'
    <3>1. CASE c.op = "update"
      <4>1. c \in late /\ c # d /\ (c.req = d.req => d.op = "release")
        BY <2>1, <3>1 DEF LateInv, OneLeft
      <4>2. lock.owner = c.req /\ session' = session
        BY <1>0, <2>2, <2>3, <2>5, <4>1
      <4> QED
        BY <2>2, <4>1, <4>2 DEF CurrentInv, Newer
    <3> QED
      BY <3>1 DEF Newer
  <2> QED
    BY <2>4, <2>5
<1>6. ASSUME NEW x \in asWork, ASAnswers(x)
      PROVE  /\ \A q \in Requests : lock'.owner = q => Abreast(q)'
             /\ \A c \in late' : lock'.owner = c.req => Newer(c)'
  <2>1. UNCHANGED <<session, lock, late, pc, held>> /\ SessionExists
    BY <1>6, ServerAnswers DEF storeVars, SessionExists
  <2>2. ASSUME NEW q \in Requests, lock.owner = q PROVE Abreast(q)'
    <3>1. CASE reply'[q] = reply[q]
      BY <2>1, <2>2, <3>1 DEF CurrentInv, Abreast
    <3>2. CASE reply'[q] # reply[q]
      <4>1. pc[q] = "exchange" /\ reply'[q].kind \in {"tokens", "invalidGrant", "failed"}
        BY <1>6, <3>2, ServerAnswers
      <4>2. reply'[q].kind = "tokens" => reply'[q].at > session.at
        <5>1. CASE ASGrants(x)
          <6>1. \E a : AnswerExchange(x, a) /\ a.at = issued + 1
            BY <5>1 DEF ASGrants
          <6>2. reply'[q].at = issued + 1
            BY <3>2, <6>1 DEF AnswerExchange, TypeOK, RequestTypeOK
          <6> QED
            BY <6>2 DEF IssuedInv, TypeOK, StoreTypeOK, ServerTypeOK, Tokens
        <5>2. CASE ASRefuses(x) \/ ASFails(x)
          <6>1. \E a : AnswerExchange(x, a) /\ a.kind # "tokens"
            BY <5>2 DEF ASRefuses, ASFails, Reply
          <6> QED
            BY <3>2, <6>1 DEF AnswerExchange, TypeOK, RequestTypeOK
        <5> QED
          BY <1>6, <5>1, <5>2 DEF ASAnswers
      <4> QED
        BY <2>1, <2>2, <4>1, <4>2 DEF CurrentInv, Abreast
    <3> QED
      BY <3>1, <3>2
  <2> QED
    BY <2>1, <2>2 DEF CurrentInv, Newer
<1>7. CASE Tick
  <2>1. UNCHANGED <<pc, reply, held, late>> /\ session' = AgedSession /\ lock' = AgedLock
    BY <1>7 DEF Tick, StoreTick
  <2>2. SessionExists /\ session'.at = session.at /\ session'.rt = session.rt
    BY <2>1 DEF AgedSession, NoSession, SessionExists, TypeOK, StoreTypeOK
  <2>3. lock'.owner \in {lock.owner, NoOwner}
    BY <2>1 DEF AgedLock, Unlocked, TypeOK, StoreTypeOK
  <2> QED
    BY <1>0, <2>1, <2>2, <2>3, NoOwnerAssumption DEF CurrentInv, Abreast, Newer
<1>8. CASE Elsewhere \/ \E t \in asValid : ASRevokes(t)
  <2>1. UNCHANGED <<session, lock, late>> /\ \A q \in Requests : Untouched(q)
    BY <1>8 DEF Elsewhere, ASRevokes, Untouched, storeVars, requestVars
  <2> QED
    BY <1>1, <2>1 DEF CurrentInv, Newer, SessionExists
<1> QED
  BY <1>2, <1>3, <1>4, <1>5, <1>6, <1>7, <1>8, StepCases
LEMMA CurrentAlways == Spec => [](IssuedInv /\ LateInv /\ CurrentInv)
  BY InitIssued, NextIssued, InitLate, NextLate, InitCurrent, NextCurrent, TypeCorrect,
     KindedAlways, PTL DEF Spec

(* If the lease outlives the owner's deadline and stall, what an owner     *)
(* re-read after taking the lock is what is stored for as long as its      *)
(* exchange is under way (refresh_with_ownership_inner, src/src/oidc/      *)
(* refresh.rs lines 264-280).                                              *)
THEOREM SnapshotsCurrent == ASSUME LeaseOutlivesOwner PROVE Spec => []SnapshotIsCurrent
<1>1. TypeOK /\ CurrentInv /\ LeaseCoversOwner => SnapshotIsCurrent
  <2> SUFFICES ASSUME TypeOK, CurrentInv, LeaseCoversOwner, NEW p \in Requests,
                      pc[p] = "exchange", SessionExists
               PROVE  held[p] = [at |-> session.at, rt |-> session.rt]
    BY DEF SnapshotIsCurrent
  <2>1. lock.owner = p
    BY DEF LeaseCoversOwner, Critical
  <2>2. held[p].at = session.at /\ held[p].rt = session.rt
    BY <2>1 DEF CurrentInv, Abreast
  <2> QED
    BY <2>2 DEF TypeOK, RequestTypeOK
<1> QED
  BY <1>1, TypeCorrect, CurrentAlways, LeaseCovers, PTL

-----------------------------------------------------------------------------
(* The session implements BoundedSession.                                  *)

LEMMA ExecuteBounded ==
    ASSUME TypeOK, NEW c \in Commands, Execute(c),
           SessionExists /\ lock.owner = c.req => Newer(c)
    PROVE  [Bounded!Next]_(Bounded!vars)
<1>1. CASE session' = session
  BY <1>1 DEF Bounded!vars
<1>2. CASE c.op = "update" /\ lock.owner = c.req /\ SessionExists /\ session' = UpdatedSession(c)
  <2>1. /\ session.ttl > 0 /\ session'.ttl = session.ttl
        /\ session'.at = c.at /\ c.at \in Nat /\ c.at > session.at
    BY <1>2 DEF UpdatedSession, SessionExists, Newer, TypeOK, StoreTypeOK, Commands, Tokens
  <2> QED
    BY <2>1 DEF Bounded!Next, Bounded!Renew
<1>3. CASE session' = NoSession
  <2>1. CASE SessionExists
    BY <1>3, <2>1 DEF Bounded!Next, Bounded!End, NoSession, NoToken, SessionExists
  <2>2. CASE ~SessionExists
    BY <1>3, <2>2 DEF Bounded!vars, TypeOK, StoreTypeOK
  <2> QED
    BY <2>1, <2>2
<1> QED
  BY <1>1, <1>2, <1>3, SessionMoves

LEMMA TickBounded ==
    ASSUME TypeOK, session' = AgedSession
    PROVE  [Bounded!Next]_(Bounded!vars)
<1>0. session.ttl \in Nat
  BY DEF TypeOK, StoreTypeOK
<1>1. CASE session.ttl > 1
  <2>1. session'.ttl = session.ttl - 1 /\ session'.at = session.at
    BY <1>1 DEF AgedSession, TypeOK, StoreTypeOK
  <2> QED
    BY <1>1, <2>1 DEF Bounded!Next, Bounded!Age
<1>2. CASE session.ttl = 1
  BY <1>2 DEF AgedSession, Bounded!Next, Bounded!End, NoSession, NoToken
<1>3. CASE session.ttl = 0
  BY <1>3 DEF AgedSession, Bounded!vars, SessionExists, TypeOK, StoreTypeOK
<1> QED
  BY <1>0, <1>1, <1>2, <1>3

LEMMA StepBounded ==
    TypeOK /\ LateInv /\ CurrentInv /\ [Next]_vars => [Bounded!Next]_(Bounded!vars)
<1> SUFFICES ASSUME TypeOK, LateInv, CurrentInv, [Next]_vars
             PROVE  [Bounded!Next]_(Bounded!vars)
  OBVIOUS
<1>1. CASE session' = session
  BY <1>1 DEF Bounded!vars
<1>2. ASSUME NEW p \in Requests, Serve(p) PROVE [Bounded!Next]_(Bounded!vars)
  <2>1. /\ Command(p) \in Commands /\ Execute(Command(p)) /\ pc[p] \in RedisCall
        /\ reply[p] = NoReply
    BY <1>2, ServeAnswers
  <2>2. SessionExists /\ lock.owner = p => Newer(Command(p))
    BY <2>1, CommandCarries DEF CurrentInv, Abreast, Newer, OpOf, RedisCall
  <2> QED
    BY <2>1, <2>2, ExecuteBounded, CommandCarries
<1>3. ASSUME NEW c \in late, ServeLate(c) PROVE [Bounded!Next]_(Bounded!vars)
  BY <1>3, ExecuteBounded DEF ServeLate, CurrentInv, TypeOK
<1>4. CASE Tick
  BY <1>4, TickBounded DEF Tick, StoreTick
<1>5. ASSUME NEW p \in Requests, NEW stays \in BOOLEAN, GivesUp(p, stays)
      PROVE  session' = session
  BY <1>5 DEF GivesUp, Abandon, storeVars
<1>6. ASSUME NEW x \in asWork, ASAnswers(x) PROVE session' = session
  BY <1>6, ServerAnswers DEF storeVars
<1>7. ASSUME Elsewhere \/ \E t \in asValid : ASRevokes(t) PROVE session' = session
  BY <1>7 DEF Elsewhere, ASRevokes, storeVars
<1>8. ASSUME UNCHANGED storeVars PROVE session' = session
  BY <1>8 DEF storeVars
<1>9. \/ session' = session
      \/ \E p \in Requests : Serve(p)
      \/ \E c \in late : ServeLate(c)
      \/ Tick
  BY <1>5, <1>6, <1>7, <1>8, StepCases
<1> QED
  BY <1>1, <1>2, <1>3, <1>4, <1>9

(* The stored session implements BoundedSession, for every timing: it never *)
(* outlives its lifetime, never returns and never steps back to older      *)
(* tokens, not even by the update of an owner that overran its lease or    *)
(* that was given up (scripts of src/src/session.rs lines 28-60).          *)
THEOREM SessionBounded == Spec => SessionIsBounded
<1>1. Init => Bounded!Init
  BY TtlAssumption DEF Init, Bounded!Init
<1> QED
  BY <1>1, StepBounded, TypeCorrect, CurrentAlways, PTL DEF Spec, SessionIsBounded, Bounded!Spec
-----------------------------------------------------------------------------
(* As long as no pair was lost and none revoked, the newest refresh token  *)
(* is in the session or in the hands of the one owner that will store it.  *)

Carries(p) ==
    \/ pc[p] = "exchange" /\ reply[p].kind = "tokens"
    \/ pc[p] = "update" /\ reply[p] = NoReply

Accepted(p) ==
    /\ pc[p] = "recheck" /\ reply[p].kind = "session" =>
           reply[p].rt \in asValid \cup {NoToken}
    /\ pc[p] = "exchange" /\ reply[p] = NoReply => held[p].rt \in asValid
    /\ pc[p] = "exchange" /\ reply[p].kind = "tokens" => Refreshed(p).rt \in asValid
    /\ pc[p] = "exchange" => reply[p].kind # "invalidGrant"
    /\ pc[p] = "update" /\ reply[p] = NoReply => held[p].rt \in asValid
    /\ pc[p] # "invalidate"

Awaited(x) ==
    pc[x.req] = "exchange" /\ reply[x.req] = NoReply /\ x.rt = held[x.req].rt

StoredAccepted ==
    SessionExists =>
        session.rt \in asValid \cup {NoToken} \/ \E p \in Requests : Carries(p)

KeptInv ==
    kept => /\ \A x \in asWork : Awaited(x)
            /\ \A c \in late : c.op # "update"
            /\ \A p \in Requests : Accepted(p)
            /\ StoredAccepted

LEMMA InitKept == Init => KeptInv
  BY DEF Init, KeptInv, Accepted, StoredAccepted, NoToken

LEMMA NextKept ==
    TypeOK /\ AllKinded /\ OwnerExclusive /\ LeaseCoversOwner /\ KeptInv /\ [Next]_vars
        => KeptInv'
<1> SUFFICES ASSUME TypeOK, AllKinded, OwnerExclusive, LeaseCoversOwner, KeptInv, [Next]_vars,
                    kept'
             PROVE  /\ \A x \in asWork' : Awaited(x)'
                    /\ \A c \in late' : c.op # "update"
                    /\ \A p \in Requests : Accepted(p)'
                    /\ StoredAccepted'
  BY DEF KeptInv
<1>0. \A x \in asWork : x.req \in Requests
  BY DEF TypeOK, ServerTypeOK
<1>1. ASSUME NEW q \in Requests, Untouched(q), asValid' = asValid
      PROVE  (Accepted(q) => Accepted(q)') /\ (Carries(q) => Carries(q)')
  BY <1>1 DEF Accepted, Carries, Untouched, Refreshed
\* A step of one request that leaves store and server alone.
<1>2. ASSUME NEW p \in Requests, \A q \in Requests \ {p} : Untouched(q),
             UNCHANGED <<session, asValid>>, kept,
             Accepted(p)', Carries(p) => Carries(p)'
      PROVE  (\A q \in Requests : Accepted(q)') /\ StoredAccepted'
  BY <1>1, <1>2 DEF KeptInv, StoredAccepted, SessionExists
<1>3. ASSUME NEW p \in Requests, AllMoves(p), \A q \in Requests \ {p} : Untouched(q),
             UNCHANGED <<storeVars, late, asValid, kept>>
      PROVE  /\ \A x \in asWork' : Awaited(x)'
             /\ \A c \in late' : c.op # "update"
             /\ \A q \in Requests : Accepted(q)'
             /\ StoredAccepted'
  <2>1. /\ kept /\ Accepted(p) /\ Kinded(p) /\ \A x \in asWork : Awaited(x)
        /\ session' = session /\ \A c \in late' : c.op # "update"
    BY <1>3 DEF KeptInv, AllKinded, storeVars
  <2>2. ASSUME asWork' = asWork, ~(pc[p] = "exchange" /\ reply[p] = NoReply)
        PROVE  \A x \in asWork' : Awaited(x)'
    BY <1>0, <1>3, <2>1, <2>2 DEF Awaited, Untouched
  <2>3. CASE MovesToExchange(p)
    <3>1. /\ pc[p] = "recheck" /\ pc'[p] = "exchange" /\ reply'[p] = NoReply
          /\ held'[p].rt = reply[p].rt
          /\ asWork' = asWork \cup {[req |-> p, rt |-> reply[p].rt]}
          /\ reply[p].kind = "session" /\ reply[p].rt # NoToken
      BY <2>3, KindsKnown, <2>1 DEF MovesToExchange, Moves, ResolvesAtOnce, Reads
    <3>2. reply[p].rt \in asValid
      BY <2>1, <3>1 DEF Accepted
    <3>3. Accepted(p)'
      BY <1>3, <3>1, <3>2 DEF Accepted, NoReply, Reply
    <3>4. ~Carries(p)
      BY <3>1 DEF Carries
    <3>5. \A x \in asWork' : Awaited(x)'
      BY <1>0, <1>3, <2>1, <3>1 DEF Awaited, Untouched
    <3> QED
      BY <1>2, <1>3, <2>1, <3>3, <3>4, <3>5
  <2>4. CASE MovesToUpdate(p)
    <3>1. /\ pc[p] = "exchange" /\ reply[p].kind = "tokens" /\ pc'[p] = "update"
          /\ reply'[p] = NoReply /\ held'[p] = Refreshed(p) /\ asWork' = asWork
      BY <2>4 DEF MovesToUpdate, Moves
    <3>2. Accepted(p)' /\ Carries(p)'
      BY <1>3, <2>1, <3>1 DEF Accepted, Carries
    <3>3. reply[p] # NoReply
      BY <3>1 DEF NoReply, Reply
    <3> QED
      BY <1>2, <1>3, <2>1, <2>2, <3>1, <3>2, <3>3
  <2>5. CASE MovesToInvalidate(p)
    BY <2>1, <2>5 DEF MovesToInvalidate, Accepted
  <2>6. CASE MovesOutside(p) \/ MovesIn(p)
    <3>1. /\ pc[p] \notin Critical /\ reply'[p] = NoReply /\ asWork' = asWork
          /\ pc'[p] \notin {"exchange", "update", "invalidate"}
      BY <2>6 DEF MovesOutside, MovesIn, Moves, Critical
    <3>2. Accepted(p)' /\ ~Carries(p)
      BY <3>1 DEF Accepted, Carries, NoReply, Reply, Critical
    <3> QED
      BY <1>2, <1>3, <2>1, <2>2, <3>1, <3>2 DEF Critical
  <2>7. CASE LeavesAnswered(p)
    <3>1. /\ pc'[p] \in {"release", "done"} /\ reply'[p] = NoReply /\ asWork' = asWork
          /\ pc[p] \in {"exchange", "update"} => reply[p] # NoReply
          /\ pc[p] = "exchange" => reply[p].kind = "failed"
      BY <2>7 DEF LeavesAnswered, Leaves
    <3>2. Accepted(p)' /\ ~Carries(p)
      BY <3>1 DEF Accepted, Carries
    <3> QED
      BY <1>2, <1>3, <2>1, <2>2, <3>1, <3>2
  <2> QED
    BY <1>3, <2>3, <2>4, <2>5, <2>6, <2>7 DEF AllMoves
<1>4. ASSUME NEW p \in Requests, NEW stays \in BOOLEAN, GivesUp(p, stays)
      PROVE  /\ \A x \in asWork' : Awaited(x)'
             /\ \A c \in late' : c.op # "update"
             /\ \A q \in Requests : Accepted(q)'
             /\ StoredAccepted'
  <2>1. /\ kept /\ Leaves(p) /\ \A q \in Requests \ {p} : Untouched(q)
        /\ UNCHANGED <<session, asValid>>
        /\ ~Carries(p)
        /\ pc[p] = "exchange" /\ reply[p] = NoReply => asWork' = asWork \ {Exchange(p)}
        /\ asWork' \subseteq asWork
    BY <1>4 DEF GivesUp, Abandon, Carries, Unanswered, storeVars
  <2>2. \A x \in asWork : Awaited(x)
    BY <2>1 DEF KeptInv
  <2>3. ASSUME NEW x \in asWork' PROVE Awaited(x)'
    <3>1. x.req # p
      <4>1. SUFFICES ASSUME x.req = p PROVE FALSE
        OBVIOUS
      <4>2. x = [req |-> p, rt |-> held[p].rt] /\ pc[p] = "exchange" /\ reply[p] = NoReply
        BY <2>1, <2>2, <2>3, <4>1 DEF Awaited, TypeOK, ServerTypeOK
      <4> QED
        BY <2>1, <2>3, <4>2 DEF Exchange
    <3> QED
      BY <1>0, <2>1, <2>2, <2>3, <3>1 DEF Awaited, Untouched
  <2>4. Accepted(p)'
    BY <2>1 DEF Leaves, Accepted
  <2>5. \A c \in late' : c.op # "update"
    <3>1. \/ late' = late
          \/ /\ pc[p] \in RedisCall /\ reply[p] = NoReply /\ late' = late \cup {Command(p)}
      BY <1>4 DEF GivesUp, Abandon, Unanswered
    <3>2. pc[p] \in RedisCall /\ reply[p] = NoReply => Command(p).op # "update"
      BY <2>1, CommandCarries DEF Carries, OpOf, RedisCall
    <3> QED
      BY <2>1, <3>1, <3>2 DEF KeptInv
  <2> QED
    BY <1>2, <2>1, <2>3, <2>4, <2>5
<1>5. ASSUME NEW p \in Requests, Serve(p)
      PROVE  /\ \A x \in asWork' : Awaited(x)'
             /\ \A c \in late' : c.op # "update"
             /\ \A q \in Requests : Accepted(q)'
             /\ StoredAccepted'
  <2>1. /\ UNCHANGED <<pc, held, late, asWork, asValid>> /\ kept
        /\ \A q \in Requests \ {p} : Untouched(q)
        /\ Command(p) \in Commands /\ Execute(Command(p)) /\ Command(p).req = p
        /\ Command(p).op = OpOf[pc[p]] /\ Command(p).rt = held[p].rt
        /\ pc[p] \in RedisCall /\ reply[p] = NoReply
    BY <1>5, ServeAnswers, CommandCarries DEF Untouched, asVars
  <2>2. Accepted(p) /\ StoredAccepted /\ \A x \in asWork : Awaited(x)
    BY <2>1 DEF KeptInv
  <2>3. \A x \in asWork' : Awaited(x)'
    BY <1>0, <2>1, <2>2 DEF Awaited, Untouched, RedisCall
  <2>4. \A q \in Requests \ {p} : Accepted(q)' /\ (Carries(q) => Carries(q)')
    BY <1>1, <2>1 DEF KeptInv
  <2>5. CASE pc[p] = "recheck"
    <3>1. session' = session /\ reply'[p] = RedisGetAnswer
      BY <1>5, <2>1, <2>5, ServeAnswers, SessionMoves DEF Reads, OpOf, RedisCall
    <3>2. \A q \in Requests : ~Carries(q)
      BY <2>5 DEF OwnerExclusive, Critical, Carries
    <3>3. Accepted(p)'
      BY <2>1, <2>2, <2>5, <3>1, <3>2
         DEF Accepted, StoredAccepted, RedisGetAnswer, Reply, SessionExists
    <3> QED
      BY <2>1, <2>2, <2>3, <2>4, <3>1, <3>2, <3>3 DEF KeptInv, StoredAccepted, SessionExists
  <2>6. CASE pc[p] = "update"
    <3>1. lock.owner = p
      BY <2>6 DEF LeaseCoversOwner, Critical
    <3>2. Command(p).op = "update" /\ held[p].rt \in asValid
      BY <2>1, <2>2, <2>6 DEF Accepted, OpOf, RedisCall
    <3>3. SessionExists' => session'.rt = held[p].rt
      <4>1. SessionExists => session' = UpdatedSession(Command(p))
        BY <2>1, <3>1, <3>2, AppliedMutations DEF OwnedMutation, IsLockOwner
      <4> QED
        BY <2>1, <4>1, OnlyOwnerStores, UpdateMoves DEF TypeOK
    <3>4. reply'[p] = Reply(OwnedMutation(p))
      BY <1>5, <2>6, ServeAnswers
    <3>5. reply'[p] # NoReply
      BY <3>4, MutationAnswers DEF Reply, NoReply
    <3>6. Accepted(p)'
      BY <2>1, <2>6, <3>5 DEF Accepted
    <3> QED
      BY <2>1, <2>3, <2>4, <3>2, <3>3, <3>6 DEF KeptInv, StoredAccepted
  <2>7. CASE pc[p] \notin {"recheck", "update"}
    <3>1. pc[p] \in {"read", "reread", "acquire", "release"}
      BY <2>1, <2>2, <2>7 DEF Accepted, RedisCall
    <3>2. session' = session
      BY <2>1, <3>1, SessionMoves DEF OpOf, RedisCall
    <3>3. Accepted(p)' /\ ~Carries(p)
      BY <2>1, <3>1 DEF Accepted, Carries
    <3> QED
      BY <1>2, <2>1, <2>3, <3>2, <3>3 DEF KeptInv
  <2> QED
    BY <2>5, <2>6, <2>7
<1>6. ASSUME NEW d \in late, ServeLate(d)
      PROVE  /\ \A x \in asWork' : Awaited(x)'
             /\ \A c \in late' : c.op # "update"
             /\ \A q \in Requests : Accepted(q)'
             /\ StoredAccepted'
  <2>1. /\ d \in Commands /\ Execute(d) /\ d.op # "update" /\ kept
        /\ late' \subseteq late /\ UNCHANGED <<asWork, asValid>> /\ \A q \in Requests : Untouched(q)
    BY <1>6 DEF ServeLate, requestVars, asVars, Untouched, TypeOK, KeptInv
  <2>2. SessionExists' => SessionExists /\ session' = session
    BY <2>1, OnlyOwnerStores
  <2> QED
    BY <1>0, <1>1, <2>1, <2>2 DEF KeptInv, StoredAccepted, Awaited, Untouched
<1>7. ASSUME NEW x \in asWork, ASAnswers(x)
      PROVE  /\ \A y \in asWork' : Awaited(y)'
             /\ \A c \in late' : c.op # "update"
             /\ \A q \in Requests : Accepted(q)'
             /\ StoredAccepted'
  <2> DEFINE p == x.req
  <2>1. /\ UNCHANGED <<session, late, pc, held>> /\ kept
        /\ asWork' = asWork \ {x} /\ p \in Requests
    BY <1>7, ServerAnswers DEF storeVars
  <2>2. pc[p] = "exchange" /\ reply[p] = NoReply /\ x.rt = held[p].rt /\ x.rt \in asValid
    BY <2>1 DEF KeptInv, Awaited, Accepted
  <2>3. ASSUME NEW y \in asWork PROVE y = x
    BY <1>0, <2>1, <2>2 DEF KeptInv, Awaited, OwnerExclusive, Critical, TypeOK, ServerTypeOK
  <2>4. ASSUME NEW q \in Requests \ {p} PROVE Accepted(q)' /\ ~Carries(q)
    BY <2>1, <2>2 DEF OwnerExclusive, Critical, Accepted, Carries
  <2>5. CASE ASGrants(x)
    <3>1. PICK a : /\ AnswerExchange(x, a) /\ a.kind = "tokens"
                   /\ \/ a.rt = issued' /\ issued' \in asValid'
                      \/ a.rt = NoToken /\ asValid' = asValid
      BY <2>5 DEF ASGrants
    <3>2. reply'[p] = a
      BY <2>1, <2>2, <3>1 DEF AnswerExchange, Unanswered, TypeOK, RequestTypeOK
    <3>3. IF a.rt = NoToken THEN held[p].rt \in asValid' ELSE a.rt \in asValid'
      <4>1. issued' # NoToken
        BY <2>5 DEF ASGrants, TypeOK, ServerTypeOK, NoToken
      <4> QED
        BY <2>2, <3>1, <4>1
    <3>4. Accepted(p)' /\ Carries(p)'
      BY <2>1, <2>2, <3>1, <3>2, <3>3 DEF Accepted, Carries, Refreshed, NoReply, Reply
    <3> QED
      BY <2>1, <2>3, <2>4, <3>4 DEF KeptInv, StoredAccepted
  <2>6. CASE ASRefuses(x)
    BY <2>2, <2>6 DEF ASRefuses
  <2>7. CASE ASFails(x)
    <3>1. AnswerExchange(x, Reply("failed")) /\ asValid' = asValid
      BY <2>7 DEF ASFails
    <3>2. reply'[p] = Reply("failed")
      BY <2>1, <2>2, <3>1 DEF AnswerExchange, Unanswered, TypeOK, RequestTypeOK
    <3>3. Accepted(p)'
      BY <2>1, <2>2, <3>2 DEF Accepted, NoReply, Reply
    <3>4. ~Carries(p)
      BY <2>2 DEF Carries, NoReply, Reply
    <3> QED
      BY <2>1, <2>3, <2>4, <3>1, <3>3, <3>4 DEF KeptInv, StoredAccepted, SessionExists
  <2> QED
    BY <1>7, <2>5, <2>6, <2>7 DEF ASAnswers
<1>8. CASE Tick
  <2>1. /\ UNCHANGED <<pc, reply, held, late, asWork, asValid, kept>>
        /\ session' = AgedSession
    BY <1>8 DEF Tick, StoreTick, asVars, ghostVars
  <2>2. SessionExists' => SessionExists /\ session'.rt = session.rt
    BY <2>1 DEF AgedSession, NoSession, SessionExists, TypeOK, StoreTypeOK
  <2> QED
    BY <2>1, <2>2 DEF KeptInv, StoredAccepted, Awaited, Accepted, Carries, Refreshed
<1>9. CASE Elsewhere
  <2>1. UNCHANGED <<session, late, asWork, asValid, kept>> /\ \A q \in Requests : Untouched(q)
    BY <1>9 DEF Elsewhere, storeVars
  <2> QED
    BY <1>0, <1>1, <2>1 DEF KeptInv, StoredAccepted, Awaited, Untouched, SessionExists
<1>10. CASE \E t \in asValid : ASRevokes(t)
  BY <1>10 DEF ASRevokes
<1> QED
  BY <1>3, <1>4, <1>5, <1>6, <1>7, <1>8, <1>9, <1>10, StepCases

LEMMA KeptAlways == ASSUME LeaseOutlivesOwner PROVE Spec => []KeptInv
  BY InitKept, NextKept, TypeCorrect, KindedAlways, Exclusive, LeaseCovers, PTL DEF Spec

(* If the lease outlives the owner's deadline and stall, then as long as no *)
(* token pair was lost and none revoked, every exchange under way presents *)
(* a refresh token the server still accepts (refresh_with_ownership_inner, *)
(* src/src/oidc/refresh.rs lines 281-309).                                 *)
THEOREM RotationsNotRaced == ASSUME LeaseOutlivesOwner PROVE Spec => []RotationNotRaced
<1>1. TypeOK /\ KeptInv => RotationNotRaced
  BY DEF KeptInv, Awaited, Accepted, RotationNotRaced, TypeOK, ServerTypeOK
<1> QED
  BY <1>1, TypeCorrect, KeptAlways, PTL

(* Under the same conditions no session is invalidated for a refused       *)
(* refresh token (invalidate_rejected_refresh, refresh.rs lines 345-361).  *)
THEOREM NoneInvalidatedSpuriously ==
    ASSUME LeaseOutlivesOwner PROVE Spec => []NoSpuriousInvalidation
<1>1. KeptInv => NoSpuriousInvalidation
  BY DEF KeptInv, Accepted, NoSpuriousInvalidation
<1> QED
  BY <1>1, KeptAlways, PTL

(* As long as no owner has given up on its exchange or on storing its      *)
(* pair, no answer to an exchange was lost and no token was revoked, the   *)
(* token endpoint does observe at most one exchange of the session         *)
(* (AC-BFF-REFRESH-006; refresh.rs lines 236-262 and 301-330): the         *)
(* overlap that run refresh_exchanges shows needs a failure, concurrency   *)
(* alone does not bring it about.                                          *)
THEOREM ExchangesAreSingle ==
    ASSUME LeaseOutlivesOwner PROVE Spec => [](kept => AtMostOneExchange)
<1>1. TypeOK /\ OwnerExclusive /\ KeptInv /\ kept => AtMostOneExchange
  <2> SUFFICES ASSUME TypeOK, OwnerExclusive, KeptInv, kept PROVE AtMostOneExchange
    OBVIOUS
  <2>1. ASSUME NEW x \in asWork, NEW y \in asWork PROVE x = y
    <3>1. Awaited(x) /\ Awaited(y) /\ {x, y} \subseteq [req : Requests, rt : Tokens]
      BY DEF KeptInv, TypeOK, ServerTypeOK
    <3>2. x.req = y.req
      BY <3>1 DEF Awaited, OwnerExclusive, Critical
    <3> QED
      BY <3>1, <3>2 DEF Awaited
  <2>2. asWork = {} \/ \E x : asWork = {x}
    BY <2>1
  <2> QED
    BY <2>2, FS_EmptySet, FS_Singleton DEF AtMostOneExchange
<1> QED
  BY <1>1, TypeCorrect, Exclusive, KeptAlways, PTL

=============================================================================
