------------------------- MODULE SessionLifeProofs -------------------------
(***************************************************************************)
(* Theorems about SessionLife, for every number of requests, every set of  *)
(* lifetimes and every value of the times that satisfies the module's      *)
(* assumptions.                                                            *)
(***************************************************************************)
EXTENDS SessionLife, TLAPS

LoginStages == {"code", "response", "verify", "put", "deliver", "done", "failed"}
Stages == {"idle", "check", "read", "discover", "wait", "done"} \cup Owning
Answers == {"none", "204", "401", "503", "Ready", "Reauthenticate", "Unavailable"}

Logins == [stage : LoginStages, token : Tokens \cup {None}, expires_at : 0..MaxU64,
           refreshable : BOOLEAN, left : Nat]
Records == [stage : Stages, began : 0..Horizon, token : Tokens \cup {None},
            expires_at : 0..MaxU64, left : Nat, answer : Answers]

Types ==
    /\ clock \in Sub..Horizon
    /\ session \in Sessions \cup {None}
    /\ lock \in Requests \cup {None}
    /\ cookie \in 0..(SessionTtl * Sub)
    /\ login \in Logins
    /\ request \in [Requests -> Records]
    /\ ended \in {"no", "expired", "rejected"}

-----------------------------------------------------------------------------
(* Arithmetic of the constants and of rounding to seconds.                 *)

LEMMA ConstantFacts ==
    /\ Sub \in Nat /\ Sub > 0 /\ SessionTtl \in Nat /\ SessionTtl > 0
    /\ Skew \in Nat /\ HttpBound \in Nat /\ RedisBound \in Nat /\ WaitBound \in Nat
    /\ DeliveryBound \in Nat /\ VerifyBound \in Nat /\ DiscoveryBound \in Nat
    /\ Horizon \in Nat /\ MaxU64 \in Nat /\ MaxSystemTime \in Nat /\ MaxSystemTime <= MaxU64
    /\ Skew * Sub \in Nat /\ SessionTtl * Sub \in Nat /\ SessionTtl * Sub > 0
    /\ MaxSystemTime * Sub \in Nat
    /\ Skew * Sub > HttpBound + RedisBound + 2 * Sub
    /\ 2 * Sub <= Horizon
    /\ Horizon + SessionTtl * Sub + HttpBound <= MaxSystemTime * Sub
    /\ None \notin Nat /\ None \notin Requests
    /\ \A l \in Lifetimes : l # None => l \in Nat
    /\ None \notin Sessions
<1>1. /\ Sub \in Nat /\ Sub > 0 /\ SessionTtl \in Nat /\ SessionTtl > 0
      /\ Skew \in Nat /\ HttpBound \in Nat /\ RedisBound \in Nat /\ WaitBound \in Nat
      /\ DeliveryBound \in Nat /\ VerifyBound \in Nat /\ DiscoveryBound \in Nat
      /\ Horizon \in Nat /\ MaxU64 \in Nat /\ MaxSystemTime \in Nat /\ MaxSystemTime <= MaxU64
  BY TimesAssumption
<1>2. Skew * Sub \in Nat /\ SessionTtl * Sub \in Nat /\ SessionTtl * Sub > 0
      /\ MaxSystemTime * Sub \in Nat
  BY <1>1
<1> QED
  BY <1>1, <1>2, WindowAssumption, HorizonAssumption, NoneAssumption,
     LifetimesAssumption, SessionsAssumption

LEMMA Distribute ==
    ASSUME NEW a \in Nat, NEW b \in Nat, NEW k \in Nat
    PROVE  (a + b) * k = a * k + b * k /\ a * k \in Nat
  OBVIOUS

LEMMA SecondOf ==
    ASSUME NEW t \in Nat
    PROVE  /\ Second(t) \in Nat /\ Second(t) * Sub \in Nat
           /\ Second(t) * Sub <= t /\ t < Second(t) * Sub + Sub
           /\ t >= Sub => Second(t) >= 1
  BY ConstantFacts DEF Second

\* The request's clock is behind by less than two seconds and never ahead.
LEMMA EffectiveNowOf ==
    ASSUME NEW began \in Sub..Horizon, clock \in Nat, began <= clock
    PROVE  /\ EffectiveNow(began) \in Nat /\ EffectiveNow(began) >= 1
           /\ EffectiveNow(began) * Sub \in Nat
           /\ EffectiveNow(began) * Sub <= clock
           /\ clock < EffectiveNow(began) * Sub + 2 * Sub
<1>1. began \in Nat /\ began >= Sub /\ clock - began \in Nat /\ Sub \in Nat
  BY ConstantFacts
<1>2. PICK a \in Nat : /\ a = Second(began) /\ a * Sub \in Nat /\ a * Sub <= began
                       /\ began < a * Sub + Sub /\ a >= 1
  BY <1>1, SecondOf
<1>3. PICK b \in Nat : /\ b = Second(clock - began) /\ b * Sub \in Nat
                       /\ b * Sub <= clock - began /\ clock - began < b * Sub + Sub
  BY <1>1, SecondOf
<1>4. EffectiveNow(began) = a + b
  BY <1>2, <1>3 DEF EffectiveNow
<1>5. (a + b) * Sub = a * Sub + b * Sub
  BY <1>1, Distribute
<1> QED
  BY <1>1, <1>2, <1>3, <1>4, <1>5
-----------------------------------------------------------------------------
(* What a recorded expiry says of the token it is recorded with.           *)

\* It is at most two seconds early, and late by no more than the response.
\* None is recorded only for a token that outlives every session.
Told(token, expires_at) ==
    /\ token \in Tokens /\ expires_at \in 0..MaxU64
    /\ expires_at # 0 => /\ token.lifetime # None
                         /\ Death(token) <= expires_at * Sub + 2 * Sub
                         /\ expires_at * Sub <= Death(token) + HttpBound
    /\ expires_at = 0 => \/ token.lifetime = None
                         \/ Death(token) > Horizon + SessionTtl * Sub

LEMMA TokenFacts ==
    ASSUME NEW token \in Tokens
    PROVE  /\ token.issued \in Nat /\ token.issued <= Horizon
           /\ token.lifetime \in Lifetimes
           /\ token.lifetime # None =>
                 /\ token.lifetime \in Nat /\ token.lifetime * Sub \in Nat
                 /\ Death(token) \in Nat
                 /\ Death(token) = token.issued + token.lifetime * Sub
<1>1. token.issued \in Nat /\ token.issued <= Horizon /\ token.lifetime \in Lifetimes
  BY ConstantFacts DEF Tokens
<1>2. token.lifetime # None => token.lifetime \in Nat
  BY <1>1, ConstantFacts
<1>3. token.lifetime # None => token.lifetime * Sub \in Nat
  BY <1>2, Distribute, ConstantFacts
<1> QED
  BY <1>1, <1>2, <1>3 DEF Death

\* An expiry is told rightly by any clock, in whole seconds, that is behind by
\* less than two seconds while the response is under way.
LEMMA ExpiryIsTold ==
    ASSUME NEW token \in Tokens, NEW c \in Nat, NEW now \in Nat, NEW limit \in Nat,
           now >= 1, now * Sub <= c, c < now * Sub + 2 * Sub,
           token.issued <= c, c <= token.issued + HttpBound,
           MaxSystemTime <= limit, limit <= MaxU64
    PROVE  Told(token, IF token.lifetime = None THEN 0
                       ELSE IF now + token.lifetime > limit THEN 0
                       ELSE now + token.lifetime)
<1>1. CASE token.lifetime = None
  BY <1>1, ConstantFacts DEF Told
<1>2. CASE token.lifetime # None
  <2>1. PICK l \in Nat : /\ l = token.lifetime /\ l * Sub \in Nat
                         /\ Death(token) = token.issued + l * Sub
    BY <1>2, TokenFacts
  <2>2. (now + l) * Sub = now * Sub + l * Sub /\ now * Sub \in Nat
    BY <2>1, Distribute, ConstantFacts
  <2>3. CASE now + l > limit
    <3>1. PICK d \in Nat : now + l = MaxSystemTime + d /\ d >= 1
      <4>1. now + l - MaxSystemTime \in Nat /\ now + l - MaxSystemTime >= 1
            /\ now + l = MaxSystemTime + (now + l - MaxSystemTime)
        BY <2>3, <2>1, ConstantFacts
      <4> QED
        BY <4>1
    <3>2. (MaxSystemTime + d) * Sub = MaxSystemTime * Sub + d * Sub /\ d * Sub \in Nat
      BY <3>1, Distribute, ConstantFacts
    <3>3. Death(token) > Horizon + SessionTtl * Sub
      <4>1. now * Sub + l * Sub >= MaxSystemTime * Sub
        BY <2>2, <3>1, <3>2, ConstantFacts
      <4>2. d * Sub >= 1
        BY <3>1, ConstantFacts
      <4>3. now * Sub + l * Sub > MaxSystemTime * Sub
        BY <2>1, <2>2, <3>1, <3>2, <4>2, ConstantFacts
      <4>4. token.issued \in Nat
        BY TokenFacts
      <4> QED
        BY <2>1, <2>2, <4>3, <4>4, ConstantFacts
    <3> QED
      BY <1>2, <2>1, <2>3, <3>3, ConstantFacts DEF Told
  <2>4. CASE now + l <= limit
    <3> DEFINE e == now + l
    <3>1. e \in 0..MaxU64 /\ e # 0
      BY <2>1, <2>4, ConstantFacts
    <3>2. e * Sub = now * Sub + l * Sub
      BY <2>2
    <3> HIDE DEF e
    <3>3. token.issued \in Nat /\ now * Sub \in Nat
      BY TokenFacts, <2>2
    <3>4. /\ Death(token) <= e * Sub + 2 * Sub
          /\ e * Sub <= Death(token) + HttpBound
      BY <2>1, <3>2, <3>3, ConstantFacts
    <3>5. Told(token, e)
      BY <1>2, <3>1, <3>4 DEF Told
    <3> QED
      BY <1>2, <2>1, <2>4, <3>5, ConstantFacts DEF e
  <2> QED
    BY <2>1, <2>3, <2>4, ConstantFacts
<1> QED
  BY <1>1, <1>2

\* What the callback records (access_token_expiry).
LEMMA LoginExpiryIsTold ==
    ASSUME clock \in Sub..Horizon, NEW token \in Tokens,
           token.issued <= clock, clock <= token.issued + HttpBound
    PROVE  Told(token, AccessTokenExpiry(token.lifetime))
<1>1. clock \in Nat /\ clock >= Sub
  BY ConstantFacts
<1>2. PICK now \in Nat : /\ now = Second(clock) /\ now >= 1 /\ now * Sub \in Nat
                         /\ now * Sub <= clock /\ clock < now * Sub + Sub
  BY <1>1, SecondOf
<1>3. clock < now * Sub + 2 * Sub
  BY <1>1, <1>2, ConstantFacts
<1> QED
  BY <1>1, <1>2, <1>3, ExpiryIsTold, ConstantFacts DEF AccessTokenExpiry

\* What a refresh records.
LEMMA RefreshedExpiryIsTold ==
    ASSUME clock \in Sub..Horizon, NEW token \in Tokens, NEW began \in Sub..Horizon,
           began <= clock, token.issued <= clock, clock <= token.issued + HttpBound
    PROVE  Told(token, RefreshedExpiry(EffectiveNow(began), token.lifetime))
<1>1. clock \in Nat
  BY ConstantFacts
<1>2. PICK now \in Nat : /\ now = EffectiveNow(began) /\ now >= 1
                         /\ now * Sub <= clock /\ clock < now * Sub + 2 * Sub
  BY <1>1, EffectiveNowOf
<1> QED
  BY <1>1, <1>2, ExpiryIsTold, ConstantFacts DEF RefreshedExpiry

\* A token found sufficiently valid outlives the release of the lock; one that
\* is not is due.
LEMMA ValidOrDue ==
    ASSUME clock \in Sub..Horizon, NEW began \in Sub..Horizon, began <= clock,
           NEW s \in Sessions, Told(s.token, s.expires_at)
    PROVE  IF SufficientlyValid(s, EffectiveNow(began))
             THEN \/ s.token.lifetime = None
                  \/ Death(s.token) > Horizon
                  \/ Death(s.token) > clock + RedisBound
             ELSE Due(s.token)
<1>1. clock \in Nat /\ clock <= Horizon
  BY ConstantFacts
<1>2. PICK now \in Nat : /\ now = EffectiveNow(began) /\ now >= 1 /\ now * Sub \in Nat
                         /\ now * Sub <= clock /\ clock < now * Sub + 2 * Sub
  BY <1>1, EffectiveNowOf
<1>3. PICK e \in Nat : e = s.expires_at /\ e <= MaxU64
  BY ConstantFacts DEF Sessions
<1>4. CASE e = 0
  <2>1. SufficientlyValid(s, now)
    BY <1>3, <1>4 DEF SufficientlyValid
  <2>2. s.token.lifetime = None \/ Death(s.token) > Horizon + SessionTtl * Sub
    BY <1>3, <1>4 DEF Told
  <2>3. s.token.lifetime # None => Death(s.token) \in Nat
    BY TokenFacts DEF Told
  <2> QED
    BY <1>2, <2>1, <2>2, <2>3, ConstantFacts
<1>5. CASE e # 0
  <2>1. /\ s.token.lifetime # None /\ Death(s.token) \in Nat
        /\ Death(s.token) <= e * Sub + 2 * Sub
        /\ e * Sub <= Death(s.token) + HttpBound
    BY <1>3, <1>5, TokenFacts DEF Told
  <2>2. /\ now * Sub + Skew * Sub = (now + Skew) * Sub
        /\ e * Sub \in Nat /\ (now + Skew) * Sub \in Nat
    BY Distribute, <1>2, <1>3, ConstantFacts
  <2>3. CASE SufficientlyValid(s, now)
    <3>1. e > now + Skew
      BY <2>3, <1>2, <1>3, <1>5, ConstantFacts DEF SufficientlyValid
    <3>2. PICK d \in Nat : e = (now + Skew) + d /\ d >= 1
      <4>1. e - (now + Skew) \in Nat /\ e - (now + Skew) >= 1
        BY <3>1, <1>2, <1>3, ConstantFacts
      <4> QED
        BY <4>1, <1>2, <1>3, ConstantFacts
    <3>3. e * Sub = (now + Skew) * Sub + d * Sub
      BY Distribute, <3>2, <1>2, ConstantFacts
    <3>4. d * Sub \in Nat /\ d * Sub >= Sub
      BY <3>2, ConstantFacts
    <3>5. Death(s.token) > clock + RedisBound
      BY <1>1, <1>2, <2>1, <2>2, <3>3, <3>4, ConstantFacts
    <3> QED
      BY <1>2, <2>3, <3>5
  <2>4. CASE ~SufficientlyValid(s, now)
    <3>1. e <= now + Skew
      BY <2>4, <1>2, <1>3, <1>5, ConstantFacts DEF SufficientlyValid
    <3>2. PICK d \in Nat : now + Skew = e + d
      <4>1. now + Skew - e \in Nat
        BY <3>1, <1>2, <1>3, ConstantFacts
      <4> QED
        BY <4>1, <1>2, <1>3, ConstantFacts
    <3>3. (now + Skew) * Sub = e * Sub + d * Sub /\ d * Sub \in Nat
      BY Distribute, <3>2, <1>3, ConstantFacts
    <3>4. (Skew + 2) * Sub = Skew * Sub + 2 * Sub
      BY Distribute, ConstantFacts
    <3>5. Death(s.token) <= clock + (Skew + 2) * Sub
      BY <1>1, <1>2, <2>1, <2>2, <3>3, <3>4, ConstantFacts
    <3> QED
      BY <1>2, <2>1, <2>4, <3>5 DEF Due
  <2> QED
    BY <2>3, <2>4
<1> QED
  BY <1>4, <1>5
-----------------------------------------------------------------------------
(* The inductive invariant.                                                *)

Active(r) == request[r].stage \notin {"idle", "done"}

\* A refresh is only ever in the hands of the lock's owner.
LockHeld == \A r \in Requests : lock = r <=> request[r].stage \in Owning

\* A response is under way no longer than the HTTP bound allows.
UnderWay(token, left) ==
    token \in Tokens /\ token.issued <= clock /\ clock + left <= token.issued + HttpBound

LoginInv ==
    /\ login.stage = "response" => UnderWay(login.token, login.left)
    /\ login.stage \in {"verify", "put"} => Told(login.token, login.expires_at)
    /\ login.stage # "done" => cookie = 0

SessionInv ==
    /\ session # None => /\ Told(session.token, session.expires_at)
                         /\ session.refreshable = login.refreshable
                         /\ login.stage \in {"deliver", "done", "failed"}
                         /\ login.stage = "done" => cookie >= session.ttl
    /\ login.stage \in {"deliver", "done"} /\ session = None => ended # "no"

\* Of a refreshed token, the time since it was issued.
Fresh(q, token, more) ==
    token \in Tokens /\ q.began <= token.issued
    /\ clock + q.left <= token.issued + HttpBound + more * RedisBound

StagesInv(q) ==
    /\ q.stage = "exchange" => q.left <= HttpBound
    /\ q.stage = "exchanged" => q.began <= q.token.issued /\ UnderWay(q.token, q.left)
    /\ q.stage = "update" => Fresh(q, q.token, 1) /\ Told(q.token, q.expires_at)
    /\ q.stage = "release" /\ q.answer = "Ready" =>
          \/ q.token.lifetime = None
          \/ q.token \in Tokens /\ Death(q.token) > Horizon
          \/ q.token \in Tokens /\ Death(q.token) > clock + q.left
          \/ Fresh(q, q.token, 2)
    /\ q.stage = "release" => q.answer \in {"Ready", "Reauthenticate"}
    /\ q.stage = "release" /\ q.answer = "Reauthenticate" =>
          ended # "no" \/ (session # None /\ ~login.refreshable /\ Due(session.token))

RequestInv(r) ==
    /\ Active(r) => /\ login.stage = "done"
                    /\ request[r].began >= Sub /\ request[r].began <= clock
    /\ StagesInv(request[r])

Inv == Types /\ LockHeld /\ LoginInv /\ SessionInv /\ \A r \in Requests : RequestInv(r)
-----------------------------------------------------------------------------
(* What the helpers of the actions do to the requests.                     *)

Others(r) == \A q \in Requests \ {r} : request'[q] = request[q]

LEMMA GoesDoes ==
    ASSUME request \in [Requests -> Records], NEW r \in Requests, NEW stage \in Stages,
           NEW left \in Nat, Goes(r, stage, left)
    PROVE  /\ request' \in [Requests -> Records] /\ Others(r)
           /\ request'[r].stage = stage /\ request'[r].left = left
           /\ request'[r].began = request[r].began
           /\ request'[r].token = request[r].token
           /\ request'[r].expires_at = request[r].expires_at
           /\ request'[r].answer = request[r].answer
<1>1. request[r] \in Records
  OBVIOUS
<1>2. request' = [request EXCEPT ![r] = [request[r] EXCEPT !.stage = stage, !.left = left]]
  BY DEF Goes
<1>3. [request[r] EXCEPT !.stage = stage, !.left = left] \in Records
  BY <1>1 DEF Records
<1> QED
  BY <1>1, <1>2, <1>3 DEF Others, Records

LEMMA IdleFacts ==
    /\ Idle \in Records
    /\ Idle.stage = "idle"
    /\ {"check", "read", "done"} \subseteq Stages
  BY ConstantFacts DEF Idle, Records, Stages, Answers

LEMMA EndsDoes ==
    ASSUME request \in [Requests -> Records], NEW r \in Requests, NEW answer \in Answers,
           NEW token \in Tokens \cup {None}, Ends(r, answer, token)
    PROVE  /\ request' \in [Requests -> Records] /\ Others(r)
           /\ request'[r].stage = "done" /\ request'[r].answer = answer
           /\ request'[r].token = token
<1>1. request' = [request EXCEPT ![r] =
                    [Idle EXCEPT !.stage = "done", !.answer = answer, !.token = token]]
  BY DEF Ends
<1>2. [Idle EXCEPT !.stage = "done", !.answer = answer, !.token = token] \in Records
  BY IdleFacts DEF Records
<1>3. /\ [Idle EXCEPT !.stage = "done", !.answer = answer, !.token = token].stage = "done"
      /\ [Idle EXCEPT !.stage = "done", !.answer = answer, !.token = token].answer = answer
      /\ [Idle EXCEPT !.stage = "done", !.answer = answer, !.token = token].token = token
  BY DEF Idle
<1> QED
  BY <1>1, <1>2, <1>3 DEF Others

LEMMA ReleasingDoes ==
    ASSUME request \in [Requests -> Records], NEW r \in Requests, NEW answer \in Answers,
           NEW token \in Tokens \cup {None}, Releasing(r, answer, token)
    PROVE  /\ request' \in [Requests -> Records] /\ Others(r)
           /\ request'[r].stage = "release" /\ request'[r].left = RedisBound
           /\ request'[r].began = request[r].began
           /\ request'[r].answer = answer /\ request'[r].token = token
<1>1. request[r] \in Records
  OBVIOUS
<1>2. request' = [request EXCEPT ![r] = [request[r] EXCEPT !.stage = "release",
                     !.left = RedisBound, !.answer = answer, !.token = token]]
  BY DEF Releasing
<1>3. [request[r] EXCEPT !.stage = "release", !.left = RedisBound, !.answer = answer,
                         !.token = token] \in Records
  BY <1>1, ConstantFacts DEF Records, Stages, Owning
<1> QED
  BY <1>1, <1>2, <1>3 DEF Others, Records

LEMMA BeginDoes ==
    ASSUME Types, NEW r \in Requests, Begin(r)
    PROVE  /\ request' \in [Requests -> Records] /\ Others(r)
           /\ request'[r].stage \in {"check", "read"} /\ request'[r].began = clock
           /\ request[r].stage \in {"idle", "done"} /\ cookie > 0
           /\ UNCHANGED <<clock, session, lock, cookie, login, ended>>
<1>1. PICK stage \in {"check", "read"} :
         request' = [request EXCEPT ![r] = [Idle EXCEPT !.stage = stage,
                                              !.began = clock, !.left = RedisBound]]
  BY DEF Begin
<1>2. clock \in 0..Horizon
  BY ConstantFacts DEF Types
<1>3. [Idle EXCEPT !.stage = stage, !.began = clock, !.left = RedisBound] \in Records
  BY <1>2, IdleFacts, ConstantFacts DEF Records
<1>4. /\ [Idle EXCEPT !.stage = stage, !.began = clock, !.left = RedisBound].stage = stage
      /\ [Idle EXCEPT !.stage = stage, !.began = clock, !.left = RedisBound].began = clock
  BY DEF Idle
<1> QED
  BY <1>1, <1>3, <1>4 DEF Others, Begin, Types

LEMMA IssueDoes ==
    ASSUME Types, NEW r \in Requests, NEW lifetime \in Lifetimes, Issue(r, lifetime)
    PROVE  /\ request' \in [Requests -> Records] /\ Others(r)
           /\ request[r].stage = "exchange"
           /\ request'[r].stage = "exchanged" /\ request'[r].left = request[r].left
           /\ request'[r].began = request[r].began
           /\ request'[r].token \in Tokens /\ request'[r].token.issued = clock
           /\ UNCHANGED <<clock, session, lock, cookie, login, ended>>
<1>1. request[r] \in Records /\ clock \in 0..Horizon
  BY ConstantFacts DEF Types
<1>2. request' = [request EXCEPT ![r] = [request[r] EXCEPT !.stage = "exchanged",
                                                          !.token = Issued(lifetime)]]
  BY DEF Issue
<1>3. Issued(lifetime) \in Tokens /\ Issued(lifetime).issued = clock
  BY <1>1 DEF Issued, Tokens
<1>4. [request[r] EXCEPT !.stage = "exchanged", !.token = Issued(lifetime)] \in Records
  BY <1>1, <1>3 DEF Records, Stages, Owning
<1>5. LET q == [request[r] EXCEPT !.stage = "exchanged", !.token = Issued(lifetime)] IN
        /\ q.stage = "exchanged" /\ q.left = request[r].left
        /\ q.began = request[r].began /\ q.token = Issued(lifetime)
  BY <1>1 DEF Records
<1> QED
  BY <1>2, <1>3, <1>4, <1>5 DEF Others, Issue, Types

LEMMA ExchangedDoes ==
    ASSUME Types, NEW r \in Requests, Exchanged(r),
           NEW e \in 0..MaxU64, e = RefreshedExpiry(EffectiveNow(request[r].began),
                                                    request[r].token.lifetime)
    PROVE  /\ request' \in [Requests -> Records] /\ Others(r)
           /\ request[r].stage = "exchanged"
           /\ request'[r].stage = "update" /\ request'[r].left = RedisBound
           /\ request'[r].began = request[r].began
           /\ request'[r].token = request[r].token /\ request'[r].expires_at = e
           /\ UNCHANGED <<clock, session, lock, cookie, login, ended>>
<1>1. request[r] \in Records
  BY DEF Types
<1>2. request' = [request EXCEPT ![r] = [request[r] EXCEPT !.stage = "update",
                     !.left = RedisBound, !.expires_at = e]]
  BY DEF Exchanged
<1>3. [request[r] EXCEPT !.stage = "update", !.left = RedisBound, !.expires_at = e]
         \in Records
  BY <1>1, ConstantFacts DEF Records, Stages, Owning
<1>4. LET q == [request[r] EXCEPT !.stage = "update", !.left = RedisBound,
                                  !.expires_at = e] IN
        /\ q.stage = "update" /\ q.left = RedisBound /\ q.began = request[r].began
        /\ q.token = request[r].token /\ q.expires_at = e
  BY <1>1 DEF Records
<1> QED
  BY <1>2, <1>3, <1>4 DEF Others, Exchanged, Types

LEMMA TickDoes ==
    ASSUME Types, Tick
    PROVE  /\ request' \in [Requests -> Records]
           /\ clock' = clock + 1 /\ clock' \in Sub..Horizon
           /\ UNCHANGED lock
           /\ \A r \in Requests :
                 \/ /\ ~Active(r) /\ request'[r].stage = "idle"
                 \/ /\ Active(r) /\ request'[r].stage = request[r].stage
                    /\ request[r].left > 0 /\ request'[r].left = request[r].left - 1
                    /\ request'[r].began = request[r].began
                    /\ request'[r].token = request[r].token
                    /\ request'[r].expires_at = request[r].expires_at
                    /\ request'[r].answer = request[r].answer
<1>1. clock' = clock + 1 /\ clock' \in Sub..Horizon /\ UNCHANGED lock
  BY ConstantFacts DEF Tick, MayTick, Types
<1>2. request' = [r \in Requests |-> IF request[r].stage = "done" THEN Idle
                                     ELSE [request[r] EXCEPT !.left = OneLess(@)]]
  BY DEF Tick
<1>3. ASSUME NEW r \in Requests
      PROVE  /\ request'[r] \in Records
             /\ \/ /\ ~Active(r) /\ request'[r].stage = "idle"
                \/ /\ Active(r) /\ request'[r].stage = request[r].stage
                   /\ request[r].left > 0 /\ request'[r].left = request[r].left - 1
                   /\ request'[r].began = request[r].began
                   /\ request'[r].token = request[r].token
                   /\ request'[r].expires_at = request[r].expires_at
                   /\ request'[r].answer = request[r].answer
  <2>1. request[r] \in Records /\ request[r].left \in Nat
    BY DEF Types, Records
  <2>2. CASE request[r].stage = "done"
    BY <2>2, <1>2, IdleFacts DEF Active
  <2>3. CASE request[r].stage # "done"
    <3>1. OneLess(request[r].left) \in Nat
      BY <2>1 DEF OneLess
    <3>2. request'[r] = [request[r] EXCEPT !.left = OneLess(request[r].left)]
      BY <2>3, <1>2
    <3>3. request'[r] \in Records
      BY <2>1, <3>1, <3>2 DEF Records
    <3>4. /\ request'[r].stage = request[r].stage
          /\ request'[r].left = OneLess(request[r].left)
          /\ request'[r].began = request[r].began
          /\ request'[r].token = request[r].token
          /\ request'[r].expires_at = request[r].expires_at
          /\ request'[r].answer = request[r].answer
      BY <2>1, <3>2 DEF Records
    <3>5. CASE Active(r)
      <4>1. request[r].left > 0
        BY <3>5 DEF Tick, MayTick, Active
      <4>2. OneLess(request[r].left) = request[r].left - 1
        BY <4>1, <2>1 DEF OneLess
      <4> QED
        BY <3>3, <3>4, <3>5, <4>1, <4>2
    <3>6. CASE ~Active(r)
      BY <2>3, <3>3, <3>4, <3>6 DEF Active
    <3> QED
      BY <3>5, <3>6
  <2> QED
    BY <2>2, <2>3
<1> QED
  BY <1>1, <1>2, <1>3
-----------------------------------------------------------------------------
(* The invariant is inductive.                                             *)

LEMMA InitInv == Init => Inv
<1> SUFFICES ASSUME Init PROVE Inv
  OBVIOUS
<1>1. clock \in Sub..Horizon
  BY ConstantFacts DEF Init
<1>2. login \in Logins
  BY ConstantFacts DEF Init, Logins, LoginStages
<1>3. request \in [Requests -> Records] /\ \A r \in Requests : request[r].stage = "idle"
  BY IdleFacts DEF Init
<1>4. Types
  BY <1>1, <1>2, <1>3, ConstantFacts DEF Init, Types
<1>5. LockHeld
  BY <1>3, ConstantFacts DEF Init, LockHeld, Owning
<1>6. LoginInv /\ SessionInv
  BY DEF Init, LoginInv, SessionInv
<1>7. \A r \in Requests : RequestInv(r)
  BY <1>3 DEF RequestInv, StagesInv, Active
<1> QED
  BY <1>4, <1>5, <1>6, <1>7 DEF Inv

\* What an active request may rely on.
LEMMA ActiveFacts ==
    ASSUME Inv, NEW r \in Requests, Active(r)
    PROVE  /\ login.stage = "done"
           /\ request[r].began \in Sub..Horizon /\ request[r].began <= clock
           /\ session = None => ended # "no"
<1>1. request[r] \in Records
  BY DEF Inv, Types
<1>2. /\ login.stage = "done" /\ request[r].began >= Sub /\ request[r].began <= clock
  BY DEF Inv, RequestInv
<1>3. request[r].began \in 0..Horizon
  BY <1>1 DEF Records
<1> QED
  BY <1>2, <1>3, ConstantFacts DEF Inv, SessionInv

\* What a request makes of the session it reads.
LEMMA ResolutionFacts ==
    ASSUME Inv, NEW r \in Requests, Active(r)
    PROVE  /\ Resolution(r) \in {"Ready", "Reauthenticate", "refresh"}
           /\ Token(Resolution(r)) \in Tokens \cup {None}
           /\ Resolution(r) = "Ready" =>
                 LET token == Token(Resolution(r)) IN
                 /\ token \in Tokens
                 /\ \/ token.lifetime = None
                    \/ Death(token) > Horizon
                    \/ Death(token) > clock + RedisBound
           /\ Resolution(r) = "Reauthenticate" =>
                 \/ ended # "no"
                 \/ session # None /\ ~login.refreshable /\ Due(session.token)
           /\ Resolution(r) = "refresh" => session # None /\ Due(session.token)
<1>1. clock \in Sub..Horizon /\ session \in Sessions \cup {None}
  BY DEF Inv, Types
<1>2. CASE session = None
  BY <1>2, ActiveFacts DEF Resolution, Token
<1>3. CASE session # None
  <2>1. /\ session \in Sessions /\ Told(session.token, session.expires_at)
        /\ session.refreshable = login.refreshable
    BY <1>1, <1>3 DEF Inv, SessionInv
  <2>2. session.token \in Tokens
    BY <2>1 DEF Told
  <2>3. IF SufficientlyValid(session, EffectiveNow(request[r].began))
          THEN \/ session.token.lifetime = None
               \/ Death(session.token) > Horizon
               \/ Death(session.token) > clock + RedisBound
          ELSE Due(session.token)
    BY <1>1, <2>1, ActiveFacts, ValidOrDue
  <2>4. CASE SufficientlyValid(session, EffectiveNow(request[r].began))
    <3>1. Resolution(r) = "Ready" /\ Token(Resolution(r)) = session.token
      BY <1>3, <2>4 DEF Resolution, Token
    <3> QED
      BY <2>2, <2>3, <2>4, <3>1
  <2>5. CASE ~SufficientlyValid(session, EffectiveNow(request[r].began))
    <3>1. Due(session.token)
      BY <2>3, <2>5
    <3>2. /\ Resolution(r) = IF ~session.refreshable THEN "Reauthenticate" ELSE "refresh"
          /\ Token(Resolution(r)) = None
      BY <1>3, <2>5 DEF Resolution, Token
    <3> QED
      BY <1>3, <2>1, <3>1, <3>2
  <2> QED
    BY <2>4, <2>5
<1> QED
  BY <1>2, <1>3

\* A request that another actor's step leaves alone.
LEMMA Unmoved ==
    ASSUME NEW q \in Requests, RequestInv(q), request'[q] = request[q],
           UNCHANGED <<clock, login>>,
           request[q].stage = "release" => UNCHANGED <<session, ended>>
    PROVE  RequestInv(q)'
<1>1. UNCHANGED <<request[q], clock, login>>
  OBVIOUS
<1>2. CASE request[q].stage = "release"
  BY <1>1, <1>2 DEF RequestInv, StagesInv, Active, UnderWay, Fresh, Due
<1>3. CASE request[q].stage # "release"
  BY <1>1, <1>3 DEF RequestInv, StagesInv, Active, UnderWay, Fresh
<1> QED
  BY <1>2, <1>3

LEMMA Inactive ==
    ASSUME NEW q \in Requests, request'[q].stage \in {"idle", "done"}
    PROVE  RequestInv(q)'
  BY DEF RequestInv, StagesInv, Active

\* Before the callback is done no request has begun.
LEMMA NoneBegun ==
    ASSUME Inv, login.stage # "done", UNCHANGED request
    PROVE  \A q \in Requests : RequestInv(q)'
<1> SUFFICES ASSUME NEW q \in Requests PROVE RequestInv(q)'
  OBVIOUS
<1>1. request'[q].stage \in {"idle", "done"}
  BY ActiveFacts DEF Active
<1> QED
  BY <1>1, Inactive
(* The callback. *)

LEMMA LoginStep ==
    ASSUME Inv,
           \/ LoginResponse \/ LoginVerified \/ LoginPut \/ LoginDelivered \/ LoginFails
           \/ \E lifetime \in Lifetimes, refreshable \in BOOLEAN :
                 LoginIssue(lifetime, refreshable)
    PROVE  Inv'
<1>1. /\ login.stage # "done" /\ login \in Logins /\ clock \in Sub..Horizon
      /\ UNCHANGED <<clock, lock, request, ended>>
  BY DEF Inv, Types, LoginResponse, LoginVerified, LoginPut, LoginDelivered, LoginFails,
         LoginIssue
<1>2. \A q \in Requests : RequestInv(q)'
  BY <1>1, NoneBegun
<1>3. LockHeld'
  BY <1>1 DEF Inv, LockHeld
<1>4. clock \in Nat /\ cookie = 0
  BY <1>1, ConstantFacts DEF Inv, LoginInv
<1>5. SUFFICES login' \in Logins /\ session' \in Sessions \cup {None}
               /\ cookie' \in 0..(SessionTtl * Sub) /\ LoginInv' /\ SessionInv'
  BY <1>1, <1>2, <1>3 DEF Inv, Types
<1>6. \A stage \in LoginStages, left \in Nat :
         [login EXCEPT !.stage = stage, !.left = left] \in Logins
  BY <1>1 DEF Logins
<1>7. \A stage \in LoginStages, left \in Nat :
         [login EXCEPT !.stage = stage, !.left = left, !.token = None, !.expires_at = 0]
            \in Logins
  <2>1. 0 \in 0..MaxU64
    BY ConstantFacts
  <2> QED
    BY <1>1, <2>1 DEF Logins
<1>8. session \in Sessions \cup {None} /\ cookie \in 0..(SessionTtl * Sub)
  BY DEF Inv, Types
<1>a. ASSUME NEW lifetime \in Lifetimes, NEW refreshable \in BOOLEAN,
             LoginIssue(lifetime, refreshable)
      PROVE  login' \in Logins /\ session' \in Sessions \cup {None}
             /\ cookie' \in 0..(SessionTtl * Sub) /\ LoginInv' /\ SessionInv'
  <2>1. Issued(lifetime) \in Tokens /\ Issued(lifetime).issued = clock
    BY <1>1, <1>4, ConstantFacts DEF Issued, Tokens
  <2>2. /\ login.stage = "code" /\ UNCHANGED <<session, cookie>>
        /\ login' = [login EXCEPT !.stage = "response", !.left = HttpBound,
                            !.token = Issued(lifetime), !.refreshable = refreshable]
    BY <1>a DEF LoginIssue
  <2>3. login' \in Logins /\ login'.stage = "response" /\ login'.left = HttpBound
        /\ login'.token = Issued(lifetime)
    BY <1>1, <2>1, <2>2, ConstantFacts DEF Logins, LoginStages
  <2>4. session = None
    BY <2>2 DEF Inv, SessionInv
  <2>5. LoginInv'
    BY <1>1, <1>4, <2>1, <2>2, <2>3, ConstantFacts DEF LoginInv, UnderWay
  <2> QED
    BY <1>8, <2>2, <2>3, <2>4, <2>5 DEF SessionInv
<1>b. CASE LoginResponse
  <2>1. /\ login.stage = "response" /\ UNCHANGED <<session, cookie>>
        /\ login' = [login EXCEPT !.stage = "verify", !.left = VerifyBound,
                            !.expires_at = AccessTokenExpiry(login.token.lifetime)]
    BY <1>b DEF LoginResponse
  <2>2. login.token \in Tokens /\ login.left \in Nat
        /\ login.token.issued <= clock
        /\ clock + login.left <= login.token.issued + HttpBound
    BY <1>1, <2>1 DEF Inv, LoginInv, UnderWay, Logins
  <2>3. clock <= login.token.issued + HttpBound
    BY <1>4, <2>2, ConstantFacts, TokenFacts
  <2>4. Told(login.token, AccessTokenExpiry(login.token.lifetime))
    BY <1>1, <2>2, <2>3, LoginExpiryIsTold
  <2>5. AccessTokenExpiry(login.token.lifetime) \in 0..MaxU64
    BY <2>4 DEF Told
  <2>6. /\ login' \in Logins /\ login'.stage = "verify" /\ login'.token = login.token
        /\ login'.expires_at = AccessTokenExpiry(login.token.lifetime)
    BY <1>1, <2>1, <2>5, ConstantFacts DEF Logins, LoginStages
  <2>7. session = None
    BY <2>1 DEF Inv, SessionInv
  <2> QED
    BY <1>4, <1>8, <2>1, <2>4, <2>6, <2>7 DEF LoginInv, SessionInv
<1>c. CASE LoginVerified
  <2>1. /\ login.stage = "verify" /\ UNCHANGED <<session, cookie>>
        /\ login' = [login EXCEPT !.stage = "put", !.left = RedisBound]
    BY <1>c DEF LoginVerified, LoginGoes
  <2>2. login' \in Logins
    BY <1>6, <2>1, ConstantFacts DEF LoginStages
  <2>3. /\ login'.stage = "put" /\ login'.token = login.token
        /\ login'.expires_at = login.expires_at
    BY <1>1, <2>1 DEF Logins
  <2>4. session = None
    BY <2>1 DEF Inv, SessionInv
  <2> QED
    BY <1>4, <1>8, <2>1, <2>2, <2>3, <2>4 DEF Inv, LoginInv, SessionInv
<1>d. CASE LoginPut
  <2>1. /\ login.stage = "put" /\ UNCHANGED cookie
        /\ session' = [token |-> login.token, expires_at |-> login.expires_at,
                       refreshable |-> login.refreshable, ttl |-> SessionTtl * Sub]
    BY <1>d DEF LoginPut
  <2>2. PICK stage \in {"deliver", "failed"}, left \in Nat :
           login' = [login EXCEPT !.stage = stage, !.left = left, !.token = None,
                                  !.expires_at = 0]
    BY <1>d, ConstantFacts DEF LoginPut, LoginEnds
  <2>3. /\ login' \in Logins /\ login'.stage \in {"deliver", "failed"}
        /\ login'.refreshable = login.refreshable
    <3>1. stage \in LoginStages
      BY DEF LoginStages
    <3>2. login'.stage = stage /\ login'.refreshable = login.refreshable
      BY <1>1, <2>2 DEF Logins
    <3> QED
      BY <1>7, <2>2, <3>1, <3>2
  <2>4. Told(login.token, login.expires_at)
    BY <2>1 DEF Inv, LoginInv
  <2>5. session' \in Sessions
    BY <1>1, <2>1, <2>4, ConstantFacts DEF Sessions, Told, Logins
  <2>6. /\ session'.token = login.token /\ session'.expires_at = login.expires_at
        /\ session'.refreshable = login.refreshable /\ session' # None
    BY <2>1, <2>5, ConstantFacts
  <2>7. Told(session.token, session.expires_at)'
    BY <2>4, <2>6 DEF Told, Death
  <2> QED
    BY <1>4, <1>8, <2>1, <2>3, <2>5, <2>6, <2>7 DEF LoginInv, SessionInv
<1>e. CASE LoginDelivered
  <2>1. /\ login.stage = "deliver" /\ UNCHANGED session
        /\ cookie' = SessionTtl * Sub
        /\ login' = [login EXCEPT !.stage = "done", !.left = 0]
    BY <1>e DEF LoginDelivered, LoginGoes
  <2>2. login' \in Logins
    BY <1>6, <2>1, ConstantFacts DEF LoginStages
  <2>3. login'.stage = "done" /\ login'.refreshable = login.refreshable
    BY <1>1, <2>1 DEF Logins
  <2>4. session # None => session.ttl <= SessionTtl * Sub
    BY <1>8, ConstantFacts DEF Sessions
  <2> QED
    BY <1>1, <1>8, <2>1, <2>2, <2>3, <2>4, ConstantFacts DEF Inv, LoginInv, SessionInv
<1>f. CASE LoginFails
  <2>1. UNCHANGED <<session, cookie>>
    BY <1>f DEF LoginFails
  <2>2. login' \in Logins
    BY <1>7, <1>f, ConstantFacts DEF LoginFails, LoginEnds, LoginStages
  <2>3. login'.stage = "failed" /\ login'.refreshable = login.refreshable
    BY <1>1, <1>f DEF LoginFails, LoginEnds, Logins
  <2> QED
    BY <1>4, <1>8, <2>1, <2>2, <2>3 DEF Inv, LoginInv, SessionInv
<1> QED
  BY <1>a, <1>b, <1>c, <1>d, <1>e, <1>f

(* Time. *)

LEMMA TickStep == ASSUME Inv, Tick PROVE Inv'
<1>1. /\ clock \in Nat /\ clock <= Horizon /\ clock' = clock + 1
      /\ clock' \in Sub..Horizon /\ UNCHANGED lock
  BY TickDoes, ConstantFacts DEF Inv, Types
<1>2. session \in Sessions \cup {None} /\ login \in Logins
      /\ cookie \in 0..(SessionTtl * Sub) /\ cookie \in Nat
  BY ConstantFacts DEF Inv, Types
<1>3. /\ login' \in Logins /\ login'.stage = login.stage /\ login'.token = login.token
      /\ login'.expires_at = login.expires_at
      /\ login'.refreshable = login.refreshable
      /\ login.stage = "response" => login.left > 0 /\ login'.left = login.left - 1
  <2>1. login' = [login EXCEPT !.left = OneLess(login.left)]
    BY DEF Tick
  <2>2. login.left \in Nat /\ OneLess(login.left) \in Nat
    BY <1>2 DEF Logins, OneLess
  <2>3. login.stage = "response" => login.left > 0
    BY DEF Tick, MayTick
  <2>4. login.stage = "response" => OneLess(login.left) = login.left - 1
    BY <2>2, <2>3 DEF OneLess
  <2> QED
    BY <1>2, <2>1, <2>2, <2>3, <2>4 DEF Logins
<1>4. /\ cookie' \in 0..(SessionTtl * Sub)
      /\ cookie = 0 => cookie' = 0
      /\ cookie # 0 => cookie' = cookie - 1
  BY <1>2, ConstantFacts DEF Tick, OneLess
<1>5. /\ session' \in Sessions \cup {None}
      /\ session' # None => /\ session # None /\ session'.token = session.token
                            /\ session'.expires_at = session.expires_at
                            /\ session'.refreshable = session.refreshable
                            /\ session.ttl \in Nat /\ session'.ttl = session.ttl - 1
      /\ session = None => session' = None
  <2>1. CASE session = None
    BY <2>1 DEF Tick
  <2>2. CASE session # None
    <3>1. session \in Sessions /\ session.ttl \in Nat
          /\ session.ttl >= 1 /\ session.ttl <= SessionTtl * Sub
      BY <1>2, <2>2, ConstantFacts DEF Sessions
    <3>2. CASE session.ttl = 1
      BY <2>2, <3>2 DEF Tick
    <3>3. CASE session.ttl # 1
      <4>1. session' = [session EXCEPT !.ttl = session.ttl - 1]
        BY <2>2, <3>3 DEF Tick
      <4>2. session.ttl - 1 \in 1..(SessionTtl * Sub)
        BY <3>1, <3>3, ConstantFacts
      <4> QED
        BY <2>2, <3>1, <4>1, <4>2 DEF Sessions
    <3> QED
      BY <3>2, <3>3
  <2> QED
    BY <2>1, <2>2
<1>6. /\ ended' \in {"no", "expired", "rejected"}
      /\ ended # "no" => ended' # "no"
      /\ session # None /\ session' = None => ended' # "no"
  BY DEF Tick, Inv, Types
<1>7. Types'
  BY <1>1, <1>3, <1>4, <1>5, <1>6, TickDoes DEF Inv, Types
<1>8. LockHeld'
  BY <1>1, TickDoes DEF Inv, LockHeld, Active, Owning
<1>9. LoginInv'
  <2>1. login.stage = "response" => UnderWay(login.token, login.left)'
    <3> SUFFICES ASSUME login.stage = "response"
                 PROVE  UnderWay(login.token, login.left)'
      OBVIOUS
    <3>1. /\ login.token \in Tokens /\ login.left \in Nat
          /\ login.token.issued <= clock /\ clock + login.left <= login.token.issued + HttpBound
      BY <1>2 DEF Inv, LoginInv, UnderWay, Logins
    <3>2. login.token.issued \in Nat
      BY <3>1, TokenFacts
    <3> QED
      BY <1>1, <1>3, <3>1, <3>2, ConstantFacts DEF UnderWay
  <2> QED
    BY <1>3, <1>4, <2>1 DEF Inv, LoginInv, Told, Death
<1>10. SessionInv'
  <2>1. session' # None => Told(session.token, session.expires_at)'
    BY <1>5 DEF Inv, SessionInv, Told, Death
  <2>2. session' # None /\ login.stage = "done" => cookie' >= session'.ttl
    <3> SUFFICES ASSUME session' # None, login.stage = "done"
                 PROVE  cookie' >= session'.ttl
      OBVIOUS
    <3>1. cookie >= session.ttl /\ session.ttl \in Nat /\ session.ttl >= 1
      BY <1>2, <1>5, ConstantFacts DEF Inv, SessionInv, Sessions
    <3> QED
      BY <1>2, <1>4, <1>5, <3>1
  <2> QED
    BY <1>3, <1>5, <1>6, <2>1, <2>2 DEF Inv, SessionInv
<1>11. ASSUME NEW r \in Requests PROVE RequestInv(r)'
  <2>1. CASE ~Active(r)
    BY <2>1, TickDoes, Inactive DEF Inv
  <2>2. CASE Active(r)
    <3>1. /\ request'[r].stage = request[r].stage
          /\ request[r].left > 0 /\ request'[r].left = request[r].left - 1
          /\ request'[r].began = request[r].began
          /\ request'[r].token = request[r].token
          /\ request'[r].expires_at = request[r].expires_at
          /\ request'[r].answer = request[r].answer
      BY <2>2, TickDoes DEF Inv
    <3>2. request[r].left \in Nat /\ RequestInv(r) /\ request[r].began \in Nat
      BY ConstantFacts DEF Inv, Types, Records
    <3>3. Active(r)' => login'.stage = "done" /\ request'[r].began >= Sub
                        /\ request'[r].began <= clock'
      BY <1>1, <1>3, <2>2, <3>1, <3>2, ConstantFacts, ActiveFacts
    <3>4. request[r].token \in Tokens => request[r].token.issued \in Nat
      BY TokenFacts
    <3>5. request[r].stage = "exchanged" => UnderWay(request[r].token, request[r].left)'
      BY <1>1, <3>1, <3>2, <3>4, ConstantFacts DEF RequestInv, StagesInv, UnderWay
    <3>6. \A more \in 1..2 : Fresh(request[r], request[r].token, more)
             => Fresh(request[r], request[r].token, more)'
      <4> SUFFICES ASSUME NEW more \in 1..2, Fresh(request[r], request[r].token, more)
                   PROVE  Fresh(request[r], request[r].token, more)'
        OBVIOUS
      <4>1. clock' + request'[r].left = clock + request[r].left
        BY <1>1, <3>1, <3>2
      <4> QED
        BY <3>1, <4>1 DEF Fresh
    <3>7. Told(request[r].token, request[r].expires_at)
             => Told(request[r].token, request[r].expires_at)'
      BY <3>1 DEF Told, Death
    <3>8. clock' + request'[r].left = clock + request[r].left
      BY <1>1, <3>1, <3>2
    <3>9. session # None /\ session' # None /\ Due(session.token) => Due(session.token)'
      <4> SUFFICES ASSUME session # None, session' # None, Due(session.token)
                   PROVE  Due(session.token)'
        OBVIOUS
      <4>1. session.token \in Tokens
        BY DEF Inv, SessionInv, Told
      <4>2. Death(session.token) \in Nat /\ Death(session.token) <= clock + (Skew + 2) * Sub
            /\ session.token.lifetime # None
        BY <4>1, TokenFacts DEF Due
      <4>3. (Skew + 2) * Sub \in Nat
        BY ConstantFacts, Distribute
      <4>4. Death(session.token) <= clock' + (Skew + 2) * Sub
        BY <1>1, <4>2, <4>3
      <4> QED
        BY <1>5, <4>2, <4>4 DEF Due, Death
    <3>10. StagesInv(request[r])'
      <4>1. /\ request[r].stage = "exchange" => request'[r].left <= HttpBound
            /\ request[r].stage = "exchanged" => request'[r].began <= request'[r].token.issued
        BY <3>1, <3>2, ConstantFacts DEF RequestInv, StagesInv
      <4>2. request[r].stage = "update" =>
               Fresh(request[r], request[r].token, 1)'
               /\ Told(request[r].token, request[r].expires_at)'
        BY <3>2, <3>6, <3>7 DEF RequestInv, StagesInv
      <4>3. request[r].stage = "release" /\ request[r].answer = "Ready" =>
               \/ request'[r].token.lifetime = None
               \/ request'[r].token \in Tokens /\ Death(request[r].token)' > Horizon
               \/ request'[r].token \in Tokens
                  /\ Death(request[r].token)' > clock' + request'[r].left
               \/ Fresh(request[r], request[r].token, 2)'
        BY <3>1, <3>2, <3>6, <3>8 DEF RequestInv, StagesInv, Death
      <4>4. request[r].stage = "release" /\ request[r].answer = "Reauthenticate" =>
               \/ ended' # "no"
               \/ session' # None /\ ~login'.refreshable /\ Due(session.token)'
        BY <1>3, <1>5, <1>6, <3>2, <3>9 DEF RequestInv, StagesInv
      <4>5. request[r].stage = "release" => request[r].answer \in {"Ready", "Reauthenticate"}
        BY <3>2 DEF RequestInv, StagesInv
      <4> QED
        BY <3>1, <3>5, <4>1, <4>2, <4>3, <4>4, <4>5 DEF StagesInv
    <3> QED
      BY <3>3, <3>10 DEF RequestInv
  <2> QED
    BY <2>1, <2>2
<1> QED
  BY <1>7, <1>8, <1>9, <1>10, <1>11 DEF Inv
(* Requests. *)

\* A step of a request is kept apart from the others: at most the session
\* changes under them, and then the step is the lock owner's.
LEMMA OthersKept ==
    ASSUME Inv, NEW r \in Requests, Others(r), UNCHANGED <<clock, login>>,
           UNCHANGED <<session, ended>> \/ request[r].stage \in Owning,
           NEW q \in Requests, q # r
    PROVE  RequestInv(q)'
<1>1. request'[q] = request[q] /\ RequestInv(q)
  BY DEF Others, Inv
<1>2. request[q].stage = "release" => UNCHANGED <<session, ended>>
  BY ConstantFacts DEF Inv, LockHeld, Owning
<1> QED
  BY <1>1, <1>2, Unmoved

\* A step that changes only the request keeps the rest of the invariant.
LEMMA OnlyRequest ==
    ASSUME Inv, NEW r \in Requests, Others(r), request' \in [Requests -> Records],
           UNCHANGED <<clock, session, cookie, login, ended>>,
           lock' \in Requests \cup {None}, LockHeld', RequestInv(r)'
    PROVE  Inv'
<1>1. Types'
  BY DEF Inv, Types
<1>2. LoginInv' /\ SessionInv'
  BY DEF Inv, LoginInv, SessionInv, UnderWay, Told, Death
<1>3. \A q \in Requests : RequestInv(q)'
  BY OthersKept
<1> QED
  BY <1>1, <1>2, <1>3 DEF Inv

\* The lock stays with its owner or with none.
LEMMA LockKept ==
    ASSUME Inv, NEW r \in Requests, Others(r), request' \in [Requests -> Records],
           UNCHANGED lock,
           request[r].stage \in Owning <=> request'[r].stage \in Owning
    PROVE  LockHeld' /\ lock' \in Requests \cup {None}
  BY DEF Inv, Types, LockHeld, Others

LEMMA LockFreed ==
    ASSUME Inv, NEW r \in Requests, Others(r), lock = r, lock' = None,
           request'[r].stage \notin Owning
    PROVE  LockHeld' /\ lock' \in Requests \cup {None}
  BY ConstantFacts DEF Inv, LockHeld, Others

LEMMA RequestStep ==
    ASSUME Inv, NEW r \in Requests,
           \/ Begin(r) \/ CheckSession(r) \/ Read(r) \/ Discovered(r) \/ Acquire(r)
           \/ Poll(r) \/ Reread(r) \/ Exchanged(r) \/ Update(r) \/ Rejected(r)
           \/ Released(r) \/ Fails(r)
           \/ \E lifetime \in Lifetimes : Issue(r, lifetime)
    PROVE  Inv'
<1>1. /\ Types /\ request \in [Requests -> Records] /\ request[r] \in Records
      /\ clock \in Sub..Horizon /\ clock \in Nat /\ RequestInv(r)
      /\ lock \in Requests \cup {None}
  BY ConstantFacts DEF Inv, Types
<1>2. {"401", "204", "503", "Ready", "Reauthenticate", "Unavailable"} \subseteq Answers
  BY DEF Answers
<1>3. {"discover", "wait", "reread", "exchange"} \subseteq Stages
  BY DEF Stages, Owning
<1>4. Resolution(r) # "refresh" /\ Active(r) => Resolution(r) \in Answers
  BY <1>2, ResolutionFacts
<1>a. CASE Begin(r)
  <2>1. /\ request' \in [Requests -> Records] /\ Others(r)
        /\ request'[r].stage \in {"check", "read"} /\ request'[r].began = clock
        /\ request[r].stage \in {"idle", "done"} /\ cookie > 0
        /\ UNCHANGED <<clock, session, lock, cookie, login, ended>>
    BY <1>1, <1>a, BeginDoes
  <2>2. login.stage = "done"
    BY <2>1, ConstantFacts DEF Inv, LoginInv, Types
  <2>3. RequestInv(r)'
    BY <1>1, <2>1, <2>2, ConstantFacts DEF RequestInv, StagesInv, Active
  <2>4. LockHeld' /\ lock' \in Requests \cup {None}
    BY <2>1, LockKept DEF Owning
  <2> QED
    BY <2>1, <2>3, <2>4, OnlyRequest
<1>b. CASE CheckSession(r)
  <2>1. /\ request' \in [Requests -> Records] /\ Others(r) /\ request'[r].stage = "done"
    BY <1>1, <1>2, <1>b, EndsDoes DEF CheckSession
  <2>2. RequestInv(r)'
    BY <2>1, Inactive
  <2>3. LockHeld' /\ lock' \in Requests \cup {None}
    BY <1>b, <2>1, LockKept DEF CheckSession, Owning
  <2> QED
    BY <1>b, <2>1, <2>2, <2>3, OnlyRequest DEF CheckSession
<1>c. CASE Read(r)
  <2>0. Active(r) /\ request[r].stage = "read"
        /\ UNCHANGED <<clock, session, lock, cookie, login, ended>>
    BY <1>c DEF Read, Active
  <2>1. CASE Resolution(r) = "refresh"
    <3>1. Goes(r, "discover", DiscoveryBound)
      BY <1>c, <2>1 DEF Read
    <3>2. /\ request' \in [Requests -> Records] /\ Others(r)
          /\ request'[r].stage = "discover" /\ request'[r].began = request[r].began
      BY <1>1, <1>3, <3>1, GoesDoes, ConstantFacts
    <3>3. RequestInv(r)'
      BY <1>1, <2>0, <3>2 DEF RequestInv, StagesInv, Active
    <3>4. LockHeld' /\ lock' \in Requests \cup {None}
      BY <2>0, <3>2, LockKept DEF Owning
    <3> QED
      BY <2>0, <3>2, <3>3, <3>4, OnlyRequest
  <2>2. CASE Resolution(r) # "refresh"
    <3>1. Ends(r, Resolution(r), Token(Resolution(r)))
      BY <1>c, <2>2 DEF Read
    <3>2. /\ request' \in [Requests -> Records] /\ Others(r)
          /\ request'[r].stage = "done"
      BY <1>1, <1>4, <2>0, <2>2, <3>1, EndsDoes, ResolutionFacts
    <3>3. RequestInv(r)'
      BY <3>2, Inactive
    <3>4. LockHeld' /\ lock' \in Requests \cup {None}
      BY <2>0, <3>2, LockKept DEF Owning
    <3> QED
      BY <2>0, <3>2, <3>3, <3>4, OnlyRequest
  <2> QED
    BY <2>1, <2>2
<1>d. CASE Discovered(r)
  <2>1. /\ request[r].stage = "discover"
        /\ UNCHANGED <<clock, session, lock, cookie, login, ended>>
    BY <1>d DEF Discovered
  <2>2. /\ request' \in [Requests -> Records] /\ Others(r)
        /\ request'[r].stage = "wait" /\ request'[r].began = request[r].began
    BY <1>1, <1>3, <1>d, GoesDoes, ConstantFacts DEF Discovered
  <2>3. RequestInv(r)'
    BY <1>1, <2>1, <2>2 DEF RequestInv, StagesInv, Active
  <2>4. LockHeld' /\ lock' \in Requests \cup {None}
    BY <2>1, <2>2, LockKept DEF Owning
  <2> QED
    BY <2>1, <2>2, <2>3, <2>4, OnlyRequest
<1>e. CASE Acquire(r)
  <2>1. /\ request[r].stage = "wait" /\ lock = None /\ lock' = r
        /\ UNCHANGED <<clock, session, cookie, login, ended>>
    BY <1>e DEF Acquire
  <2>2. /\ request' \in [Requests -> Records] /\ Others(r)
        /\ request'[r].stage = "reread" /\ request'[r].began = request[r].began
    BY <1>1, <1>3, <1>e, GoesDoes, ConstantFacts DEF Acquire
  <2>3. RequestInv(r)'
    BY <1>1, <2>1, <2>2 DEF RequestInv, StagesInv, Active
  <2>4. LockHeld'
    BY <2>1, <2>2, ConstantFacts DEF Inv, LockHeld, Others, Owning
  <2> QED
    BY <2>1, <2>2, <2>3, <2>4, OnlyRequest
<1>f. CASE Poll(r)
  <2>1. /\ Active(r) /\ request[r].stage = "wait" /\ Resolution(r) # "refresh"
        /\ Ends(r, Resolution(r), Token(Resolution(r)))
        /\ UNCHANGED <<clock, session, lock, cookie, login, ended>>
    BY <1>f DEF Poll, Active
  <2>2. /\ request' \in [Requests -> Records] /\ Others(r) /\ request'[r].stage = "done"
    BY <1>1, <1>4, <2>1, EndsDoes, ResolutionFacts
  <2>3. RequestInv(r)'
    BY <2>2, Inactive
  <2>4. LockHeld' /\ lock' \in Requests \cup {None}
    BY <2>1, <2>2, LockKept DEF Owning
  <2> QED
    BY <2>1, <2>2, <2>3, <2>4, OnlyRequest
<1>g. CASE Reread(r)
  <2>0. Active(r) /\ request[r].stage = "reread"
        /\ UNCHANGED <<clock, session, lock, cookie, login, ended>>
    BY <1>g DEF Reread, Active
  <2>1. CASE Resolution(r) = "refresh"
    <3>1. Goes(r, "exchange", HttpBound)
      BY <1>g, <2>1 DEF Reread
    <3>2. /\ request' \in [Requests -> Records] /\ Others(r)
          /\ request'[r].stage = "exchange" /\ request'[r].began = request[r].began
          /\ request'[r].left = HttpBound
      BY <1>1, <1>3, <3>1, GoesDoes, ConstantFacts
    <3>3. RequestInv(r)'
      BY <1>1, <2>0, <3>2, ConstantFacts DEF RequestInv, StagesInv, Active
    <3>4. LockHeld' /\ lock' \in Requests \cup {None}
      BY <2>0, <3>2, LockKept DEF Owning
    <3> QED
      BY <2>0, <3>2, <3>3, <3>4, OnlyRequest
  <2>2. CASE Resolution(r) # "refresh"
    <3>1. Releasing(r, Resolution(r), Token(Resolution(r)))
      BY <1>g, <2>2 DEF Reread
    <3>2. /\ request' \in [Requests -> Records] /\ Others(r)
          /\ request'[r].stage = "release" /\ request'[r].left = RedisBound
          /\ request'[r].began = request[r].began /\ request'[r].answer = Resolution(r)
          /\ request'[r].token = Token(Resolution(r))
      BY <1>1, <1>4, <2>0, <2>2, <3>1, ReleasingDoes, ResolutionFacts
    <3>3. StagesInv(request[r])'
      <4>1. Resolution(r) \in {"Ready", "Reauthenticate"}
        BY <2>0, <2>2, ResolutionFacts
      <4>2. Resolution(r) = "Ready" =>
               /\ request'[r].token \in Tokens
               /\ \/ request'[r].token.lifetime = None
                  \/ Death(request[r].token)' > Horizon
                  \/ Death(request[r].token)' > clock' + request'[r].left
        BY <2>0, <3>2, ResolutionFacts DEF Death
      <4>3. Resolution(r) = "Reauthenticate" =>
               \/ ended' # "no"
               \/ session' # None /\ ~login'.refreshable /\ Due(session.token)'
        BY <2>0, ResolutionFacts DEF Due, Death
      <4> QED
        BY <3>2, <4>1, <4>2, <4>3 DEF StagesInv
    <3>4. RequestInv(r)'
      BY <1>1, <2>0, <3>2, <3>3 DEF RequestInv, Active
    <3>5. LockHeld' /\ lock' \in Requests \cup {None}
      BY <2>0, <3>2, LockKept DEF Owning
    <3> QED
      BY <2>0, <3>2, <3>4, <3>5, OnlyRequest
  <2> QED
    BY <2>1, <2>2
<1>h. CASE Exchanged(r)
  <2>1. request[r].stage = "exchanged" /\ Active(r)
    BY <1>h DEF Exchanged, Active
  <2>2. /\ request[r].began <= request[r].token.issued /\ request[r].token \in Tokens
        /\ request[r].token.issued <= clock
        /\ clock + request[r].left <= request[r].token.issued + HttpBound
    BY <1>1, <2>1 DEF RequestInv, StagesInv, UnderWay
  <2>3. request[r].left \in Nat /\ request[r].token.issued \in Nat
        /\ clock <= request[r].token.issued + HttpBound
    BY <1>1, <2>2, TokenFacts, ConstantFacts DEF Records
  <2>4. PICK e \in 0..MaxU64 :
          /\ e = RefreshedExpiry(EffectiveNow(request[r].began), request[r].token.lifetime)
          /\ Told(request[r].token, e)
    <3>1. Told(request[r].token,
               RefreshedExpiry(EffectiveNow(request[r].began), request[r].token.lifetime))
      BY <1>1, <2>1, <2>2, <2>3, ActiveFacts, RefreshedExpiryIsTold
    <3> QED
      BY <3>1 DEF Told
  <2>5. /\ request' \in [Requests -> Records] /\ Others(r)
        /\ request'[r].stage = "update" /\ request'[r].left = RedisBound
        /\ request'[r].began = request[r].began
        /\ request'[r].token = request[r].token /\ request'[r].expires_at = e
        /\ UNCHANGED <<clock, session, lock, cookie, login, ended>>
    BY <1>1, <1>h, <2>4, ExchangedDoes
  <2>6. Fresh(request[r], request[r].token, 1)'
    BY <1>1, <2>2, <2>3, <2>5, ConstantFacts DEF Fresh
  <2>7. Told(request[r].token, request[r].expires_at)'
    BY <2>4, <2>5 DEF Told, Death
  <2>8. RequestInv(r)'
    BY <1>1, <2>1, <2>5, <2>6, <2>7 DEF RequestInv, StagesInv, Active
  <2>9. LockHeld' /\ lock' \in Requests \cup {None}
    BY <2>1, <2>5, LockKept DEF Owning
  <2> QED
    BY <2>5, <2>8, <2>9, OnlyRequest
<1>i. ASSUME NEW lifetime \in Lifetimes, Issue(r, lifetime) PROVE Inv'
  <2>1. /\ request' \in [Requests -> Records] /\ Others(r)
        /\ request[r].stage = "exchange"
        /\ request'[r].stage = "exchanged" /\ request'[r].left = request[r].left
        /\ request'[r].began = request[r].began
        /\ request'[r].token \in Tokens /\ request'[r].token.issued = clock
        /\ UNCHANGED <<clock, session, lock, cookie, login, ended>>
    BY <1>1, <1>i, IssueDoes
  <2>2. Active(r) /\ request[r].left <= HttpBound /\ request[r].left \in Nat
    BY <1>1, <2>1 DEF Active, RequestInv, StagesInv, Records
  <2>3. request'[r].began <= request'[r].token.issued
        /\ UnderWay(request[r].token, request[r].left)'
    BY <1>1, <2>1, <2>2, ActiveFacts, ConstantFacts DEF UnderWay
  <2>4. RequestInv(r)'
    BY <1>1, <2>1, <2>2, <2>3 DEF RequestInv, StagesInv, Active
  <2>5. LockHeld' /\ lock' \in Requests \cup {None}
    BY <2>1, LockKept DEF Owning
  <2> QED
    BY <2>1, <2>4, <2>5, OnlyRequest
<1>j. CASE Released(r)
  <2>1. /\ request[r].stage = "release" /\ lock' = None
        /\ Ends(r, request[r].answer, request[r].token)
        /\ UNCHANGED <<clock, session, cookie, login, ended>>
    BY <1>j DEF Released
  <2>2. /\ request' \in [Requests -> Records] /\ Others(r) /\ request'[r].stage = "done"
    BY <1>1, <2>1, EndsDoes DEF Records
  <2>3. RequestInv(r)'
    BY <2>2, Inactive
  <2>4. lock = r
    BY <2>1 DEF Inv, LockHeld, Owning
  <2>5. LockHeld' /\ lock' \in Requests \cup {None}
    BY <2>1, <2>2, <2>4, LockFreed DEF Owning
  <2> QED
    BY <2>1, <2>2, <2>3, <2>5, OnlyRequest
<1>k. CASE Fails(r)
  <2>1. /\ IF lock = r THEN lock' = None ELSE UNCHANGED lock
        /\ Ends(r, IF request[r].stage = "check" THEN "503" ELSE "Unavailable", None)
        /\ UNCHANGED <<clock, session, cookie, login, ended>>
    BY <1>k DEF Fails
  <2>2. /\ request' \in [Requests -> Records] /\ Others(r) /\ request'[r].stage = "done"
    BY <1>1, <1>2, <2>1, EndsDoes
  <2>3. RequestInv(r)'
    BY <2>2, Inactive
  <2>4. CASE lock = r
    <3>1. LockHeld' /\ lock' \in Requests \cup {None}
      BY <2>1, <2>2, <2>4, LockFreed DEF Owning
    <3> QED
      BY <2>1, <2>2, <2>3, <3>1, OnlyRequest
  <2>5. CASE lock # r
    <3>1. LockHeld' /\ lock' \in Requests \cup {None}
      BY <2>1, <2>2, <2>5, LockKept DEF Owning, Inv, LockHeld
    <3> QED
      BY <2>1, <2>2, <2>3, <3>1, OnlyRequest
  <2> QED
    BY <2>4, <2>5
<1>l. CASE Update(r)
  <2>1. /\ request[r].stage = "update" /\ Active(r)
        /\ UNCHANGED <<clock, lock, cookie, login, ended>>
    BY <1>l DEF Update, Active
  <2>2. /\ Fresh(request[r], request[r].token, 1)
        /\ Told(request[r].token, request[r].expires_at)
        /\ request[r].token \in Tokens /\ request[r].left \in Nat
    BY <1>1, <2>1 DEF RequestInv, StagesInv, Told, Records
  <2>3. CASE session = None
    <3>1. Releasing(r, "Reauthenticate", None) /\ UNCHANGED session
      BY <1>l, <2>3 DEF Update
    <3>2. /\ request' \in [Requests -> Records] /\ Others(r)
          /\ request'[r].stage = "release" /\ request'[r].left = RedisBound
          /\ request'[r].began = request[r].began
          /\ request'[r].answer = "Reauthenticate"
      BY <1>1, <1>2, <3>1, ReleasingDoes
    <3>3. ended # "no"
      BY <2>1, <2>3, ActiveFacts
    <3>4. RequestInv(r)'
      BY <1>1, <2>1, <3>2, <3>3 DEF RequestInv, StagesInv, Active
    <3>5. LockHeld' /\ lock' \in Requests \cup {None}
      BY <2>1, <3>2, LockKept DEF Owning
    <3> QED
      BY <2>1, <3>1, <3>2, <3>4, <3>5, OnlyRequest
  <2>4. CASE session # None
    <3>1. /\ session' = [session EXCEPT !.token = request[r].token,
                                       !.expires_at = request[r].expires_at]
          /\ Releasing(r, "Ready", request[r].token)
      BY <1>l, <2>4 DEF Update, UpdatedSession
    <3>2. /\ request' \in [Requests -> Records] /\ Others(r)
          /\ request'[r].stage = "release" /\ request'[r].left = RedisBound
          /\ request'[r].began = request[r].began
          /\ request'[r].answer = "Ready" /\ request'[r].token = request[r].token
      BY <1>1, <1>2, <2>2, <3>1, ReleasingDoes
    <3>3. session \in Sessions
      BY <2>4 DEF Inv, Types
    <3>4. /\ session' \in Sessions /\ session' # None
          /\ session'.token = request[r].token
          /\ session'.expires_at = request[r].expires_at
          /\ session'.refreshable = session.refreshable /\ session'.ttl = session.ttl
      <4>1. session' \in Sessions
        BY <2>2, <3>1, <3>3 DEF Sessions, Told
      <4> QED
        BY <3>1, <3>3, <4>1, ConstantFacts DEF Sessions
    <3>5. Told(session.token, session.expires_at)'
      BY <2>2, <3>4 DEF Told, Death
    <3>6. Fresh(request[r], request[r].token, 2)'
      <4>1. request[r].token.issued \in Nat
        BY <2>2, TokenFacts
      <4> QED
        BY <1>1, <2>1, <2>2, <3>2, <4>1, ConstantFacts DEF Fresh
    <3>7. RequestInv(r)'
      BY <1>1, <2>1, <3>2, <3>6 DEF RequestInv, StagesInv, Active
    <3>8. LockHeld' /\ lock' \in Requests \cup {None}
      BY <2>1, <3>2, LockKept DEF Owning
    <3>9. \A q \in Requests : RequestInv(q)'
      BY <2>1, <3>2, <3>7, OthersKept DEF Owning
    <3>10. LoginInv' /\ SessionInv'
      BY <2>1, <2>4, <3>4, <3>5, ActiveFacts
      DEF Inv, LoginInv, SessionInv, UnderWay, Told, Death
    <3>11. Types'
      BY <2>1, <3>2, <3>4, <3>8 DEF Inv, Types
    <3> QED
      BY <3>8, <3>9, <3>10, <3>11 DEF Inv
  <2> QED
    BY <2>3, <2>4
<1>m. CASE Rejected(r)
  <2>1. /\ request[r].stage = "exchange" /\ Active(r) /\ session' = None
        /\ ended' = IF session = None THEN ended ELSE "rejected"
        /\ Releasing(r, "Reauthenticate", None)
        /\ UNCHANGED <<clock, lock, cookie, login>>
    BY <1>m DEF Rejected, Active
  <2>2. /\ request' \in [Requests -> Records] /\ Others(r)
        /\ request'[r].stage = "release" /\ request'[r].left = RedisBound
        /\ request'[r].began = request[r].began
        /\ request'[r].answer = "Reauthenticate"
    BY <1>1, <1>2, <2>1, ReleasingDoes
  <2>3. ended' # "no" /\ ended' \in {"no", "expired", "rejected"}
    BY <2>1, ActiveFacts DEF Inv, Types
  <2>4. RequestInv(r)'
    BY <1>1, <2>1, <2>2, <2>3 DEF RequestInv, StagesInv, Active
  <2>5. LockHeld' /\ lock' \in Requests \cup {None}
    BY <2>1, <2>2, LockKept DEF Owning
  <2>6. \A q \in Requests : RequestInv(q)'
    BY <2>1, <2>2, <2>4, OthersKept DEF Owning
  <2>7. LoginInv' /\ SessionInv'
    BY <2>1, <2>3 DEF Inv, LoginInv, SessionInv, UnderWay, Told, Death
  <2>8. Types'
    BY <2>1, <2>2, <2>3, <2>5 DEF Inv, Types
  <2> QED
    BY <2>5, <2>6, <2>7, <2>8 DEF Inv
<1> QED
  BY <1>a, <1>b, <1>c, <1>d, <1>e, <1>f, <1>g, <1>h, <1>i, <1>j, <1>k, <1>l, <1>m
-----------------------------------------------------------------------------
(* The theorems.                                                           *)

Acts(r) ==
    \/ Begin(r) \/ CheckSession(r) \/ Read(r) \/ Discovered(r) \/ Acquire(r)
    \/ Poll(r) \/ Reread(r) \/ Exchanged(r) \/ Update(r) \/ Rejected(r)
    \/ Released(r) \/ Fails(r)
    \/ \E lifetime \in Lifetimes : Issue(r, lifetime)

LEMMA NextInv == Inv /\ [Next]_vars => Inv'
<1> SUFFICES ASSUME Inv, [Next]_vars PROVE Inv'
  OBVIOUS
<1>1. CASE UNCHANGED vars
  BY <1>1 DEF vars, Inv, Types, LockHeld, LoginInv, SessionInv, RequestInv, StagesInv,
              Active, UnderWay, Told, Death, Fresh, Due
<1>2. CASE Tick
  BY <1>2, TickStep
<1>3. CASE \/ LoginResponse \/ LoginVerified \/ LoginPut \/ LoginDelivered \/ LoginFails
           \/ \E lifetime \in Lifetimes, refreshable \in BOOLEAN :
                 LoginIssue(lifetime, refreshable)
  BY <1>3, LoginStep
<1>4. ASSUME NEW r \in Requests, Acts(r) PROVE Inv'
  BY <1>4, RequestStep DEF Acts
<1> QED
  BY <1>1, <1>2, <1>3, <1>4 DEF Next, Acts

THEOREM Inductive == Spec => []Inv
<1> QED
  BY InitInv, NextInv, PTL DEF Spec

\* Who moves a request: the request itself, or time.
LEMMA MovesItself ==
    ASSUME Inv, Next, NEW r \in Requests, request'[r] # request[r]
    PROVE  Acts(r) \/ Tick
<1>1. CASE \/ LoginResponse \/ LoginVerified \/ LoginPut \/ LoginDelivered \/ LoginFails
           \/ \E lifetime \in Lifetimes, refreshable \in BOOLEAN :
                 LoginIssue(lifetime, refreshable)
  BY <1>1 DEF LoginResponse, LoginVerified, LoginPut, LoginDelivered, LoginFails,
              LoginIssue
<1>2. ASSUME NEW q \in Requests, Acts(q), q # r PROVE FALSE
  <2>1. request \in [Requests -> Records]
    BY DEF Inv, Types
  <2>2. request'[r] = request[r]
    BY <1>2, <2>1 DEF Acts, Begin, CheckSession, Read, Discovered, Acquire, Poll, Reread,
       Exchanged, Update, Rejected, Released, Fails, Issue, Goes, Ends, Releasing
  <2> QED
    BY <2>2
<1> QED
  BY <1>1, <1>2 DEF Next, Acts

\* The steps that end a request.
LEMMA ReturnsFrom ==
    ASSUME Inv, Next, NEW r \in Requests,
           request[r].stage # "done", request'[r].stage = "done"
    PROVE  CheckSession(r) \/ Read(r) \/ Poll(r) \/ Released(r) \/ Fails(r)
<1>1. Acts(r)
  BY MovesItself, TickDoes DEF Inv
<1>2. Types /\ request[r] \in Records /\ request \in [Requests -> Records]
  BY DEF Inv, Types
<1>3. {"discover", "wait", "reread", "exchange"} \subseteq Stages
  BY DEF Stages, Owning
<1>4. ~Begin(r)
  BY <1>2, BeginDoes
<1>5. ~Discovered(r) /\ ~Acquire(r)
  BY <1>2, <1>3, GoesDoes, ConstantFacts DEF Discovered, Acquire
<1>6. ~Reread(r) /\ ~Update(r) /\ ~Rejected(r) /\ ~Exchanged(r)
  BY <1>2 DEF Reread, Update, Rejected, Exchanged, Goes, Releasing, Records
<1>7. ASSUME NEW lifetime \in Lifetimes, Issue(r, lifetime) PROVE FALSE
  BY <1>2, <1>7, IssueDoes
<1> QED
  BY <1>1, <1>4, <1>5, <1>6, <1>7 DEF Acts

\* The state is well typed in every behaviour: the lock is owned by the request
\* in its critical section, and no session is kept beyond the lifetime it was
\* given (refresh.rs:236-262, session.rs:495-498).
THEOREM TypeCorrect == Spec => []TypeOK
<1>1. Inv => TypeOK
  <2> SUFFICES ASSUME Inv PROVE TypeOK
    OBVIOUS
  <2>1. clock \in 0..Horizon
    BY ConstantFacts DEF Inv, Types
  <2>2. \A r \in Requests : /\ request[r].token \in Tokens \cup {None}
                            /\ request[r].expires_at \in 0..MaxU64
    BY DEF Inv, Types, Records
  <2>3. login.token \in Tokens \cup {None} /\ login.expires_at \in 0..MaxU64
    BY DEF Inv, Types, Logins
  <2> QED
    BY <2>1, <2>2, <2>3 DEF Inv, Types, LockHeld, TypeOK
<1> QED
  BY <1>1, Inductive, PTL

\* The browser that received its cookie keeps it as long as Redis keeps the
\* session, however often that is refreshed (session.rs:495-498, 716-723).
THEOREM CookieOutlives == Spec => []CookieOutlivesSession
<1>1. Inv => CookieOutlivesSession
  BY DEF Inv, SessionInv, CookieOutlivesSession
<1> QED
  BY <1>1, Inductive, PTL

\* A refresh token is spent only on a token that is due, for any number of
\* requests and however long they waited (refresh.rs:278-282, 317-323).
THEOREM RefreshedWhenDue == Spec => RefreshedOnlyWhenDue
<1> DEFINE Spent(r) ==
      request[r].stage = "reread" /\ request'[r].stage = "exchange" =>
          session # None /\ Due(session.token)
<1>1. ASSUME Inv, [Next]_vars, NEW r \in Requests PROVE Spent(r)
  <2> SUFFICES ASSUME request[r].stage = "reread", request'[r].stage = "exchange"
               PROVE  session # None /\ Due(session.token)
    OBVIOUS
  <2>1. Acts(r) /\ Active(r)
    BY <1>1, MovesItself, TickDoes DEF Inv, vars, Active
  <2>2. /\ request \in [Requests -> Records] /\ request[r] \in Records
    BY <1>1 DEF Inv, Types
  <2>3. ~Fails(r)
    BY <2>2 DEF Fails, Ends, Idle
  <2>4. Reread(r)
    BY <2>1, <2>3 DEF Acts, Begin, CheckSession, Read, Discovered, Acquire, Poll,
       Exchanged, Update, Rejected, Released, Issue
  <2>5. Resolution(r) = "refresh"
    BY <2>2, <2>4 DEF Reread, Releasing, Records
  <2> QED
    BY <1>1, <2>1, <2>5, ResolutionFacts
<1>2. Inv /\ [Next]_vars => [\A r \in Requests : Spent(r)]_vars
  BY <1>1
<1> QED
  BY <1>2, Inductive, PTL DEF Spec, RefreshedOnlyWhenDue

\* No browser with a session cookie is sent to log in without a cause: its
\* session ended, or it has no refresh token and its access token is due
\* (handlers.rs:50-54, 298-315, refresh.rs:90-102).
THEOREM LogoutsJustified == Spec => NoFalseLogout
<1> DEFINE Justified(r) ==
      /\ Returns(r, "401") => ended # "no"
      /\ Returns(r, "Reauthenticate") =>
            ended # "no" \/ (~login.refreshable /\ Due(session.token))
<1>1. ASSUME Inv, [Next]_vars, NEW r \in Requests PROVE Justified(r)
  <2> SUFFICES ASSUME Returns(r, "401") \/ Returns(r, "Reauthenticate")
               PROVE  \/ ended # "no"
                      \/ /\ Returns(r, "Reauthenticate") /\ ~Returns(r, "401")
                         /\ ~login.refreshable /\ Due(session.token)
    OBVIOUS
  <2>1. /\ request[r].stage # "done" /\ request'[r].stage = "done"
        /\ request'[r].answer \in {"401", "Reauthenticate"}
    BY DEF Returns
  <2>2. CheckSession(r) \/ Read(r) \/ Poll(r) \/ Released(r) \/ Fails(r)
    BY <1>1, <2>1, ReturnsFrom DEF vars
  <2>3. /\ request \in [Requests -> Records] /\ request[r] \in Records /\ RequestInv(r)
    BY <1>1 DEF Inv, Types
  <2>4. {"401", "204", "503", "Ready", "Reauthenticate", "Unavailable"} \subseteq Answers
    BY DEF Answers
  <2>5. CASE CheckSession(r)
    <3>1. Active(r)
      BY <2>5 DEF CheckSession, Active
    <3>2. session = None
      BY <2>1, <2>3, <2>4, <2>5, EndsDoes DEF CheckSession
    <3> QED
      BY <1>1, <3>1, <3>2, ActiveFacts
  <2>6. ~Fails(r)
    BY <2>1, <2>3, <2>4, EndsDoes DEF Fails
  <2>7. CASE Read(r) \/ Poll(r)
    <3>1. Active(r)
      BY <2>7 DEF Read, Poll, Active
    <3>2. Ends(r, Resolution(r), Token(Resolution(r))) /\ Resolution(r) # "refresh"
      <4>1. CASE Poll(r)
        BY <4>1 DEF Poll
      <4>2. CASE Read(r)
        <5>1. ~Goes(r, "discover", DiscoveryBound)
          BY <2>1, <2>3 DEF Goes, Records
        <5> QED
          BY <4>2, <5>1 DEF Read
      <4> QED
        BY <2>7, <4>1, <4>2
    <3>3. request'[r].answer = "Reauthenticate" /\ Resolution(r) = "Reauthenticate"
      BY <1>1, <2>1, <2>3, <2>4, <3>1, <3>2, ResolutionFacts, EndsDoes
    <3> QED
      BY <1>1, <3>1, <3>3, ResolutionFacts DEF Returns
  <2>8. CASE Released(r)
    <3>1. request[r].stage = "release" /\ request'[r].answer = request[r].answer
      BY <2>3, <2>8, EndsDoes DEF Released, Records
    <3>2. request[r].answer = "Reauthenticate"
      BY <2>1, <2>3, <3>1 DEF RequestInv, StagesInv
    <3> QED
      BY <2>3, <3>1, <3>2 DEF RequestInv, StagesInv, Returns
  <2> QED
    BY <2>2, <2>5, <2>6, <2>7, <2>8
<1>2. Inv /\ [Next]_vars => [\A r \in Requests : Justified(r)]_vars
  BY <1>1
<1> QED
  BY <1>2, Inductive, PTL DEF Spec, NoFalseLogout
-----------------------------------------------------------------------------
(* What the session promises, through login, refresh and logout.           *)

\* Before the callback stores the session, its whole lifetime is ahead of it.
Remaining ==
    IF session # None THEN session.ttl ELSE IF ended = "no" THEN SessionTtl * Sub ELSE 0
Generation == IF session # None THEN session.token.issued ELSE 0
Promised == INSTANCE BoundedSession WITH
    MaxLifetime <- SessionTtl * Sub, remaining <- Remaining, generation <- Generation
KeepsPromise == Promised!Spec

\* No session has ended before it began, and what the callback or the lock's
\* owner is about to store was issued after what is stored.
Newer(r) ==
    request[r].stage \in {"exchanged", "update"} =>
        /\ request[r].token.issued <= clock
        /\ session # None => session.token.issued <= request[r].token.issued

NewerInv ==
    /\ login.stage \notin {"deliver", "done", "failed"} => ended = "no"
    /\ login.stage \in {"response", "verify", "put"} => login.token.issued <= clock
    /\ session # None => session.token.issued <= clock
    /\ \A r \in Requests : Newer(r)

LEMMA InitNewer == Init => NewerInv
  BY DEF Init, NewerInv, Newer, Idle

LEMMA LoginNewer ==
    ASSUME Inv, NewerInv,
           \/ LoginResponse \/ LoginVerified \/ LoginPut \/ LoginDelivered \/ LoginFails
           \/ \E lifetime \in Lifetimes, refreshable \in BOOLEAN :
                 LoginIssue(lifetime, refreshable)
    PROVE  NewerInv' /\ [Promised!Next]_(Promised!vars)
<1>1. login \in Logins /\ clock \in Nat /\ UNCHANGED <<clock, request, ended>>
  <2>1. login \in Logins /\ clock \in Nat
    BY ConstantFacts DEF Inv, Types
  <2>2. UNCHANGED <<clock, request, ended>>
    BY DEF LoginResponse, LoginVerified, LoginPut, LoginDelivered, LoginFails, LoginIssue
  <2> QED
    BY <2>1, <2>2
<1>2. CASE LoginPut
  <2>1. /\ login.stage = "put" /\ session = None /\ ended = "no"
        /\ login'.stage \in {"deliver", "failed"}
        /\ session'.token = login.token /\ session'.ttl = SessionTtl * Sub
        /\ login.token.issued <= clock /\ login.token \in Tokens
        /\ session' # None
    <3>1. login.stage = "put" /\ session = None /\ ended = "no" /\ login.token.issued <= clock
      BY <1>2 DEF LoginPut, Inv, SessionInv, NewerInv
    <3>2. login.token \in Tokens
      BY <3>1 DEF Inv, LoginInv, Told
    <3>3. login'.stage \in {"deliver", "failed"}
      BY <1>1, <1>2 DEF LoginPut, LoginEnds, Logins
    <3>4. session' \in Sessions
      BY <1>1, <1>2, <3>2, ConstantFacts DEF LoginPut, Sessions, Logins
    <3> QED
      BY <1>2, <3>1, <3>2, <3>3, <3>4, ConstantFacts DEF LoginPut
  <2>2. \A r \in Requests : request[r].stage \in {"idle", "done"}
    BY <2>1, ActiveFacts DEF Active
  <2>3. NewerInv'
    BY <1>1, <2>1, <2>2 DEF NewerInv, Newer
  <2>4. /\ Remaining = SessionTtl * Sub /\ Remaining' = SessionTtl * Sub
        /\ Generation = 0 /\ Generation' = login.token.issued
    BY <2>1 DEF Remaining, Generation
  <2>5. login.token.issued \in Nat
    BY <2>1, TokenFacts
  <2> QED
    BY <2>3, <2>4, <2>5, ConstantFacts DEF Promised!Next, Promised!Renew, Promised!vars
<1>3. CASE \/ LoginResponse \/ LoginVerified \/ LoginDelivered \/ LoginFails
           \/ \E lifetime \in Lifetimes, refreshable \in BOOLEAN :
                 LoginIssue(lifetime, refreshable)
  <2>1. UNCHANGED session
    BY <1>3 DEF LoginResponse, LoginVerified, LoginDelivered, LoginFails, LoginIssue
  <2>2. login'.stage \notin {"deliver", "done", "failed"} =>
            login.stage \notin {"deliver", "done", "failed"}
    BY <1>1, <1>3 DEF LoginResponse, LoginVerified, LoginDelivered, LoginFails, LoginIssue,
       LoginGoes, LoginEnds, Logins
  <2>3. login'.stage \in {"response", "verify", "put"} => login'.token.issued <= clock
    <3>1. CASE LoginResponse \/ LoginVerified
      BY <1>1, <3>1 DEF LoginResponse, LoginVerified, LoginGoes, Logins, NewerInv
    <3>2. CASE LoginDelivered \/ LoginFails
      BY <1>1, <3>2 DEF LoginDelivered, LoginFails, LoginGoes, LoginEnds, Logins
    <3>3. ASSUME NEW lifetime \in Lifetimes, NEW refreshable \in BOOLEAN,
                 LoginIssue(lifetime, refreshable)
          PROVE  login'.token.issued <= clock
      <4>1. login'.token = Issued(lifetime)
        BY <1>1, <3>3 DEF LoginIssue, Logins
      <4> QED
        BY <1>1, <4>1 DEF Issued
    <3> QED
      BY <1>3, <3>1, <3>2, <3>3
  <2>4. login'.stage \notin {"deliver", "done", "failed"} => ended = "no"
    BY <2>2 DEF NewerInv
  <2> QED
    BY <1>1, <2>1, <2>3, <2>4 DEF NewerInv, Newer, Promised!vars, Remaining, Generation
<1> QED
  BY <1>2, <1>3

LEMMA TickNewer ==
    ASSUME Inv, NewerInv, Tick
    PROVE  NewerInv' /\ [Promised!Next]_(Promised!vars)
<1>1. /\ clock \in Nat /\ clock' = clock + 1 /\ login \in Logins
      /\ session \in Sessions \cup {None}
      /\ session # None => session.token \in Tokens
  BY TickDoes, ConstantFacts DEF Inv, Types, Sessions, SessionInv, Told
<1>2. login'.stage = login.stage /\ login'.token = login.token
  BY <1>1 DEF Tick, Logins
<1>3. \/ /\ session = None /\ session' = None /\ ended' = ended
      \/ /\ session # None /\ session.ttl = 1 /\ session' = None /\ ended' = "expired"
      \/ /\ session # None /\ session.ttl > 1 /\ session' # None /\ ended' = ended
         /\ session'.ttl = session.ttl - 1 /\ session'.token = session.token
  <2>1. CASE session = None
    BY <2>1 DEF Tick
  <2>2. CASE session # None /\ session.ttl = 1
    BY <2>2 DEF Tick
  <2>3. CASE session # None /\ session.ttl # 1
    <3>0. /\ session \in Sessions
          /\ ended' = (IF session # None /\ session' = None THEN "expired" ELSE ended)
      <4>1. session \in Sessions
        BY <1>1, <2>3
      <4> QED
        BY <4>1 DEF Tick
    <3>1. session' = [session EXCEPT !.ttl = session.ttl - 1]
      BY <2>3 DEF Tick
    <3>2. session.ttl \in 1..(SessionTtl * Sub) /\ session.ttl > 1
      BY <2>3, <3>0, ConstantFacts DEF Sessions
    <3>3. session' \in Sessions
      BY <3>0, <3>1, <3>2, ConstantFacts DEF Sessions
    <3> QED
      BY <2>3, <3>0, <3>1, <3>2, <3>3, ConstantFacts DEF Sessions
  <2> QED
    BY <2>1, <2>2, <2>3
<1>4. NewerInv'
  <2>1. login'.stage \notin {"deliver", "done", "failed"} => ended' = "no"
    BY <1>2, <1>3 DEF NewerInv, Inv, SessionInv
  <2>2. login'.stage \in {"response", "verify", "put"} => login'.token.issued <= clock'
    <3>1. login.stage \in {"response", "verify", "put"} => login.token \in Tokens
      BY DEF Inv, LoginInv, UnderWay, Told
    <3> QED
      BY <1>1, <1>2, <3>1, TokenFacts DEF NewerInv
  <2>3. session' # None => session'.token.issued <= clock'
    <3>1. session # None => session.token.issued \in Nat
      BY <1>1, TokenFacts
    <3>2. session # None => session.token.issued <= clock
      BY DEF NewerInv
    <3> QED
      BY <1>1, <1>3, <3>1, <3>2
  <2>4. ASSUME NEW r \in Requests PROVE Newer(r)'
    <3>1. \/ request'[r].stage = "idle"
          \/ request'[r].stage = request[r].stage /\ request'[r].token = request[r].token
      BY TickDoes DEF Inv
    <3>2. request[r].stage \in {"exchanged", "update"} => request[r].token.issued \in Nat
      BY TokenFacts DEF Inv, RequestInv, StagesInv, UnderWay, Fresh
    <3>3. Newer(r)
      BY DEF NewerInv
    <3> QED
      BY <1>1, <1>3, <3>1, <3>2, <3>3 DEF Newer
  <2> QED
    BY <2>1, <2>2, <2>3, <2>4 DEF NewerInv
<1>5. [Promised!Next]_(Promised!vars)
  <2>1. CASE session = None /\ session' = None /\ ended' = ended
    BY <2>1 DEF Promised!vars, Remaining, Generation
  <2>2. CASE session # None /\ session.ttl = 1 /\ session' = None /\ ended' = "expired"
    BY <2>2 DEF Promised!Next, Promised!End, Remaining, Generation
  <2>3. CASE /\ session # None /\ session.ttl > 1 /\ session' # None
             /\ session'.ttl = session.ttl - 1 /\ session'.token = session.token
    BY <2>3 DEF Promised!Next, Promised!Age, Remaining, Generation
  <2> QED
    BY <1>3, <2>1, <2>2, <2>3
<1> QED
  BY <1>4, <1>5

LEMMA RequestNewer ==
    ASSUME Inv, NewerInv, NEW r \in Requests, Acts(r)
    PROVE  NewerInv' /\ [Promised!Next]_(Promised!vars)
<1>1. /\ UNCHANGED <<clock, login>>
      /\ request \in [Requests -> Records] /\ request[r] \in Records
      /\ clock \in Nat
  BY ConstantFacts DEF Inv, Types, Acts, Begin, CheckSession, Read, Discovered, Acquire, Poll,
     Reread, Exchanged, Update, Rejected, Released, Fails, Issue
<1>2. ASSUME UNCHANGED <<session, ended>>, Newer(r)',
             \A q \in Requests \ {r} : request'[q] = request[q]
      PROVE  NewerInv' /\ [Promised!Next]_(Promised!vars)
  BY <1>1, <1>2 DEF NewerInv, Newer, Promised!vars, Remaining, Generation
<1>3. \A q \in Requests \ {r} : request'[q] = request[q]
  BY <1>1 DEF Acts, Begin, CheckSession, Read, Discovered, Acquire, Poll,
     Reread, Exchanged, Update, Rejected, Released, Fails, Issue, Goes, Ends, Releasing
<1>4. CASE Rejected(r)
  <2>1. session' = None /\ (ended' = IF session = None THEN ended ELSE "rejected")
    BY <1>4 DEF Rejected
  <2>2. login.stage = "done"
    BY <1>4, ActiveFacts DEF Rejected, Active
  <2>3. NewerInv'
    <3>1. request'[r].stage = "release"
      BY <1>1, <1>4 DEF Rejected, Releasing, Records
    <3> QED
      BY <1>1, <1>3, <2>1, <2>2, <3>1 DEF NewerInv, Newer
  <2>4. session # None => Remaining > 0
    BY ConstantFacts DEF Inv, Types, Sessions, Remaining
  <2> QED
    BY <2>1, <2>3, <2>4
       DEF Promised!Next, Promised!End, Promised!vars, Remaining, Generation
<1>5. CASE Update(r) /\ session # None
  <2>1. /\ request[r].stage = "update" /\ UNCHANGED ended
        /\ session' = UpdatedSession(session, request[r].token, request[r].expires_at)
        /\ Releasing(r, "Ready", request[r].token)
    BY <1>5 DEF Update
  <2>2. /\ session \in Sessions /\ request[r].token \in Tokens
        /\ request[r].expires_at \in 0..MaxU64
        /\ lock = r
    BY <1>5, <2>1 DEF Inv, Types, LockHeld, Owning, RequestInv, StagesInv, Fresh, Told
  <2>3. /\ session' # None /\ session'.ttl = session.ttl
        /\ session'.token = request[r].token
    <3>1. session' \in Sessions
      BY <2>1, <2>2 DEF UpdatedSession, Sessions
    <3> QED
      BY <2>1, <2>2, <3>1, ConstantFacts DEF UpdatedSession, Sessions
  <2>4. session.token.issued <= request[r].token.issued /\ request[r].token.issued <= clock
    BY <1>5, <2>1 DEF NewerInv, Newer
  <2>5. NewerInv'
    <3>1. request'[r].stage = "release"
      BY <1>1, <2>1, <2>2, ReleasingDoes DEF Answers
    <3>2. \A q \in Requests \ {r} : request[q].stage \notin {"exchanged", "update"}
      BY <2>2 DEF Inv, LockHeld, Owning
    <3> QED
      BY <1>1, <1>3, <2>1, <2>3, <2>4, <3>1, <3>2 DEF NewerInv, Newer
  <2>6. /\ Remaining = session.ttl /\ Remaining' = session.ttl /\ session.ttl > 0
        /\ Generation = session.token.issued /\ Generation' = request[r].token.issued
    BY <1>5, <2>2, <2>3, ConstantFacts DEF Remaining, Generation, Sessions
  <2>7. session.token.issued \in Nat /\ request[r].token.issued \in Nat
    BY <2>2, TokenFacts DEF Sessions
  <2> QED
    BY <2>4, <2>5, <2>6, <2>7 DEF Promised!Next, Promised!Renew, Promised!vars
<1>6. CASE ~Rejected(r) /\ ~(Update(r) /\ session # None)
  <2>1. UNCHANGED <<session, ended>>
    BY <1>6 DEF Acts, Begin, CheckSession, Read, Discovered, Acquire, Poll, Reread, Exchanged,
       Update, Released, Fails, Issue
  <2>2. CASE \E lifetime \in Lifetimes : Issue(r, lifetime)
    <3>1. request'[r].token.issued = clock
      BY <2>2, IssueDoes DEF Inv
    <3>2. Newer(r)'
      BY <1>1, <2>1, <3>1 DEF NewerInv, Newer
    <3> QED
      BY <1>2, <1>3, <2>1, <3>2
  <2>3. CASE Exchanged(r)
    <3>1. request[r].stage = "exchanged" /\ request'[r].token = request[r].token
      BY <1>1, <2>3 DEF Exchanged, Records
    <3>2. Newer(r)'
      BY <1>1, <2>1, <3>1 DEF NewerInv, Newer
    <3> QED
      BY <1>2, <1>3, <2>1, <3>2
  <2>4. CASE ~Exchanged(r) /\ ~\E lifetime \in Lifetimes : Issue(r, lifetime)
    <3>1. request'[r].stage \notin {"exchanged", "update"}
      <4>1. \A s, left : Goes(r, s, left) => request'[r].stage = s
        BY <1>1 DEF Goes, Records
      <4>2. \A answer, token : Ends(r, answer, token) => request'[r].stage = "done"
        BY <1>1 DEF Ends, Idle
      <4>3. \A answer, token : Releasing(r, answer, token) => request'[r].stage = "release"
        BY <1>1 DEF Releasing, Records
      <4>4. CASE Begin(r)
        BY <1>1, <4>4, BeginDoes DEF Inv
      <4>5. CASE CheckSession(r) \/ Poll(r) \/ Released(r) \/ Fails(r)
        BY <4>2, <4>5 DEF CheckSession, Poll, Released, Fails
      <4>6. CASE Read(r) \/ Discovered(r) \/ Acquire(r) \/ Reread(r) \/ Update(r)
        BY <4>1, <4>2, <4>3, <4>6, <1>6 DEF Read, Discovered, Acquire, Reread, Update
      <4> QED
        BY <1>6, <2>4, <4>4, <4>5, <4>6 DEF Acts
    <3>2. Newer(r)'
      BY <3>1 DEF Newer
    <3> QED
      BY <1>2, <1>3, <2>1, <3>2
  <2> QED
    BY <2>2, <2>3, <2>4
<1> QED
  BY <1>4, <1>5, <1>6

LEMMA NextNewer ==
    Inv /\ NewerInv /\ [Next]_vars => NewerInv' /\ [Promised!Next]_(Promised!vars)
<1> SUFFICES ASSUME Inv, NewerInv, [Next]_vars
             PROVE  NewerInv' /\ [Promised!Next]_(Promised!vars)
  OBVIOUS
<1>1. CASE UNCHANGED vars
  BY <1>1 DEF vars, NewerInv, Newer, Promised!vars, Remaining, Generation
<1>2. CASE Tick
  BY <1>2, TickNewer
<1>3. CASE \/ LoginResponse \/ LoginVerified \/ LoginPut \/ LoginDelivered \/ LoginFails
           \/ \E lifetime \in Lifetimes, refreshable \in BOOLEAN :
                 LoginIssue(lifetime, refreshable)
  BY <1>3, LoginNewer
<1>4. ASSUME NEW r \in Requests, Acts(r)
      PROVE  NewerInv' /\ [Promised!Next]_(Promised!vars)
  BY <1>4, RequestNewer
<1> QED
  BY <1>1, <1>2, <1>3, <1>4 DEF Next, Acts

\* The session of a login keeps what BoundedSession promises, from the callback
\* that stores it through its refreshes to its end: it lives no longer than it
\* was given, however often it is refreshed; a refreshed token is never
\* replaced by an older one; and once expired or rejected it never comes back
\* (session.rs:495-498, 727-733, refresh.rs:278-330).
THEOREM PromiseKept == Spec => KeepsPromise
<1>1. Init => Promised!Init
  BY ConstantFacts DEF Init, Promised!Init, Remaining, Generation
<1> QED
  BY <1>1, NextNewer, InitNewer, Inductive, PTL DEF Spec, KeepsPromise, Promised!Spec
-----------------------------------------------------------------------------
(* How long a session can hold a token, and so how long one without a      *)
(* recorded expiry is served.                                              *)

ServedInTime(q) ==
    q.stage = "release" /\ q.answer = "Ready" =>
        /\ q.token \in Tokens
        /\ q.token.lifetime = None => clock + q.left <= EndOfSessions(q.token) + RedisBound

AgeInv ==
    /\ login.stage = "verify" =>
          clock + login.left <= login.token.issued + HttpBound + VerifyBound
    /\ login.stage = "put" =>
          clock + login.left <= login.token.issued + HttpBound + VerifyBound + RedisBound
    /\ session # None => clock + session.ttl <= EndOfSessions(session.token)
    /\ \A r \in Requests : ServedInTime(request[r])

LEMMA EndFacts ==
    ASSUME NEW token \in Tokens
    PROVE  /\ EndOfSessions(token) \in Nat
           /\ EndOfSessions(token) =
                 token.issued + HttpBound + VerifyBound + RedisBound + SessionTtl * Sub
           /\ token.issued \in Nat
  BY TokenFacts, ConstantFacts DEF EndOfSessions

LEMMA InitAge == Init => AgeInv
  BY DEF Init, AgeInv, ServedInTime, Idle

LEMMA LoginAge ==
    ASSUME Inv, AgeInv,
           \/ LoginResponse \/ LoginVerified \/ LoginPut \/ LoginDelivered \/ LoginFails
           \/ \E lifetime \in Lifetimes, refreshable \in BOOLEAN :
                 LoginIssue(lifetime, refreshable)
    PROVE  AgeInv'
<1>1. /\ login \in Logins /\ login.left \in Nat /\ clock \in Nat
      /\ UNCHANGED <<clock, request>>
  <2>1. login \in Logins /\ clock \in Nat
    BY ConstantFacts DEF Inv, Types
  <2> QED
    BY <2>1 DEF LoginResponse, LoginVerified, LoginPut, LoginDelivered, LoginFails,
                LoginIssue, Logins
<1>2. \A r \in Requests : ServedInTime(request[r])'
  BY <1>1 DEF AgeInv, ServedInTime, EndOfSessions
<1>3. CASE LoginResponse
  <2>1. /\ login.stage = "response" /\ UNCHANGED session
        /\ login'.stage = "verify" /\ login'.left = VerifyBound
        /\ login'.token = login.token
    BY <1>1, <1>3 DEF LoginResponse, Logins
  <2>2. /\ login.token \in Tokens
        /\ clock + login.left <= login.token.issued + HttpBound
    BY <2>1 DEF Inv, LoginInv, UnderWay
  <2>3. clock + VerifyBound <= login.token.issued + HttpBound + VerifyBound
    BY <1>1, <2>2, EndFacts, ConstantFacts
  <2> QED
    BY <1>1, <1>2, <2>1, <2>3 DEF AgeInv, EndOfSessions
<1>4. CASE LoginVerified
  <2>1. /\ login.stage = "verify" /\ UNCHANGED session
        /\ login'.stage = "put" /\ login'.left = RedisBound
        /\ login'.token = login.token
    BY <1>1, <1>4 DEF LoginVerified, LoginGoes, Logins
  <2>2. /\ login.token \in Tokens
        /\ clock + login.left <= login.token.issued + HttpBound + VerifyBound
    BY <2>1 DEF Inv, LoginInv, Told, AgeInv
  <2>3. clock + RedisBound <= login.token.issued + HttpBound + VerifyBound + RedisBound
    BY <1>1, <2>2, EndFacts, ConstantFacts
  <2> QED
    BY <1>1, <1>2, <2>1, <2>3 DEF AgeInv, EndOfSessions
<1>5. CASE LoginPut
  <2>1. /\ login.stage = "put" /\ login'.stage \in {"deliver", "failed"}
        /\ session'.token = login.token /\ session'.ttl = SessionTtl * Sub
    BY <1>1, <1>5 DEF LoginPut, LoginEnds, Logins
  <2>2. /\ login.token \in Tokens
        /\ clock + login.left
              <= login.token.issued + HttpBound + VerifyBound + RedisBound
    BY <2>1 DEF Inv, LoginInv, Told, AgeInv
  <2>3. clock + SessionTtl * Sub <= EndOfSessions(login.token)
    BY <1>1, <2>2, EndFacts, ConstantFacts
  <2> QED
    BY <1>1, <1>2, <2>1, <2>3 DEF AgeInv, EndOfSessions
<1>6. CASE \/ LoginDelivered \/ LoginFails
           \/ \E lifetime \in Lifetimes, refreshable \in BOOLEAN :
                 LoginIssue(lifetime, refreshable)
  <2>1. UNCHANGED session /\ login'.stage \notin {"verify", "put"}
    BY <1>1, <1>6 DEF LoginDelivered, LoginFails, LoginIssue, LoginGoes, LoginEnds, Logins
  <2> QED
    BY <1>1, <1>2, <2>1 DEF AgeInv, EndOfSessions
<1> QED
  BY <1>3, <1>4, <1>5, <1>6

LEMMA TickAge == ASSUME Inv, AgeInv, Tick PROVE AgeInv'
<1>1. clock \in Nat /\ clock' = clock + 1 /\ login \in Logins
      /\ session \in Sessions \cup {None}
  BY TickDoes, ConstantFacts DEF Inv, Types
<1>2. login.stage \in {"verify", "put"} =>
         /\ login.left \in Nat /\ login.left > 0 /\ login'.left = login.left - 1
         /\ login.token.issued \in Nat
  <2> SUFFICES ASSUME login.stage \in {"verify", "put"}
               PROVE  /\ login.left \in Nat /\ login.left > 0
                      /\ login'.left = login.left - 1 /\ login.token.issued \in Nat
    OBVIOUS
  <2>1. login.left \in Nat /\ login.left > 0 /\ login' = [login EXCEPT !.left = OneLess(@)]
    BY <1>1 DEF Tick, MayTick, Logins
  <2>2. login.token \in Tokens
    BY DEF Inv, LoginInv, Told
  <2> QED
    BY <1>1, <2>1, <2>2, TokenFacts DEF OneLess, Logins
<1>3. login'.stage = login.stage /\ login'.token = login.token
  BY <1>1 DEF Tick, Logins
<1>4. session' # None => clock' + session'.ttl <= EndOfSessions(session'.token)
  <2> SUFFICES ASSUME session' # None
               PROVE  clock' + session'.ttl <= EndOfSessions(session'.token)
    OBVIOUS
  <2>1. session \in Sessions /\ session # None
    BY <1>1 DEF Tick
  <2>2. session.ttl \in 1..(SessionTtl * Sub) /\ session.token \in Tokens
    BY <2>1 DEF Sessions
  <2>3. session' = [session EXCEPT !.ttl = session.ttl - 1]
    BY <2>1 DEF Tick
  <2>4. session'.token = session.token /\ session'.ttl = session.ttl - 1
    BY <2>1, <2>3 DEF Sessions
  <2>5. clock + session.ttl <= EndOfSessions(session.token)
    BY <2>1 DEF AgeInv
  <2>6. clock' + session'.ttl = clock + session.ttl
    BY <1>1, <2>2, <2>4, ConstantFacts
  <2> QED
    BY <2>4, <2>5, <2>6
<1>5. ASSUME NEW r \in Requests PROVE ServedInTime(request[r])'
  <2>1. CASE ~Active(r)
    BY <2>1, TickDoes DEF Inv, ServedInTime
  <2>2. CASE Active(r)
    <3>1. /\ request'[r].stage = request[r].stage
          /\ request[r].left > 0 /\ request'[r].left = request[r].left - 1
          /\ request'[r].token = request[r].token
          /\ request'[r].answer = request[r].answer
      BY <2>2, TickDoes DEF Inv
    <3>2. request[r].left \in Nat
      BY DEF Inv, Types, Records
    <3>3. clock' + request'[r].left = clock + request[r].left
      BY <1>1, <3>1, <3>2
    <3> QED
      BY <3>1, <3>3 DEF AgeInv, ServedInTime, EndOfSessions
  <2> QED
    BY <2>1, <2>2
<1>6. login'.stage = "verify" =>
          clock' + login'.left <= login'.token.issued + HttpBound + VerifyBound
  BY <1>1, <1>2, <1>3 DEF AgeInv
<1>7. login'.stage = "put" =>
          clock' + login'.left <= login'.token.issued + HttpBound + VerifyBound + RedisBound
  BY <1>1, <1>2, <1>3 DEF AgeInv
<1> QED
  BY <1>4, <1>5, <1>6, <1>7 DEF AgeInv

LEMMA RequestAge ==
    ASSUME Inv, NewerInv, AgeInv, NEW r \in Requests, Acts(r)
    PROVE  AgeInv'
<1>1. /\ UNCHANGED <<clock, login>>
      /\ request \in [Requests -> Records] /\ request[r] \in Records
      /\ clock \in Nat
  BY ConstantFacts DEF Inv, Types, Acts, Begin, CheckSession, Read, Discovered, Acquire, Poll,
     Reread, Exchanged, Update, Rejected, Released, Fails, Issue
<1>2. \A q \in Requests \ {r} : request'[q] = request[q]
  BY <1>1 DEF Acts, Begin, CheckSession, Read, Discovered, Acquire, Poll,
     Reread, Exchanged, Update, Rejected, Released, Fails, Issue, Goes, Ends, Releasing
<1>3. SUFFICES /\ session' # None =>
                     clock + session'.ttl <= EndOfSessions(session'.token)
               /\ ServedInTime(request[r])'
  BY <1>1, <1>2 DEF AgeInv, ServedInTime, EndOfSessions
<1>4. CASE Reread(r)
  <2>1. UNCHANGED session /\ Active(r)
    BY <1>4 DEF Reread, Active
  <2>2. ASSUME request'[r].stage = "release", request'[r].answer = "Ready"
        PROVE  /\ request'[r].token = session.token /\ session # None
               /\ request'[r].left = RedisBound
    <3>1. Resolution(r) # "refresh"
      BY <1>1, <1>4, <2>2 DEF Reread, Goes, Records
    <3>2. Releasing(r, Resolution(r), Token(Resolution(r)))
      BY <1>4, <3>1 DEF Reread
    <3>3. /\ request'[r].answer = Resolution(r) /\ request'[r].left = RedisBound
          /\ request'[r].token = Token(Resolution(r))
      BY <1>1, <3>2 DEF Releasing, Records
    <3> QED
      BY <2>2, <3>3 DEF Token, Resolution
  <2>3. session # None => /\ session.token \in Tokens /\ session.ttl \in Nat
                          /\ clock + session.ttl <= EndOfSessions(session.token)
    BY ConstantFacts DEF Inv, Types, Sessions, AgeInv
  <2>4. session # None => clock + RedisBound <= EndOfSessions(session.token) + RedisBound
    BY <1>1, <2>3, EndFacts, ConstantFacts
  <2> QED
    BY <1>1, <2>1, <2>2, <2>3, <2>4 DEF ServedInTime, EndOfSessions
<1>5. CASE Update(r) /\ session # None
  <2>1. /\ request[r].stage = "update" /\ session \in Sessions
        /\ session' = UpdatedSession(session, request[r].token, request[r].expires_at)
        /\ Releasing(r, "Ready", request[r].token)
    BY <1>5 DEF Update, Inv, Types
  <2>2. /\ request[r].token \in Tokens /\ request[r].left \in Nat
        /\ clock + request[r].left <= request[r].token.issued + HttpBound + RedisBound
    <3>1. Fresh(request[r], request[r].token, 1)
      BY <2>1 DEF Inv, RequestInv, StagesInv
    <3> QED
      BY <1>1, <3>1, ConstantFacts DEF Fresh, Records
  <2>3. session.token.issued <= request[r].token.issued
    BY <1>5, <2>1 DEF NewerInv, Newer
  <2>4. session'.token = request[r].token /\ session'.ttl = session.ttl
    BY <2>1 DEF UpdatedSession, Sessions
  <2>5. session.token \in Tokens /\ session.ttl \in Nat
        /\ clock + session.ttl <= EndOfSessions(session.token)
    BY <1>5, <2>1, ConstantFacts DEF Sessions, AgeInv
  <2>6. clock + session.ttl <= EndOfSessions(request[r].token)
    BY <1>1, <2>2, <2>3, <2>5, EndFacts, ConstantFacts
  <2>7. request'[r].token = request[r].token /\ request'[r].left = RedisBound
    BY <1>1, <2>1 DEF Releasing, Records
  <2>8. clock + RedisBound <= EndOfSessions(request[r].token) + RedisBound
    BY <1>1, <2>2, EndFacts, ConstantFacts
  <2> QED
    BY <1>1, <2>2, <2>4, <2>6, <2>7, <2>8 DEF ServedInTime, EndOfSessions
<1>6. CASE ~Reread(r) /\ ~(Update(r) /\ session # None)
  <2>1. session' = session \/ session' = None
    BY <1>6 DEF Acts, Begin, CheckSession, Read, Discovered, Acquire, Poll, Exchanged,
       Update, Rejected, Released, Fails, Issue
  <2>2. ~(request'[r].stage = "release" /\ request'[r].answer = "Ready")
    <3>1. \A stage, left : Goes(r, stage, left) => request'[r].stage = stage
      BY <1>1 DEF Goes, Records
    <3>2. \A answer, token : Ends(r, answer, token) => request'[r].stage = "done"
      BY <1>1 DEF Ends, Idle
    <3>3. \A answer, token : Releasing(r, answer, token) => request'[r].answer = answer
      BY <1>1 DEF Releasing, Records
    <3>4. CASE Begin(r)
      BY <3>4, BeginDoes DEF Inv
    <3>5. CASE CheckSession(r) \/ Read(r) \/ Poll(r) \/ Released(r) \/ Fails(r)
      BY <3>1, <3>2, <3>5 DEF CheckSession, Read, Poll, Released, Fails
    <3>6. CASE Discovered(r) \/ Acquire(r)
      BY <3>1, <3>6 DEF Discovered, Acquire
    <3>7. CASE Update(r) \/ Rejected(r)
      BY <1>6, <3>3, <3>7 DEF Update, Rejected
    <3>8. CASE Exchanged(r)
      BY <1>1, <3>8 DEF Exchanged, Records
    <3>9. ASSUME NEW lifetime \in Lifetimes, Issue(r, lifetime)
          PROVE  request'[r].stage = "exchanged"
      BY <3>9, IssueDoes DEF Inv
    <3> QED
      BY <1>6, <3>4, <3>5, <3>6, <3>7, <3>8, <3>9 DEF Acts
  <2> QED
    BY <2>1, <2>2 DEF AgeInv, ServedInTime
<1> QED
  BY <1>4, <1>5, <1>6

\* No session outlasts what its token's issue allows, in every behaviour: the
\* login's delays are bounded, a refresh leaves the session's lifetime alone and
\* never brings an older token (handlers.rs:218-315, session.rs:727-733).
THEOREM AgesInductive == Spec => [](Inv /\ AgeInv)
<1>1. Inv /\ NewerInv /\ AgeInv /\ [Next]_vars => AgeInv'
  <2> SUFFICES ASSUME Inv, NewerInv, AgeInv, [Next]_vars PROVE AgeInv'
    OBVIOUS
  <2>1. CASE UNCHANGED vars
    BY <2>1 DEF vars, AgeInv, ServedInTime, EndOfSessions
  <2>2. CASE Tick
    BY <2>2, TickAge
  <2>3. CASE \/ LoginResponse \/ LoginVerified \/ LoginPut \/ LoginDelivered \/ LoginFails
             \/ \E lifetime \in Lifetimes, refreshable \in BOOLEAN :
                   LoginIssue(lifetime, refreshable)
    BY <2>3, LoginAge
  <2>4. ASSUME NEW r \in Requests, Acts(r) PROVE AgeInv'
    BY <2>4, RequestAge
  <2> QED
    BY <2>1, <2>2, <2>3, <2>4 DEF Next, Acts
<1> QED
  BY <1>1, InitAge, InitNewer, NextNewer, Inductive, PTL DEF Spec

\* A session whose token has no recorded expiry ends before that token does if
\* the token came with a lifetime; if it came without one, the session ends
\* within its own lifetime, and a login's delays, of the token's issue
\* (refresh.rs:365-369, 374-376, session.rs:495-498, 727-733).
THEOREM HarmlessWithoutExpiry == Spec => []NoExpiryIsHarmless
<1>1. Inv /\ AgeInv => NoExpiryIsHarmless
  <2> SUFFICES ASSUME Inv, AgeInv, session # None, session.expires_at = 0
               PROVE  IF session.token.lifetime = None
                        THEN clock + session.ttl <= EndOfSessions(session.token)
                        ELSE Death(session.token) > clock + session.ttl
    BY DEF NoExpiryIsHarmless
  <2>1. Told(session.token, session.expires_at) /\ session \in Sessions
    BY DEF Inv, SessionInv, Types
  <2>2. session.ttl \in Nat /\ session.ttl <= SessionTtl * Sub
        /\ clock \in Nat /\ clock <= Horizon
    BY <2>1, ConstantFacts DEF Inv, Types, Sessions
  <2>3. CASE session.token.lifetime = None
    BY <2>3 DEF AgeInv
  <2>4. CASE session.token.lifetime # None
    <3>1. Death(session.token) > Horizon + SessionTtl * Sub /\ Death(session.token) \in Nat
      BY <2>1, <2>4, TokenFacts DEF Told
    <3> QED
      BY <2>2, <2>4, <3>1, ConstantFacts
  <2> QED
    BY <2>3, <2>4
<1> QED
  BY <1>1, AgesInductive, PTL

\* A returned token is alive, but for one issued for less time than its own
\* delivery takes, and for one without a lifetime, of which it is known only how
\* long it can be served: for any window, bounds and lifetimes that satisfy the
\* assumptions (refresh.rs:20, 364-397).
THEOREM AliveWhenReady == Spec => ReadyIsAlive
<1> DEFINE Alive(r) ==
      Returns(r, "Ready") =>
          LET token == request'[r].token IN
          \/ ~MayBeDead(token)
          \/ /\ token.lifetime = None
             /\ clock <= EndOfSessions(token) + RedisBound
          \/ /\ token.lifetime # None /\ token.issued >= request[r].began
             /\ token.lifetime * Sub <= HttpBound + 2 * RedisBound
<1>1. ASSUME Inv, AgeInv, [Next]_vars, NEW r \in Requests PROVE Alive(r)
  <2> SUFFICES ASSUME Returns(r, "Ready"), MayBeDead(request'[r].token)
               PROVE  IF request'[r].token.lifetime = None
                        THEN clock <= EndOfSessions(request'[r].token) + RedisBound
                        ELSE /\ request'[r].token.issued >= request[r].began
                             /\ request'[r].token.lifetime * Sub
                                   <= HttpBound + 2 * RedisBound
    OBVIOUS
  <2>1. /\ request[r].stage # "done" /\ request'[r].stage = "done"
        /\ request'[r].answer = "Ready"
    BY DEF Returns
  <2>2. CheckSession(r) \/ Read(r) \/ Poll(r) \/ Released(r) \/ Fails(r)
    BY <1>1, <2>1, ReturnsFrom DEF vars
  <2>3. /\ request \in [Requests -> Records] /\ request[r] \in Records /\ RequestInv(r)
        /\ clock \in Nat /\ clock <= Horizon
    BY <1>1, ConstantFacts DEF Inv, Types
  <2>4. {"401", "204", "503", "Ready", "Reauthenticate", "Unavailable"} \subseteq Answers
    BY DEF Answers
  <2>5. ~CheckSession(r)
    BY <2>1, <2>3, <2>4, EndsDoes DEF CheckSession
  <2>6. ~Fails(r)
    BY <2>1, <2>3, <2>4, EndsDoes DEF Fails
  <2>7. request'[r].token.lifetime # None => clock >= Death(request'[r].token)
    BY DEF MayBeDead
  <2>8. CASE Read(r) \/ Poll(r)
    <3>1. Active(r)
      BY <2>8 DEF Read, Poll, Active
    <3>2. Ends(r, Resolution(r), Token(Resolution(r))) /\ Resolution(r) # "refresh"
      <4>1. CASE Poll(r)
        BY <4>1 DEF Poll
      <4>2. CASE Read(r)
        <5>1. ~Goes(r, "discover", DiscoveryBound)
          BY <2>1, <2>3 DEF Goes, Records
        <5> QED
          BY <4>2, <5>1 DEF Read
      <4> QED
        BY <2>8, <4>1, <4>2
    <3>3. Resolution(r) = "Ready" /\ request'[r].token = Token(Resolution(r))
      BY <1>1, <2>1, <2>3, <2>4, <3>1, <3>2, ResolutionFacts, EndsDoes
    <3>4. session # None /\ request'[r].token = session.token
      BY <3>3 DEF Resolution, Token
    <3>5. CASE request'[r].token.lifetime = None
      <4>1. /\ session.token \in Tokens /\ session.ttl \in Nat
            /\ clock + session.ttl <= EndOfSessions(session.token)
        BY <1>1, <3>4, ConstantFacts DEF Inv, Types, Sessions, AgeInv
      <4>2. clock <= EndOfSessions(session.token) + RedisBound
        BY <2>3, <4>1, EndFacts, ConstantFacts
      <4> QED
        BY <3>4, <3>5, <4>2
    <3>6. CASE request'[r].token.lifetime # None
      <4>1. /\ request'[r].token \in Tokens
            /\ \/ Death(request'[r].token) > Horizon
               \/ Death(request'[r].token) > clock + RedisBound
        BY <1>1, <3>1, <3>3, <3>6, ResolutionFacts
      <4>2. Death(request'[r].token) \in Nat
        BY <3>6, <4>1, TokenFacts
      <4>3. FALSE
        BY <2>3, <2>7, <3>6, <4>1, <4>2, ConstantFacts
      <4> QED
        BY <4>3
    <3> QED
      BY <3>5, <3>6
  <2>9. CASE Released(r)
    <3>1. request[r].stage = "release" /\ request[r].answer = "Ready"
          /\ request'[r].token = request[r].token
      BY <2>1, <2>3, <2>9, EndsDoes DEF Released, Records
    <3>2. request[r].token \in Tokens /\ request[r].left \in Nat
      BY <1>1, <2>3, <3>1 DEF AgeInv, ServedInTime, Records
    <3>3. CASE request[r].token.lifetime = None
      <4>1. clock + request[r].left <= EndOfSessions(request[r].token) + RedisBound
        BY <1>1, <3>1, <3>3 DEF AgeInv, ServedInTime
      <4>2. clock <= EndOfSessions(request[r].token) + RedisBound
        BY <2>3, <3>2, <4>1, EndFacts, ConstantFacts
      <4> QED
        BY <3>1, <3>3, <4>2
    <3>4. CASE request[r].token.lifetime # None
      <4>1. clock >= Death(request[r].token)
        BY <2>7, <3>1, <3>4
      <4>2. /\ Death(request[r].token) \in Nat /\ request[r].token.issued \in Nat
            /\ request[r].token.lifetime * Sub \in Nat
            /\ Death(request[r].token)
                  = request[r].token.issued + request[r].token.lifetime * Sub
        BY <3>2, <3>4, TokenFacts
      <4>3. Fresh(request[r], request[r].token, 2)
        <5>1. \/ Death(request[r].token) > Horizon
              \/ Death(request[r].token) > clock + request[r].left
              \/ Fresh(request[r], request[r].token, 2)
          BY <2>3, <3>1, <3>4 DEF RequestInv, StagesInv
        <5> QED
          BY <2>3, <3>2, <4>1, <4>2, <5>1, ConstantFacts
      <4>4. /\ request[r].token.issued >= request[r].began
            /\ clock + request[r].left <= request[r].token.issued + HttpBound + 2 * RedisBound
        BY <2>3, <4>2, <4>3, ConstantFacts DEF Fresh, Records
      <4>5. request[r].token.lifetime * Sub <= HttpBound + 2 * RedisBound
        BY <2>3, <3>2, <4>1, <4>2, <4>4, ConstantFacts
      <4> QED
        BY <3>1, <3>4, <4>4, <4>5
    <3> QED
      BY <3>3, <3>4
  <2> QED
    BY <2>2, <2>5, <2>6, <2>8, <2>9
<1>2. Inv /\ AgeInv /\ [Next]_vars => [\A r \in Requests : Alive(r)]_vars
  BY <1>1
<1> QED
  BY <1>2, AgesInductive, PTL DEF Spec, ReadyIsAlive
=============================================================================
