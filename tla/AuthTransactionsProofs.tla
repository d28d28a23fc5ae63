----------------------- MODULE AuthTransactionsProofs -----------------------
(***************************************************************************)
(* Theorems about AuthTransactions, for any number of browsers, callbacks  *)
(* and transactions and any limits.                                        *)
(***************************************************************************)
EXTENDS AuthTransactions, TLAPS, FiniteSetTheorems

-----------------------------------------------------------------------------
(* One-time use.  A transaction that has been taken is not in the map, and *)
(* only a login that has not happened yet can put one there.               *)

Consumed ==
    /\ pending = [t \in DOMAIN pending |-> pending[t]]
    /\ takenBy = [t \in Transactions |-> takenBy[t]]
    /\ initiator = [t \in Transactions |-> initiator[t]]
    /\ \A t \in Transactions :
           /\ takenBy[t] # {} => t \notin DOMAIN pending /\ ~Unstarted(t)
           /\ \A c, d \in takenBy[t] : c = d
    /\ \A t \in DOMAIN pending : t \in Transactions /\ ~Unstarted(t)

LEMMA InitConsumed == Init => Consumed
  BY DEF Init, Consumed, Unstarted

LEMMA RetainedDomain == DOMAIN Retained \subseteq DOMAIN pending
  BY DEF Retained

LEMMA NextConsumed == Consumed /\ [Next]_vars => Consumed'
<1> SUFFICES ASSUME Consumed, [Next]_vars PROVE Consumed'
  OBVIOUS
<1>1. ASSUME NEW b \in Browsers, NEW ip \in Clients, NEW t \in Transactions, Login(b, ip, t)
      PROVE  Consumed'
  <2>1. b # Nobody
    BY NobodyAssumption
  <2>2. takenBy[t] = {} /\ takenBy' = takenBy
    BY <1>1 DEF Login, Consumed
  <2>3. DOMAIN pending' \subseteq DOMAIN pending \cup {t}
    BY <1>1, RetainedDomain DEF Login
  <2>4. /\ initiator'[t] = b /\ \A u \in Transactions \ {t} : initiator'[u] = initiator[u]
        /\ initiator' = [u \in Transactions |-> initiator'[u]]
    BY <1>1 DEF Login, Consumed
  <2>5. pending' = [u \in DOMAIN pending' |-> pending'[u]]
    BY <1>1 DEF Login
  <2> QED
    BY <2>1, <2>2, <2>3, <2>4, <2>5 DEF Consumed, Unstarted
<1>2. ASSUME NEW ip \in Clients, LoginRefused(ip) PROVE Consumed'
  <2>1. pending' = Retained /\ UNCHANGED <<initiator, takenBy>>
    BY <1>2 DEF LoginRefused
  <2> QED
    BY <2>1, RetainedDomain DEF Consumed, Unstarted, Retained
<1>3. ASSUME NEW c \in Callbacks, NEW b \in Browsers, NEW s \in Transactions,
             NEW a \in Answers, NEW presented \in Presented(b, s),
             TakeBound(c, b, s, a, presented)
      PROVE  Consumed'
  <2>1. CASE pending' = Retained /\ UNCHANGED <<initiator, takenBy>>
    BY <2>1, RetainedDomain DEF Consumed, Unstarted, Retained
  <2>2. CASE /\ s \in DOMAIN Retained /\ pending' = WithoutTransaction(s)
             /\ takenBy' = [takenBy EXCEPT ![s] = @ \cup {c}]
             /\ UNCHANGED initiator
    <3>1. takenBy[s] = {} /\ ~Unstarted(s)
      BY <2>2, RetainedDomain DEF Consumed
    <3>2. /\ s \notin DOMAIN pending' /\ DOMAIN pending' \subseteq DOMAIN pending
          /\ pending' = [t \in DOMAIN pending' |-> pending'[t]]
      BY <2>2, RetainedDomain DEF WithoutTransaction
    <3>3. /\ takenBy'[s] = {c} /\ \A t \in Transactions \ {s} : takenBy'[t] = takenBy[t]
          /\ takenBy' = [t \in Transactions |-> takenBy'[t]]
      BY <2>2, <3>1 DEF Consumed
    <3> QED
      BY <2>2, <3>1, <3>2, <3>3 DEF Consumed, Unstarted
  <2> QED
    BY <1>3, <2>1, <2>2 DEF TakeBound, AfterMismatch
<1>4. ASSUME Restart PROVE Consumed'
  BY <1>4 DEF Restart, Consumed, Unstarted
<1>5. ASSUME Tick PROVE Consumed'
  BY <1>5 DEF Tick, Consumed, Unstarted
<1>6. CASE UNCHANGED <<pending, initiator, takenBy>>
  BY <1>6 DEF Consumed, Unstarted
<1>7. ASSUME NEW c \in Callbacks, RejectUnread(c) \/ Handle(c) \/ DropCallback(c)
      PROVE  UNCHANGED <<pending, initiator, takenBy>>
  BY <1>7 DEF RejectUnread, Handle, DropCallback, Metadata, ExchangeCode, VerifyIdToken,
     UserInfo, StoreSession, Respond, CallbackFails, Advance
<1> QED
  BY <1>1, <1>2, <1>3, <1>4, <1>5, <1>6, <1>7 DEF Next, vars, IssueCode

(* However many callbacks, in whatever browsers, race for a transaction:   *)
(* at most one of them consumes it, and no restart or expiry changes that. *)
THEOREM OneTimeUse == Spec => []TakenOnce
<1>1. Consumed => TakenOnce
  <2> SUFFICES ASSUME Consumed, NEW t \in Transactions PROVE Cardinality(takenBy[t]) <= 1
    BY DEF TakenOnce
  <2>1. CASE takenBy[t] = {}
    BY <2>1, FS_EmptySet
  <2>2. CASE takenBy[t] # {}
    <3>1. PICK c : c \in takenBy[t]
      BY <2>2
    <3>2. takenBy[t] = {c}
      BY <3>1 DEF Consumed
    <3>3. Cardinality(takenBy[t]) = 1
      BY <3>2, FS_Singleton
    <3> QED
      BY <3>3
  <2> QED
    BY <2>1, <2>2
<1> QED
  BY <1>1, InitConsumed, NextConsumed, PTL DEF Spec

-----------------------------------------------------------------------------
(* Binding.  A cookie is only in the browser that began its login, so a    *)
(* callback at work took its transaction in that browser; past the nonce   *)
(* check its code is that transaction's own.                               *)

Shapes ==
    /\ initiator = [t \in Transactions |-> initiator[t]]
    /\ preauth = [b \in Browsers |-> preauth[b]]
    /\ stage = [c \in Callbacks |-> stage[c]]
    /\ request = [c \in Callbacks |-> request[c]]
    /\ takenBy = [t \in Transactions |-> takenBy[t]]
    /\ sessions \subseteq Callbacks
    /\ \A c \in Callbacks : request[c].browser \in Browsers \cup {Nobody}

CookiesAtHome == \A b \in Browsers : \A t \in preauth[b] \cap Transactions : initiator[t] = b

TookOwn(c) ==
    /\ request[c].state \in Transactions
    /\ c \in takenBy[request[c].state]
    /\ request[c].browser \in Browsers
    /\ request[c].browser = initiator[request[c].state]

Checked == {"userinfo", "put", "respond"}

BoundCallback(c) ==
    /\ stage[c] \in Working => TookOwn(c)
    /\ stage[c] \in Checked => NonceMatches(c)
    /\ c \in sessions => TookOwn(c) /\ NonceMatches(c) /\ stage[c] # "idle"

Binding == Shapes /\ CookiesAtHome /\ \A c \in Callbacks : BoundCallback(c)

LEMMA InitBinding == Init => Binding
  BY DEF Init, Binding, Shapes, CookiesAtHome, BoundCallback, Working, Checked, NoRequest

\* A callback untouched by a step stays bound while histories only grow.
LEMMA BoundKept ==
    ASSUME NEW c \in Callbacks, BoundCallback(c), stage'[c] = stage[c],
           request'[c] = request[c], c \in sessions' <=> c \in sessions,
           \A t \in Transactions : c \in takenBy[t] => c \in takenBy'[t],
           \A t \in Transactions : ~Unstarted(t) => initiator'[t] = initiator[t]
    PROVE  BoundCallback(c)'
  BY NobodyAssumption DEF BoundCallback, TookOwn, NonceMatches, Unstarted

LEMMA NextBinding == Binding /\ [Next]_vars => Binding'
<1> SUFFICES ASSUME Binding, [Next]_vars PROVE Binding'
  OBVIOUS
<1>1. ASSUME NEW b \in Browsers, NEW ip \in Clients, NEW t \in Transactions, Login(b, ip, t)
      PROVE  Binding'
  <2>1. /\ Unstarted(t) /\ initiator' = [initiator EXCEPT ![t] = b]
        /\ preauth' = [preauth EXCEPT ![b] = @ \cup {t}]
        /\ UNCHANGED <<stage, request, takenBy, sessions>>
    BY <1>1 DEF Login
  <2>2. Shapes'
    BY <2>1 DEF Binding, Shapes
  <2>3. CookiesAtHome'
    BY <2>1, NobodyAssumption DEF Binding, Shapes, CookiesAtHome, Unstarted
  <2>4. \A u \in Transactions : ~Unstarted(u) => initiator'[u] = initiator[u]
    BY <2>1 DEF Unstarted, Binding, Shapes
  <2>5. \A c \in Callbacks : BoundCallback(c)'
    BY <2>1, <2>4, BoundKept DEF Binding
  <2> QED
    BY <2>2, <2>3, <2>5 DEF Binding
<1>2. ASSUME NEW c \in Callbacks, NEW b \in Browsers, NEW s \in Transactions,
             NEW a \in Answers, NEW presented \in Presented(b, s),
             TakeBound(c, b, s, a, presented)
      PROVE  Binding'
  <2>1. /\ stage[c] = "idle" /\ presented # Nobody
        /\ request' = [request EXCEPT ![c] = [browser |-> b, state |-> s, answer |-> a]]
        /\ UNCHANGED <<initiator, sessions>>
    BY <1>2 DEF TakeBound
  <2>2. /\ preauth' = preauth \/ preauth' = [preauth EXCEPT ![b] = @ \ {s}]
        /\ takenBy' = takenBy \/ takenBy' = [takenBy EXCEPT ![s] = @ \cup {c}]
        /\ stage' = [stage EXCEPT ![c] = "failed"] \/ stage' = [stage EXCEPT ![c] = "metadata"]
    BY <1>2 DEF TakeBound, RemovePreauth
  <2>3. Shapes'
    BY <2>1, <2>2 DEF Binding, Shapes
  <2>4. CookiesAtHome'
    BY <2>1, <2>2 DEF Binding, Shapes, CookiesAtHome
  <2>5. ASSUME NEW d \in Callbacks, d # c PROVE BoundCallback(d)'
    <3>1. stage'[d] = stage[d] /\ request'[d] = request[d]
      BY <2>1, <2>2, <2>5 DEF Binding, Shapes
    <3>2. \A t \in Transactions : d \in takenBy[t] => d \in takenBy'[t]
      BY <2>2 DEF Binding, Shapes
    <3> QED
      BY <2>1, <3>1, <3>2, BoundKept DEF Binding
  <2>6. BoundCallback(c)'
    <3>1. c \notin sessions'
      BY <2>1 DEF Binding, BoundCallback
    <3>2. CASE stage' = [stage EXCEPT ![c] = "failed"]
      BY <3>1, <3>2 DEF Binding, Shapes, BoundCallback, Working, Checked
    <3>3. CASE stage' = [stage EXCEPT ![c] = "metadata"]
      <4>1. stage'[c] = "metadata"
        BY <3>3 DEF Binding, Shapes
      <4>2. /\ BindingMatches(s, presented)
            /\ takenBy' = [takenBy EXCEPT ![s] = @ \cup {c}]
        BY <1>2, <4>1 DEF TakeBound, Binding, Shapes
      <4>3. s \in preauth[b]
        BY <4>2, NobodyAssumption DEF BindingMatches, Presented
      <4>4. initiator[s] = b
        BY <4>3 DEF Binding, CookiesAtHome
      <4>5. request'[c] = [browser |-> b, state |-> s, answer |-> a] /\ c \in takenBy'[s]
        BY <2>1, <4>2 DEF Binding, Shapes
      <4> QED
        BY <2>1, <3>1, <4>1, <4>4, <4>5 DEF BoundCallback, TookOwn, Checked
    <3> QED
      BY <2>2, <3>2, <3>3
  <2> QED
    BY <2>3, <2>4, <2>5, <2>6 DEF Binding
<1>3. ASSUME NEW c \in Callbacks, RejectUnread(c) \/ Handle(c) \/ DropCallback(c)
      PROVE  Binding'
  <2>1. UNCHANGED <<initiator, request, takenBy>>
    BY <1>3 DEF RejectUnread, Handle, DropCallback, Metadata, ExchangeCode, VerifyIdToken,
       UserInfo, StoreSession, Respond, CallbackFails, Advance
  <2>2. /\ preauth' = preauth \/ RemovePreauth(request[c].browser, request[c].state)
        /\ \E z : stage' = [stage EXCEPT ![c] = z]
        /\ sessions' = sessions \/ (stage[c] = "put" /\ sessions' = sessions \cup {c})
    BY <1>3 DEF RejectUnread, Handle, DropCallback, Metadata, ExchangeCode, VerifyIdToken,
       UserInfo, StoreSession, Respond, CallbackFails, Advance, HalfDone
  <2>3. Shapes'
    BY <2>1, <2>2 DEF Binding, Shapes, RemovePreauth
  <2>4. CookiesAtHome'
    <3>1. ASSUME NEW b \in Browsers PROVE preauth'[b] \subseteq preauth[b]
      BY <2>2 DEF Binding, Shapes, RemovePreauth
    <3> QED
      BY <2>1, <3>1 DEF Binding, CookiesAtHome
  <2>5. ASSUME NEW d \in Callbacks, d # c PROVE BoundCallback(d)'
    BY <2>1, <2>2, <2>5, BoundKept DEF Binding, Shapes
  <2>6. BoundCallback(c)'
    <3>1. stage'[c] \in Working => stage[c] \in Working
      BY <1>3, <2>2 DEF RejectUnread, Handle, DropCallback, Metadata, ExchangeCode,
         VerifyIdToken, UserInfo, StoreSession, Respond, CallbackFails, Advance, Working,
         Binding, Shapes
    <3>2. stage'[c] \in Checked => NonceMatches(c)
      BY <1>3, <2>2 DEF RejectUnread, Handle, DropCallback, Metadata, ExchangeCode,
         VerifyIdToken, UserInfo, StoreSession, Respond, CallbackFails, Advance, Checked,
         Binding, Shapes, BoundCallback
    <3>3. stage'[c] # "idle"
      BY <1>3 DEF RejectUnread, Handle, DropCallback, Metadata, ExchangeCode,
         VerifyIdToken, UserInfo, StoreSession, Respond, CallbackFails, Advance,
         Binding, Shapes
    <3>4. c \in sessions' => TookOwn(c) /\ NonceMatches(c)
      BY <2>2 DEF Binding, BoundCallback, Working, Checked
    <3> QED
      BY <2>1, <3>1, <3>2, <3>3, <3>4 DEF Binding, BoundCallback, TookOwn, NonceMatches
  <2> QED
    BY <2>3, <2>4, <2>5, <2>6 DEF Binding
<1>4. ASSUME Restart PROVE Binding'
  <2>1. /\ stage' = [c \in Callbacks |-> IF stage[c] \in Working THEN "dropped" ELSE stage[c]]
        /\ UNCHANGED <<initiator, preauth, request, takenBy, sessions>>
    BY <1>4 DEF Restart
  <2>2. ASSUME NEW c \in Callbacks PROVE BoundCallback(c)'
    BY <2>1 DEF Binding, BoundCallback, TookOwn, NonceMatches, Working, Checked
  <2> QED
    BY <2>1, <2>2 DEF Binding, Shapes, CookiesAtHome
<1>5. ASSUME UNCHANGED <<initiator, preauth, stage, request, takenBy, sessions>>
      PROVE  Binding'
  BY <1>5 DEF Binding, Shapes, CookiesAtHome, BoundCallback, TookOwn, NonceMatches
<1> QED
  BY <1>1, <1>2, <1>3, <1>4, <1>5 DEF Next, vars, LoginRefused, IssueCode, Tick

(* Every session was created by a callback that, in the browser that began *)
(* the login, took the transaction its authorization code belongs to.      *)
THEOREM SessionsAreBound == Spec => []SessionIsBound
<1>1. Binding => SessionIsBound
  BY DEF Binding, Shapes, BoundCallback, TookOwn, NonceMatches, SessionIsBound
<1> QED
  BY <1>1, InitBinding, NextBinding, PTL DEF Spec
-----------------------------------------------------------------------------
(* Types and limits. *)

LEMMA InitTypeOK == Init => TypeOK
  BY LimitsAssumption DEF Init, TypeOK, NoRequest

\* What a step may leave of the map: live transactions, unchanged.
PendingOK(map) ==
    /\ DOMAIN map \subseteq Transactions
    /\ \A t \in DOMAIN map : map[t] \in [client : Clients, age : 0..LoginTtl]

LEMMA RetainedOK ==
    ASSUME PendingOK(pending)
    PROVE  PendingOK(Retained) /\ \A s : PendingOK(WithoutTransaction(s))
  BY DEF PendingOK, Retained, WithoutTransaction

LEMMA NextTypeOK == TypeOK /\ [Next]_vars => TypeOK'
<1> SUFFICES ASSUME TypeOK, [Next]_vars PROVE TypeOK'
  OBVIOUS
<1>0. PendingOK(pending)
  BY DEF TypeOK, PendingOK
<1>1. ASSUME NEW b \in Browsers, NEW ip \in Clients, NEW t \in Transactions, Login(b, ip, t)
      PROVE  TypeOK'
  <2>1. PendingOK(pending')
    <3>1. DOMAIN pending' = DOMAIN Retained \cup {t}
      BY <1>1 DEF Login
    <3>2. pending'[t] = [client |-> ip, age |-> 0]
      BY <1>1 DEF Login
    <3>3. \A u \in DOMAIN Retained \ {t} : pending'[u] = Retained[u]
      BY <1>1 DEF Login, Retained
    <3> QED
      BY <1>0, <3>1, <3>2, <3>3, RetainedOK, LimitsAssumption DEF PendingOK
  <2> QED
    BY <1>1, <2>1 DEF TypeOK, PendingOK, Login
<1>2. ASSUME NEW ip \in Clients, LoginRefused(ip) PROVE TypeOK'
  BY <1>0, <1>2, RetainedOK DEF TypeOK, PendingOK, LoginRefused
<1>3. ASSUME NEW t \in Transactions, IssueCode(t) PROVE TypeOK'
  BY <1>3 DEF TypeOK, IssueCode
<1>4. ASSUME NEW c \in Callbacks, NEW b \in Browsers, NEW s \in Transactions,
             NEW a \in Answers, NEW presented \in Presented(b, s),
             TakeBound(c, b, s, a, presented)
      PROVE  TypeOK'
  <2>1. pending' = Retained \/ pending' = WithoutTransaction(s)
    BY <1>4 DEF TakeBound, AfterMismatch
  <2>2. PendingOK(pending')
    BY <1>0, <2>1, RetainedOK
  <2>3. a \in Transactions \cup {Nobody}
    BY DEF Answers
  <2>4. /\ preauth' = preauth \/ RemovePreauth(b, s)
        /\ takenBy' = takenBy \/ takenBy' = [takenBy EXCEPT ![s] = @ \cup {c}]
        /\ stage' = [stage EXCEPT ![c] = "failed"] \/ stage' = [stage EXCEPT ![c] = "metadata"]
        /\ request' = [request EXCEPT ![c] = [browser |-> b, state |-> s, answer |-> a]]
        /\ UNCHANGED <<initiator, code, sessions, cookies, restarts>>
    BY <1>4 DEF TakeBound
  <2>5. preauth' \in [Browsers -> SUBSET Transactions]
    BY <2>4 DEF TypeOK, RemovePreauth
  <2>6. takenBy' \in [Transactions -> SUBSET Callbacks]
    BY <2>4 DEF TypeOK
  <2>7. stage' \in [Callbacks -> {"idle"} \cup Working \cup Ended]
    BY <2>4 DEF TypeOK, Working, Ended
  <2>8. request' \in [Callbacks -> [browser : Browsers \cup {Nobody},
            state : Transactions \cup {Nobody}, answer : Transactions \cup {Nobody}]]
    BY <2>3, <2>4 DEF TypeOK
  <2> QED
    BY <2>2, <2>4, <2>5, <2>6, <2>7, <2>8 DEF TypeOK, PendingOK
<1>5. ASSUME NEW c \in Callbacks, RejectUnread(c) \/ Handle(c) \/ DropCallback(c)
      PROVE  TypeOK'
  <2>1. UNCHANGED <<pending, initiator, request, takenBy, restarts>>
    BY <1>5 DEF RejectUnread, Handle, DropCallback, Metadata, ExchangeCode, VerifyIdToken,
       UserInfo, StoreSession, Respond, CallbackFails, Advance
  <2>2. /\ preauth' = preauth \/ RemovePreauth(request[c].browser, request[c].state)
        /\ \E z \in Working \cup Ended : stage' = [stage EXCEPT ![c] = z]
        /\ sessions' = sessions \/ sessions' = sessions \cup {c}
    BY <1>5 DEF RejectUnread, Handle, DropCallback, Metadata, ExchangeCode, VerifyIdToken,
       UserInfo, StoreSession, Respond, CallbackFails, Advance, HalfDone, Working, Ended
  <2>3. code' = code \/ code' = [code EXCEPT ![request[c].answer] = "redeemed"]
    BY <1>5 DEF RejectUnread, Handle, DropCallback, Metadata, ExchangeCode, VerifyIdToken,
       UserInfo, StoreSession, Respond, CallbackFails, Advance, HalfDone
  <2>4. \/ cookies' = cookies
        \/ cookies' = [cookies EXCEPT ![request[c].browser] = @ \cup {c}]
    BY <1>5 DEF RejectUnread, Handle, DropCallback, Metadata, ExchangeCode, VerifyIdToken,
       UserInfo, StoreSession, Respond, CallbackFails, Advance
  <2>5. preauth' \in [Browsers -> SUBSET Transactions]
    BY <2>2 DEF TypeOK, RemovePreauth
  <2>6. stage' \in [Callbacks -> {"idle"} \cup Working \cup Ended]
    BY <2>2 DEF TypeOK
  <2>7. code' \in [Transactions -> {"none", "issued", "redeemed"}]
    BY <2>3 DEF TypeOK
  <2>8. cookies' \in [Browsers -> SUBSET Callbacks]
    BY <2>4 DEF TypeOK
  <2> QED
    BY <2>1, <2>2, <2>5, <2>6, <2>7, <2>8 DEF TypeOK
<1>6. ASSUME Restart PROVE TypeOK'
  BY <1>6, LimitsAssumption DEF TypeOK, Restart, Ended
<1>7. ASSUME Tick PROVE TypeOK'
  <2>1. PendingOK(pending')
    <3> SUFFICES ASSUME NEW t \in DOMAIN pending
                 PROVE  pending'[t] \in [client : Clients, age : 0..LoginTtl]
      BY <1>0, <1>7 DEF Tick, PendingOK
    <3>1. pending[t] \in [client : Clients, age : 0..LoginTtl]
      BY <1>0 DEF PendingOK
    <3>2. pending'[t] = IF IsLive(t) THEN [pending[t] EXCEPT !.age = @ + 1] ELSE pending[t]
      BY <1>7 DEF Tick
    <3>3. CASE IsLive(t)
      BY <3>1, <3>2, <3>3, LimitsAssumption DEF IsLive
    <3> QED
      BY <3>1, <3>2, <3>3
  <2> QED
    BY <1>7, <2>1 DEF TypeOK, PendingOK, Tick
<1>8. CASE UNCHANGED vars
  BY <1>8 DEF TypeOK, vars
<1> QED
  BY <1>1, <1>2, <1>3, <1>4, <1>5, <1>6, <1>7, <1>8 DEF Next

(* Types: in particular no transaction grows older than its lifetime, and  *)
(* a restart leaves nothing but well-formed state (transaction.rs 25-49).  *)
THEOREM TypeCorrect == Spec => []TypeOK
  BY InitTypeOK, NextTypeOK, PTL DEF Spec
LimitsInv ==
    /\ IsFiniteSet(DOMAIN pending)
    /\ WithinLimits

\* Fewer entries, each of the client it was: the limits still hold.
LEMMA SmallerMap ==
    ASSUME LimitsInv, NEW map, DOMAIN map \subseteq DOMAIN pending,
           \A t \in DOMAIN map : map[t].client = pending[t].client
    PROVE  /\ IsFiniteSet(DOMAIN map)
           /\ Cardinality(DOMAIN map) <= MaxPending
           /\ \A ip \in Clients : /\ IsFiniteSet(OfClient(map, ip))
                                  /\ Cardinality(OfClient(map, ip)) <= MaxPerClient
<1>1. /\ IsFiniteSet(DOMAIN map) /\ Cardinality(DOMAIN map) <= Cardinality(DOMAIN pending)
      /\ Cardinality(DOMAIN map) \in Nat /\ Cardinality(DOMAIN pending) \in Nat
  BY FS_Subset, FS_CardinalityType DEF LimitsInv
<1>2. ASSUME NEW ip \in Clients
      PROVE  /\ IsFiniteSet(OfClient(map, ip))
             /\ Cardinality(OfClient(map, ip)) <= MaxPerClient
  <2>1. OfClient(map, ip) \subseteq OfClient(pending, ip)
    BY DEF OfClient
  <2>2. IsFiniteSet(OfClient(pending, ip))
    BY FS_Subset DEF LimitsInv, OfClient
  <2>3. /\ IsFiniteSet(OfClient(map, ip))
        /\ Cardinality(OfClient(map, ip)) <= Cardinality(OfClient(pending, ip))
        /\ Cardinality(OfClient(map, ip)) \in Nat /\ Cardinality(OfClient(pending, ip)) \in Nat
    BY <2>1, <2>2, FS_Subset, FS_CardinalityType
  <2> QED
    BY <2>3, LimitsAssumption DEF LimitsInv, WithinLimits
<1> QED
  BY <1>1, <1>2, LimitsAssumption DEF LimitsInv, WithinLimits

LEMMA OneMore ==
    ASSUME NEW S, NEW x, IsFiniteSet(S)
    PROVE  /\ IsFiniteSet(S \cup {x}) /\ Cardinality(S \cup {x}) <= Cardinality(S) + 1
           /\ Cardinality(S) \in Nat /\ Cardinality(S \cup {x}) \in Nat
<1>1. /\ IsFiniteSet(S \cup {x})
      /\ Cardinality(S \cup {x}) = IF x \in S THEN Cardinality(S) ELSE Cardinality(S) + 1
  BY FS_AddElement
<1>2. Cardinality(S) \in Nat
  BY FS_CardinalityType
<1> QED
  BY <1>1, <1>2

LEMMA InitLimits == Init => LimitsInv
<1> SUFFICES ASSUME Init PROVE LimitsInv
  OBVIOUS
<1>1. DOMAIN pending = {} /\ \A ip \in Clients : OfClient(pending, ip) = {}
  BY DEF Init, OfClient
<1> QED
  BY <1>1, FS_EmptySet, LimitsAssumption DEF LimitsInv, WithinLimits

LEMMA NextLimits == LimitsInv /\ [Next]_vars => LimitsInv'
<1> SUFFICES ASSUME LimitsInv, [Next]_vars PROVE LimitsInv'
  OBVIOUS
<1>1. ASSUME NEW b \in Browsers, NEW i \in Clients, NEW t \in Transactions, Login(b, i, t)
      PROVE  LimitsInv'
  <2>1. HasRoom(i) /\ DOMAIN pending' = DOMAIN Retained \cup {t}
    BY <1>1 DEF Login
  <2>2. /\ IsFiniteSet(DOMAIN Retained)
        /\ \A ip \in Clients : /\ IsFiniteSet(OfClient(Retained, ip))
                               /\ Cardinality(OfClient(Retained, ip)) <= MaxPerClient
    BY SmallerMap, RetainedDomain DEF Retained
  <2>3. /\ IsFiniteSet(DOMAIN pending')
        /\ Cardinality(DOMAIN pending') <= Cardinality(DOMAIN Retained) + 1
        /\ Cardinality(DOMAIN Retained) \in Nat /\ Cardinality(DOMAIN pending') \in Nat
    BY <2>1, <2>2, OneMore
  <2>4. Cardinality(DOMAIN pending') <= MaxPending
    BY <2>1, <2>3, LimitsAssumption DEF HasRoom
  <2>5. ASSUME NEW ip \in Clients
        PROVE  Cardinality(OfClient(pending', ip)) <= MaxPerClient
    <3>1. CASE ip = i
      <4>1. OfClient(pending', ip) \subseteq OfClient(Retained, ip) \cup {t}
        BY <1>1, <2>1 DEF OfClient, Login, Retained
      <4>2. /\ IsFiniteSet(OfClient(Retained, ip) \cup {t})
            /\ Cardinality(OfClient(Retained, ip) \cup {t})
                 <= Cardinality(OfClient(Retained, ip)) + 1
        BY <2>2, OneMore
      <4>3. Cardinality(OfClient(pending', ip)) <= Cardinality(OfClient(Retained, ip) \cup {t})
        BY <4>1, <4>2, FS_Subset
      <4>4. Cardinality(OfClient(Retained, ip)) < MaxPerClient
        BY <2>1, <3>1 DEF HasRoom
      <4>5. /\ Cardinality(OfClient(pending', ip)) \in Nat
            /\ Cardinality(OfClient(Retained, ip)) \in Nat
            /\ Cardinality(OfClient(Retained, ip) \cup {t}) \in Nat
        BY <2>2, <4>1, <4>2, FS_Subset, OneMore, FS_CardinalityType
      <4> QED
        BY <4>2, <4>3, <4>4, <4>5, LimitsAssumption
    <3>2. CASE ip # i
      <4>1. OfClient(pending', ip) \subseteq OfClient(Retained, ip)
        BY <1>1, <2>1, <3>2 DEF OfClient, Login, Retained
      <4>2. /\ Cardinality(OfClient(pending', ip)) <= Cardinality(OfClient(Retained, ip))
            /\ Cardinality(OfClient(pending', ip)) \in Nat
            /\ Cardinality(OfClient(Retained, ip)) \in Nat
        BY <2>2, <4>1, FS_Subset, FS_CardinalityType
      <4> QED
        BY <2>2, <4>2, LimitsAssumption
    <3> QED
      BY <3>1, <3>2
  <2> QED
    BY <2>3, <2>4, <2>5 DEF LimitsInv, WithinLimits
<1>2. ASSUME DOMAIN pending' \subseteq DOMAIN pending,
             \A t \in DOMAIN pending' : pending'[t].client = pending[t].client
      PROVE  LimitsInv'
  BY <1>2, SmallerMap DEF LimitsInv, WithinLimits
<1>3. ASSUME pending' = Retained \/ \E s : pending' = WithoutTransaction(s)
      PROVE  LimitsInv'
  BY <1>2, <1>3, RetainedDomain DEF Retained, WithoutTransaction
<1>4. ASSUME NEW c \in Callbacks, NEW b \in Browsers, NEW s \in Transactions,
             NEW a \in Answers, NEW presented \in Presented(b, s),
             TakeBound(c, b, s, a, presented)
      PROVE  LimitsInv'
  BY <1>3, <1>4 DEF TakeBound, AfterMismatch
<1>5. ASSUME NEW ip \in Clients, LoginRefused(ip) PROVE LimitsInv'
  BY <1>3, <1>5 DEF LoginRefused
<1>6. ASSUME Restart PROVE LimitsInv'
  BY <1>2, <1>6 DEF Restart
<1>7. ASSUME Tick PROVE LimitsInv'
  BY <1>2, <1>7 DEF Tick
<1>8. CASE UNCHANGED pending
  BY <1>8 DEF LimitsInv, WithinLimits, OfClient
<1>9. ASSUME NEW c \in Callbacks, RejectUnread(c) \/ Handle(c) \/ DropCallback(c)
      PROVE  UNCHANGED pending
  BY <1>9 DEF RejectUnread, Handle, DropCallback, Metadata, ExchangeCode, VerifyIdToken,
     UserInfo, StoreSession, Respond, CallbackFails, Advance
<1> QED
  BY <1>1, <1>4, <1>5, <1>6, <1>7, <1>8, <1>9 DEF Next, vars, IssueCode

(* Whatever the clients do, the map stays within both of its limits        *)
(* (handlers.rs 116-129).                                                  *)
THEOREM LimitsHold == Spec => []WithinLimits
<1>1. LimitsInv => WithinLimits
  BY DEF LimitsInv
<1> QED
  BY <1>1, InitLimits, NextLimits, PTL DEF Spec

-----------------------------------------------------------------------------
(* What a step may do to a transaction. *)

(* No callback consumes a transaction after its lifetime, however long the *)
(* entry stays in the map (transaction.rs 82-105).                         *)
THEOREM OnlyLiveTaken == Spec => TakenAlive
<1> DEFINE Alive == \A t \in Transactions :
                        takenBy'[t] # takenBy[t] => t \in DOMAIN pending /\ IsLive(t)
<1>1. ASSUME Consumed, [Next]_vars, NEW t \in Transactions, takenBy'[t] # takenBy[t]
      PROVE  t \in DOMAIN pending /\ IsLive(t)
  <2>1. ASSUME NEW c \in Callbacks, RejectUnread(c) \/ Handle(c) \/ DropCallback(c)
        PROVE  UNCHANGED takenBy
    BY <2>1 DEF RejectUnread, Handle, DropCallback, Metadata, ExchangeCode, VerifyIdToken,
       UserInfo, StoreSession, Respond, CallbackFails, Advance
  <2>2. PICK c \in Callbacks, b \in Browsers, s \in Transactions, a \in Answers :
               \E presented \in Presented(b, s) : TakeBound(c, b, s, a, presented)
    BY <1>1, <2>1 DEF Next, vars, Login, LoginRefused, IssueCode, Restart, Tick
  <2>3. s \in DOMAIN Retained /\ takenBy' = [takenBy EXCEPT ![s] = @ \cup {c}]
    BY <1>1, <2>2 DEF TakeBound
  <2>4. t = s
    BY <1>1, <2>3 DEF Consumed
  <2> QED
    BY <2>3, <2>4 DEF Retained
<1>2. Consumed /\ [Next]_vars => [Alive]_vars
  BY <1>1
<1> QED
  BY <1>2, InitConsumed, NextConsumed, PTL DEF Spec, TakenAlive

(* A callback cannot make a live transaction disappear unless it runs in   *)
(* the browser that began the login (handlers.rs 163-193, REQ-OIDC-TXN-    *)
(* 009): a cookie that matches is only there.                              *)
THEOREM LiveKept == Spec => LiveTransactionKept
<1> DEFINE Kept == \A t \in DOMAIN pending : IsLive(t) /\ t \notin DOMAIN pending' =>
               \/ restarts' # restarts
               \/ \E c \in takenBy'[t] \ takenBy[t] : request'[c].browser = initiator[t]
<1>1. ASSUME TypeOK, Consumed, Binding, [Next]_vars, NEW t \in DOMAIN pending,
             IsLive(t), t \notin DOMAIN pending'
      PROVE  \/ restarts' # restarts
             \/ \E c \in takenBy'[t] \ takenBy[t] : request'[c].browser = initiator[t]
  <2>1. t \in Transactions /\ takenBy[t] = {} /\ t \in DOMAIN Retained
    BY <1>1 DEF Consumed, Retained
  <2>2. ASSUME NEW c \in Callbacks, RejectUnread(c) \/ Handle(c) \/ DropCallback(c)
        PROVE  UNCHANGED pending
    BY <2>2 DEF RejectUnread, Handle, DropCallback, Metadata, ExchangeCode, VerifyIdToken,
       UserInfo, StoreSession, Respond, CallbackFails, Advance
  <2>3. CASE Restart
    BY <1>1, <2>3 DEF Restart, TypeOK
  <2>4. CASE ~Restart
    <3>1. PICK c \in Callbacks, b \in Browsers, s \in Transactions, a \in Answers :
                 \E presented \in Presented(b, s) : TakeBound(c, b, s, a, presented)
      BY <1>1, <2>1, <2>2, <2>4 DEF Next, vars, Login, LoginRefused, IssueCode, Tick
    <3>2. PICK presented \in Presented(b, s) : TakeBound(c, b, s, a, presented)
      BY <3>1
    <3>3. /\ BindingMatches(s, presented) /\ pending' = WithoutTransaction(s)
          /\ takenBy' = [takenBy EXCEPT ![s] = @ \cup {c}]
          /\ request' = [request EXCEPT ![c] = [browser |-> b, state |-> s, answer |-> a]]
      BY <1>1, <2>1, <3>2 DEF TakeBound, AfterMismatch
    <3>4. t = s
      BY <1>1, <2>1, <3>3 DEF WithoutTransaction
    <3>5. s \in preauth[b]
      BY <3>3, NobodyAssumption DEF BindingMatches, Presented
    <3>6. initiator[t] = b
      BY <3>4, <3>5 , <1>1 DEF Binding, CookiesAtHome
    <3>7. c \in takenBy'[t] \ takenBy[t] /\ request'[c].browser = b
      BY <1>1, <2>1, <3>3, <3>4 DEF Consumed, Binding, Shapes
    <3> QED
      BY <3>6, <3>7
  <2> QED
    BY <2>3, <2>4
<1>2. TypeOK /\ Consumed /\ Binding /\ [Next]_vars => [Kept]_vars
  BY <1>1
<1> QED
  BY <1>2, InitConsumed, NextConsumed, InitBinding, NextBinding, InitTypeOK, NextTypeOK,
     PTL DEF Spec, LiveTransactionKept
=============================================================================
