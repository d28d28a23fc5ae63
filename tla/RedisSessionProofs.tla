------------------------ MODULE RedisSessionProofs -------------------------
(***************************************************************************)
(* Theorems about the session store: what is written is read back, every   *)
(* record expires when EXPIRE takes the configured lifetime, and then the  *)
(* Redis store behaves as the in-memory store of the tests.                *)
(***************************************************************************)
EXTENDS RedisSession, TLAPS

USE TextsAssumption, NoneAssumption, TimesAssumption, OwnersAssumption

CanonicalSessions == {s \in Sessions : Canonical(s)}

-----------------------------------------------------------------------------
(* The encoding. *)

LEMMA BoolRoundTrip ==
    ASSUME NEW b \in Optional(BOOLEAN)
    PROVE  /\ EncodeOptionalBool(b) \in {"true", "false", ""}
           /\ DecodeOptionalBool(EncodeOptionalBool(b)) = b
<1>1. CASE b = None
  BY <1>1 DEF EncodeOptionalBool, DecodeOptionalBool
<1>2. CASE b = TRUE
  BY <1>2 DEF EncodeOptionalBool, DecodeOptionalBool
<1>3. CASE b = FALSE
  BY <1>3 DEF EncodeOptionalBool, DecodeOptionalBool
<1> QED
  BY <1>1, <1>2, <1>3 DEF Optional

LEMMA EncodeType == ASSUME NEW s \in Sessions PROVE Encode(s) \in Hashes
  BY BoolRoundTrip DEF Sessions, Hashes, Encode, UnwrapOr, Optional

\* A reader gets back exactly the session that was stored, unless a string in
\* it is empty or its expiry is 0 (session.rs:463-502, 514-582).
THEOREM RoundTrip == \A s \in CanonicalSessions : Decode(Encode(s)) = s
<1> SUFFICES ASSUME NEW s \in Sessions, Canonical(s) PROVE Decode(Encode(s)) = s
  BY DEF CanonicalSessions
<1>1. /\ s.access_token \in Texts /\ s.refresh_token \in Optional(Texts)
      /\ s.expires_at \in Optional(Nat) /\ s.issuer \in Texts /\ s.subject \in Texts
      /\ s.email \in Optional(Texts) /\ s.email_verified \in Optional(BOOLEAN)
  BY DEF Sessions
<1> DEFINE h == Encode(s)
<1>2. /\ h \in Hashes /\ h # None
      /\ h.access_token = s.access_token /\ h.issuer = s.issuer /\ h.subject = s.subject
      /\ h.refresh_token = UnwrapOr(s.refresh_token, Empty)
      /\ h.expires_at = UnwrapOr(s.expires_at, 0)
      /\ h.email = UnwrapOr(s.email, Empty)
      /\ h.email_verified = EncodeOptionalBool(s.email_verified)
  BY EncodeType DEF Encode, Sessions
<1> HIDE DEF h
<1>3. h.issuer # Empty /\ h.subject # Empty
  BY <1>2 DEF Canonical
<1>4. Filtered(h.refresh_token, Empty) = s.refresh_token
  BY <1>1, <1>2 DEF Filtered, UnwrapOr, Canonical, Optional
<1>5. Filtered(h.expires_at, 0) = s.expires_at
  BY <1>1, <1>2 DEF Filtered, UnwrapOr, Canonical, Optional
<1>6. Filtered(h.email, Empty) = s.email
  BY <1>1, <1>2 DEF Filtered, UnwrapOr, Canonical, Optional
<1>7. (IF h.email = Empty THEN None ELSE DecodeOptionalBool(h.email_verified))
        = s.email_verified
  BY <1>1, <1>2, BoolRoundTrip DEF UnwrapOr, Canonical, Optional
<1>8. Decode(h) = [access_token |-> s.access_token, refresh_token |-> s.refresh_token,
                   expires_at |-> s.expires_at, issuer |-> s.issuer,
                   subject |-> s.subject, email |-> s.email,
                   email_verified |-> s.email_verified]
  BY <1>2, <1>3, <1>4, <1>5, <1>6, <1>7 DEF Decode
<1>9. Decode(h) = s
  BY <1>8 DEF Sessions
<1> QED
  BY <1>9 DEF h

LEMMA DecodeOverwrite ==
    ASSUME NEW h \in Hashes, Decode(h) \in CanonicalSessions, NEW s \in CanonicalSessions
    PROVE  /\ Overwrite(h, s) \in Hashes
           /\ Decode(Overwrite(h, s)) = Memory!WithTokens(Decode(h), s)
           /\ Decode(Overwrite(h, s)) \in CanonicalSessions
<1>1. /\ s.access_token \in Texts /\ s.refresh_token \in Optional(Texts)
      /\ s.expires_at \in Optional(Nat) /\ s.refresh_token # Empty /\ s.expires_at # 0
  BY DEF CanonicalSessions, Sessions, Canonical
<1>2. h # None /\ h.issuer # Empty /\ h.subject # Empty
  <2>1. h # None /\ Decode(h) # None
    BY DEF CanonicalSessions
  <2> QED
    BY <2>1 DEF Decode
<1> DEFINE rt == UnwrapOr(s.refresh_token, Empty)
           ex == UnwrapOr(s.expires_at, 0)
<1>3. /\ rt \in Texts /\ ex \in Nat
      /\ Filtered(rt, Empty) = s.refresh_token /\ Filtered(ex, 0) = s.expires_at
  BY <1>1 DEF UnwrapOr, Filtered, Optional
<1>4. Overwrite(h, s) = [h EXCEPT !.access_token = s.access_token,
                                  !.refresh_token = rt, !.expires_at = ex]
  BY DEF Overwrite
<1> HIDE DEF rt, ex
<1> DEFINE o == Overwrite(h, s)
<1>5. /\ o \in Hashes /\ o # None
      /\ o.access_token = s.access_token /\ o.refresh_token = rt /\ o.expires_at = ex
      /\ o.issuer = h.issuer /\ o.subject = h.subject /\ o.email = h.email
      /\ o.email_verified = h.email_verified
  <2>1. Overwrite(h, s) \in Hashes
    BY <1>1, <1>3, <1>4 DEF Hashes
  <2>2. Overwrite(h, s) # None
    BY <2>1
  <2> QED
    BY <1>4, <2>1, <2>2 DEF Hashes
<1> HIDE DEF o
<1> DEFINE email == Filtered(h.email, Empty)
           verified == IF h.email = Empty THEN None ELSE DecodeOptionalBool(h.email_verified)
           d == Decode(h)
<1>6. d = [access_token |-> h.access_token,
           refresh_token |-> Filtered(h.refresh_token, Empty),
           expires_at |-> Filtered(h.expires_at, 0), issuer |-> h.issuer,
           subject |-> h.subject, email |-> email, email_verified |-> verified]
  BY <1>2 DEF Decode
<1>7. Decode(o) = [access_token |-> s.access_token, refresh_token |-> s.refresh_token,
                   expires_at |-> s.expires_at, issuer |-> h.issuer,
                   subject |-> h.subject, email |-> email, email_verified |-> verified]
  BY <1>2, <1>3, <1>5 DEF Decode
<1>8. d \in Sessions /\ Canonical(d)
  BY DEF CanonicalSessions
<1> HIDE DEF d, email, verified
<1>9. Decode(o) = Memory!WithTokens(d, s)
  BY <1>6, <1>7 DEF Memory!WithTokens
<1>10. Memory!WithTokens(d, s) \in CanonicalSessions
  BY <1>1, <1>8 DEF Memory!WithTokens, CanonicalSessions, Sessions, Canonical
<1> QED
  BY <1>5, <1>9, <1>10 DEF o, d

-----------------------------------------------------------------------------
(* The types. *)

LEMMA InitType == Init => TypeOK
  BY DEF Init, TypeOK, Configurable

LEMMA EncodedReadable ==
    ASSUME NEW s \in Inputs
    PROVE  /\ s \in CanonicalSessions /\ Encode(s) \in Hashes /\ Encode(s) # None
           /\ Decode(Encode(s)) = s
<1>1. s \in CanonicalSessions
  BY InputsAssumption DEF CanonicalSessions
<1>2. Encode(s) \in Hashes
  BY <1>1, EncodeType DEF CanonicalSessions
<1> QED
  BY <1>1, <1>2, RoundTrip

LEMMA NextTypeOK == TypeOK /\ [Next]_vars => TypeOK'
<1> SUFFICES ASSUME TypeOK, [Next]_vars PROVE TypeOK'
  OBVIOUS
<1> USE DEF NoExpiry, Configurable
<1>1. ASSUME NEW s \in Inputs, RedisPut(s) PROVE TypeOK'
  BY <1>1, EncodedReadable DEF RedisPut, TypeOK, CanonicalSessions
<1>2. ASSUME NEW o \in Owners, NEW s \in Inputs, RedisUpdateAfterRefresh(o, s) PROVE TypeOK'
  <2>1. CASE ScriptResult(o) = "Applied"
    <3>1. hash \in Hashes /\ Decode(hash) \in CanonicalSessions
      BY <1>2, <2>1 DEF ScriptResult, TypeOK, CanonicalSessions
    <3>2. hash' \in Hashes /\ hash' # None /\ Decode(hash') \in CanonicalSessions
      <4>1. s \in CanonicalSessions /\ hash' = Overwrite(hash, s)
        BY <1>2, <2>1, EncodedReadable DEF RedisUpdateAfterRefresh
      <4> QED
        BY <3>1, <4>1, DecodeOverwrite
    <3>3. hash # None /\ UNCHANGED <<ttl, owner, left>>
      BY <1>2, <2>1 DEF RedisUpdateAfterRefresh, ScriptResult
    <3> QED
      BY <3>2, <3>3 DEF TypeOK, CanonicalSessions
  <2>2. CASE ScriptResult(o) # "Applied"
    BY <1>2, <2>2 DEF RedisUpdateAfterRefresh, TypeOK
  <2> QED
    BY <2>1, <2>2
<1>3. ASSUME NEW o \in Owners, RedisInvalidateForRefresh(o) PROVE TypeOK'
  BY <1>3 DEF RedisInvalidateForRefresh, TypeOK
<1>4. ASSUME NEW o \in Owners, RedisTryAcquireRefreshLock(o) PROVE TypeOK'
  BY <1>4 DEF RedisTryAcquireRefreshLock, TypeOK
<1>5. ASSUME NEW o \in Owners, RedisReleaseRefreshLock(o) PROVE TypeOK'
  BY <1>5 DEF RedisReleaseRefreshLock, TypeOK
<1>6. CASE Tick
  BY <1>6 DEF Tick, TypeOK
<1>7. CASE RedisGet \/ Fail \/ UNCHANGED vars
  BY <1>7 DEF RedisGet, Fail, vars, TypeOK
<1> QED
  BY <1>1, <1>2, <1>3, <1>4, <1>5, <1>6, <1>7 DEF Next

\* The keys, their expiries and the readability of what is stored
\* (session.rs:463-689).
THEOREM TypeCorrect == Spec => []TypeOK
  BY InitType, NextTypeOK, PTL DEF Spec

-----------------------------------------------------------------------------
(* Expiry and refinement, when EXPIRE takes the configured lifetime. *)

Accepted == SessionTtl <= ExpireLimit
Expires  == TypeOK /\ EveryRecordExpires

LEMMA NextExpires == Accepted /\ Expires /\ [Next]_vars => Expires'
<1> SUFFICES ASSUME Accepted, Expires, [Next]_vars PROVE EveryRecordExpires'
  BY NextTypeOK DEF Expires
<1> USE DEF NoExpiry, Configurable, Accepted, Expires, EveryRecordExpires
<1>1. ASSUME NEW s \in Inputs, RedisPut(s) PROVE EveryRecordExpires'
  BY <1>1 DEF RedisPut
<1>2. ASSUME NEW o \in Owners, NEW s \in Inputs, RedisUpdateAfterRefresh(o, s)
      PROVE  EveryRecordExpires'
  BY <1>2 DEF RedisUpdateAfterRefresh, ScriptResult
<1>3. CASE Tick
  BY <1>3 DEF Tick, TypeOK
<1> QED
  BY <1>1, <1>2, <1>3
     DEF Next, RedisGet, Fail, vars, RedisInvalidateForRefresh,
         RedisTryAcquireRefreshLock, RedisReleaseRefreshLock

\* Every record has a bounded time to live, if Redis can count it
\* (session.rs:475-501; docs/requirements/bff-authenticated-session-requirements.md:54).
THEOREM RecordsExpire == Accepted => (Spec => []EveryRecordExpires)
<1> SUFFICES ASSUME Accepted PROVE Spec => []EveryRecordExpires
  OBVIOUS
<1>1. Init => Expires
  BY InitType DEF Init, Expires, EveryRecordExpires
<1>2. Expires /\ [Next]_vars => Expires'
  BY NextExpires
<1> QED
  BY <1>1, <1>2, PTL DEF Spec, Expires

StoredBar == IF hash = None THEN None
             ELSE [session |-> Decode(hash), age |-> SessionTtl - ttl]
LockedBar == IF owner = None THEN None ELSE [owner |-> owner, left |-> left]

LEMMA BarNone ==
    ASSUME Expires
    PROVE  /\ StoredBar = None <=> hash = None
           /\ LockedBar = None <=> owner = None
           /\ hash # None => Decode(hash) # None
<1>1. hash # None => Decode(hash) \in Sessions /\ SessionTtl - ttl \in Nat
  BY DEF Expires, EveryRecordExpires, TypeOK, Configurable
<1>2. hash # None => [session |-> Decode(hash), age |-> SessionTtl - ttl] # None
  BY <1>1
<1>3. owner # None => [owner |-> owner, left |-> left] # None
  BY DEF Expires, TypeOK
<1> QED
  BY <1>1, <1>2, <1>3 DEF StoredBar, LockedBar

\* The abstract steps, with the state of the mapping as one term.
LEMMA PutStep ==
    ASSUME NEW s \in Inputs, StoredBar' = [session |-> s, age |-> 0],
           answer' = Memory!Reply("stored"), LockedBar' = LockedBar
    PROVE  Memory!Next
<1>1. Memory!Put(s)
  BY Zenon DEF Memory!Put, StoredBar, LockedBar
<1> QED
  BY <1>1, Zenon DEF Memory!Next

LEMMA AcquireStep ==
    ASSUME NEW o \in Owners, StoredBar' = StoredBar,
           LockedBar' = IF LockedBar = None THEN [owner |-> o, left |-> Lease] ELSE LockedBar,
           answer' = Memory!Reply(IF LockedBar = None THEN "acquired" ELSE "refused")
    PROVE  Memory!Next
<1>1. Memory!TryAcquireRefreshLock(o)
  BY Zenon DEF Memory!TryAcquireRefreshLock, StoredBar, LockedBar
<1> QED
  BY <1>1, Zenon DEF Memory!Next

LEMMA UpdateStep ==
    ASSUME NEW o \in Owners, NEW s \in Inputs, LockedBar' = LockedBar,
           answer' = Memory!Reply(Memory!Mutation(o)),
           StoredBar' = IF Memory!Mutation(o) # "Applied" THEN StoredBar
                        ELSE [session |-> Memory!WithTokens(StoredBar.session, s),
                              age |-> StoredBar.age]
    PROVE  Memory!Next
<1>1. Memory!UpdateAfterRefresh(o, s)
  BY Zenon DEF Memory!UpdateAfterRefresh, StoredBar, LockedBar
<1> QED
  BY <1>1, Zenon DEF Memory!Next

LEMMA InvalidateStep ==
    ASSUME NEW o \in Owners, LockedBar' = LockedBar,
           answer' = Memory!Reply(Memory!Mutation(o)),
           StoredBar' = IF Memory!Mutation(o) = "Applied" THEN None ELSE StoredBar
    PROVE  Memory!Next
<1>1. Memory!InvalidateForRefresh(o)
  BY Zenon DEF Memory!InvalidateForRefresh, StoredBar, LockedBar
<1> QED
  BY <1>1, Zenon DEF Memory!Next

LEMMA TickStep ==
    ASSUME StoredBar' = IF StoredBar # None /\ StoredBar.age + 1 < SessionTtl
                          THEN [session |-> StoredBar.session, age |-> StoredBar.age + 1]
                          ELSE None,
           LockedBar' = IF LockedBar # None /\ LockedBar.left > 1
                          THEN [owner |-> LockedBar.owner, left |-> LockedBar.left - 1]
                          ELSE None,
           answer' = answer
    PROVE  Memory!Next
<1>1. Memory!Tick
  BY Zenon DEF Memory!Tick, StoredBar, LockedBar
<1> QED
  BY <1>1, Zenon DEF Memory!Next

LEMMA NextMemory ==
    ASSUME Accepted, Expires, Expires', [Next]_vars
    PROVE  [Memory!Next]_<<StoredBar, LockedBar, answer>>
<1> DEFINE Goal == [Memory!Next]_<<StoredBar, LockedBar, answer>>
<1> USE BarNone DEF Memory!Reply, Reply
<1>a. /\ hash # None => StoredBar = [session |-> Decode(hash), age |-> SessionTtl - ttl]
      /\ owner # None => LockedBar = [owner |-> owner, left |-> left]
      /\ hash' # None => StoredBar' = [session |-> Decode(hash'), age |-> SessionTtl - ttl']
      /\ owner' # None => LockedBar' = [owner |-> owner', left |-> left']
      /\ hash = None => StoredBar = None
      /\ owner = None => LockedBar = None
      /\ hash' = None => StoredBar' = None
      /\ owner' = None => LockedBar' = None
  BY DEF StoredBar, LockedBar
<1>b. ASSUME NEW o \in Owners
      PROVE  /\ (LockedBar # None /\ LockedBar.owner = o) <=> owner = o
             /\ owner = o => owner # None
  BY <1>a DEF LockedBar
<1>1. ASSUME NEW s \in Inputs, RedisPut(s) PROVE Goal
  <2>1. /\ hash' # None /\ Decode(hash') = s /\ ttl' = SessionTtl
        /\ answer' = Reply("stored") /\ UNCHANGED <<owner, left>>
    BY <1>1, EncodedReadable DEF RedisPut, Accepted, Configurable
  <2>2. SessionTtl - SessionTtl = 0
    BY DEF Configurable
  <2>3. StoredBar' = [session |-> s, age |-> 0] /\ LockedBar' = LockedBar
    BY <2>1, <2>2, <1>a DEF LockedBar
  <2> QED
    BY <2>1, <2>3, PutStep
<1>2. CASE RedisGet
  <2>1. UNCHANGED <<StoredBar, LockedBar>>
    BY <1>2 DEF RedisGet, StoredBar, LockedBar
  <2>2. CASE hash = None
    BY <1>2, <2>1, <2>2, <1>a DEF RedisGet, Decode, Memory!Next, Memory!Get
  <2>3. CASE hash # None
    BY <1>2, <2>1, <2>3, <1>a DEF RedisGet, Memory!Next, Memory!Get
  <2> QED
    BY <2>2, <2>3
<1>3. ASSUME NEW o \in Owners, RedisTryAcquireRefreshLock(o) PROVE Goal
  <2>1. StoredBar' = StoredBar
    BY <1>3 DEF RedisTryAcquireRefreshLock, StoredBar
  <2>2. LockedBar' = IF LockedBar = None THEN [owner |-> o, left |-> Lease] ELSE LockedBar
    BY <1>3 DEF RedisTryAcquireRefreshLock, LockedBar
  <2>3. answer' = Reply(IF LockedBar = None THEN "acquired" ELSE "refused")
    BY <1>3 DEF RedisTryAcquireRefreshLock
  <2> QED
    BY <2>1, <2>2, <2>3, AcquireStep
<1>4. ASSUME NEW o \in Owners, RedisReleaseRefreshLock(o) PROVE Goal
  <2>1. StoredBar' = StoredBar
    BY <1>4 DEF RedisReleaseRefreshLock, StoredBar
  <2>2. CASE owner = o
    BY <1>4, <2>1, <2>2, <1>a, <1>b
       DEF RedisReleaseRefreshLock, Memory!Next, Memory!ReleaseRefreshLock, Memory!Owned
  <2>3. CASE owner # o
    <3>1. LockedBar' = LockedBar
      BY <1>4, <2>3 DEF RedisReleaseRefreshLock, LockedBar
    <3> QED
      BY <1>4, <2>1, <2>3, <3>1, <1>b
         DEF RedisReleaseRefreshLock, Memory!Next, Memory!ReleaseRefreshLock, Memory!Owned
  <2> QED
    BY <2>2, <2>3
<1>5. ASSUME NEW o \in Owners PROVE Memory!Mutation(o) = ScriptResult(o)
  BY <1>b DEF Memory!Mutation, Memory!Owned, ScriptResult, StoredBar, LockedBar
<1>6. ASSUME NEW o \in Owners, NEW s \in Inputs, RedisUpdateAfterRefresh(o, s) PROVE Goal
  <2>1. LockedBar' = LockedBar /\ answer' = Reply(ScriptResult(o)) /\ ttl' = ttl
    BY <1>6 DEF RedisUpdateAfterRefresh, LockedBar
  <2>2. CASE ScriptResult(o) = "Applied"
    <3>1. hash # None /\ hash \in Hashes /\ Decode(hash) \in CanonicalSessions
      BY <2>2 DEF ScriptResult, Expires, TypeOK, CanonicalSessions
    <3>2. Decode(hash') = Memory!WithTokens(Decode(hash), s)
      BY <1>6, <2>2, <3>1, EncodedReadable, DecodeOverwrite DEF RedisUpdateAfterRefresh
    <3>3. hash' # None
      BY <1>6, <2>2, <3>1, EncodedReadable, DecodeOverwrite DEF RedisUpdateAfterRefresh
    <3>4. StoredBar.session = Decode(hash) /\ StoredBar.age = SessionTtl - ttl
      BY <3>1, <1>a
    <3>5. StoredBar' = [session |-> Memory!WithTokens(StoredBar.session, s),
                        age |-> StoredBar.age]
      BY <2>1, <3>2, <3>3, <3>4, <1>a
    <3> QED
      BY <2>1, <2>2, <3>5, <1>5, UpdateStep
  <2>3. CASE ScriptResult(o) # "Applied"
    <3>1. StoredBar' = StoredBar
      BY <1>6, <2>3 DEF RedisUpdateAfterRefresh, StoredBar
    <3> QED
      BY <2>1, <2>3, <3>1, <1>5, UpdateStep
  <2> QED
    BY <2>2, <2>3
<1>7. ASSUME NEW o \in Owners, RedisInvalidateForRefresh(o) PROVE Goal
  <2>1. LockedBar' = LockedBar /\ answer' = Reply(ScriptResult(o))
    BY <1>7 DEF RedisInvalidateForRefresh, LockedBar
  <2>2. StoredBar' = IF ScriptResult(o) = "Applied" THEN None ELSE StoredBar
    BY <1>7 DEF RedisInvalidateForRefresh, StoredBar
  <2> QED
    BY <2>1, <2>2, <1>5, InvalidateStep
<1>8. CASE Fail
  BY <1>8 DEF Fail, StoredBar, LockedBar, Memory!Next, Memory!Fail
<1>9. CASE Tick
  <2>1. StoredBar' = IF StoredBar # None /\ StoredBar.age + 1 < SessionTtl
                       THEN [session |-> StoredBar.session, age |-> StoredBar.age + 1] ELSE None
    <3>1. CASE hash = None
      BY <1>9, <3>1, <1>a DEF Tick, Expires, TypeOK, NoExpiry
    <3>2. CASE hash # None
      <4>1. ttl \in 1..SessionTtl /\ ttl # NoExpiry /\ SessionTtl \in Nat
        BY <3>2 DEF Expires, EveryRecordExpires, NoExpiry, Configurable
      <4>2. CASE ttl > 1
        <5>1. hash' = hash /\ ttl' = ttl - 1
          BY <1>9, <4>1, <4>2 DEF Tick
        <5>2. SessionTtl - ttl + 1 < SessionTtl /\ SessionTtl - (ttl - 1) = SessionTtl - ttl + 1
          BY <4>1, <4>2
        <5> QED
          BY <3>2, <5>1, <5>2, <1>a
      <4>3. CASE ~(ttl > 1)
        <5>1. hash' = None
          BY <1>9, <4>1, <4>3 DEF Tick
        <5>2. ~(SessionTtl - ttl + 1 < SessionTtl)
          BY <4>1, <4>3
        <5> QED
          BY <3>2, <5>1, <5>2, <1>a
      <4> QED
        BY <4>2, <4>3
    <3> QED
      BY <3>1, <3>2
  <2>2. LockedBar' = IF LockedBar # None /\ LockedBar.left > 1
                       THEN [owner |-> LockedBar.owner, left |-> LockedBar.left - 1] ELSE None
    BY <1>9, <1>a DEF Tick, Expires, TypeOK
  <2> QED
    BY <1>9, <2>1, <2>2, TickStep DEF Tick
<1>10. CASE UNCHANGED vars
  BY <1>10 DEF vars, StoredBar, LockedBar
<1> QED
  BY <1>1, <1>2, <1>3, <1>4, <1>6, <1>7, <1>8, <1>9, <1>10 DEF Next

\* The Redis store implements the in-memory store that the tests use
\* (session.rs:257-433 and 446-689).
THEOREM Implements == Accepted => (Spec => BehavesAsTestStore)
<1> SUFFICES ASSUME Accepted PROVE Spec => BehavesAsTestStore
  OBVIOUS
<1>1. Init => Expires /\ Memory!Init
  BY InitType DEF Init, Expires, EveryRecordExpires, Memory!Init, Memory!Reply, Reply
<1>2. Expires /\ [Next]_vars => Expires'
  BY NextExpires
<1>3. Expires /\ Expires' /\ [Next]_vars => [Memory!Next]_Memory!memVars
  BY NextMemory DEF Memory!memVars, StoredBar, LockedBar
<1> QED
  BY <1>1, <1>2, <1>3, PTL DEF Spec, BehavesAsTestStore, Memory!Spec

-----------------------------------------------------------------------------
(* The commands.  SessionStore, on which TokenRefresh rests, has numbers   *)
(* for tokens.  Which ones does not matter here, as long as the absent     *)
(* token, an empty string, has the number 0.                               *)

Numberings == {number \in [Texts -> Nat] : number[Empty] = 0}

Stored(number) ==
    IF hash = None THEN [ttl |-> 0, at |-> 0, rt |-> 0]
    ELSE [ttl |-> ttl, at |-> number[hash.access_token], rt |-> number[hash.refresh_token]]

Store(number) == INSTANCE SessionStore WITH
    Requests <- Owners, NoOwner <- None,
    session <- Stored(number), lock <- [owner |-> owner, left |-> left]

\* What SessionStore calls the answers.
KindOf(a) ==
    CASE a.kind \in {"acquired", "released"} -> "yes"
      [] a.kind \in {"refused", "notOwned"}  -> "no"
      [] a.kind = "OwnershipLost"  -> "ownershipLost"
      [] a.kind = "SessionMissing" -> "missing"
      [] a.kind = "Applied"        -> "applied"
      [] OTHER -> a.kind

RefreshToken(s) == UnwrapOr(s.refresh_token, Empty)

Says(number, a) ==
    IF a.kind = "session"
    THEN [kind |-> "session", at |-> number[a.session.access_token],
          rt |-> number[RefreshToken(a.session)]]
    ELSE [kind |-> KindOf(a), at |-> 0, rt |-> 0]

\* A command that brings no tokens.
Plain(op, o) == [op |-> op, req |-> o, at |-> 0, rt |-> 0]

\* A call is one command of SessionStore, in what it does and what it answers.
IsCommand(number) ==
    \E c \in Store(number)!Commands :
        /\ Store(number)!Execute(c)
        /\ Says(number, answer') = Store(number)!Answer(c)

LEMMA PlainIsCommand ==
    ASSUME NEW number \in Numberings, NEW o \in Owners,
           NEW op \in {"get", "acquire", "invalidate", "release"}
    PROVE  Plain(op, o) \in Store(number)!Commands
  BY DEF Plain, Store!Commands, Store!Operations, Store!Tokens

LEMMA AcquireIsCommand ==
    ASSUME NEW number \in Numberings, NEW o \in Owners, Expires, RedisTryAcquireRefreshLock(o)
    PROVE  IsCommand(number)
<1> DEFINE c == Plain("acquire", o)
<1>1. Store(number)!RedisTryAcquireRefreshLock(c)
  BY DEF Plain, Store!RedisTryAcquireRefreshLock, RedisTryAcquireRefreshLock,
         Store!CanAcquire, Store!LockExists, Stored
<1>2. Says(number, answer') = Store(number)!Answer(c)
  BY DEF Plain, Store!Answer, Store!Reply, Store!NoToken, Store!CanAcquire, Store!LockExists,
         RedisTryAcquireRefreshLock, Says, KindOf, Reply
<1> QED
  BY <1>1, <1>2, PlainIsCommand DEF IsCommand, Store!Execute

LEMMA ReleaseIsCommand ==
    ASSUME NEW number \in Numberings, NEW o \in Owners, Expires, RedisReleaseRefreshLock(o)
    PROVE  IsCommand(number)
<1> DEFINE c == Plain("release", o)
<1>1. Store(number)!RefreshLockReleaseScript(c)
  BY DEF Plain, Store!RefreshLockReleaseScript, RedisReleaseRefreshLock,
         Store!LockAfterRelease, Store!IsLockOwner, Store!Unlocked, Stored
<1>2. Says(number, answer') = Store(number)!Answer(c)
  BY DEF Plain, Store!Answer, Store!Reply, Store!NoToken, Store!IsLockOwner,
         RedisReleaseRefreshLock, Says, KindOf, Reply
<1> QED
  BY <1>1, <1>2, PlainIsCommand DEF IsCommand, Store!Execute

\* A key exists exactly as long as it has time to live, on both sides.
LEMMA SameExistence ==
    ASSUME NEW number, Expires
    PROVE  Store(number)!SessionExists <=> hash # None
  BY DEF Store!SessionExists, Stored, Expires, EveryRecordExpires, Configurable

LEMMA SameVerdict ==
    ASSUME NEW number, NEW o \in Owners, Expires, answer' = Reply(ScriptResult(o))
    PROVE  /\ Says(number, answer') = Store(number)!Reply(Store(number)!OwnedMutation(o))
           /\ ScriptResult(o) = "Applied" <=> Store(number)!OwnedMutation(o) = "applied"
  BY SameExistence DEF Store!OwnedMutation, Store!IsLockOwner, Store!Reply, Store!NoToken,
     Says, KindOf, Reply, ScriptResult

LEMMA InvalidateIsCommand ==
    ASSUME NEW number \in Numberings, NEW o \in Owners, Expires, RedisInvalidateForRefresh(o)
    PROVE  IsCommand(number)
<1> DEFINE c == Plain("invalidate", o)
<1>1. answer' = Reply(ScriptResult(o))
  BY DEF RedisInvalidateForRefresh
<1>2. Store(number)!RefreshInvalidateScript(c)
  BY <1>1, SameVerdict DEF Plain, Store!RefreshInvalidateScript, RedisInvalidateForRefresh,
     Store!NoSession, Store!NoToken, Stored
<1>3. Says(number, answer') = Store(number)!Answer(c)
  BY <1>1, SameVerdict DEF Plain, Store!Answer
<1> QED
  BY <1>2, <1>3, PlainIsCommand DEF IsCommand, Store!Execute

LEMMA UpdateIsCommand ==
    ASSUME NEW number \in Numberings, NEW o \in Owners, NEW s \in Inputs, Expires,
           RedisUpdateAfterRefresh(o, s)
    PROVE  IsCommand(number)
<1> DEFINE c == [op |-> "update", req |-> o, at |-> number[s.access_token],
                 rt |-> number[RefreshToken(s)]]
<1>1. answer' = Reply(ScriptResult(o))
  BY DEF RedisUpdateAfterRefresh
<1>2. s.access_token \in Texts /\ RefreshToken(s) \in Texts
  BY InputsAssumption DEF Sessions, RefreshToken, UnwrapOr, Optional
<1>3. c \in Store(number)!Commands
  BY <1>2 DEF Numberings, Store!Commands, Store!Operations, Store!Tokens
<1>4. Store(number)!RefreshUpdateScript(c)
  <2>1. CASE ScriptResult(o) = "Applied"
    <3>1. hash \in Hashes /\ hash # None /\ hash' = Overwrite(hash, s)
      BY <2>1 DEF ScriptResult, RedisUpdateAfterRefresh, Expires, TypeOK
    <3>2. /\ hash'.access_token = s.access_token /\ hash'.refresh_token = RefreshToken(s)
          /\ hash' # None
      <4>1. Decode(hash) \in CanonicalSessions /\ s \in CanonicalSessions
        BY <3>1, InputsAssumption DEF Expires, TypeOK, CanonicalSessions
      <4>2. hash' # None
        BY <3>1, <4>1, DecodeOverwrite
      <4> QED
        BY <3>1, <4>2 DEF Overwrite, RefreshToken, Hashes
    <3>3. UNCHANGED <<ttl, owner, left>>
      BY DEF RedisUpdateAfterRefresh
    <3> QED
      BY <1>1, <2>1, <3>1, <3>2, <3>3, SameVerdict
         DEF Store!RefreshUpdateScript, Store!UpdatedSession, Stored
  <2>2. CASE ScriptResult(o) # "Applied"
    BY <1>1, <2>2, SameVerdict
       DEF Store!RefreshUpdateScript, RedisUpdateAfterRefresh, Stored
  <2> QED
    BY <2>1, <2>2
<1>5. Says(number, answer') = Store(number)!Answer(c)
  BY <1>1, SameVerdict DEF Store!Answer
<1> QED
  BY <1>3, <1>4, <1>5 DEF IsCommand, Store!Execute

LEMMA GetIsCommand ==
    ASSUME NEW number \in Numberings, NEW o \in Owners, Expires, RedisGet
    PROVE  IsCommand(number)
<1> DEFINE c == Plain("get", o)
<1>1. Store(number)!RedisGet(c)
  BY DEF Plain, Store!RedisGet, Store!storeVars, RedisGet, Stored
<1>2. Says(number, answer') = Store(number)!RedisGetAnswer
  <2>1. CASE hash = None
    BY <2>1, SameExistence DEF RedisGet, Decode, Says, KindOf, Reply, Store!RedisGetAnswer,
       Store!Reply, Store!NoToken
  <2>2. CASE hash # None
    <3>1. hash \in Hashes /\ Decode(hash) \in CanonicalSessions /\ Decode(hash) # None
      BY <2>2 DEF Expires, TypeOK, CanonicalSessions
    <3>2. /\ Decode(hash).access_token = hash.access_token
          /\ Decode(hash).refresh_token = Filtered(hash.refresh_token, Empty)
      BY <3>1 DEF Decode
    <3>3. RefreshToken(Decode(hash)) = hash.refresh_token
      BY <3>1, <3>2 DEF RefreshToken, UnwrapOr, Filtered, Hashes
    <3> QED
      BY <2>2, <3>1, <3>2, <3>3, SameExistence
         DEF RedisGet, Says, Store!RedisGetAnswer, Stored
  <2> QED
    BY <2>1, <2>2
<1>3. Store(number)!Answer(c) = Store(number)!RedisGetAnswer
  BY DEF Plain, Store!Answer
<1> QED
  BY <1>1, <1>2, <1>3, PlainIsCommand DEF IsCommand, Store!Execute

LEMMA TickIsTick ==
    ASSUME NEW number \in Numberings, Expires, Expires', Tick
    PROVE  Store(number)!StoreTick
<1>1. hash # None => ttl \in 1..SessionTtl /\ ttl # NoExpiry
  BY DEF Expires, EveryRecordExpires, NoExpiry, Configurable
<1>2. Stored(number)' = Store(number)!AgedSession
  BY <1>1 DEF Tick, Stored, Store!AgedSession, Store!NoSession, Store!NoToken,
     Expires, TypeOK, NoExpiry, Configurable
<1>3. [owner |-> owner, left |-> left]' = Store(number)!AgedLock
  BY DEF Tick, Store!AgedLock, Store!Unlocked, Expires, TypeOK
<1> QED
  BY <1>2, <1>3 DEF Store!StoreTick

\* Besides logins, failures and time there are only SessionStore's commands.
IsStoreStep(number) ==
    \/ \E s \in Inputs : RedisPut(s)
    \/ Fail
    \/ Store(number)!StoreTick /\ UNCHANGED answer
    \/ IsCommand(number)

(* What TokenRefresh assumes of Redis is what session.rs does field by      *)
(* field: every call and every expiry is a command or a tick of             *)
(* SessionStore, answers included, if EXPIRE takes the lifetime             *)
(* (session.rs lines 22-58 and 446-689).                                    *)
THEOREM ImplementsSessionStore ==
    ASSUME NEW number \in Numberings, Accepted, Owners # {}
    PROVE  Spec => [][IsStoreStep(number)]_vars
<1>1. Expires /\ Expires' /\ [Next]_vars => [IsStoreStep(number)]_vars
  <2> SUFFICES ASSUME Expires, Expires', Next PROVE IsStoreStep(number)
    OBVIOUS
  <2>1. CASE RedisGet
    <3>1. PICK o \in Owners : TRUE
      OBVIOUS
    <3> QED
      BY <2>1, <3>1, GetIsCommand DEF IsStoreStep
  <2>2. CASE Tick
    BY <2>2, TickIsTick DEF IsStoreStep, Tick
  <2>3. ASSUME NEW o \in Owners, RedisTryAcquireRefreshLock(o) \/ RedisReleaseRefreshLock(o)
                                 \/ RedisInvalidateForRefresh(o)
        PROVE  IsStoreStep(number)
    BY <2>3, AcquireIsCommand, ReleaseIsCommand, InvalidateIsCommand DEF IsStoreStep
  <2>4. ASSUME NEW o \in Owners, NEW s \in Inputs, RedisUpdateAfterRefresh(o, s)
        PROVE  IsStoreStep(number)
    BY <2>4, UpdateIsCommand DEF IsStoreStep
  <2> QED
    BY <2>1, <2>2, <2>3, <2>4 DEF Next, IsStoreStep
<1>2. Init => Expires
  BY InitType DEF Init, Expires, EveryRecordExpires
<1>3. Expires /\ [Next]_vars => Expires'
  BY NextExpires
<1> QED
  BY <1>1, <1>2, <1>3, PTL DEF Spec
=============================================================================
