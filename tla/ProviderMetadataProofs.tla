----------------------- MODULE ProviderMetadataProofs ----------------------
(***************************************************************************)
(* Theorems about the cached provider metadata: its types and its queue,   *)
(* the single fill of the cache, the single refresh of a callback, and     *)
(* that the verdicts on ID tokens are those of a verifier without a cache. *)
(***************************************************************************)
EXTENDS ProviderMetadata, TLAPS

USE TasksAssumption, VersionsAssumption, FaultsAssumption

-----------------------------------------------------------------------------
(* The inductive invariant. *)

\* What a callback has done is told by its stage.
Phase(c) ==
    /\ stage[c] \in {"idle", "metadata", "exchange"} =>
         token[c].key = 0 /\ refreshes[c] = 0
    /\ stage[c] = "verify" => refreshes[c] = 0
    /\ stage[c] \in {"verify", "refresh", "store", "userinfo"} => token[c].key # 0
    /\ stage[c] \in {"refresh", "store"} => token[c].fault # "claims"
    /\ stage[c] \in {"exchange", "verify", "refresh", "store", "userinfo"} =>
         metadata[c] # 0 /\ cache # 0

\* Only a discovery under way has an answer.
InFlight == \A t \in Tasks : answer[t] # 0 => Discovering(t)

\* Nothing is newer than the provider's present keys.
NotAhead ==
    /\ cache <= version
    /\ \A t \in Tasks : answer[t] <= version
    /\ \A c \in Callbacks : metadata[c] <= version /\ token[c].key <= version

\* A refresh brings keys at least as new as the token's and, unless another
\* refresh stored meanwhile, at least as new as the cache's.
Newer(c) ==
    /\ stage[c] = "refresh" /\ answer[c] # 0 =>
         token[c].key <= answer[c] /\ (c \notin overlapped => cache <= answer[c])
    /\ stage[c] = "store" =>
         token[c].key <= metadata[c] /\ (c \notin overlapped => cache <= metadata[c])

Filled == FilledOnce /\ (fills = 0 <=> cache = 0)

IInv == /\ TypeOK /\ InFlight /\ NotAhead /\ Filled /\ SingleRefresh
        /\ \A c \in Callbacks : Phase(c) /\ Newer(c)

-----------------------------------------------------------------------------
(* The queue of the mutex. *)

InQueue == Reading \cup {"store"}

LEMMA OneHolder ==
    ASSUME TypeOK, NEW t \in Tasks, NEW u \in Tasks, Holds(t), Holds(u)
    PROVE  t = u
BY DEF TypeOK, QueueOK, Holds

LEMMA JoinKeepsQueue ==
    ASSUME TypeOK, NEW t \in Tasks, NEW s \in InQueue, t \notin Queued,
           stage' = [stage EXCEPT ![t] = s], ahead' = Joined(t)
    PROVE  QueueOK'
<1>1. stage \in [Tasks -> Stages] /\ ahead \in [Tasks -> SUBSET Queued]
  BY DEF TypeOK, QueueOK
<1>2. Queued' = Queued \cup {t}
  BY <1>1 DEF Queued, InQueue
<1>3. \A u \in Tasks : ahead'[u] = IF u = t THEN Queued ELSE ahead[u]
  BY <1>1 DEF Joined
<1>4. ahead' \in [Tasks -> SUBSET Queued']
  BY <1>1, <1>2 DEF Joined
<1>5. /\ \A u \in Tasks : u \notin ahead[u] /\ (u \notin Queued => ahead[u] = {})
      /\ \A u, w \in Queued : u # w => (u \in ahead[w] <=> w \notin ahead[u])
      /\ \A u \in Tasks : ahead[u] \subseteq Queued
      /\ Queued \subseteq Tasks
  BY <1>1 DEF TypeOK, QueueOK, Queued
<1>6. ASSUME NEW u \in Tasks
      PROVE  u \notin ahead'[u] /\ (u \notin Queued' => ahead'[u] = {})
  <2>1. CASE u = t
    BY <2>1, <1>2, <1>3, <1>5
  <2>2. CASE u # t
    <3>1. ahead'[u] = ahead[u]
      BY <2>2, <1>3
    <3>2. u \notin ahead[u]
      BY <1>5
    <3>3. u \notin Queued' => ahead[u] = {}
      BY <2>2, <1>2, <1>5
    <3> QED
      BY <3>1, <3>2, <3>3
  <2> QED
    BY <2>1, <2>2
<1>7. ASSUME NEW u \in Queued', NEW w \in Queued', u # w
      PROVE  u \in ahead'[w] <=> w \notin ahead'[u]
  <2>1. u \in Tasks /\ w \in Tasks /\ (u # t => u \in Queued) /\ (w # t => w \in Queued)
    BY <1>2, <1>5
  <2>2. CASE u = t
    BY <2>1, <2>2, <1>2, <1>3, <1>5, <1>7
  <2>3. CASE w = t
    BY <2>1, <2>3, <1>2, <1>3, <1>5, <1>7
  <2>4. CASE u # t /\ w # t
    <3>1. u \in ahead[w] <=> w \notin ahead[u]
      BY <2>1, <2>4, <1>5, <1>7
    <3>2. ahead'[u] \ {t} = ahead[u] \ {t} /\ ahead'[w] \ {t} = ahead[w] \ {t}
      BY <2>1, <2>4, <1>3
    <3> QED
      BY <3>1, <3>2, <2>4
  <2> QED
    BY <2>2, <2>3, <2>4
<1> QED
  BY <1>4, <1>6, <1>7 DEF QueueOK

LEMMA LeaveKeepsQueue ==
    ASSUME TypeOK, NEW t \in Tasks, NEW s \in Stages \ InQueue,
           stage' = [stage EXCEPT ![t] = s], ahead' = Left(t)
    PROVE  QueueOK'
<1>1. stage \in [Tasks -> Stages] /\ ahead \in [Tasks -> SUBSET Queued]
  BY DEF TypeOK, QueueOK
<1>2. Queued' = Queued \ {t}
  BY <1>1 DEF Queued, InQueue
<1>3. \A u \in Tasks : ahead'[u] = IF u = t THEN {} ELSE ahead[u] \ {t}
  BY <1>1 DEF Left
<1>4. ahead' \in [Tasks -> SUBSET Queued']
  BY <1>1, <1>2 DEF Left
<1>5. /\ \A u \in Tasks : u \notin ahead[u] /\ (u \notin Queued => ahead[u] = {})
      /\ \A u, w \in Queued : u # w => (u \in ahead[w] <=> w \notin ahead[u])
      /\ \A u \in Tasks : ahead[u] \subseteq Queued
      /\ Queued \subseteq Tasks
  BY <1>1 DEF TypeOK, QueueOK, Queued
<1>6. ASSUME NEW u \in Tasks
      PROVE  u \notin ahead'[u] /\ (u \notin Queued' => ahead'[u] = {})
  <2>1. CASE u = t
    BY <2>1, <1>2, <1>3, <1>5
  <2>2. CASE u # t
    <3>1. ahead'[u] = ahead[u] \ {t}
      BY <2>2, <1>3
    <3>2. u \notin ahead[u]
      BY <1>5
    <3>3. u \notin Queued' => ahead[u] = {}
      BY <2>2, <1>2, <1>5
    <3> QED
      BY <3>1, <3>2, <3>3
  <2> QED
    BY <2>1, <2>2
<1>7. ASSUME NEW u \in Queued', NEW w \in Queued', u # w
      PROVE  u \in ahead'[w] <=> w \notin ahead'[u]
  <2>1. u \in Tasks /\ w \in Tasks /\ (u # t => u \in Queued) /\ (w # t => w \in Queued)
    BY <1>2, <1>5
  <2>2. CASE u = t
    BY <2>1, <2>2, <1>2, <1>3, <1>5, <1>7
  <2>3. CASE w = t
    BY <2>1, <2>3, <1>2, <1>3, <1>5, <1>7
  <2>4. CASE u # t /\ w # t
    <3>1. u \in ahead[w] <=> w \notin ahead[u]
      BY <2>1, <2>4, <1>5, <1>7
    <3>2. ahead'[u] \ {t} = ahead[u] \ {t} /\ ahead'[w] \ {t} = ahead[w] \ {t}
      BY <2>1, <2>4, <1>3
    <3> QED
      BY <3>1, <3>2, <2>4
  <2> QED
    BY <2>2, <2>3, <2>4
<1> QED
  BY <1>4, <1>6, <1>7 DEF QueueOK

LEMMA RejoinKeepsQueue ==
    ASSUME TypeOK, NEW t \in Tasks, NEW s \in InQueue, t \in Queued,
           stage' = [stage EXCEPT ![t] = s], ahead' = Rejoined(t)
    PROVE  QueueOK'
<1>1. stage \in [Tasks -> Stages] /\ ahead \in [Tasks -> SUBSET Queued]
  BY DEF TypeOK, QueueOK
<1>2. Queued' = Queued
  BY <1>1 DEF Queued, InQueue
<1>3. \A u \in Tasks : ahead'[u] = IF u = t THEN Queued \ {t} ELSE ahead[u] \ {t}
  BY <1>1 DEF Rejoined
<1>4. ahead' \in [Tasks -> SUBSET Queued']
  BY <1>1, <1>2 DEF Rejoined
<1>5. /\ \A u \in Tasks : u \notin ahead[u] /\ (u \notin Queued => ahead[u] = {})
      /\ \A u, w \in Queued : u # w => (u \in ahead[w] <=> w \notin ahead[u])
      /\ \A u \in Tasks : ahead[u] \subseteq Queued
      /\ Queued \subseteq Tasks
  BY <1>1 DEF TypeOK, QueueOK, Queued
<1>6. ASSUME NEW u \in Tasks
      PROVE  u \notin ahead'[u] /\ (u \notin Queued' => ahead'[u] = {})
  <2>1. CASE u = t
    BY <2>1, <1>2, <1>3, <1>5
  <2>2. CASE u # t
    <3>1. ahead'[u] = ahead[u] \ {t}
      BY <2>2, <1>3
    <3>2. u \notin ahead[u]
      BY <1>5
    <3>3. u \notin Queued' => ahead[u] = {}
      BY <2>2, <1>2, <1>5
    <3> QED
      BY <3>1, <3>2, <3>3
  <2> QED
    BY <2>1, <2>2
<1>7. ASSUME NEW u \in Queued', NEW w \in Queued', u # w
      PROVE  u \in ahead'[w] <=> w \notin ahead'[u]
  <2>1. u \in Tasks /\ w \in Tasks /\ (u # t => u \in Queued) /\ (w # t => w \in Queued)
    BY <1>2, <1>5
  <2>a. u \in Queued /\ w \in Queued /\ ahead'[t] = Queued \ {t}
    BY <1>2, <1>3
  <2>2. CASE u = t
    <3>1. ahead'[w] = ahead[w] \ {t} /\ w # t
      BY <2>1, <2>2, <1>3, <1>7
    <3> QED
      BY <3>1, <2>2, <2>a
  <2>3. CASE w = t
    <3>1. ahead'[u] = ahead[u] \ {t} /\ u # t
      BY <2>1, <2>3, <1>3, <1>7
    <3> QED
      BY <3>1, <2>3, <2>a
  <2>4. CASE u # t /\ w # t
    <3>1. u \in ahead[w] <=> w \notin ahead[u]
      BY <2>1, <2>4, <1>5, <1>7
    <3>2. ahead'[u] \ {t} = ahead[u] \ {t} /\ ahead'[w] \ {t} = ahead[w] \ {t}
      BY <2>1, <2>4, <1>3
    <3> QED
      BY <3>1, <3>2, <2>4
  <2> QED
    BY <2>2, <2>3, <2>4
<1> QED
  BY <1>4, <1>6, <1>7 DEF QueueOK

LEMMA OutsideKeepsQueue ==
    ASSUME TypeOK, NEW t \in Tasks, NEW s \in Stages \ InQueue, t \notin Queued,
           stage' = [stage EXCEPT ![t] = s], UNCHANGED ahead
    PROVE  QueueOK'
<1>1. Queued' = Queued
  BY DEF TypeOK, Queued, InQueue
<1> QED
  BY <1>1 DEF TypeOK, QueueOK

-----------------------------------------------------------------------------
(* What a verification says of a token. *)

LEMMA VerificationMeaning ==
    ASSUME NEW v \in 0..MaxVersion, NEW tk \in [key : 0..MaxVersion, fault : Faults]
    PROVE  /\ Verification(v, tk) = "Ok" => tk.fault = "none"
           /\ Verification(v, tk) = "Other" => tk.fault # "none"
           /\ Verification(v, tk) = "NoMatchingKey" => tk.fault # "claims"
           /\ Verification(v, tk) # "Ok" /\ tk.fault = "none"
                => tk.key \notin Published(v)
<1>1. tk.fault \in {"none", "claims", "foreign", "nonce"}
  OBVIOUS
<1> QED
  BY <1>1 DEF Verification

-----------------------------------------------------------------------------
(* Every step keeps the invariant: first that the types are kept, then the *)
(* rest, one step of the proof for each action.                            *)

LEMMA InitIInv == Init => IInv
<1> SUFFICES ASSUME Init PROVE IInv
  OBVIOUS
<1>1. TypeOK
  BY DEF Init, TypeOK, QueueOK, Queued, Reading, Stages, Tasks, Versions, NoToken
<1>2. InFlight /\ NotAhead /\ Filled /\ SingleRefresh
  BY DEF Init, InFlight, NotAhead, Filled, FilledOnce, SingleRefresh, NoToken, Tasks
<1>3. \A c \in Callbacks : Phase(c) /\ Newer(c)
  BY DEF Init, Phase, Newer, NoToken, Tasks
<1> QED
  BY <1>1, <1>2, <1>3 DEF IInv

LEMMA NextType == IInv /\ [Next]_vars => TypeOK'
<1> SUFFICES ASSUME IInv, [Next]_vars PROVE TypeOK'
  OBVIOUS
<1> USE DEF IInv
<1>a. TypeOK
  OBVIOUS
<1>b. \A t \in Tasks : stage[t] \in Stages
  BY DEF TypeOK
<1>1. ASSUME NEW t \in Tasks, Begin(t) PROVE TypeOK'
  <2>1. QueueOK'
    BY <1>1, JoinKeepsQueue DEF Begin, Queued, InQueue, Reading
  <2> QED
    BY <1>1, <2>1 DEF Begin, TypeOK, Stages, Reading
<1>2. ASSUME NEW t \in Tasks, ReadCached(t) PROVE TypeOK'
  <2>1. \E s \in {"exchange", "done"} : stage' = [stage EXCEPT ![t] = s]
    BY <1>2 DEF ReadCached, Obtain
  <2>2. QueueOK'
    BY <1>2, <2>1, LeaveKeepsQueue DEF ReadCached, Obtain, Stages, InQueue, Reading, Ended
  <2>3. metadata' \in [Callbacks -> 0..MaxVersion]
    BY <1>2 DEF ReadCached, Obtain, TypeOK
  <2> QED
    BY <1>2, <2>1, <2>2, <2>3 DEF ReadCached, TypeOK, Stages, Ended
<1>3. ASSUME NEW t \in Tasks, ProviderAnswers(t) PROVE TypeOK'
  BY <1>3 DEF ProviderAnswers, TypeOK, QueueOK, Queued, Versions
<1>4. ASSUME NEW t \in Tasks, Fill(t) PROVE TypeOK'
  <2>1. \E s \in {"exchange", "done"} : stage' = [stage EXCEPT ![t] = s]
    BY <1>4 DEF Fill, Obtain
  <2>2. QueueOK'
    BY <1>4, <2>1, LeaveKeepsQueue DEF Fill, Obtain, Stages, InQueue, Reading, Ended
  <2>3. metadata' \in [Callbacks -> 0..MaxVersion]
    BY <1>4 DEF Fill, Obtain, TypeOK
  <2> QED
    BY <1>4, <2>1, <2>2, <2>3 DEF Fill, TypeOK, Stages, Ended
<1>5. ASSUME NEW t \in Callbacks, RefreshArrives(t) PROVE TypeOK'
  <2>1. QueueOK'
    BY <1>5, JoinKeepsQueue DEF RefreshArrives, Queued, InQueue, Reading, Tasks
  <2> QED
    BY <1>5, <2>1 DEF RefreshArrives, TypeOK, Stages, Tasks
<1>6. ASSUME NEW t \in Tasks, NEW end \in {"failed", "dropped"}, End(t, end)
      PROVE  TypeOK'
  <2>1. QueueOK'
    BY <1>6, LeaveKeepsQueue DEF End, InQueue, Stages, Reading, Ended
  <2> QED
    BY <1>6, <2>1 DEF End, TypeOK, Stages, Ended
<1>7. ASSUME NEW t \in Callbacks, NEW fault \in Faults, Exchange(t, fault)
      PROVE  TypeOK'
  <2>1. QueueOK'
    BY <1>7, OutsideKeepsQueue DEF Exchange, Queued, InQueue, Reading, Stages, Tasks
  <2>2. token' \in [Callbacks -> [key : 0..MaxVersion, fault : Faults]]
    BY <1>7 DEF Exchange, TypeOK, Versions
  <2> QED
    BY <1>7, <2>1, <2>2 DEF Exchange, TypeOK, Stages
<1>8. ASSUME NEW t \in Callbacks, Verify(t) PROVE TypeOK'
  <2>1. t \in Tasks /\ t \notin Queued
    BY <1>8 DEF Verify, Queued, Reading, Tasks
  <2>2. QueueOK'
    BY <1>8, <2>1, JoinKeepsQueue, OutsideKeepsQueue
       DEF Verify, InQueue, Reading, Stages, Ended
  <2>3. stage' \in [Tasks -> Stages]
    BY <1>8, <2>1 DEF Verify, TypeOK, Stages, Reading, Ended
  <2>4. refreshes' \in [Callbacks -> Nat]
    BY <1>8 DEF Verify, TypeOK
  <2> QED
    BY <1>8, <2>2, <2>3, <2>4 DEF Verify, TypeOK
<1>9. ASSUME NEW t \in Callbacks, StoreRefreshed(t) PROVE TypeOK'
  <2>1. t \in Tasks /\ t \in Queued
    BY <1>9 DEF StoreRefreshed, Holds, Tasks
  <2>2. QueueOK'
    BY <1>9, <2>1, RejoinKeepsQueue, LeaveKeepsQueue
       DEF StoreRefreshed, InQueue, Reading, Stages, Ended
  <2>3. stage' \in [Tasks -> Stages]
    BY <1>9, <2>1 DEF StoreRefreshed, TypeOK, Stages, Reading, Ended
  <2> QED
    BY <1>9, <2>2, <2>3 DEF StoreRefreshed, TypeOK
<1>10. CASE Rotate
  BY <1>10 DEF Rotate, TypeOK, QueueOK, Queued, Versions
<1>11. CASE UNCHANGED vars
  BY <1>11 DEF vars, TypeOK, QueueOK, Queued
<1> QED
  BY <1>1, <1>2, <1>3, <1>4, <1>5, <1>6, <1>7, <1>8, <1>9, <1>10, <1>11
     DEF Next, Stop, Continue, DiscoveryFails, ExchangeFails, Drop

LEMMA NextPhase == IInv /\ [Next]_vars => InFlight' /\ NotAhead' /\ Filled'
<1> SUFFICES ASSUME IInv, [Next]_vars PROVE InFlight' /\ NotAhead' /\ Filled'
  OBVIOUS
<1> USE DEF IInv
<1>a. TypeOK
  OBVIOUS
<1>b. \A c \in Callbacks : Phase(c)
  OBVIOUS
<1>1. ASSUME NEW t \in Tasks, Begin(t) PROVE InFlight' /\ NotAhead' /\ Filled'
  <2>1. InFlight'
    BY <1>1 DEF Begin, InFlight, Discovering, Holds, Queued, Joined, Reading, TypeOK, QueueOK
  <2> QED
    BY <1>1, <2>1 DEF Begin, NotAhead, Filled, FilledOnce
<1>2. ASSUME NEW t \in Tasks, ReadCached(t) PROVE InFlight' /\ NotAhead' /\ Filled'
  <2>1. InFlight'
    BY <1>2 DEF ReadCached, Obtain, InFlight, Discovering, Holds, Reading, TypeOK
  <2>2. NotAhead'
    BY <1>2 DEF ReadCached, Obtain, NotAhead, TypeOK
  <2> QED
    BY <1>2, <2>1, <2>2 DEF ReadCached, Filled, FilledOnce
<1>3. ASSUME NEW t \in Tasks, ProviderAnswers(t) PROVE InFlight' /\ NotAhead' /\ Filled'
  <2>1. InFlight'
    BY <1>3 DEF ProviderAnswers, InFlight, Discovering, Holds, Queued, TypeOK
  <2>2. NotAhead'
    BY <1>3 DEF ProviderAnswers, NotAhead, TypeOK, Versions
  <2> QED
    BY <1>3, <2>1, <2>2 DEF ProviderAnswers, Filled, FilledOnce
<1>4. ASSUME NEW t \in Tasks, Fill(t) PROVE InFlight' /\ NotAhead' /\ Filled'
  <2>1. cache = 0 /\ stage[t] # "refresh"
    BY <1>4 DEF Fill, InFlight, Discovering, Reading
  <2>2. InFlight'
    <3> SUFFICES ASSUME NEW u \in Tasks, answer'[u] # 0 PROVE Discovering(u)'
      BY DEF InFlight
    <3>1. u # t /\ answer[u] # 0
      BY <1>4 DEF Fill, TypeOK
    <3>2. ~Holds(u)
      BY <1>4, <3>1, OneHolder DEF Fill
    <3>3. stage[u] = "refresh"
      BY <3>1, <3>2 DEF InFlight, Discovering
    <3>4. stage'[u] = stage[u]
      BY <1>4, <3>1 DEF Fill, Obtain, TypeOK
    <3> QED
      BY <3>3, <3>4 DEF Discovering
  <2>3. NotAhead'
    <3>1. version \in Nat /\ answer[t] \in Nat /\ answer[t] <= version
      BY DEF NotAhead, TypeOK, Versions
    <3>2. \A u \in Tasks : answer'[u] <= version
      BY <1>4, <3>1 DEF Fill, NotAhead, TypeOK
    <3>3. \A c \in Callbacks : metadata'[c] <= version
      BY <1>4, <3>1 DEF Fill, Obtain, NotAhead, TypeOK
    <3> QED
      BY <1>4, <3>1, <3>2, <3>3 DEF Fill, NotAhead
  <2> QED
    BY <1>4, <2>1, <2>2, <2>3 DEF Fill, Filled, FilledOnce, TypeOK
<1>5. ASSUME NEW t \in Callbacks, RefreshArrives(t)
      PROVE  InFlight' /\ NotAhead' /\ Filled'
  <2>1. InFlight'
    BY <1>5 DEF RefreshArrives, InFlight, Discovering, Holds, Queued, Joined, Reading,
                TypeOK, QueueOK
  <2>2. NotAhead'
    <3>1. version \in Nat /\ answer[t] \in Nat /\ answer[t] <= version
      BY DEF NotAhead, TypeOK, Versions, Tasks
    <3>2. \A u \in Tasks : answer'[u] <= version
      BY <1>5, <3>1 DEF RefreshArrives, NotAhead, TypeOK
    <3>3. \A c \in Callbacks : metadata'[c] <= version
      BY <1>5, <3>1 DEF RefreshArrives, NotAhead, TypeOK
    <3> QED
      BY <1>5, <3>1, <3>2, <3>3 DEF RefreshArrives, NotAhead
  <2> QED
    BY <1>5, <2>1, <2>2 DEF RefreshArrives, Filled, FilledOnce
<1>6. ASSUME NEW t \in Tasks, NEW end \in {"failed", "dropped"}, End(t, end)
      PROVE  InFlight' /\ NotAhead' /\ Filled'
  <2>1. InFlight'
    <3> SUFFICES ASSUME NEW u \in Tasks, answer'[u] # 0 PROVE Discovering(u)'
      BY DEF InFlight
    <3>1. u # t /\ Discovering(u)
      BY <1>6 DEF End, InFlight, TypeOK
    <3>2. stage'[u] = stage[u] /\ (ahead[u] = {} => ahead'[u] = {})
      BY <1>6, <3>1 DEF End, Left, TypeOK
    <3> QED
      BY <1>6, <3>1, <3>2 DEF End, Discovering, Holds, Queued
  <2>2. NotAhead'
    BY <1>6 DEF End, NotAhead, TypeOK, Versions
  <2> QED
    BY <1>6, <2>1, <2>2 DEF End, Filled, FilledOnce
<1>7. ASSUME NEW t \in Callbacks, NEW fault \in Faults, Exchange(t, fault)
      PROVE  InFlight' /\ NotAhead' /\ Filled'
  <2>1. InFlight'
    <3> SUFFICES ASSUME NEW u \in Tasks, answer'[u] # 0 PROVE Discovering(u)'
      BY DEF InFlight
    <3>1. u # t /\ Discovering(u)
      BY <1>7 DEF Exchange, InFlight, Discovering, Reading
    <3>2. stage'[u] = stage[u]
      BY <1>7, <3>1 DEF Exchange, TypeOK
    <3> QED
      BY <1>7, <3>1, <3>2 DEF Exchange, Discovering, Holds, Queued
  <2>2. NotAhead'
    BY <1>7 DEF Exchange, NotAhead, TypeOK, Versions
  <2> QED
    BY <1>7, <2>1, <2>2 DEF Exchange, Filled, FilledOnce
<1>8. ASSUME NEW t \in Callbacks, Verify(t) PROVE InFlight' /\ NotAhead' /\ Filled'
  <2>1. \A u \in Tasks \ {t} : stage'[u] = stage[u] /\ ahead'[u] = ahead[u]
    BY <1>8 DEF Verify, TypeOK, QueueOK, Joined
  <2>2. answer[t] = 0 /\ answer' = answer
    BY <1>8 DEF Verify, InFlight, Discovering, Reading, Tasks
  <2>3. InFlight'
    BY <1>8, <2>1, <2>2 DEF Verify, InFlight, Discovering, Holds, Queued
  <2> QED
    BY <1>8, <2>3 DEF Verify, NotAhead, Filled, FilledOnce
<1>9. ASSUME NEW t \in Callbacks, StoreRefreshed(t)
      PROVE  InFlight' /\ NotAhead' /\ Filled'
  <2>1. cache # 0 /\ metadata[t] # 0
    BY <1>9, <1>b DEF StoreRefreshed, Phase
  <2>2. InFlight'
    <3> SUFFICES ASSUME NEW u \in Tasks, answer'[u] # 0 PROVE Discovering(u)'
      BY DEF InFlight
    <3>1. answer[u] # 0 /\ stage[u] = "refresh"
      BY <1>9, <2>1 DEF StoreRefreshed, InFlight, Discovering
    <3>2. stage'[u] = stage[u]
      BY <1>9, <3>1 DEF StoreRefreshed, TypeOK
    <3> QED
      BY <3>1, <3>2 DEF Discovering
  <2>3. NotAhead'
    BY <1>9 DEF StoreRefreshed, NotAhead
  <2> QED
    BY <1>9, <2>1, <2>2, <2>3 DEF StoreRefreshed, Filled, FilledOnce
<1>10. CASE Rotate
  <2>1. NotAhead'
    BY <1>10 DEF Rotate, NotAhead, TypeOK, Versions
  <2> QED
    BY <1>10, <2>1 DEF Rotate, InFlight, Discovering, Holds, Queued, Filled, FilledOnce
<1>11. CASE UNCHANGED vars
  BY <1>11 DEF vars, InFlight, Discovering, Holds, Queued, NotAhead, Filled, FilledOnce
<1> QED
  BY <1>1, <1>2, <1>3, <1>4, <1>5, <1>6, <1>7, <1>8, <1>9, <1>10, <1>11
     DEF Next, Stop, Continue, DiscoveryFails, ExchangeFails, Drop

LEMMA NextCallbacks ==
    IInv /\ [Next]_vars => SingleRefresh' /\ \A c \in Callbacks : (Phase(c) /\ Newer(c))'
<1> SUFFICES ASSUME IInv, [Next]_vars, NEW c \in Callbacks
             PROVE  /\ refreshes'[c] <= 1
                    /\ refreshes'[c] = 1 => token'[c].fault # "claims"
                    /\ Phase(c)' /\ Newer(c)'
  BY DEF SingleRefresh
<1> DEFINE Good == /\ refreshes'[c] <= 1
                   /\ refreshes'[c] = 1 => token'[c].fault # "claims"
                   /\ Phase(c)' /\ Newer(c)'
<1>a. /\ TypeOK /\ InFlight /\ NotAhead /\ Filled /\ Phase(c) /\ Newer(c)
      /\ refreshes[c] <= 1 /\ (refreshes[c] = 1 => token[c].fault # "claims")
  BY DEF IInv, SingleRefresh
<1>b. c \in Tasks
  BY DEF Tasks
<1>1. ASSUME NEW t \in Tasks, Begin(t) PROVE Good
  BY <1>1, <1>a, <1>b DEF Begin, Phase, Newer, TypeOK
<1>2. ASSUME NEW t \in Tasks, ReadCached(t) PROVE Good
  BY <1>2, <1>a, <1>b DEF ReadCached, Obtain, Phase, Newer, TypeOK, Reading
<1>3. ASSUME NEW t \in Tasks, ProviderAnswers(t) PROVE Good
  BY <1>3, <1>a, <1>b DEF ProviderAnswers, Phase, Newer, TypeOK, NotAhead
<1>4. ASSUME NEW t \in Tasks, Fill(t) PROVE Good
  <2>1. cache = 0
    BY <1>4, <1>a DEF Fill, InFlight, Discovering, Reading
  <2> QED
    BY <1>4, <2>1, <1>a, <1>b DEF Fill, Obtain, Phase, Newer, TypeOK, Reading
<1>5. ASSUME NEW t \in Callbacks, RefreshArrives(t) PROVE Good
  BY <1>5, <1>a, <1>b DEF RefreshArrives, Phase, Newer, TypeOK, Tasks
<1>6. ASSUME NEW t \in Tasks, NEW end \in {"failed", "dropped"}, End(t, end)
      PROVE  Good
  <2>1. CASE t = c
    BY <1>6, <2>1, <1>a, <1>b DEF End, Phase, Newer, TypeOK
  <2>2. CASE t # c
    BY <1>6, <2>2, <1>a, <1>b DEF End, Phase, Newer, TypeOK
  <2> QED
    BY <2>1, <2>2
<1>7. ASSUME NEW t \in Callbacks, NEW fault \in Faults, Exchange(t, fault)
      PROVE  Good
  <2>1. CASE t = c
    <3>1. token'[c].key = version /\ version # 0
      BY <1>7, <2>1, <1>a DEF Exchange, TypeOK, Versions
    <3> QED
      BY <1>7, <2>1, <3>1, <1>a, <1>b DEF Exchange, Phase, Newer, TypeOK
  <2>2. CASE t # c
    BY <1>7, <2>2, <1>a, <1>b DEF Exchange, Phase, Newer, TypeOK
  <2> QED
    BY <2>1, <2>2
<1>8. ASSUME NEW t \in Callbacks, Verify(t) PROVE Good
  <2>1. CASE t = c
    <3>1. answer[c] = 0 /\ answer' = answer
      BY <1>8, <2>1, <1>a, <1>b DEF Verify, InFlight, Discovering, Reading
    <3>2. Verification(metadata[c], token[c]) = "NoMatchingKey" => token[c].fault # "claims"
      BY <1>a, VerificationMeaning DEF TypeOK
    <3> QED
      BY <1>8, <2>1, <3>1, <3>2, <1>a, <1>b DEF Verify, Phase, Newer, TypeOK
  <2>2. CASE t # c
    BY <1>8, <2>2, <1>a, <1>b DEF Verify, Phase, Newer, TypeOK
  <2> QED
    BY <2>1, <2>2
<1>9. ASSUME NEW t \in Callbacks, StoreRefreshed(t) PROVE Good
  <2>1. cache' = metadata[t] /\ cache' # 0
    BY <1>9 DEF StoreRefreshed, IInv, Phase
  <2>2. CASE t = c
    BY <1>9, <2>1, <2>2, <1>a, <1>b DEF StoreRefreshed, Phase, Newer, TypeOK
  <2>3. CASE t # c
    <3>1. stage[c] \in {"refresh", "store"} => c \in overlapped'
      BY <1>9, <2>3 DEF StoreRefreshed
    <3>2. /\ stage'[c] = stage[c]
          /\ UNCHANGED <<answer, metadata, token, refreshes>>
      BY <1>9, <2>3, <1>a, <1>b DEF StoreRefreshed, TypeOK
    <3>3. cache # 0
      BY <1>9 DEF StoreRefreshed, IInv, Phase
    <3> QED
      BY <2>1, <3>1, <3>2, <3>3, <1>a DEF Phase, Newer
  <2> QED
    BY <2>2, <2>3
<1>10. CASE Rotate
  BY <1>10, <1>a DEF Rotate, Phase, Newer
<1>11. CASE UNCHANGED vars
  BY <1>11, <1>a DEF vars, Phase, Newer
<1> QED
  BY <1>1, <1>2, <1>3, <1>4, <1>5, <1>6, <1>7, <1>8, <1>9, <1>10, <1>11
     DEF Next, Stop, Continue, DiscoveryFails, ExchangeFails, Drop

\* The invariant holds in every reachable state.
THEOREM Invariance == Spec => []IInv
<1>1. IInv /\ [Next]_vars => IInv'
  BY NextType, NextPhase, NextCallbacks DEF IInv
<1> QED
  BY InitIInv, <1>1, PTL DEF Spec

-----------------------------------------------------------------------------
(* What follows from the invariant. *)

\* Every variable keeps its type and the mutex its queue (provider.rs:31, 55).
THEOREM TypeCorrect == Spec => []TypeOK
  BY Invariance, PTL DEF IInv

\* provider_metadata() discovers successfully at most once: the mutex held
\* across the discovery makes the others wait for it (provider.rs:31-43).
THEOREM FillsOnce == Spec => []FilledOnce
  BY Invariance, PTL DEF IInv, Filled

\* No callback refreshes twice, nor for a token whose issuer or audience is
\* wrong (provider.rs:95-106).
THEOREM RefreshesOnce == Spec => []SingleRefresh
  BY Invariance, PTL DEF IInv

\* The cached keys get older only when a refresh whose discovery began before
\* another's store is stored after it (provider.rs:50-56).
THEOREM RegressionNeedsOverlap == Spec => RegressesOnlyByOverlap
<1> DEFINE ByOverlap == cache' < cache =>
               \E c \in overlapped : stage[c] = "store" /\ stage'[c] # "store"
<1>1. ASSUME IInv, [Next]_vars PROVE [ByOverlap]_vars
  <2>1. TypeOK /\ Filled
    BY <1>1 DEF IInv
  <2>2. cache \in Nat /\ cache <= cache
    BY <2>1 DEF TypeOK
  <2>3. CASE cache' = cache
    BY <2>2, <2>3
  <2>4. ASSUME NEW t \in Tasks, Fill(t) PROVE ByOverlap
    BY <1>1, <2>4 DEF Fill, IInv, InFlight, Discovering, Reading, TypeOK
  <2>5. ASSUME NEW t \in Callbacks, StoreRefreshed(t) PROVE ByOverlap
    <3>1. stage[t] = "store" /\ stage'[t] # "store" /\ cache' = metadata[t]
      BY <2>1, <2>5 DEF StoreRefreshed, TypeOK, Tasks
    <3>2. t \notin overlapped => cache <= cache'
      BY <1>1, <3>1 DEF IInv, Newer
    <3>3. cache' \in Nat
      BY <2>1, <3>1 DEF TypeOK
    <3> QED
      BY <2>2, <3>1, <3>2, <3>3
  <2> QED
    BY <1>1, <2>3, <2>4, <2>5
       DEF Next, Continue, Stop, Rotate, Begin, ReadCached, ProviderAnswers,
           DiscoveryFails, ExchangeFails, Drop, End, Exchange, Verify, RefreshArrives, vars
<1> QED
  BY <1>1, Invariance, PTL DEF Spec, RegressesOnlyByOverlap

LEMMA InitTimely == Init => Timely!Init
  BY DEF Init, Timely!Init, Verdict, Ended, NoToken, Tasks

\* Every step of the cached verification is a step of the timely one, or none of
\* its business.
LEMMA NextTimely == IInv /\ [Next]_vars =>
    [Timely!Next]_<<version, token, [c \in Callbacks |-> Verdict(c)]>>
<1> SUFFICES ASSUME IInv, [Next]_vars
             PROVE  [Timely!Next]_<<version, token, [c \in Callbacks |-> Verdict(c)]>>
  OBVIOUS
<1> DEFINE verdict == [c \in Callbacks |-> Verdict(c)]
           Goal == [Timely!Next]_<<version, token, verdict>>
<1>a. TypeOK /\ NotAhead /\ \A c \in Callbacks : Phase(c) /\ Newer(c)
  BY DEF IInv
<1>b. ASSUME UNCHANGED <<version, token>>, \A c \in Callbacks : Verdict(c)' = Verdict(c)
      PROVE  Goal
  BY <1>b
<1>c. ASSUME NEW t \in Tasks, UNCHANGED <<version, token>>,
             \E s \in Stages : stage' = [stage EXCEPT ![t] = s],
             t \in Callbacks => Verdict(t)' = Verdict(t)
      PROVE  Goal
  BY <1>a, <1>b, <1>c DEF TypeOK, Verdict, Tasks
<1>d. ASSUME NEW t \in Callbacks, NEW s \in Stages, stage' = [stage EXCEPT ![t] = s]
      PROVE  verdict' = [verdict EXCEPT ![t] = Verdict(t)']
  <2>1. \A c \in Callbacks \ {t} : stage'[c] = stage[c]
    BY <1>a, <1>d DEF TypeOK, Tasks
  <2>2. \A c \in Callbacks \ {t} : Verdict(c)' = Verdict(c)
    BY <2>1 DEF Verdict
  <2>3. \A c \in Callbacks : verdict'[c] = Verdict(c)' /\ verdict[c] = Verdict(c)
    OBVIOUS
  <2> HIDE DEF verdict
  <2>4. /\ verdict' = [c \in Callbacks |-> verdict'[c]]
        /\ verdict = [c \in Callbacks |-> verdict[c]]
    BY DEF verdict
  <2> QED
    BY <2>2, <2>3, <2>4
<1>1. ASSUME NEW t \in Tasks, Begin(t) PROVE Goal
  BY <1>1, <1>a, <1>c DEF Begin, Verdict, Stages, Reading, Ended, TypeOK
<1>2. ASSUME NEW t \in Tasks, ReadCached(t) \/ Fill(t) PROVE Goal
  <2>1. \/ stage[t] = "metadata" /\ t \in Callbacks /\ stage' = [stage EXCEPT ![t] = "exchange"]
        \/ (stage[t] = "userinfo" \/ t \notin Callbacks) /\ stage' = [stage EXCEPT ![t] = "done"]
    BY <1>2 DEF ReadCached, Fill, Obtain, Reading
  <2>2. t \in Callbacks => Verdict(t)' = Verdict(t)
    BY <2>1, <1>a DEF Verdict, Ended, TypeOK, Tasks
  <2> QED
    BY <1>2, <1>c, <2>1, <2>2 DEF ReadCached, Fill, Stages, Ended
<1>3. ASSUME NEW t \in Tasks, ProviderAnswers(t) PROVE Goal
  BY <1>3, <1>b DEF ProviderAnswers, Verdict
<1>4. ASSUME NEW t \in Callbacks, RefreshArrives(t) PROVE Goal
  BY <1>4, <1>a, <1>c DEF RefreshArrives, Verdict, Stages, Reading, Ended, TypeOK, Tasks
<1>5. ASSUME NEW t \in Tasks, NEW end \in {"failed", "dropped"}, End(t, end),
             stage[t] \notin Ended
      PROVE  Goal
  <2>1. CASE t \notin Callbacks
    BY <1>5, <2>1, <1>c DEF End, Stages, Ended
  <2>2. CASE t \in Callbacks
    <3>1. Verdict(t) \in {"open", "accepted"} /\ Verdict(t)' = "abandoned"
      BY <1>5, <2>2, <1>a DEF End, Verdict, Ended, TypeOK, Tasks
    <3>2. verdict' = [verdict EXCEPT ![t] = "abandoned"]
      BY <1>5, <2>2, <3>1, <1>d DEF End, Stages, Ended
    <3> QED
      BY <1>5, <2>2, <3>1, <3>2 DEF End, Timely!Next, Timely!Abandon
  <2> QED
    BY <2>1, <2>2
<1>6. ASSUME NEW t \in Callbacks, NEW fault \in Faults, Exchange(t, fault) PROVE Goal
  <2>1. Verdict(t) = "open" /\ token[t].key = 0
    BY <1>6, <1>a DEF Exchange, Phase, Verdict, Ended
  <2>2. \A c \in Callbacks : Verdict(c)' = Verdict(c)
    BY <1>6, <1>a DEF Exchange, TypeOK, Verdict, Ended, Tasks
  <2> QED
    BY <1>6, <2>1, <2>2 DEF Exchange, Timely!Next, Timely!Issue
<1>7. ASSUME NEW t \in Callbacks, stage[t] \in {"verify", "store"},
             token[t].key # 0, token[t].key <= version, token[t].fault = "none",
             stage' = [stage EXCEPT ![t] = "userinfo"], UNCHANGED <<version, token>>
      PROVE  Goal
  <2>1. Verdict(t) = "open" /\ Verdict(t)' = "accepted"
    BY <1>7, <1>a DEF Verdict, Ended, TypeOK, Tasks
  <2>2. verdict' = [verdict EXCEPT ![t] = "accepted"]
    BY <1>7, <2>1, <1>d DEF Stages, Reading
  <2>3. token[t].key \in Timely!Moments(t) /\ Timely!Publishes(token[t].key, token[t].key)
    BY <1>7, <1>a, VersionsAssumption DEF Timely!Moments, Timely!Publishes, TypeOK, Versions
  <2> QED
    BY <1>7, <2>1, <2>2, <2>3 DEF Timely!Next, Timely!Accept
<1>8. ASSUME NEW t \in Callbacks, stage[t] \in {"verify", "store"}, token[t].key # 0,
             \/ token[t].fault # "none"
             \/ \E v \in Timely!Moments(t) : ~Timely!Publishes(v, token[t].key),
             stage' = [stage EXCEPT ![t] = "refused"], UNCHANGED <<version, token>>
      PROVE  Goal
  <2>1. Verdict(t) = "open" /\ Verdict(t)' = "refused"
    BY <1>8, <1>a DEF Verdict, Ended, TypeOK, Tasks
  <2>2. verdict' = [verdict EXCEPT ![t] = "refused"]
    BY <1>8, <2>1, <1>d DEF Stages, Ended
  <2> QED
    BY <1>8, <2>1, <2>2 DEF Timely!Next, Timely!Refuse
<1>9. ASSUME NEW t \in Callbacks, Verify(t) PROVE Goal
  <2>1. token[t].key # 0 /\ token[t].key <= version
    BY <1>9, <1>a DEF Verify, Phase, NotAhead
  <2>2. /\ Verification(metadata[t], token[t]) = "Ok" => token[t].fault = "none"
        /\ Verification(metadata[t], token[t]) = "Other" => token[t].fault # "none"
    BY <1>a, VerificationMeaning DEF TypeOK
  <2>3. CASE stage' = [stage EXCEPT ![t] = "refresh"]
    BY <1>9, <2>3, <1>a, <1>c DEF Verify, Verdict, Stages, Ended, TypeOK, Tasks
  <2> QED
    BY <1>9, <2>1, <2>2, <2>3, <1>7, <1>8 DEF Verify
<1>10. ASSUME NEW t \in Callbacks, StoreRefreshed(t) PROVE Goal
  <2>1. token[t].key # 0 /\ token[t].key <= metadata[t] /\ metadata[t] <= version
    BY <1>10, <1>a DEF StoreRefreshed, Phase, Newer, NotAhead
  <2>2. metadata[t] \in 0..MaxVersion /\ token[t] \in [key : 0..MaxVersion, fault : Faults]
        /\ version \in Versions
    BY <1>a DEF TypeOK
  <2>3. /\ Verification(metadata[t], token[t]) = "Ok" => token[t].fault = "none"
        /\ Verification(metadata[t], token[t]) # "Ok" /\ token[t].fault = "none"
             => token[t].key \notin Published(metadata[t])
    BY <2>2, VerificationMeaning
  <2>4. ASSUME token[t].key \notin Published(metadata[t])
        PROVE  \E v \in Timely!Moments(t) : ~Timely!Publishes(v, token[t].key)
    <3>1. metadata[t] \in Timely!Moments(t)
      BY <2>1, <2>2 DEF Timely!Moments, Versions
    <3>2. ~Timely!Publishes(metadata[t], token[t].key)
      BY <2>1, <2>2, <2>4 DEF Published, Versions, Timely!Publishes
    <3> QED
      BY <3>1, <3>2
  <2>5. token[t].key <= version
    BY <1>a DEF NotAhead
  <2> QED
    BY <1>10, <2>1, <2>3, <2>4, <2>5, <1>7, <1>8 DEF StoreRefreshed
<1>11. CASE Rotate
  <2>1. \A c \in Callbacks : Verdict(c)' = Verdict(c)
    BY <1>11 DEF Rotate, Verdict
  <2> QED
    BY <1>11, <2>1 DEF Rotate, Timely!Next, Timely!Rotate
<1>12. CASE UNCHANGED vars
  BY <1>12, <1>b DEF vars, Verdict
<1> QED
  BY <1>1, <1>2, <1>3, <1>4, <1>5, <1>6, <1>9, <1>10, <1>11, <1>12
     DEF Next, Stop, Continue, DiscoveryFails, ExchangeFails, Drop, Discovering, Ended, Reading

\* The cached verifier gives only verdicts that are right by the keys of some
\* moment since the token was signed: neither old keys nor keys put back by a
\* late refresh make it accept a token that is not genuine, or refuse one whose
\* key is still published.  (A token whose key was retired after it was signed
\* may be accepted or refused.)  provider.rs:28-107.
THEOREM VerdictsHold == Spec => VerdictsAreTimely
<1>1. Init => Timely!Init
  BY InitTimely
<1>2. IInv /\ [Next]_vars =>
        [Timely!Next]_<<version, token, [c \in Callbacks |-> Verdict(c)]>>
  BY NextTimely
<1> QED
  BY <1>1, <1>2, Invariance, PTL DEF Spec, VerdictsAreTimely, Timely!Spec

=============================================================================
