-------------------------- MODULE ProviderMetadata -------------------------
(***************************************************************************)
(* The cached provider metadata (src/src/oidc/provider.rs): one process-   *)
(* wide Option behind a fair async mutex that is held across discovery;    *)
(* refreshes of it that discover first and lock afterwards; and the        *)
(* verification of ID tokens with one refresh when the signing key is not  *)
(* among the keys at hand, while the provider rotates its keys.            *)
(*                                                                         *)
(* Metadata is the version of the key set it was answered from; 0 stands   *)
(* for none.  Tasks are the requests that use the cache: readers (a login, *)
(* a token refresh) read it once; callbacks read it, exchange the code,    *)
(* verify the ID token, and read it again for the user-info request.       *)
(***************************************************************************)
EXTENDS Naturals

CONSTANTS Readers, Callbacks, Behind, Faults, MaxVersion

ASSUME TasksAssumption == Readers \cap Callbacks = {}
ASSUME VersionsAssumption == Behind \in Nat /\ MaxVersion \in Nat \ {0}
ASSUME FaultsAssumption ==
    "none" \in Faults /\ Faults \subseteq {"none", "claims", "foreign", "nonce"}

VARIABLES
    version,     \* the provider's current signing key
    cache,       \* OidcState.provider_metadata
    ahead,       \* the mutex: tasks granted it before each queued task
    stage,       \* where each task is
    answer,      \* the provider's answer to each task's discovery, in flight
    metadata,    \* each callback's own copy
    token,       \* the ID token each callback received
    fills,       \* ghost: discoveries that filled the empty cache
    refreshes,   \* ghost: metadata refreshes each callback made
    overlapped   \* ghost: refreshing callbacks that saw another one's store

vars == <<version, cache, ahead, stage, answer, metadata, token, fills,
          refreshes, overlapped>>

Tasks    == Readers \cup Callbacks
Versions == 1..MaxVersion
NoToken  == [key |-> 0, fault |-> "none"]

Reading == {"metadata", "userinfo"}     \* inside provider_metadata()
Ended   == {"done", "refused", "failed", "dropped"}
Stages  == {"idle", "exchange", "verify", "refresh", "store"} \cup Reading \cup Ended

-----------------------------------------------------------------------------
(* The mutex.  Waiters are served in their order of arrival; a future that *)
(* is dropped leaves the queue, and releases the mutex when it holds it.   *)

Queued == {t \in Tasks : stage[t] \in Reading \cup {"store"}}
Holds(t) == t \in Queued /\ ahead[t] = {}

Joined(t) == [ahead EXCEPT ![t] = Queued]
Left(t) == [u \in Tasks |-> IF u = t THEN {} ELSE ahead[u] \ {t}]
\* The holder returns from one lock and asks for it again.
Rejoined(t) == [u \in Tasks |-> IF u = t THEN Queued \ {t} ELSE ahead[u] \ {t}]

-----------------------------------------------------------------------------
(* The provider and the ID token. *)

Rotate == /\ version < MaxVersion
          /\ version' = version + 1
          /\ UNCHANGED <<cache, ahead, stage, answer, metadata, token, fills,
                         refreshes, overlapped>>

Published(v) == {k \in Versions : k <= v /\ v <= k + Behind}

\* verify_id_token_once.  Issuer and audience are checked before the key is
\* looked up, nonce and expiry after it; a foreign key is never published.
Verification(v, tk) ==
    CASE tk.fault = "claims" -> "Other"
      [] tk.fault # "claims" /\ (tk.fault = "foreign" \/ tk.key \notin Published(v))
           -> "NoMatchingKey"
      [] tk.fault = "nonce" /\ tk.key \in Published(v) -> "Other"
      [] tk.fault = "none" /\ tk.key \in Published(v) -> "Ok"

-----------------------------------------------------------------------------
Init ==
    /\ version = 1 /\ cache = 0 /\ fills = 0
    /\ ahead = [t \in Tasks |-> {}]
    /\ stage = [t \in Tasks |-> "idle"]
    /\ answer = [t \in Tasks |-> 0]
    /\ metadata = [c \in Callbacks |-> 0]
    /\ token = [c \in Callbacks |-> NoToken]
    /\ refreshes = [c \in Callbacks |-> 0]
    /\ overlapped = {}

\* A request calls provider_metadata() for the first time.
Begin(t) ==
    /\ stage[t] = "idle"
    /\ stage' = [stage EXCEPT ![t] = "metadata"]
    /\ ahead' = Joined(t)
    /\ UNCHANGED <<version, cache, answer, metadata, token, fills, refreshes,
                   overlapped>>

\* provider_metadata() returns v and releases the mutex; the callback keeps
\* its first copy until the token is verified.
Obtain(t, v) ==
    /\ ahead' = Left(t)
    /\ IF stage[t] = "metadata" /\ t \in Callbacks
         THEN /\ stage' = [stage EXCEPT ![t] = "exchange"]
              /\ metadata' = [metadata EXCEPT ![t] = v]
         ELSE /\ stage' = [stage EXCEPT ![t] = "done"]
              /\ UNCHANGED metadata

ReadCached(t) ==
    /\ Holds(t) /\ stage[t] \in Reading /\ cache # 0
    /\ Obtain(t, cache)
    /\ UNCHANGED <<version, cache, answer, token, fills, refreshes, overlapped>>

BugDiscovering(t) ==
    stage[t] = "refresh" \/ (stage[t] \in Reading /\ cache = 0)
\* Under the mutex on an empty cache, or without it in a refresh.
Discovering(t) ==
    \/ stage[t] = "refresh"
    \/ Holds(t) /\ stage[t] \in Reading /\ cache = 0

\* The provider answers from its present keys; the answer may take its time.
ProviderAnswers(t) ==
    /\ Discovering(t) /\ answer[t] = 0
    /\ answer' = [answer EXCEPT ![t] = version]
    /\ UNCHANGED <<version, cache, ahead, stage, metadata, token, fills,
                   refreshes, overlapped>>

Fill(t) ==
    /\ Holds(t) /\ stage[t] \in Reading /\ answer[t] # 0
    /\ cache' = answer[t]
    /\ Obtain(t, answer[t])
    /\ answer' = [answer EXCEPT ![t] = 0]
    /\ fills' = fills + 1
    /\ UNCHANGED <<version, token, refreshes, overlapped>>

BugRefreshFromCache(t) ==
    /\ stage[t] = "refresh" /\ answer[t] # 0
    /\ metadata' = [metadata EXCEPT ![t] = cache]
    /\ answer' = [answer EXCEPT ![t] = 0]
    /\ stage' = [stage EXCEPT ![t] = "store"]
    /\ ahead' = Joined(t)
    /\ UNCHANGED <<version, cache, token, fills, refreshes, overlapped>>
\* A refresh has its metadata; now it locks the mutex to store it.
RefreshArrives(t) ==
    /\ stage[t] = "refresh" /\ answer[t] # 0
    /\ metadata' = [metadata EXCEPT ![t] = answer[t]]
    /\ answer' = [answer EXCEPT ![t] = 0]
    /\ stage' = [stage EXCEPT ![t] = "store"]
    /\ ahead' = Joined(t)
    /\ UNCHANGED <<version, cache, token, fills, refreshes, overlapped>>

BugEndStaysQueued(t, end) ==
    /\ stage' = [stage EXCEPT ![t] = end]
    /\ answer' = [answer EXCEPT ![t] = 0]
    /\ overlapped' = overlapped \ {t}
    /\ UNCHANGED <<version, cache, ahead, metadata, token, fills, refreshes>>
\* The task's future ends in `end'; a mutex it holds or waits for is freed.
End(t, end) ==
    /\ stage' = [stage EXCEPT ![t] = end]
    /\ ahead' = Left(t)
    /\ answer' = [answer EXCEPT ![t] = 0]
    /\ overlapped' = overlapped \ {t}
    /\ UNCHANGED <<version, cache, metadata, token, fills, refreshes>>

BugFailsHoldingMutex(t) ==
    /\ Discovering(t)
    /\ stage' = [stage EXCEPT ![t] = "failed"]
    /\ answer' = [answer EXCEPT ![t] = 0]
    /\ UNCHANGED <<version, cache, ahead, metadata, token, fills, refreshes,
                   overlapped>>
BugFailureClearsCache(t) ==
    /\ Discovering(t)
    /\ cache' = 0
    /\ stage' = [stage EXCEPT ![t] = "failed"]
    /\ ahead' = Left(t)
    /\ answer' = [answer EXCEPT ![t] = 0]
    /\ overlapped' = overlapped \ {t}
    /\ UNCHANGED <<version, metadata, token, fills, refreshes>>
\* An error or one of the HTTP client's timeouts: 502.
DiscoveryFails(t) == Discovering(t) /\ End(t, "failed")

\* The token endpoint issues a token signed by the current key; its response is
\* verified when it arrives, or is lost.
Exchange(t, fault) ==
    /\ stage[t] = "exchange"
    /\ token' = [token EXCEPT ![t] = [key |-> version, fault |-> fault]]
    /\ stage' = [stage EXCEPT ![t] = "verify"]
    /\ UNCHANGED <<version, cache, ahead, answer, metadata, fills, refreshes,
                   overlapped>>

ExchangeFails(t) == stage[t] \in {"exchange", "verify"} /\ End(t, "failed")

Verify(t) ==
    /\ stage[t] = "verify"
    /\ LET result == Verification(metadata[t], token[t]) IN
       \/ /\ result = "Ok"
          /\ stage' = [stage EXCEPT ![t] = "userinfo"]
          /\ ahead' = Joined(t)
          /\ UNCHANGED refreshes
       \/ /\ result = "NoMatchingKey"
          /\ stage' = [stage EXCEPT ![t] = "refresh"]
          /\ refreshes' = [refreshes EXCEPT ![t] = @ + 1]
          /\ UNCHANGED ahead
       \/ /\ result = "Other"
          /\ stage' = [stage EXCEPT ![t] = "refused"]
          /\ UNCHANGED <<ahead, refreshes>>
    /\ UNCHANGED <<version, cache, answer, metadata, token, fills, overlapped>>

BugRefreshAgain(t) ==
    /\ stage[t] = "store" /\ Holds(t)
    /\ cache' = metadata[t]
    /\ LET again == Verification(metadata[t], token[t]) # "Ok" IN
       /\ stage' = [stage EXCEPT ![t] = IF again THEN "refresh" ELSE "userinfo"]
       /\ ahead' = IF again THEN Left(t) ELSE Rejoined(t)
       /\ refreshes' = [refreshes EXCEPT ![t] = @ + (IF again THEN 1 ELSE 0)]
    /\ UNCHANGED <<version, answer, metadata, token, fills, overlapped>>
\* The tail of refresh_provider_metadata() and the second verification: any
\* error of it is final.
StoreRefreshed(t) ==
    /\ stage[t] = "store" /\ Holds(t)
    /\ cache' = metadata[t]
    /\ IF Verification(metadata[t], token[t]) = "Ok"
         THEN /\ stage' = [stage EXCEPT ![t] = "userinfo"]
              /\ ahead' = Rejoined(t)
         ELSE /\ stage' = [stage EXCEPT ![t] = "refused"]
              /\ ahead' = Left(t)
    /\ overlapped' = {u \in Callbacks \ {t} :
                        stage[u] \in {"refresh", "store"}} \cup (overlapped \ {t})
    /\ UNCHANGED <<version, answer, metadata, token, fills, refreshes>>

\* The client disconnects and the handler's future is dropped at an await.
Drop(t) == stage[t] \notin Ended \cup {"idle"} /\ End(t, "dropped")

Continue(t) ==
    \/ ReadCached(t) \/ Fill(t) \/ DiscoveryFails(t)
    \/ t \in Callbacks /\ \/ \E fault \in Faults : Exchange(t, fault)
                          \/ ExchangeFails(t) \/ Verify(t)
                          \/ RefreshArrives(t) \/ StoreRefreshed(t)

Stop == (\A t \in Tasks : stage[t] \in Ended) /\ UNCHANGED vars

Next == \/ Rotate \/ Stop
        \/ \E t \in Tasks : Begin(t) \/ ProviderAnswers(t) \/ Drop(t) \/ Continue(t)

Spec == Init /\ [][Next]_vars

\* Every await of a task is on the mutex or on a request with a timeout.
FairSpec == Spec /\ \A t \in Tasks : WF_vars(Continue(t))

-----------------------------------------------------------------------------
(* Properties. *)

QueueOK ==
    /\ ahead \in [Tasks -> SUBSET Queued]
    /\ \A t \in Tasks : t \notin ahead[t] /\ (t \notin Queued => ahead[t] = {})
    /\ \A t, u \in Queued : t # u => (t \in ahead[u] <=> u \notin ahead[t])

\* Every variable has its type, and the mutex's queue is a queue: everybody
\* in it is ordered, and nobody waits for a task that has left it
\* (provider.rs:31, 55).
TypeOK ==
    /\ version \in Versions /\ cache \in 0..MaxVersion /\ fills \in Nat
    /\ stage \in [Tasks -> Stages]
    /\ answer \in [Tasks -> 0..MaxVersion]
    /\ metadata \in [Callbacks -> 0..MaxVersion]
    /\ token \in [Callbacks -> [key : 0..MaxVersion, fault : Faults]]
    /\ refreshes \in [Callbacks -> Nat]
    /\ overlapped \subseteq Callbacks
    /\ QueueOK

\* The empty cache is filled once in the life of the process: tasks that find
\* it empty wait for the one discovering instead of each asking the provider
\* (the mutex held across discover_async, provider.rs:31-43).
FilledOnce == fills <= 1

\* A callback refreshes the metadata at most once, and only for want of a key:
\* never for a token whose issuer or audience is wrong, whatever the keys
\* (provider.rs:95-106, oidc-authorization-transactions.md:132).
SingleRefresh ==
    \A c \in Callbacks :
        /\ refreshes[c] <= 1
        /\ refreshes[c] = 1 => token[c].fault # "claims"

\* Refreshes discover without the mutex and store in the order they get it, so
\* the cache may go back to older keys: but only when the discovery behind the
\* late store had begun before the newer keys were stored (provider.rs:50-56).
RegressesOnlyByOverlap ==
    [][cache' < cache =>
         \E c \in overlapped : stage[c] = "store" /\ stage'[c] # "store"]_vars

\* Whatever the cache holds (old keys, or keys put back by a late refresh), the
\* verdict on an ID token is right by the keys of some moment since the token
\* was signed: nothing but a genuine token is accepted, and a genuine one is
\* refused only when the provider has retired its key.  A key retired in
\* between may still verify against an older copy: the cache can accept what
\* an online check would refuse, never the other way (provider.rs:93-106).
Verdict(c) ==
    CASE stage[c] = "done" \/ stage[c] = "userinfo" -> "accepted"
      [] stage[c] = "refused" -> "refused"
      [] stage[c] \in {"failed", "dropped"} -> "abandoned"
      [] stage[c] \notin Ended \cup {"userinfo"} -> "open"
Timely == INSTANCE TimelyVerification
            WITH verdict <- [c \in Callbacks |-> Verdict(c)]
VerdictsAreTimely == Timely!Spec

\* A request that asked for the metadata comes to an end, although all of them
\* may be queued behind a provider that does not answer: discovery ends with
\* the HTTP client's timeout, and ends the wait of those behind it one by one
\* (provider.rs:15-26, 31-43).
EveryTaskEnds == \A t \in Tasks : stage[t] # "idle" ~> stage[t] \in Ended
=============================================================================
