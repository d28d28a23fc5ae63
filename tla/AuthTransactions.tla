-------------------------- MODULE AuthTransactions --------------------------
(***************************************************************************)
(* Login and callback (src/src/oidc/handlers.rs, transaction.rs): the      *)
(* process-local map of pending authorization transactions, the browsers   *)
(* holding their pre-authentication cookies, and the callbacks that turn a *)
(* transaction into a session.                                             *)
(*                                                                         *)
(* A transaction is named by its random state.  Its nonce, PKCE verifier   *)
(* and browser binding are random and its own, so the transaction's name   *)
(* stands for each of them; the authorization code issued for it carries   *)
(* the same name.  The map's mutex makes every use of it one step.         *)
(***************************************************************************)
EXTENDS Naturals, FiniteSets

CONSTANTS
    Transactions,   \* values of `state'
    Browsers,
    Clients,        \* client IP addresses
    Callbacks,      \* callback requests; each may create one session
    Nobody,         \* no browser, no transaction, no cookie
    LoginTtl,       \* LOGIN_TTL
    MaxPending,     \* MAX_PENDING_LOGINS
    MaxPerClient,   \* MAX_PENDING_LOGINS_PER_CLIENT
    MaxRestarts     \* bound: process restarts

ASSUME LimitsAssumption ==
    /\ LoginTtl \in Nat \ {0}
    /\ MaxPending \in Nat /\ MaxPerClient \in Nat /\ MaxRestarts \in Nat
ASSUME NobodyAssumption == Nobody \notin Browsers \cup Transactions

VARIABLES
    pending,     \* [client, age] of each transaction in the map
    initiator,   \* ghost: the browser that began each login; Nobody before
    preauth,     \* pre-authentication cookies each browser holds
    code,        \* the authorization code of each transaction
    stage,       \* where each callback is
    request,     \* [browser, state, answer] of each callback
    takenBy,     \* ghost: callbacks that took each transaction
    sessions,    \* sessions stored, named by the callback that created them
    cookies,     \* session cookies each browser holds, by callback
    restarts

vars == <<pending, initiator, preauth, code, stage, request, takenBy, sessions,
          cookies, restarts>>

Working   == {"metadata", "exchange", "verify", "userinfo", "put", "respond"}
Ended     == {"established", "failed", "dropped"}
NoRequest == [browser |-> Nobody, state |-> Nobody, answer |-> Nobody]

-----------------------------------------------------------------------------
(* The map.  retain() runs at the head of both critical sections.          *)

BugLiveAtDeadline(t) == pending[t].age <= LoginTtl
IsLive(t) == pending[t].age < LoginTtl

BugRetainAll == pending
Retained == [t \in {u \in DOMAIN pending : IsLive(u)} |-> pending[t]]

OfClient(map, ip) == {t \in DOMAIN map : map[t].client = ip}

BugOffByOne(ip) ==
    /\ Cardinality(OfClient(Retained, ip)) <= MaxPerClient
    /\ Cardinality(DOMAIN Retained) < MaxPending
HasRoom(ip) ==
    /\ Cardinality(OfClient(Retained, ip)) < MaxPerClient
    /\ Cardinality(DOMAIN Retained) < MaxPending

Unstarted(t) == initiator[t] = Nobody

\* GET /auth/login from browser b.  Nothing is read before the await on the
\* provider metadata, so the critical section is the step.
Login(b, ip, t) ==
    /\ Unstarted(t) /\ HasRoom(ip)
    /\ pending' = [u \in DOMAIN Retained \cup {t} |->
           IF u = t THEN [client |-> ip, age |-> 0] ELSE pending[u]]
    /\ initiator' = [initiator EXCEPT ![t] = b]
    /\ preauth' = [preauth EXCEPT ![b] = @ \cup {t}]
    /\ UNCHANGED <<code, stage, request, takenBy, sessions, cookies, restarts>>

\* 429: the map has been cleaned all the same.
LoginRefused(ip) ==
    /\ ~HasRoom(ip)
    /\ pending' = Retained
    /\ UNCHANGED <<initiator, preauth, code, stage, request, takenBy, sessions, cookies,
                   restarts>>

\* The authorization server has authenticated the user and redirects (external).
IssueCode(t) ==
    /\ ~Unstarted(t) /\ code[t] = "none"
    /\ code' = [code EXCEPT ![t] = "issued"]
    /\ UNCHANGED <<pending, initiator, preauth, stage, request, takenBy, sessions,
                   cookies, restarts>>

-----------------------------------------------------------------------------
(* GET /auth/callback: browser b opens the URL with state s and an answer, *)
(* the code of some transaction or (Nobody) an error.  A URL can be opened *)
(* in any browser and any number of times.                                 *)

Answers == {t \in Transactions : code[t] # "none"} \cup {Nobody}

\* The binding a request presents: the browser's own cookie for s, or
\* nothing (Nobody), or another transaction's secret.
Presented(b, s) == IF s \in preauth[b] THEN {s} ELSE (Transactions \ {s}) \cup {Nobody}

BugAnyBinding(s, presented)  == presented # Nobody
BindingMatches(s, presented) == presented = s

BugTakeKeepsEntry(s)  == Retained
WithoutTransaction(s) == [t \in DOMAIN Retained \ {s} |-> pending[t]]

BugRemovedBeforeCheck(s) == WithoutTransaction(s)
AfterMismatch(s) == Retained

RemovePreauth(b, s) == preauth' = [preauth EXCEPT ![b] = @ \ {s}]

\* 400 before the map is touched: a malformed answer or no cookie.
RejectUnread(c) ==
    /\ stage[c] = "idle"
    /\ stage' = [stage EXCEPT ![c] = "failed"]
    /\ UNCHANGED <<pending, initiator, preauth, code, request, takenBy, sessions, cookies,
                   restarts>>

\* take_bound_transaction; there is no await before it.  An error answer
\* consumes the transaction and ends there.
TakeBound(c, b, s, a, presented) ==
    /\ stage[c] = "idle" /\ presented # Nobody
    /\ request' = [request EXCEPT ![c] = [browser |-> b, state |-> s, answer |-> a]]
    /\ \/ /\ s \in DOMAIN Retained /\ BindingMatches(s, presented)
          /\ pending' = WithoutTransaction(s)
          /\ takenBy' = [takenBy EXCEPT ![s] = @ \cup {c}]
          /\ \/ a = Nobody /\ RemovePreauth(b, s) /\ stage' = [stage EXCEPT ![c] = "failed"]
             \/ a # Nobody /\ UNCHANGED preauth /\ stage' = [stage EXCEPT ![c] = "metadata"]
       \/ /\ s \notin DOMAIN Retained
          /\ pending' = Retained /\ stage' = [stage EXCEPT ![c] = "failed"]
          /\ UNCHANGED <<preauth, takenBy>>
       \/ /\ s \in DOMAIN Retained /\ ~BindingMatches(s, presented)
          /\ pending' = AfterMismatch(s) /\ stage' = [stage EXCEPT ![c] = "failed"]
          /\ UNCHANGED <<preauth, takenBy>>
    /\ UNCHANGED <<initiator, code, sessions, cookies, restarts>>

\* The callback awaits one service after the other.
Advance(c, from, to) ==
    /\ stage[c] = from
    /\ stage' = [stage EXCEPT ![c] = to]
    /\ UNCHANGED <<pending, initiator, request, takenBy, restarts>>

Metadata(c) ==
    /\ Advance(c, "metadata", "exchange")
    /\ UNCHANGED <<preauth, code, sessions, cookies>>

\* The token endpoint redeems a code once; it is not assumed to check PKCE.
ExchangeCode(c) ==
    /\ Advance(c, "exchange", "verify")
    /\ code[request[c].answer] = "issued"
    /\ code' = [code EXCEPT ![request[c].answer] = "redeemed"]
    /\ UNCHANGED <<preauth, sessions, cookies>>

\* The ID token carries the nonce of the transaction its code belongs to.
BugNonceUnchecked(c) == TRUE
NonceMatches(c) == request[c].answer = request[c].state

VerifyIdToken(c) ==
    /\ NonceMatches(c)
    /\ Advance(c, "verify", "userinfo")
    /\ UNCHANGED <<preauth, code, sessions, cookies>>

UserInfo(c) ==
    /\ Advance(c, "userinfo", "put")
    /\ UNCHANGED <<preauth, code, sessions, cookies>>

StoreSession(c) ==
    /\ Advance(c, "put", "respond")
    /\ sessions' = sessions \cup {c}
    /\ UNCHANGED <<preauth, code, cookies>>

Respond(c) ==
    /\ Advance(c, "respond", "established")
    /\ RemovePreauth(request[c].browser, request[c].state)
    /\ cookies' = [cookies EXCEPT ![request[c].browser] = @ \cup {c}]
    /\ UNCHANGED <<code, sessions>>

\* What a service may have done although its caller saw no success: the code
\* is redeemed, the session is stored.
HalfDone(c) ==
    /\ \/ UNCHANGED code
       \/ stage[c] = "exchange" /\ code' = [code EXCEPT ![request[c].answer] = "redeemed"]
    /\ \/ UNCHANGED sessions
       \/ stage[c] = "put" /\ sessions' = sessions \cup {c}

\* Any of the awaits fails: 401, 502 or 503, and the preauth cookie is removed.
CallbackFails(c) ==
    /\ stage[c] \in Working \ {"respond"}
    /\ HalfDone(c)
    /\ stage' = [stage EXCEPT ![c] = "failed"]
    /\ RemovePreauth(request[c].browser, request[c].state)
    /\ UNCHANGED <<pending, initiator, request, takenBy, cookies, restarts>>

\* The browser disconnects and the handler's future is dropped.
DropCallback(c) ==
    /\ stage[c] \in Working
    /\ HalfDone(c)
    /\ stage' = [stage EXCEPT ![c] = "dropped"]
    /\ UNCHANGED <<pending, initiator, preauth, request, takenBy, cookies, restarts>>

\* The process restarts: the map is gone, and every callback under way.
Restart ==
    /\ restarts < MaxRestarts
    /\ restarts' = restarts + 1
    /\ pending' = [t \in {} |-> pending[t]]
    /\ stage' = [c \in Callbacks |-> IF stage[c] \in Working THEN "dropped" ELSE stage[c]]
    /\ UNCHANGED <<initiator, preauth, code, request, takenBy, sessions, cookies>>

Tick ==
    /\ pending' = [t \in DOMAIN pending |->
           IF IsLive(t) THEN [pending[t] EXCEPT !.age = @ + 1] ELSE pending[t]]
    /\ UNCHANGED <<initiator, preauth, code, stage, request, takenBy, sessions, cookies,
                   restarts>>

-----------------------------------------------------------------------------
Init ==
    /\ pending = [t \in {} |-> [client |-> Nobody, age |-> 0]]
    /\ initiator = [t \in Transactions |-> Nobody]
    /\ preauth = [b \in Browsers |-> {}]
    /\ code = [t \in Transactions |-> "none"]
    /\ stage = [c \in Callbacks |-> "idle"]
    /\ request = [c \in Callbacks |-> NoRequest]
    /\ takenBy = [t \in Transactions |-> {}]
    /\ sessions = {}
    /\ cookies = [b \in Browsers |-> {}]
    /\ restarts = 0

Handle(c) ==
    \/ Metadata(c) \/ ExchangeCode(c) \/ VerifyIdToken(c) \/ UserInfo(c)
    \/ StoreSession(c) \/ Respond(c) \/ CallbackFails(c)

Next ==
    \/ \E b \in Browsers, ip \in Clients, t \in Transactions : Login(b, ip, t)
    \/ \E ip \in Clients : LoginRefused(ip)
    \/ \E t \in Transactions : IssueCode(t)
    \/ \E c \in Callbacks, b \in Browsers, s \in Transactions, a \in Answers :
           \E presented \in Presented(b, s) : TakeBound(c, b, s, a, presented)
    \/ \E c \in Callbacks : RejectUnread(c) \/ Handle(c) \/ DropCallback(c)
    \/ Restart
    \/ Tick

Spec == Init /\ [][Next]_vars

-----------------------------------------------------------------------------
TypeOK ==
    /\ DOMAIN pending \subseteq Transactions
    /\ \A t \in DOMAIN pending : pending[t] \in [client : Clients, age : 0..LoginTtl]
    /\ initiator \in [Transactions -> Browsers \cup {Nobody}]
    /\ preauth \in [Browsers -> SUBSET Transactions]
    /\ code \in [Transactions -> {"none", "issued", "redeemed"}]
    /\ stage \in [Callbacks -> {"idle"} \cup Working \cup Ended]
    /\ request \in [Callbacks -> [browser : Browsers \cup {Nobody},
           state : Transactions \cup {Nobody}, answer : Transactions \cup {Nobody}]]
    /\ takenBy \in [Transactions -> SUBSET Callbacks]
    /\ sessions \in SUBSET Callbacks
    /\ cookies \in [Browsers -> SUBSET Callbacks]
    /\ restarts \in 0..MaxRestarts

(* A transaction is consumed by one callback at most, however often and     *)
(* wherever its URL is opened (REQ-OIDC-TXN-005, 006; transaction.rs       *)
(* lines 82-105).                                                          *)
TakenOnce == \A t \in Transactions : Cardinality(takenBy[t]) <= 1

(* A session comes from a callback that took, in the browser that began the *)
(* login, the very transaction its authorization code belongs to           *)
(* (handlers.rs lines 175-243).                                            *)
SessionIsBound ==
    \A c \in sessions :
        /\ c \in takenBy[request[c].state]
        /\ request[c].answer = request[c].state
        /\ request[c].browser = initiator[request[c].state]

(* The map never exceeds its limits (transaction.rs lines 19-20).          *)
WithinLimits ==
    /\ Cardinality(DOMAIN pending) <= MaxPending
    /\ \A ip \in Clients : Cardinality(OfClient(pending, ip)) <= MaxPerClient

(* A live transaction leaves the map only because a callback in the browser *)
(* that began it took it, or with the process: a callback that does not    *)
(* present the binding cannot consume it (REQ-OIDC-TXN-009).               *)
LiveTransactionKept ==
    [][\A t \in DOMAIN pending : IsLive(t) /\ t \notin DOMAIN pending' =>
           \/ restarts' # restarts
           \/ \E c \in takenBy'[t] \ takenBy[t] : request'[c].browser = initiator[t]]_vars

(* A transaction is never consumed after its lifetime (REQ-OIDC-TXN-007),  *)
(* even though expired ones stay in the map until the next retain.         *)
TakenAlive ==
    [][\A t \in Transactions : takenBy'[t] # takenBy[t] => t \in DOMAIN pending /\ IsLive(t)]_vars
=============================================================================
