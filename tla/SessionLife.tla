---------------------------- MODULE SessionLife ----------------------------
(***************************************************************************)
(* The life of one session from the callback that creates it: how the life *)
(* time of an access token becomes an expiry in whole seconds and a later  *)
(* decision to serve or to refresh the token (src/src/oidc/refresh.rs,     *)
(* access_token_expiry in src/src/session.rs), and how long Redis keeps    *)
(* the session, the browser its cookie, and the session check answers 204  *)
(* (src/src/oidc/handlers.rs).                                             *)
(*                                                                         *)
(* Time is counted in ticks, Sub of them a second, so that what the code   *)
(* rounds to seconds is rounded here.  A Redis command takes effect when   *)
(* its answer arrives, and the lock has no lease: late commands and lost   *)
(* ownership are the subject of TokenRefresh.                              *)
(***************************************************************************)
EXTENDS Naturals

CONSTANTS
    Requests,
    Lifetimes,      \* expires_in of token responses, in seconds, or None
    None,
    Sub,            \* ticks per second
    Skew,           \* ACCESS_TOKEN_REFRESH_SKEW, seconds
    SessionTtl,     \* RTP_BFF_SESSION_TTL_SECONDS
    HttpBound,      \* OIDC_REQUEST_TIMEOUT, ticks
    VerifyBound,    \* bound: ticks until a callback has verified the ID token and
                    \* asked for user info, a refresh of the metadata included
    DiscoveryBound, \* bound: ticks until a request has the provider's metadata,
                    \* the queue for its cache included
    RedisBound,     \* REDIS_RESPONSE_TIMEOUT, ticks
    WaitBound,      \* REFRESH_WAIT_TIMEOUT, ticks
    DeliveryBound,  \* bound: ticks until the browser has the callback's response
    MaxSystemTime,  \* largest second of a SystemTime
    MaxU64,         \* u64::MAX
    Horizon         \* bound: ticks the model runs

ASSUME NoneAssumption == None \notin Nat \cup Requests
ASSUME LifetimesAssumption == Lifetimes \subseteq Nat \cup {None}
ASSUME TimesAssumption ==
    /\ {Sub, SessionTtl} \subseteq Nat \ {0}
    /\ {Skew, HttpBound, VerifyBound, DiscoveryBound, RedisBound, WaitBound,
        DeliveryBound, Horizon} \subseteq Nat
    /\ MaxSystemTime \in 0..MaxU64 /\ MaxU64 \in Nat
\* The refresh window exceeds what an expiry may be wrong by: 30 > 15 + 2 + 2.
ASSUME WindowAssumption == Skew * Sub > HttpBound + RedisBound + 2 * Sub
\* The session ends before the last second a SystemTime can hold.
ASSUME HorizonAssumption ==
    2 * Sub <= Horizon /\ Horizon + SessionTtl * Sub + HttpBound <= MaxSystemTime * Sub

VARIABLES
    clock,     \* ticks since the Unix epoch
    session,   \* [token, expires_at, refreshable, ttl] in Redis, or None
    lock,      \* the request that owns the refresh, or None
    cookie,    \* ticks the browser keeps the session cookie
    login,     \* the callback: [stage, token, expires_at, refreshable, left]
    request,   \* each request: [stage, began, token,
               \* expires_at, left, answer]
    ended      \* ghost: "no", or why the stored session is gone

vars == <<clock, session, lock, cookie, login, request, ended>>

-----------------------------------------------------------------------------
(* Tokens and their expiry.  The recorded expiry 0 stands for none, as it  *)
(* does in the session's hash.                                             *)

Second(ticks) == ticks \div Sub
Issued(lifetime) == [issued |-> clock, lifetime |-> lifetime]
Death(token) == token.issued + token.lifetime * Sub
\* A token without a lifetime dies too, at a time that only the provider knows.
MayBeDead(token) == token.lifetime = None \/ clock >= Death(token)

\* access_token_expiry, by the wall clock.
AccessTokenExpiry(lifetime) ==
    IF lifetime = None THEN 0
    ELSE IF Second(clock) + lifetime > MaxSystemTime THEN 0 ELSE Second(clock) + lifetime

RefreshedExpiry(now, lifetime) ==
    IF lifetime = None THEN 0
    ELSE IF now + lifetime > MaxU64 THEN 0 ELSE now + lifetime

\* The wall-clock second when the request began, plus whole seconds since.
EffectiveNow(began) == Second(began) + Second(clock - began)

BugWindowAfterExpiry(s, now) == s.expires_at = 0 \/ s.expires_at + Skew > now
SufficientlyValid(s, now) ==
    s.expires_at = 0 \/ s.expires_at > (IF now + Skew > MaxU64 THEN MaxU64 ELSE now + Skew)

-----------------------------------------------------------------------------
Idle == [stage |-> "idle", began |-> 0, token |-> None, expires_at |-> 0,
         left |-> 0, answer |-> "none"]

Init ==
    /\ clock \in Sub..(2 * Sub - 1)
    /\ session = None /\ lock = None /\ cookie = 0 /\ ended = "no"
    /\ login = [stage |-> "code", token |-> None, expires_at |-> 0,
                refreshable |-> FALSE, left |-> 0]
    /\ request = [r \in Requests |-> Idle]

(* The callback. *)

LoginGoes(stage, left) == login' = [login EXCEPT !.stage = stage, !.left = left]
LoginEnds(stage, left) == login' = [login EXCEPT !.stage = stage, !.left = left,
                                                 !.token = None, !.expires_at = 0]

\* The token endpoint issues the first tokens; the response is under way.
LoginIssue(lifetime, refreshable) ==
    /\ login.stage = "code"
    /\ login' = [login EXCEPT !.stage = "response", !.left = HttpBound,
                              !.token = Issued(lifetime), !.refreshable = refreshable]
    /\ UNCHANGED <<clock, session, lock, cookie, request, ended>>

\* The expiry is taken before the ID token is verified and user info asked for.
LoginResponse ==
    /\ login.stage = "response"
    /\ login' = [login EXCEPT !.stage = "verify", !.left = VerifyBound,
                              !.expires_at = AccessTokenExpiry(login.token.lifetime)]
    /\ UNCHANGED <<clock, session, lock, cookie, request, ended>>

LoginVerified ==
    /\ login.stage = "verify"
    /\ LoginGoes("put", RedisBound)
    /\ UNCHANGED <<clock, session, lock, cookie, request, ended>>

LoginPut ==
    /\ login.stage = "put"
    /\ session' = [token |-> login.token, expires_at |-> login.expires_at,
                   refreshable |-> login.refreshable, ttl |-> SessionTtl * Sub]
    /\ \/ LoginEnds("deliver", DeliveryBound)
       \/ LoginEnds("failed", 0)                 \* the answer is lost: 503
    /\ UNCHANGED <<clock, lock, cookie, request, ended>>

\* The browser receives 204 with the cookie of build_session_cookie.
LoginDelivered ==
    /\ login.stage = "deliver"
    /\ cookie' = SessionTtl * Sub
    /\ LoginGoes("done", 0)
    /\ UNCHANGED <<clock, session, lock, request, ended>>

BugCookieAnyway ==
    /\ login.stage \in {"code", "response", "verify", "put", "deliver"}
    /\ IF login.stage = "put" THEN LoginEnds("deliver", DeliveryBound)
                              ELSE LoginEnds("failed", 0)
    /\ UNCHANGED <<clock, session, lock, cookie, request, ended>>
\* An await fails, or the browser has gone.
LoginFails ==
    /\ login.stage \in {"code", "response", "verify", "put", "deliver"}
    /\ LoginEnds("failed", 0)
    /\ UNCHANGED <<clock, session, lock, cookie, request, ended>>

(* Requests of the browser that presents the cookie. *)

Goes(r, stage, left) ==
    request' = [request EXCEPT ![r].stage = stage, ![r].left = left]

\* The request ends with an answer, and with the token if it is "Ready".
Ends(r, answer, token) ==
    request' = [request EXCEPT ![r] = [Idle EXCEPT !.stage = "done", !.answer = answer,
                                                   !.token = token]]

Begin(r) ==
    /\ request[r].stage \in {"idle", "done"} /\ cookie > 0
    /\ \E stage \in {"check", "read"} :
          request' = [request EXCEPT ![r] = [Idle EXCEPT !.stage = stage,
                                               !.began = clock, !.left = RedisBound]]
    /\ UNCHANGED <<clock, session, lock, cookie, login, ended>>

\* check_session; without a cookie it answers 401 at once (not a request here).
CheckSession(r) ==
    /\ request[r].stage = "check"
    /\ Ends(r, IF session = None THEN "401" ELSE "204", None)
    /\ UNCHANGED <<clock, session, lock, cookie, login, ended>>

\* What resolve_access_token_at makes of the session it reads: an answer, or
\* else it goes on to refresh.
Resolution(r) ==
    IF session = None THEN "Reauthenticate"
    ELSE IF SufficientlyValid(session, EffectiveNow(request[r].began)) THEN "Ready"
    ELSE IF ~session.refreshable THEN "Reauthenticate" ELSE "refresh"
Token(answer) == IF answer = "Ready" THEN session.token ELSE None

Read(r) ==
    /\ request[r].stage = "read"
    /\ LET answer == Resolution(r) IN
       IF answer = "refresh" THEN Goes(r, "discover", DiscoveryBound)
                             ELSE Ends(r, answer, Token(answer))
    /\ UNCHANGED <<clock, session, lock, cookie, login, ended>>

Discovered(r) ==
    /\ request[r].stage = "discover"
    /\ Goes(r, "wait", WaitBound)
    /\ UNCHANGED <<clock, session, lock, cookie, login, ended>>

Acquire(r) ==
    /\ request[r].stage = "wait" /\ lock = None
    /\ lock' = r
    /\ Goes(r, "reread", RedisBound)
    /\ UNCHANGED <<clock, session, cookie, login, ended>>

\* The lock is refused; after a delay the session is read again.
Poll(r) ==
    /\ request[r].stage = "wait" /\ lock # None
    /\ LET answer == Resolution(r) IN
         answer # "refresh" /\ Ends(r, answer, Token(answer))
    /\ UNCHANGED <<clock, session, lock, cookie, login, ended>>

\* A result of the owner's work is returned when the lock is released.
Releasing(r, answer, token) ==
    request' = [request EXCEPT ![r].stage = "release", ![r].left = RedisBound,
                               ![r].answer = answer, ![r].token = token]

BugSkipRecheck(r) ==
    /\ request[r].stage = "reread"
    /\ IF session = None THEN Releasing(r, "Reauthenticate", None)
                         ELSE Goes(r, "exchange", HttpBound)
    /\ UNCHANGED <<clock, session, lock, cookie, login, ended>>
Reread(r) ==
    /\ request[r].stage = "reread"
    /\ LET answer == Resolution(r) IN
       IF answer = "refresh" THEN Goes(r, "exchange", HttpBound)
                             ELSE Releasing(r, answer, Token(answer))
    /\ UNCHANGED <<clock, session, lock, cookie, login, ended>>

Issue(r, lifetime) ==
    /\ request[r].stage = "exchange"
    /\ request' = [request EXCEPT ![r].stage = "exchanged", ![r].token = Issued(lifetime)]
    /\ UNCHANGED <<clock, session, lock, cookie, login, ended>>

\* The response arrives and its expiry is taken; the update is under way.
Exchanged(r) ==
    /\ request[r].stage = "exchanged"
    /\ request' = [request EXCEPT ![r].stage = "update", ![r].left = RedisBound,
         ![r].expires_at = RefreshedExpiry(EffectiveNow(request[r].began),
                                       request[r].token.lifetime)]
    /\ UNCHANGED <<clock, session, lock, cookie, login, ended>>

BugUpdatedWithoutExpiry(s, token, expires_at) == [s EXCEPT !.token = token, !.expires_at = 0]
BugUpdatedRenewsTtl(s, token, expires_at) ==
    [s EXCEPT !.token = token, !.expires_at = expires_at, !.ttl = SessionTtl * Sub]
UpdatedSession(s, token, expires_at) ==
    [s EXCEPT !.token = token, !.expires_at = expires_at]

Update(r) ==
    /\ request[r].stage = "update"
    /\ IF session = None
         THEN Releasing(r, "Reauthenticate", None) /\ UNCHANGED session
         ELSE /\ session' = UpdatedSession(session, request[r].token,
                                         request[r].expires_at)
              /\ Releasing(r, "Ready", request[r].token)
    /\ UNCHANGED <<clock, lock, cookie, login, ended>>

\* invalid_grant: the owner deletes the session.
Rejected(r) ==
    /\ request[r].stage = "exchange"
    /\ session' = None
    /\ ended' = IF session = None THEN ended ELSE "rejected"
    /\ Releasing(r, "Reauthenticate", None)
    /\ UNCHANGED <<clock, lock, cookie, login>>

Released(r) ==
    /\ request[r].stage = "release"
    /\ lock' = None
    /\ Ends(r, request[r].answer, request[r].token)
    /\ UNCHANGED <<clock, session, cookie, login, ended>>

BugFailsKeepsLock(r) ==
    /\ request[r].stage \notin {"idle", "done"}
    /\ Ends(r, IF request[r].stage = "check" THEN "503" ELSE "Unavailable", None)
    /\ UNCHANGED <<clock, session, lock, cookie, login, ended>>
\* An await fails or its time is up; an owner releases its lock.
Fails(r) ==
    /\ request[r].stage \notin {"idle", "done"}
    /\ IF lock = r THEN lock' = None ELSE UNCHANGED lock
    /\ Ends(r, IF request[r].stage = "check" THEN "503" ELSE "Unavailable", None)
    /\ UNCHANGED <<clock, session, cookie, login, ended>>

(* Time. *)

MayTick == /\ clock < Horizon
           /\ login.stage \in {"done", "failed"} \/ login.left > 0
           /\ \A r \in Requests : request[r].stage \in {"idle", "done"} \/ request[r].left > 0

OneLess(n) == IF n = 0 THEN 0 ELSE n - 1

Tick ==
    /\ MayTick
    /\ clock' = clock + 1
    /\ session' = IF session = None THEN None
                  ELSE IF session.ttl = 1 THEN None ELSE [session EXCEPT !.ttl = @ - 1]
    /\ ended' = IF session # None /\ session' = None THEN "expired" ELSE ended
    /\ cookie' = OneLess(cookie)
    /\ login' = [login EXCEPT !.left = OneLess(@)]
    /\ request' = [r \in Requests |-> IF request[r].stage = "done" THEN Idle
                                   ELSE [request[r] EXCEPT !.left = OneLess(@)]]
    /\ UNCHANGED lock

Next ==
    \/ Tick \/ LoginResponse \/ LoginVerified \/ LoginPut \/ LoginDelivered \/ LoginFails
    \/ \E lifetime \in Lifetimes, refreshable \in BOOLEAN : LoginIssue(lifetime, refreshable)
    \/ \E r \in Requests :
          \/ Begin(r) \/ CheckSession(r) \/ Read(r) \/ Discovered(r) \/ Acquire(r)
          \/ Poll(r) \/ Reread(r) \/ Exchanged(r) \/ Update(r) \/ Rejected(r)
          \/ Released(r) \/ Fails(r)
          \/ \E lifetime \in Lifetimes : Issue(r, lifetime)

Spec == Init /\ [][Next]_vars

-----------------------------------------------------------------------------
(* Properties. *)

Tokens == [issued : 0..Horizon, lifetime : Lifetimes]
Sessions == [token : Tokens, expires_at : 0..MaxU64, refreshable : BOOLEAN,
             ttl : 1..(SessionTtl * Sub)]
Owning == {"reread", "exchange", "exchanged", "update", "release"}
ASSUME SessionsAssumption == None \notin Sessions

\* Types; the lock is owned by the request in its critical section, and no
\* session is kept beyond the lifetime it was given (refresh.rs:236-262,
\* session.rs:495-498).
TypeOK ==
    /\ clock \in 0..Horizon
    /\ session \in Sessions \cup {None}
    /\ cookie \in 0..(SessionTtl * Sub)
    /\ login.token \in Tokens \cup {None} /\ login.expires_at \in 0..MaxU64
    /\ \A r \in Requests : /\ request[r].token \in Tokens \cup {None}
                           /\ request[r].expires_at \in 0..MaxU64
                           /\ lock = r <=> request[r].stage \in Owning
    /\ lock \in Requests \cup {None}
    /\ ended \in {"no", "expired", "rejected"}

Returns(r, answer) ==
    /\ request[r].stage # "done" /\ request'[r].stage = "done"
    /\ request'[r].answer = answer
Due(token) == token.lifetime # None /\ Death(token) <= clock + (Skew + 2) * Sub

\* No session that holds the token lasts longer, whether the login stored it or
\* a refresh: the lifetime of a session begins when the login stores it.
EndOfSessions(token) ==
    token.issued + HttpBound + VerifyBound + RedisBound + SessionTtl * Sub

\* A token that resolve_access_token returns is alive, although its recorded
\* expiry may be late by the token response and by two roundings, and the
\* release of the lock still follows the check: the refresh window of 30
\* seconds makes up for all of them (refresh.rs:20, 364-397).  Two kinds of
\* token are excepted: one just issued for less time than its own delivery may
\* take; and one without a lifetime, which may be dead whenever it is served,
\* but is served for no longer than a session can last from its issue and the
\* lock takes to be released.
ReadyIsAlive ==
    [][\A r \in Requests : Returns(r, "Ready") =>
          LET token == request'[r].token IN
          \/ ~MayBeDead(token)
          \/ /\ token.lifetime = None
             /\ clock <= EndOfSessions(token) + RedisBound
          \/ /\ token.lifetime # None /\ token.issued >= request[r].began
             /\ token.lifetime * Sub <= HttpBound + 2 * RedisBound]_vars

\* A refresh token is spent only when the access token is within the window,
\* or two seconds (the roundings) before it: however long a request waited for
\* discovery and the lock, and whatever another request has just refreshed
\* (refresh.rs:278-282, 317-323).
RefreshedOnlyWhenDue ==
    [][\A r \in Requests :
          request[r].stage = "reread" /\ request'[r].stage = "exchange" =>
             session # None /\ Due(session.token)]_vars

\* A token without a recorded expiry is served for as long as the session
\* exists.  If its expiry overflowed, the session ends before the token does; if
\* it came without a lifetime, the session still ends within its own lifetime
\* from the token's issue, give or take the login: it is not served for ever,
\* though nothing says that it lives as long (refresh.rs:365-369, 374-376,
\* session.rs:495-498, 727-733).
NoExpiryIsHarmless ==
    session # None /\ session.expires_at = 0 =>
        IF session.token.lifetime = None
          THEN clock + session.ttl <= EndOfSessions(session.token)
          ELSE Death(session.token) > clock + session.ttl

\* A browser that received its cookie can present it for as long as the session
\* exists, refreshed or not; it never loses a session that still lives
\* (session.rs:495-498, 716-723).
CookieOutlivesSession ==
    login.stage = "done" /\ session # None => cookie >= session.ttl

\* A browser with a session cookie is told to log in only when its session has
\* expired or its refresh was rejected, or, without a refresh token, when its
\* access token is due (handlers.rs:50-54, 298-315, refresh.rs:90-102).
NoFalseLogout ==
    [][\A r \in Requests :
          /\ Returns(r, "401") => ended # "no"
          /\ Returns(r, "Reauthenticate") =>
                ended # "no" \/ (~login.refreshable /\ Due(session.token))]_vars
=============================================================================
