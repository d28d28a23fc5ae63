--------------------------- MODULE RedisSession ----------------------------
(***************************************************************************)
(* The SessionStore of a running BFF (src/src/session.rs), for one session *)
(* identifier, field by field: the session's Redis hash with its time to   *)
(* live, the lock key with its lease, and the call of each store function  *)
(* from its arguments to its decoded answer.  (What concurrent callers do  *)
(* with late answers is in TokenRefresh; here a call is one step.)         *)
(***************************************************************************)
EXTENDS SessionRecord, Integers

CONSTANTS
    Owners,        \* refresh owner ids
    Inputs,        \* sessions that callers store
    SessionTtl,    \* RTP_BFF_SESSION_TTL_SECONDS
    MaxTtl,        \* i64::MAX
    ExpireLimit,   \* seconds EXPIRE takes at most: i64::MAX milliseconds
    Lease

\* What from_env accepts.
Configurable == 1..MaxTtl

\* An assumption about the provider: its tokens, subject and email are not empty.
\* The callback stores what it is given (handlers.rs:274-296).
ASSUME InputsAssumption == Inputs \subseteq {s \in Sessions : Canonical(s)}
ASSUME TimesAssumption ==
    /\ MaxTtl \in Nat /\ ExpireLimit \in 1..MaxTtl /\ Lease \in Nat \ {0}
    /\ SessionTtl \in Configurable
ASSUME OwnersAssumption ==
    None \notin Owners \cup [session : Sessions, age : Nat] \cup [owner : Owners, left : Nat]

NoExpiry == -1      \* TTL of a key that does not expire

VARIABLES
    hash,     \* fields of rtp:bff:session:<id>; None if there is no such key
    ttl,      \* its time to live
    owner,    \* value of rtp:bff:refresh-lock:<id>; None if there is no such key
    left,     \* its time to live
    answer    \* what the last call returned

vars == <<hash, ttl, owner, left, answer>>

-----------------------------------------------------------------------------
\* An answer; only a read brings a session.
Reply(kind) == [kind |-> kind, session |-> None]

Init == hash = None /\ ttl = 0 /\ owner = None /\ left = 0 /\ answer = Reply("none")

\* MULTI; HSET; EXPIRE; EXEC.  HSET leaves a time to live alone, and what has
\* run stays done when Redis rejects EXPIRE: the call fails with the hash stored.
BugPutWithoutExpire(s) ==
    /\ hash' = Encode(s)
    /\ ttl' = IF hash = None THEN NoExpiry ELSE ttl
    /\ answer' = Reply("stored")
    /\ UNCHANGED <<owner, left>>
RedisPut(s) ==
    /\ hash' = Encode(s)
    /\ \/ /\ SessionTtl <= ExpireLimit
          /\ ttl' = SessionTtl /\ answer' = Reply("stored")
       \/ /\ SessionTtl > ExpireLimit
          /\ ttl' = (IF hash = None THEN NoExpiry ELSE ttl) /\ answer' = Reply("error")
    /\ UNCHANGED <<owner, left>>

RedisGet == /\ answer' = IF Decode(hash) = None THEN Reply("missing")
               ELSE [kind |-> "session", session |-> Decode(hash)]
            /\ UNCHANGED <<hash, ttl, owner, left>>

\* SET key owner NX PX lease.
RedisTryAcquireRefreshLock(o) ==
    /\ IF owner = None
         THEN owner' = o /\ left' = Lease /\ answer' = Reply("acquired")
         ELSE answer' = Reply("refused") /\ UNCHANGED <<owner, left>>
    /\ UNCHANGED <<hash, ttl>>

RedisReleaseRefreshLock(o) ==
    /\ IF owner = o
         THEN owner' = None /\ left' = 0 /\ answer' = Reply("released")
         ELSE answer' = Reply("notOwned") /\ UNCHANGED <<owner, left>>
    /\ UNCHANGED <<hash, ttl>>

\* The two mutation scripts return -1, 0 or 1, in this order.
ScriptResult(o) == IF owner # o THEN "OwnershipLost"
                   ELSE IF hash = None THEN "SessionMissing" ELSE "Applied"

RedisUpdateAfterRefresh(o, s) ==
    /\ answer' = Reply(ScriptResult(o))
    /\ hash' = IF ScriptResult(o) = "Applied" THEN Overwrite(hash, s) ELSE hash
    /\ UNCHANGED <<ttl, owner, left>>

RedisInvalidateForRefresh(o) ==
    /\ answer' = Reply(ScriptResult(o))
    /\ IF ScriptResult(o) = "Applied" THEN hash' = None /\ ttl' = 0
                                      ELSE UNCHANGED <<hash, ttl>>
    /\ UNCHANGED <<owner, left>>

\* Redis refused the command, or was not reached.
Fail == answer' = Reply("error") /\ UNCHANGED <<hash, ttl, owner, left>>

Tick ==
    /\ IF ttl = NoExpiry THEN UNCHANGED <<hash, ttl>>
       ELSE IF ttl > 1 THEN ttl' = ttl - 1 /\ UNCHANGED hash
       ELSE ttl' = 0 /\ hash' = None
    /\ IF left > 1 THEN left' = left - 1 /\ UNCHANGED owner
                   ELSE left' = 0 /\ owner' = None
    /\ UNCHANGED answer

Next == \/ RedisGet \/ Fail \/ Tick
        \/ \E s \in Inputs : RedisPut(s)
        \/ \E o \in Owners :
              \/ RedisTryAcquireRefreshLock(o) \/ RedisReleaseRefreshLock(o)
              \/ RedisInvalidateForRefresh(o)
              \/ \E s \in Inputs : RedisUpdateAfterRefresh(o, s)

Spec == Init /\ [][Next]_vars

-----------------------------------------------------------------------------
(* Properties. *)

\* The hash is absent or complete, and what is read back is a session
\* (session.rs:463-502, 514-582).
TypeOK ==
    /\ hash \in Hashes \cup {None} /\ ttl \in -1..SessionTtl
    /\ owner \in Owners \cup {None} /\ left \in 0..Lease
    /\ hash = None <=> ttl = 0
    /\ owner = None <=> left = 0
    /\ hash # None => Decode(hash) \in {s \in Sessions : Canonical(s)}

\* Every session record expires (bff-authenticated-session-requirements.md:54);
\* redis_put sets the expiry in one transaction with the fields
\* (session.rs:475-501).
EveryRecordExpires == hash # None => ttl \in 1..SessionTtl

\* The store that runs is the store the tests run against: to its callers the
\* commands, the encodings and the expiries of Redis behave as the in-memory
\* double does (session.rs:257-433 and 446-689).
Memory == INSTANCE MemorySession WITH
    stored <- IF hash = None THEN None
              ELSE [session |-> Decode(hash), age |-> SessionTtl - ttl],
    locked <- IF owner = None THEN None ELSE [owner |-> owner, left |-> left]
BehavesAsTestStore == Memory!Spec
=============================================================================
