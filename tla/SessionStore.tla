---------------------------- MODULE SessionStore ----------------------------
(***************************************************************************)
(* The Redis side of one BFF session (src/src/session.rs): the session     *)
(* hash with its time to live and the refresh lock with its lease.  Redis  *)
(* runs one command at a time, so a command is one step; a Lua script is   *)
(* one command.  Every operator below is one command of the store; what    *)
(* the caller is told is Answer(c), taken in the state the command meets.  *)
(*                                                                         *)
(* Tokens are numbered in the order the authorization server issued them;  *)
(* NoToken is an absent refresh token.  Keys and field encodings are       *)
(* abstracted: the module is about one session identifier, so there is one *)
(* session key and one lock key.                                           *)
(***************************************************************************)
EXTENDS Integers

CONSTANTS
    Requests,    \* request handlers; each owns one random refresh owner id
    NoOwner,     \* "the lock key does not exist"
    Lease,       \* REFRESH_LOCK_LEASE: the PX argument of the lock
    SessionTtl   \* the EXPIRE argument given when the session was stored

ASSUME NoOwnerAssumption == NoOwner \notin Requests
ASSUME LeaseAssumption   == Lease \in Nat \ {0}
ASSUME TtlAssumption     == SessionTtl \in Nat \ {0}

VARIABLES
    session,   \* [ttl, at, rt]; the key exists iff ttl > 0
    lock       \* [owner, left]; the key exists iff owner # NoOwner

storeVars == <<session, lock>>

-----------------------------------------------------------------------------
NoToken   == 0
Tokens    == Nat
NoSession == [ttl |-> 0, at |-> NoToken, rt |-> NoToken]
Unlocked  == [owner |-> NoOwner, left |-> 0]

Operations == {"get", "acquire", "update", "invalidate", "release"}

\* A command as it travels to Redis: who sent it and, for an update, the
\* token pair to store.
Commands == [op : Operations, req : Requests, at : Tokens, rt : Tokens]

SessionExists  == session.ttl > 0
LockExists     == lock.owner # NoOwner
IsLockOwner(p) == lock.owner = p

StoreTypeOK ==
    /\ session \in [ttl : 0..SessionTtl, at : Tokens, rt : Tokens]
    /\ lock \in [owner : Requests \cup {NoOwner}, left : 0..Lease]
    /\ LockExists <=> lock.left > 0
    /\ SessionExists \/ session = NoSession

-----------------------------------------------------------------------------
(* What a command answers.                                                 *)

Reply(kind)  == [kind |-> kind, at |-> NoToken, rt |-> NoToken]

RedisGetAnswer ==
    IF SessionExists
    THEN [kind |-> "session", at |-> session.at, rt |-> session.rt]
    ELSE Reply("missing")

\* SET key owner NX PX lease: refused whenever the key exists, whoever owns it.
BugAcquireWithoutNX(p)   == TRUE
CanAcquire(p) == ~LockExists

\* The check both mutation scripts start with.
BugMutationIgnoresOwner(p) == IF SessionExists THEN "applied" ELSE "missing"
BugMutationSkipsExists(p)  == IF IsLockOwner(p) THEN "applied" ELSE "ownershipLost"
OwnedMutation(p) ==
    IF ~IsLockOwner(p) THEN "ownershipLost"
    ELSE IF ~SessionExists THEN "missing" ELSE "applied"

Answer(c) ==
    CASE c.op = "get"        -> RedisGetAnswer
      [] c.op = "acquire"    -> Reply(IF CanAcquire(c.req) THEN "yes" ELSE "no")
      [] c.op = "update"     -> Reply(OwnedMutation(c.req))
      [] c.op = "invalidate" -> Reply(OwnedMutation(c.req))
      [] c.op = "release"    -> Reply(IF IsLockOwner(c.req) THEN "yes" ELSE "no")

-----------------------------------------------------------------------------
(* What a command does.                                                    *)

RedisGet(c) ==
    /\ c.op = "get"
    /\ UNCHANGED storeVars

RedisTryAcquireRefreshLock(c) ==
    /\ c.op = "acquire"
    /\ lock' = IF CanAcquire(c.req) THEN [owner |-> c.req, left |-> Lease]
                                    ELSE lock
    /\ UNCHANGED session

\* HSET leaves the time to live of the key alone.
BugUpdateRenewsTtl(c)    == [ttl |-> SessionTtl, at |-> c.at, rt |-> c.rt]
UpdatedSession(c) == [session EXCEPT !.at = c.at, !.rt = c.rt]

RefreshUpdateScript(c) ==
    /\ c.op = "update"
    /\ session' = IF OwnedMutation(c.req) = "applied" THEN UpdatedSession(c)
                                                      ELSE session
    /\ UNCHANGED lock

RefreshInvalidateScript(c) ==
    /\ c.op = "invalidate"
    /\ session' = IF OwnedMutation(c.req) = "applied" THEN NoSession
                                                      ELSE session
    /\ UNCHANGED lock

\* Compare and delete.
BugReleaseDeletesAnyLock(p) == Unlocked
LockAfterRelease(p) == IF IsLockOwner(p) THEN Unlocked ELSE lock

RefreshLockReleaseScript(c) ==
    /\ c.op = "release"
    /\ lock' = LockAfterRelease(c.req)
    /\ UNCHANGED session

Execute(c) ==
    \/ RedisGet(c)
    \/ RedisTryAcquireRefreshLock(c)
    \/ RefreshUpdateScript(c)
    \/ RefreshInvalidateScript(c)
    \/ RefreshLockReleaseScript(c)

-----------------------------------------------------------------------------
(* One unit of time passes in Redis: keys with no time left are gone.      *)

AgedSession == IF session.ttl > 1 THEN [session EXCEPT !.ttl = @ - 1]
                                  ELSE NoSession
BugLockWithoutLease == lock
AgedLock    == IF lock.left > 1 THEN [lock EXCEPT !.left = @ - 1]
                                ELSE Unlocked

StoreTick ==
    /\ session' = AgedSession
    /\ lock' = AgedLock
=============================================================================
