--------------------------- MODULE MemorySession ---------------------------
(***************************************************************************)
(* The in-memory SessionStore that the repository's tests run against      *)
(* (the cfg(test) half of src/src/session.rs), for one session identifier: *)
(* what a session store promises its callers.                              *)
(***************************************************************************)
EXTENDS Naturals

CONSTANTS
    Owners,      \* refresh owner ids
    Inputs,      \* sessions the callers store
    None,
    SessionTtl,  \* SessionStore.ttl
    Lease        \* the lease callers ask for

VARIABLES
    stored,   \* StoredTestSession: [session, age], or None
    locked,   \* StoredTestRefreshLock: [owner, left], or None
    answer    \* what the last call returned

memVars == <<stored, locked, answer>>

Owned(o) == locked # None /\ locked.owner = o

\* An answer; only a read brings a session.
Reply(kind) == [kind |-> kind, session |-> None]

Init == stored = None /\ locked = None /\ answer = Reply("none")

Put(s) == /\ stored' = [session |-> s, age |-> 0]
          /\ answer' = Reply("stored")
          /\ UNCHANGED locked

Get == /\ answer' = IF stored = None THEN Reply("missing")
                               ELSE [kind |-> "session", session |-> stored.session]
       /\ UNCHANGED <<stored, locked>>

TryAcquireRefreshLock(o) ==
    /\ locked' = IF locked = None THEN [owner |-> o, left |-> Lease] ELSE locked
    /\ answer' = Reply(IF locked = None THEN "acquired" ELSE "refused")
    /\ UNCHANGED stored

ReleaseRefreshLock(o) ==
    /\ locked' = IF Owned(o) THEN None ELSE locked
    /\ answer' = Reply(IF Owned(o) THEN "released" ELSE "notOwned")
    /\ UNCHANGED stored

Mutation(o) == IF ~Owned(o) THEN "OwnershipLost"
               ELSE IF stored = None THEN "SessionMissing" ELSE "Applied"

\* `session' with the token fields of `refreshed'.
WithTokens(session, refreshed) ==
    [access_token   |-> refreshed.access_token,
     refresh_token  |-> refreshed.refresh_token,
     expires_at     |-> refreshed.expires_at,
     issuer         |-> session.issuer,
     subject        |-> session.subject,
     email          |-> session.email,
     email_verified |-> session.email_verified]

UpdateAfterRefresh(o, s) ==
    /\ answer' = Reply(Mutation(o))
    /\ stored' = IF Mutation(o) # "Applied" THEN stored
                 ELSE [session |-> WithTokens(stored.session, s), age |-> stored.age]
    /\ UNCHANGED locked

InvalidateForRefresh(o) ==
    /\ answer' = Reply(Mutation(o))
    /\ stored' = IF Mutation(o) = "Applied" THEN None ELSE stored
    /\ UNCHANGED locked

\* The fail_* switches: a call fails and has done nothing.
Fail == answer' = Reply("error") /\ UNCHANGED <<stored, locked>>

\* retain_live_test_state: what every call does first, as time passes.
Tick ==
    /\ stored' = IF stored # None /\ stored.age + 1 < SessionTtl
                   THEN [session |-> stored.session, age |-> stored.age + 1] ELSE None
    /\ locked' = IF locked # None /\ locked.left > 1
                   THEN [owner |-> locked.owner, left |-> locked.left - 1] ELSE None
    /\ UNCHANGED answer

Next == \/ Get \/ Fail \/ Tick
        \/ \E s \in Inputs : Put(s)
        \/ \E o \in Owners :
              \/ TryAcquireRefreshLock(o) \/ ReleaseRefreshLock(o)
              \/ InvalidateForRefresh(o)
              \/ \E s \in Inputs : UpdateAfterRefresh(o, s)

Spec == Init /\ [][Next]_memVars
=============================================================================
