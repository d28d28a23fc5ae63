--------------------------- MODULE RouteRegistry ---------------------------
(***************************************************************************)
(* ResourceRoutePolicyRegistry (src/src/proxy/policy.rs): administrators   *)
(* replace the active snapshot while readers resolve requests.             *)
(*                                                                         *)
(* A candidate is validated before the write lock is taken; a reader       *)
(* copies the pointer to the active snapshot under the read lock and       *)
(* resolves without it.  Each lock is held for one read or one write, so   *)
(* taking it is one step.                                                  *)
(***************************************************************************)
EXTENDS RoutePolicy, FiniteSets, Functions

CONSTANTS
    Administrators,
    Readers,
    Candidates,   \* [version, definitions] that may be submitted
    Calls,        \* [id, method, path, query] that may be resolved
    None          \* no snapshot, no call, no answer yet

ASSUME NoneAssumption ==
    /\ None # Rejected /\ None \notin Calls
    /\ \A c \in Candidates : None \notin {SnapshotOf(c), [refused |-> c]}

ASSUME CandidatesAssumption ==
    \A c \in Candidates :
        /\ IsList(c.version) /\ IsList(c.definitions)
        /\ \A i \in DOMAIN c.definitions :
               /\ IsList(c.definitions[i].browser)
               /\ WellFormed(c.definitions[i].id) => c.definitions[i].id \in Nat

VARIABLES
    active,      \* the active snapshot
    candidate,   \* a validated snapshot each administrator is about to activate
    outcome,     \* what activate_candidate returned to it
    snapshot,    \* the snapshot each reader has taken
    call,        \* the call it resolves
    answer       \* what resolve returned to it

administratorVars == <<candidate, outcome>>
readerVars        == <<snapshot, call, answer>>
vars              == <<active, administratorVars, readerVars>>

-----------------------------------------------------------------------------
(* policy_digest, before hashing.  The version is free text and may        *)
(* contain the lines of routes; the lines of a route are one piece.  The   *)
(* routes are a BTreeMap: their lines come in the order of their ids, which *)
(* are numbered in that order.                                             *)

RouteLines(routes) ==
    CHOOSE lines \in Bijection(1..Cardinality(routes), routes) :
        \A i, j \in DOMAIN lines : i < j => lines[i].id < lines[j].id

BugVersionNotFramed(s) == s.version \o RouteLines(s.routes)
Digest(s) == <<Len(s.version)>> \o s.version \o RouteLines(s.routes)

-----------------------------------------------------------------------------
(* activate_candidate.                                                     *)

Validate(a, c) ==
    /\ candidate[a] = None
    /\ TryNew(c) # Rejected
    /\ candidate' = [candidate EXCEPT ![a] = TryNew(c)]
    /\ outcome' = [outcome EXCEPT ![a] = None]
    /\ UNCHANGED <<active, readerVars>>

\* The error says what in the candidate is at fault.
Refusal(c) == [refused |-> c]

BugRefusalLeavesVersion(a, c) ==
    /\ candidate[a] = None
    /\ TryNew(c) = Rejected
    /\ active' = [active EXCEPT !.version = c.version]
    /\ outcome' = [outcome EXCEPT ![a] = Refusal(c)]
    /\ UNCHANGED <<candidate, readerVars>>
Reject(a, c) ==
    /\ candidate[a] = None
    /\ TryNew(c) = Rejected
    /\ outcome' = [outcome EXCEPT ![a] = Refusal(c)]
    /\ UNCHANGED <<active, candidate, readerVars>>

Activated(s) == [digest |-> Digest(s)]

Activate(a) ==
    /\ candidate[a] # None
    /\ active' = candidate[a]
    /\ candidate' = [candidate EXCEPT ![a] = None]
    /\ outcome' = [outcome EXCEPT ![a] = Activated(candidate[a])]
    /\ UNCHANGED readerVars

-----------------------------------------------------------------------------
(* resolve.                                                                *)

TakeSnapshot(r, q) ==
    /\ snapshot[r] = None /\ answer[r] = None
    /\ snapshot' = [snapshot EXCEPT ![r] = active]
    /\ call' = [call EXCEPT ![r] = q]
    /\ UNCHANGED <<active, administratorVars, answer>>

BugResolvesAnew(r) == Resolve(active, call[r])
Answered(r) == Resolve(snapshot[r], call[r])

ResolveCall(r) ==
    /\ snapshot[r] # None
    /\ answer' = [answer EXCEPT ![r] = Answered(r)]
    /\ snapshot' = [snapshot EXCEPT ![r] = None]
    /\ call' = [call EXCEPT ![r] = None]
    /\ UNCHANGED <<active, administratorVars>>

\* The caller has used the answer.
Return(r) ==
    /\ answer[r] # None
    /\ answer' = [answer EXCEPT ![r] = None]
    /\ UNCHANGED <<active, administratorVars, snapshot, call>>

-----------------------------------------------------------------------------
Snapshots == {TryNew(c) : c \in Candidates} \ {Rejected}

Init ==
    /\ active \in Snapshots
    /\ candidate = [a \in Administrators |-> None]
    /\ outcome = [a \in Administrators |-> None]
    /\ snapshot = [r \in Readers |-> None]
    /\ call = [r \in Readers |-> None]
    /\ answer = [r \in Readers |-> None]

Next ==
    \/ \E a \in Administrators :
           \/ \E c \in Candidates : Validate(a, c) \/ Reject(a, c)
           \/ Activate(a)
    \/ \E r \in Readers :
           \/ \E q \in Calls : TakeSnapshot(r, q)
           \/ ResolveCall(r)
           \/ Return(r)

Spec == Init /\ [][Next]_vars

-----------------------------------------------------------------------------
(* Snapshots somebody may still use.                                       *)
InUse ==
    ({active} \cup {candidate[a] : a \in Administrators} \cup {snapshot[r] : r \in Readers})
        \ {None}

(* No request path is matched by two routes of a snapshot in use           *)
(* (REQ-BFF-PROXY-021; policy.rs lines 179-190, 481-530).                   *)
Unambiguous == \A s \in InUse : IsUnambiguous(s)

\* The arguments a browser path supplies to the parameters of a route, in
\* any order: the caller hands them over as an iterator.
ParameterPositions(route) == {i \in DOMAIN route.browser : IsParameter(route.browser[i])}

Supplied(route, path) ==
    LET positions == ParameterPositions(route) IN
    {[k \in DOMAIN order |-> [name |-> route.browser[order[k]].text, value |-> path[order[k]]]] :
        order \in Bijection(1..Cardinality(positions), positions)}

(* A path that matches a route's browser template can be resolved, in      *)
(* whatever order its arguments come: they are what the upstream template  *)
(* needs, and each arrives where its parameter stands                      *)
(* (policy.rs lines 565-625 against 706-742).                              *)
MatchedPathsResolve ==
    \A s \in InUse : \A route \in s.routes : \A path \in [DOMAIN route.browser -> Words] :
        MatchesPath(route, path) =>
            \A method \in route.methods, arguments \in Supplied(route, path) :
                LET result == Resolve(s, [id |-> route.id, method |-> method,
                                          path |-> arguments, query |-> <<>>])
                IN  /\ result # Rejected /\ result.route = route.id
                    /\ \A i \in DOMAIN route.upstream, j \in ParameterPositions(route) :
                           route.upstream[i] = route.browser[j] => result.path[i] = path[j]

(* Two snapshots with the same digest are the same policy, whatever text   *)
(* the version contains (REQ-BFF-PROXY-025; policy.rs lines 817-890).      *)
DigestNamesPolicy == \A s, t \in InUse : Digest(s) = Digest(t) => s = t

\* A reason to refuse a candidate that does not speak of templates.
Defective(c) ==
    \/ c.version = <<>>
    \/ \E i \in DOMAIN c.definitions : ~ValidRoute(c.definitions[i])
    \/ \E i, j \in DOMAIN c.definitions : i # j /\ c.definitions[i].id = c.definitions[j].id

(* Only real ambiguity is refused as ambiguity: when every definition of a *)
(* refused candidate is valid and the ids differ, some path is matched by  *)
(* two of them with a method they share (policy.rs lines 179-190, 481-530). *)
RefusalIsJustified ==
    \A a \in Administrators, c \in Candidates : outcome[a] = Refusal(c) /\ ~Defective(c) =>
        \E i, j \in DOMAIN c.definitions :
            /\ i # j /\ SharedMethod(c.definitions[i], c.definitions[j])
            /\ \E path \in [DOMAIN c.definitions[i].browser -> Words] :
                   MatchesPath(c.definitions[i], path) /\ MatchesPath(c.definitions[j], path)

(* The type invariant: every snapshot in use is an accepted candidate's,   *)
(* whole, and a reader at work has a snapshot, a call and no answer yet     *)
(* (policy.rs lines 266-299).                                               *)
TypeOK ==
    /\ active \in Snapshots
    /\ candidate \in [Administrators -> Snapshots \cup {None}]
    /\ outcome \in [Administrators ->
           {Activated(s) : s \in Snapshots} \cup {Refusal(c) : c \in Candidates} \cup {None}]
    /\ snapshot \in [Readers -> Snapshots \cup {None}]
    /\ call \in [Readers -> Calls \cup {None}]
    /\ DOMAIN answer = Readers
    /\ \A r \in Readers : /\ snapshot[r] = None <=> call[r] = None
                          /\ snapshot[r] # None => answer[r] = None

(* Replacements and resolutions behave as if each were one step on one     *)
(* register: the answer is fixed when the snapshot is taken.               *)
Register == INSTANCE PolicyRegister WITH
    Unanswered <- None,
    IsSound <- IsUnambiguous,
    policy <- active,
    answer <- [r \in Readers |->
                  IF snapshot[r] = None THEN answer[r] ELSE Resolve(snapshot[r], call[r])]
ImplementsRegister == Register!Spec
=============================================================================
