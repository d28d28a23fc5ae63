------------------------ MODULE RouteRegistryProofs ------------------------
(***************************************************************************)
(* Theorems about route policies and their registry, for any words, any    *)
(* candidates and any number of administrators and readers.                *)
(***************************************************************************)
EXTENDS RouteRegistry, FiniteSetTheorems, FunctionTheorems, TLAPS

-----------------------------------------------------------------------------
(* Templates.                                                              *)

LEMMA ListDomain ==
    ASSUME NEW s, IsList(s)
    PROVE  /\ Len(s) \in Nat
           /\ DOMAIN s = 1..Len(s)
  <1> DEFINE S == {s[i] : i \in DOMAIN s}
  <1>1. s \in Seq(S)
    BY DEF IsList
  <1> HIDE DEF S
  <1> QED
    BY <1>1

(* Each static segment of a valid route is a word.                         *)
LEMMA StaticIsWord ==
    ASSUME NEW r, ValidRoute(r), NEW i \in DOMAIN r.browser, ~IsParameter(r.browser[i])
    PROVE  r.browser[i].text \in Words
  BY DEF ValidRoute, BrowserPathOK, TemplateOK, SegmentOK

(* The word both segments match, if there is one.                          *)
Witness(s, t) ==
    IF ~IsParameter(s) THEN s.text
    ELSE IF ~IsParameter(t) THEN t.text
    ELSE CHOOSE id \in Uuids : TRUE

(* The overlap check of policy.rs lines 481-523 is exact: it reports two   *)
(* valid routes exactly when some path is matched by both.                 *)
THEOREM OverlapIsExact ==
    ASSUME NEW a, NEW b, ValidRoute(a), ValidRoute(b), IsList(a.browser), IsList(b.browser)
    PROVE  BrowserRoutesOverlap(a, b) <=>
               \E path \in [DOMAIN a.browser -> Words] : MatchesPath(a, path) /\ MatchesPath(b, path)
<1>1. /\ Len(a.browser) \in Nat /\ DOMAIN a.browser = 1..Len(a.browser)
      /\ Len(b.browser) \in Nat /\ DOMAIN b.browser = 1..Len(b.browser)
  BY ListDomain
<1>2. ASSUME BrowserRoutesOverlap(a, b)
      PROVE  \E path \in [DOMAIN a.browser -> Words] : MatchesPath(a, path) /\ MatchesPath(b, path)
  <2> DEFINE path == [i \in DOMAIN a.browser |-> Witness(a.browser[i], b.browser[i])]
  <2>1. DOMAIN b.browser = DOMAIN a.browser
    BY <1>1, <1>2 DEF BrowserRoutesOverlap
  <2>2. ASSUME NEW i \in DOMAIN a.browser
        PROVE  /\ path[i] \in Words
               /\ IF IsParameter(a.browser[i]) THEN path[i] \in Uuids
                                               ELSE path[i] = a.browser[i].text
               /\ IF IsParameter(b.browser[i]) THEN path[i] \in Uuids
                                               ELSE path[i] = b.browser[i].text
    <3>1. SegmentsOverlap(a.browser[i], b.browser[i])
      BY <1>2 DEF BrowserRoutesOverlap
    <3>2. path[i] = Witness(a.browser[i], b.browser[i])
      OBVIOUS
    <3>3. CASE ~IsParameter(a.browser[i])
      <4>1. path[i] = a.browser[i].text
        BY <3>2, <3>3 DEF Witness
      <4>2. a.browser[i].text \in Words
        BY <3>3, StaticIsWord
      <4> QED
        BY <3>1, <3>3, <4>1, <4>2 DEF SegmentsOverlap, PathValueMatches
    <3>4. CASE IsParameter(a.browser[i]) /\ ~IsParameter(b.browser[i])
      <4>1. path[i] = b.browser[i].text
        BY <3>2, <3>4 DEF Witness
      <4>2. b.browser[i].text \in Words
        BY <2>1, <3>4, StaticIsWord
      <4> QED
        BY <3>1, <3>4, <4>1, <4>2 DEF SegmentsOverlap, PathValueMatches
    <3>5. CASE IsParameter(a.browser[i]) /\ IsParameter(b.browser[i])
      <4>1. path[i] = CHOOSE id \in Uuids : TRUE
        BY <3>2, <3>5 DEF Witness
      <4>2. path[i] \in Uuids /\ Uuids \subseteq Words
        BY <4>1, WordsAssumption DEF WordsAssumption
      <4> QED
        BY <3>5, <4>2
    <3> QED
      BY <3>3, <3>4, <3>5
  <2>3. path \in [DOMAIN a.browser -> Words]
    BY <2>2
  <2>4. DOMAIN path = DOMAIN a.browser
    OBVIOUS
  <2> HIDE DEF path
  <2>5. MatchesPath(a, path)
    BY <2>2, <2>4 DEF MatchesPath
  <2>6. MatchesPath(b, path)
    BY <2>1, <2>2, <2>4 DEF MatchesPath
  <2> QED
    BY <2>3, <2>5, <2>6
<1>3. ASSUME NEW path \in [DOMAIN a.browser -> Words], MatchesPath(a, path), MatchesPath(b, path)
      PROVE  BrowserRoutesOverlap(a, b)
  <2>1. DOMAIN b.browser = DOMAIN a.browser
    BY <1>3 DEF MatchesPath
  <2>2. Len(a.browser) = Len(b.browser)
    BY <1>1, <2>1
  <2>3. ASSUME NEW i \in DOMAIN a.browser
        PROVE  SegmentsOverlap(a.browser[i], b.browser[i])
    <3>1. /\ IF IsParameter(a.browser[i]) THEN path[i] \in Uuids
                                          ELSE path[i] = a.browser[i].text
          /\ IF IsParameter(b.browser[i]) THEN path[i] \in Uuids
                                          ELSE path[i] = b.browser[i].text
      BY <1>3, <2>1 DEF MatchesPath
    <3> QED
      BY <3>1 DEF SegmentsOverlap, PathValueMatches
  <2> QED
    BY <2>2, <2>3 DEF BrowserRoutesOverlap
<1> QED
  BY <1>2, <1>3

-----------------------------------------------------------------------------
(* Candidates.                                                             *)

LEMMA OverlapIsSymmetric ==
    ASSUME NEW a, NEW b, IsList(a.browser), IsList(b.browser), BrowserRoutesOverlap(a, b)
    PROVE  BrowserRoutesOverlap(b, a)
<1>1. Len(a.browser) = Len(b.browser) /\ DOMAIN b.browser = DOMAIN a.browser
  BY ListDomain DEF BrowserRoutesOverlap
<1>2. \A i \in DOMAIN a.browser : SegmentsOverlap(b.browser[i], a.browser[i])
  BY DEF BrowserRoutesOverlap, SegmentsOverlap
<1> QED
  BY <1>1, <1>2 DEF BrowserRoutesOverlap

(* Whatever order its definitions come in, a candidate that try_new accepts *)
(* (policy.rs lines 161-200) has no two routes with one id and none that    *)
(* share a method and a path.                                               *)
THEOREM AcceptedIsUnambiguous ==
    ASSUME NEW c \in Candidates, TryNew(c) # Rejected
    PROVE  IsUnambiguous(TryNew(c))
<1> DEFINE D == c.definitions
<1>1. DOMAIN D = 1..Len(D) /\ Len(D) \in Nat /\ \A i \in DOMAIN D : IsList(D[i].browser)
  BY CandidatesAssumption, ListDomain DEF CandidatesAssumption
<1>2. \A i \in DOMAIN D : ~RefusedAt(D, i)
  BY DEF TryNew, Refused
<1>3. TryNew(c).routes = {D[i] : i \in DOMAIN D}
  BY DEF TryNew, SnapshotOf
<1> HIDE DEF D
<1>4. ASSUME NEW i \in DOMAIN D, NEW j \in DOMAIN D, j < i
      PROVE  /\ ValidRoute(D[i]) /\ ValidRoute(D[j])
             /\ D[i].id # D[j].id
             /\ SharedMethod(D[j], D[i]) => ~BrowserRoutesOverlap(D[j], D[i])
  <2>1. j \in 1..(i - 1)
    BY <1>1, <1>4
  <2> QED
    BY <1>2, <2>1 DEF RefusedAt
<1>5. ASSUME NEW i \in DOMAIN D, NEW j \in DOMAIN D, i # j
      PROVE  /\ ValidRoute(D[i]) /\ ValidRoute(D[j])
             /\ D[i].id # D[j].id
             /\ SharedMethod(D[i], D[j]) => ~BrowserRoutesOverlap(D[i], D[j])
  <2>1. CASE j < i
    <3>1. SharedMethod(D[i], D[j]) => SharedMethod(D[j], D[i])
      BY DEF SharedMethod
    <3>2. BrowserRoutesOverlap(D[i], D[j]) => BrowserRoutesOverlap(D[j], D[i])
      BY <1>1, OverlapIsSymmetric
    <3> QED
      BY <1>4, <2>1, <3>1, <3>2
  <2>2. CASE i < j
    BY <1>4, <2>2
  <2> QED
    BY <1>1, <1>5, <2>1, <2>2
<1>6. ASSUME NEW a \in TryNew(c).routes, NEW b \in TryNew(c).routes, a # b
      PROVE  /\ a.id # b.id
             /\ SharedMethod(a, b) =>
                    ~ \E path \in [DOMAIN a.browser -> Words] :
                          MatchesPath(a, path) /\ MatchesPath(b, path)
  <2>1. PICK i \in DOMAIN D, j \in DOMAIN D : a = D[i] /\ b = D[j] /\ i # j
    BY <1>3, <1>6
  <2>2. /\ ValidRoute(a) /\ ValidRoute(b) /\ a.id # b.id
        /\ SharedMethod(a, b) => ~BrowserRoutesOverlap(a, b)
    BY <1>5, <2>1
  <2>3. IsList(a.browser) /\ IsList(b.browser)
    BY <1>1, <2>1
  <2> QED
    BY <2>2, <2>3, OverlapIsExact
<1> QED
  BY <1>6 DEF IsUnambiguous

-----------------------------------------------------------------------------
(* The registry.  The inductive invariant is the type invariant together    *)
(* with the fact that an error answers a candidate that was refused.        *)

RegistryInv ==
    /\ TypeOK
    /\ \A a \in Administrators : \A c \in Candidates :
           outcome[a] = Refusal(c) => TryNew(c) = Rejected

LEMMA Results ==
    /\ \A s, c : Activated(s) # Refusal(c)
    /\ \A c, d : Refusal(c) = Refusal(d) => c = d
<1>1. \A s, c : DOMAIN Activated(s) # DOMAIN Refusal(c)
  BY DEF Activated, Refusal
<1>2. \A c : Refusal(c).refused = c
  BY DEF Refusal
<1> QED
  BY <1>1, <1>2

LEMMA ErrorsAreNoResults ==
    /\ \A c : Rejected # SnapshotOf(c)
    /\ \A route, request : Rejected # Resolution(route, request)
<1>1. \A c : "error" \notin DOMAIN SnapshotOf(c)
  BY DEF SnapshotOf
<1>2. \A route, request : "error" \notin DOMAIN Resolution(route, request)
  BY DEF Resolution
<1>3. "error" \in DOMAIN Rejected
  BY DEF Rejected
<1> QED
  BY <1>1, <1>2, <1>3

LEMMA NoneIsNoSnapshot == None \notin Snapshots
  BY NoneAssumption DEF NoneAssumption, Snapshots, TryNew

LEMMA InitRegistryInv == Init => RegistryInv
<1> SUFFICES ASSUME Init PROVE RegistryInv
  OBVIOUS
<1>1. TypeOK
  BY DEF Init, TypeOK
<1>2. \A a \in Administrators, c \in Candidates : outcome[a] # Refusal(c)
  BY NoneAssumption DEF Init, NoneAssumption, Refusal
<1> QED
  BY <1>1, <1>2 DEF RegistryInv

LEMMA NextRegistryInv == RegistryInv /\ [Next]_vars => RegistryInv'
<1> SUFFICES ASSUME RegistryInv, [Next]_vars PROVE RegistryInv'
  OBVIOUS
<1> USE DEF RegistryInv
<1>1. ASSUME NEW a \in Administrators, NEW c \in Candidates, Validate(a, c)
      PROVE  RegistryInv'
  <2>1. TryNew(c) \in Snapshots
    BY <1>1 DEF Validate, Snapshots
  <2>2. TypeOK'
    BY <1>1, <2>1 DEF TypeOK, Validate, readerVars
  <2>3. \A b \in Administrators, d \in Candidates : outcome'[b] = Refusal(d) => TryNew(d) = Rejected
    <3> TAKE b \in Administrators, d \in Candidates
    <3>1. CASE b = a
      BY <1>1, <3>1, NoneAssumption DEF TypeOK, Validate, NoneAssumption, Refusal
    <3>2. CASE b # a
      BY <1>1, <3>2 DEF TypeOK, Validate
    <3> QED
      BY <3>1, <3>2
  <2> QED
    BY <2>2, <2>3
<1>2. ASSUME NEW a \in Administrators, NEW c \in Candidates, Reject(a, c)
      PROVE  RegistryInv'
  <2>1. TypeOK'
    BY <1>2 DEF TypeOK, Reject, readerVars
  <2>2. \A b \in Administrators, d \in Candidates : outcome'[b] = Refusal(d) => TryNew(d) = Rejected
    <3> TAKE b \in Administrators, d \in Candidates
    <3>1. CASE b = a
      <4>1. outcome'[b] = Refusal(c) /\ TryNew(c) = Rejected
        BY <1>2, <3>1 DEF TypeOK, Reject
      <4> QED
        BY <4>1, Results
    <3>2. CASE b # a
      BY <1>2, <3>2 DEF TypeOK, Reject
    <3> QED
      BY <3>1, <3>2
  <2> QED
    BY <2>1, <2>2
<1>3. ASSUME NEW a \in Administrators, Activate(a)
      PROVE  RegistryInv'
  <2>1. candidate[a] \in Snapshots
    BY <1>3 DEF TypeOK, Activate
  <2>2. TypeOK'
    BY <1>3, <2>1 DEF TypeOK, Activate, readerVars
  <2>3. \A b \in Administrators, d \in Candidates : outcome'[b] = Refusal(d) => TryNew(d) = Rejected
    <3> TAKE b \in Administrators, d \in Candidates
    <3>1. CASE b = a
      <4>1. outcome'[b] = Activated(candidate[a])
        BY <1>3, <3>1 DEF TypeOK, Activate
      <4> QED
        BY <4>1, Results
    <3>2. CASE b # a
      BY <1>3, <3>2 DEF TypeOK, Activate
    <3> QED
      BY <3>1, <3>2
  <2> QED
    BY <2>2, <2>3
<1>4. ASSUME NEW r \in Readers, NEW q \in Calls, TakeSnapshot(r, q)
      PROVE  RegistryInv'
  <2>1. active # None /\ q # None
    BY NoneIsNoSnapshot, NoneAssumption DEF NoneAssumption, TypeOK
  <2> QED
    BY <1>4, <2>1 DEF TypeOK, TakeSnapshot, administratorVars
<1>5. ASSUME NEW r \in Readers, ResolveCall(r)
      PROVE  RegistryInv'
  BY <1>5 DEF TypeOK, ResolveCall, administratorVars
<1>6. ASSUME NEW r \in Readers, Return(r)
      PROVE  RegistryInv'
  BY <1>6 DEF TypeOK, Return, administratorVars
<1>7. CASE UNCHANGED vars
  BY <1>7 DEF TypeOK, vars, administratorVars, readerVars
<1> QED
  BY <1>1, <1>2, <1>3, <1>4, <1>5, <1>6, <1>7 DEF Next

THEOREM RegistryInvariant == Spec => []RegistryInv
<1> QED
  BY InitRegistryInv, NextRegistryInv, PTL DEF Spec

(* The registry's type invariant: what is active, about to be activated or  *)
(* being read is always one whole accepted candidate (policy.rs lines       *)
(* 266-299).                                                                *)
THEOREM TypeCorrect == Spec => []TypeOK
<1>1. RegistryInv => TypeOK
  BY DEF RegistryInv
<1> QED
  BY <1>1, RegistryInvariant, PTL

(* REQ-BFF-PROXY-021: no policy anybody uses is ambiguous (policy.rs lines  *)
(* 160-200 and 283-299).                                                    *)
THEOREM NeverAmbiguous == Spec => []Unambiguous
<1>1. RegistryInv => Unambiguous
  <2> SUFFICES ASSUME RegistryInv, NEW s \in InUse PROVE IsUnambiguous(s)
    BY DEF Unambiguous
  <2>1. s \in Snapshots
    BY DEF RegistryInv, TypeOK, InUse
  <2>2. PICK c \in Candidates : s = TryNew(c) /\ TryNew(c) # Rejected
    BY <2>1 DEF Snapshots
  <2> QED
    BY <2>2, AcceptedIsUnambiguous
<1> QED
  BY <1>1, RegistryInvariant, PTL

(* The overlap check refuses no candidate without cause: when nothing else  *)
(* is wrong with it, some path is matched by two of its routes (policy.rs   *)
(* lines 179-190).                                                          *)
THEOREM RefusalsJustified == Spec => []RefusalIsJustified
<1>1. ASSUME RegistryInv PROVE RefusalIsJustified
  <2> SUFFICES ASSUME NEW a \in Administrators, NEW c \in Candidates,
                      outcome[a] = Refusal(c), ~Defective(c)
               PROVE  \E i, j \in DOMAIN c.definitions :
                          /\ i # j /\ SharedMethod(c.definitions[i], c.definitions[j])
                          /\ \E path \in [DOMAIN c.definitions[i].browser -> Words] :
                                 /\ MatchesPath(c.definitions[i], path)
                                 /\ MatchesPath(c.definitions[j], path)
    BY DEF RefusalIsJustified
  <2> DEFINE D == c.definitions
  <2>1. TryNew(c) = Rejected
    BY <1>1 DEF RegistryInv
  <2>2. PICK i \in DOMAIN D : RefusedAt(D, i)
    <3>1. Refused(c)
      BY <2>1, ErrorsAreNoResults DEF TryNew
    <3> QED
      BY <3>1 DEF Refused, Defective
  <2>3. DOMAIN D = 1..Len(D) /\ Len(D) \in Nat /\ \A k \in DOMAIN D : IsList(D[k].browser)
    BY CandidatesAssumption, ListDomain DEF CandidatesAssumption
  <2>4. /\ \A k \in DOMAIN D : ValidRoute(D[k])
        /\ \A k, l \in DOMAIN D : k # l => D[k].id # D[l].id
    BY DEF Defective
  <2> HIDE DEF D
  <2>5. PICK j \in 1..(i - 1) : SharedMethod(D[j], D[i]) /\ BrowserRoutesOverlap(D[j], D[i])
    BY <2>2, <2>3, <2>4 DEF RefusedAt
  <2>6. j \in DOMAIN D /\ j # i
    BY <2>3, <2>5
  <2>7. \E path \in [DOMAIN D[j].browser -> Words] :
            MatchesPath(D[j], path) /\ MatchesPath(D[i], path)
    BY <2>3, <2>4, <2>5, <2>6, OverlapIsExact
  <2> QED
    BY <2>5, <2>6, <2>7 DEF D
<1> QED
  BY <1>1, RegistryInvariant, PTL

-----------------------------------------------------------------------------
(* The register.                                                           *)

(* An activation or a resolution is one step on one register: replacing the *)
(* policy never changes an answer that is under way (policy.rs lines        *)
(* 266-299).                                                                *)
THEOREM Implementation == Spec => ImplementsRegister
<1>1. Init => Register!Init
  <2> SUFFICES ASSUME Init PROVE Register!Init
    OBVIOUS
  <2>1. IsUnambiguous(active)
    BY AcceptedIsUnambiguous DEF Init, Snapshots
  <2> QED
    BY <2>1 DEF Init, Register!Init
<1>2. RegistryInv /\ [Next]_vars => [Register!Next]_Register!vars
  <2> SUFFICES ASSUME RegistryInv, [Next]_vars PROVE [Register!Next]_Register!vars
    OBVIOUS
  <2> USE DEF RegistryInv, TypeOK
  <2>1. ASSUME NEW a \in Administrators, NEW c \in Candidates, Validate(a, c)
        PROVE  UNCHANGED Register!vars
    BY <2>1 DEF Validate, readerVars, Register!vars
  <2>2. ASSUME NEW a \in Administrators, NEW c \in Candidates, Reject(a, c)
        PROVE  UNCHANGED Register!vars
    BY <2>2 DEF Reject, readerVars, Register!vars
  <2>3. ASSUME NEW a \in Administrators, Activate(a)
        PROVE  [Register!Next]_Register!vars
    <3>1. PICK c \in Candidates : active' = TryNew(c) /\ TryNew(c) # Rejected
      BY <2>3 DEF Activate, Snapshots
    <3>2. IsUnambiguous(active')
      BY <3>1, AcceptedIsUnambiguous
    <3>3. snapshot' = snapshot /\ call' = call /\ answer' = answer
      BY <2>3 DEF Activate, readerVars
    <3>4. CASE active' = active
      BY <3>3, <3>4 DEF Register!vars
    <3>5. CASE active' # active
      BY <3>2, <3>3, <3>5 DEF Register!Next, Register!Replace
    <3> QED
      BY <3>4, <3>5
  <2>4. ASSUME NEW r \in Readers, NEW q \in Calls, TakeSnapshot(r, q)
        PROVE  Register!Request(r)
    <3>1. active # None
      BY NoneIsNoSnapshot
    <3> DEFINE Result(x) == IF snapshot[x] = None THEN answer[x]
                                                  ELSE Resolve(snapshot[x], call[x])
               before == [x \in Readers |-> Result(x)]
               after  == [x \in Readers |-> Result(x)']
    <3>2. Result(r) = None /\ Result(r)' = Resolve(active, q)
      BY <2>4, <3>1 DEF TakeSnapshot
    <3>3. \A x \in Readers \ {r} : Result(x)' = Result(x)
      BY <2>4 DEF TakeSnapshot
    <3> HIDE DEF Result
    <3>4. before[r] = None
      BY <3>2
    <3>5. after = [before EXCEPT ![r] = Resolve(active, q)]
      BY <3>2, <3>3
    <3>6. active' = active
      BY <2>4 DEF TakeSnapshot
    <3> QED
      BY <3>4, <3>5, <3>6 DEF Register!Request, Result
  <2>5. ASSUME NEW r \in Readers, ResolveCall(r)
        PROVE  UNCHANGED Register!vars
    BY <2>5 DEF ResolveCall, Answered, Register!vars
  <2>6. ASSUME NEW r \in Readers, Return(r)
        PROVE  Register!Finish(r)
    BY <2>6 DEF Return, Register!Finish
  <2>7. CASE UNCHANGED vars
    BY <2>7 DEF vars, readerVars, Register!vars
  <2> QED
    BY <2>1, <2>2, <2>3, <2>4, <2>5, <2>6, <2>7 DEF Next, Register!Next
<1> QED
  BY <1>1, <1>2, RegistryInvariant, PTL DEF Spec, ImplementsRegister, Register!Spec
-----------------------------------------------------------------------------
(* Resolution and digests of accepted snapshots.                           *)

(* What the next two theorems need of a snapshot in use: its routes are     *)
(* valid, finitely many and told apart by ids that are numbers.             *)
Accepted(s) ==
    /\ IsFiniteSet(s.routes)
    /\ \A route \in s.routes :
           /\ ValidRoute(route) /\ IsList(route.browser) /\ route.id \in Nat
           /\ \A other \in s.routes : other.id = route.id => other = route
    /\ IsList(s.version)
    /\ s = [version |-> s.version, routes |-> s.routes]

LEMMA SnapshotsAreAccepted ==
    ASSUME NEW c \in Candidates, TryNew(c) # Rejected
    PROVE  Accepted(TryNew(c))
<1> DEFINE D == c.definitions
           s == TryNew(c)
<1>1. /\ DOMAIN D = 1..Len(D) /\ Len(D) \in Nat /\ IsList(c.version)
      /\ \A i \in DOMAIN D : /\ IsList(D[i].browser)
                             /\ WellFormed(D[i].id) => D[i].id \in Nat
  BY CandidatesAssumption, ListDomain DEF CandidatesAssumption
<1>2. \A i \in DOMAIN D : ~RefusedAt(D, i)
  BY DEF TryNew, Refused
<1>3. s = [version |-> c.version, routes |-> {D[i] : i \in DOMAIN D}]
  BY DEF TryNew, SnapshotOf
<1> HIDE DEF D, s
<1>4. s.version = c.version /\ s.routes = {D[i] : i \in DOMAIN D}
  BY <1>3
<1>5. IsFiniteSet(s.routes)
  <2>1. IsFiniteSet(DOMAIN D)
    BY <1>1, FS_Interval
  <2> DEFINE f == [i \in DOMAIN D |-> D[i]]
  <2>2. f \in Surjection(DOMAIN D, s.routes)
    <3>1. f \in [DOMAIN D -> s.routes]
      BY <1>4
    <3>2. \A r \in s.routes : \E i \in DOMAIN D : f[i] = r
      BY <1>4
    <3> HIDE DEF f
    <3> QED
      BY <3>1, <3>2, Fun_IsSurj
  <2> QED
    BY <2>1, <2>2, FS_Surjection
<1>6. IsUnambiguous(s)
  BY AcceptedIsUnambiguous DEF s
<1>7. ASSUME NEW route \in s.routes
      PROVE  /\ ValidRoute(route) /\ IsList(route.browser) /\ route.id \in Nat
             /\ \A other \in s.routes : other.id = route.id => other = route
  <2>1. PICK i \in DOMAIN D : route = D[i]
    BY <1>4
  <2>2. ValidRoute(route)
    BY <1>2, <2>1 DEF RefusedAt
  <2>3. IsList(route.browser) /\ route.id \in Nat
    BY <1>1, <2>1, <2>2 DEF ValidRoute
  <2>4. \A other \in s.routes : other.id = route.id => other = route
    BY <1>6 DEF IsUnambiguous
  <2> QED
    BY <2>2, <2>3, <2>4
<1>8. IsList(s.version) /\ s = [version |-> s.version, routes |-> s.routes]
  BY <1>1, <1>3, <1>4
<1> QED
  BY <1>5, <1>7, <1>8 DEF Accepted, s

LEMMA InUseIsAccepted ==
    ASSUME TypeOK, NEW s \in InUse
    PROVE  Accepted(s)
<1>1. s \in Snapshots
  BY DEF TypeOK, InUse
<1>2. PICK c \in Candidates : s = TryNew(c) /\ TryNew(c) # Rejected
  BY <1>1 DEF Snapshots
<1> QED
  BY <1>2, SnapshotsAreAccepted

(* The arguments a path supplies, in the order the caller happens to hand   *)
(* them over: each parameter of the route once, with the path's value.      *)
LEMMA SuppliedArguments ==
    ASSUME NEW route, NEW path, NEW arguments \in Supplied(route, path)
    PROVE  \E order \in [DOMAIN arguments -> ParameterPositions(route)] :
               /\ \A k \in DOMAIN arguments :
                      /\ arguments[k].name = route.browser[order[k]].text
                      /\ arguments[k].value = path[order[k]]
               /\ \A j \in ParameterPositions(route) : \E k \in DOMAIN arguments : order[k] = j
               /\ \A k, l \in DOMAIN arguments : order[k] = order[l] => k = l
<1> DEFINE P == ParameterPositions(route)
           N == 1..Cardinality(P)
           Listed(o) == [k \in DOMAIN o |-> [name |-> route.browser[o[k]].text,
                                             value |-> path[o[k]]]]
<1>1. PICK order \in Bijection(N, P) : arguments = Listed(order)
  BY DEF Supplied
<1> HIDE DEF P, N
<1>2. /\ order \in [N -> P] /\ \A k, l \in N : order[k] = order[l] => k = l
      /\ \A j \in P : \E k \in N : order[k] = j
  BY Fun_BijectionProperties
<1>3. DOMAIN arguments = N
  BY <1>1, <1>2
<1>4. \A k \in N : arguments[k].name = route.browser[order[k]].text /\ arguments[k].value = path[order[k]]
  BY <1>1, <1>2
<1> QED
  BY <1>2, <1>3, <1>4 DEF P

(* There is at least one such order, so that the next theorem speaks of     *)
(* every path a route matches.                                              *)
THEOREM SomethingIsSupplied ==
    ASSUME NEW route, IsList(route.browser), NEW path
    PROVE  Supplied(route, path) # {}
<1> DEFINE P == ParameterPositions(route)
<1>1. IsFiniteSet(P)
  <2>1. Len(route.browser) \in Nat /\ DOMAIN route.browser = 1..Len(route.browser)
    BY ListDomain
  <2>2. P \in SUBSET (1..Len(route.browser))
    BY <2>1 DEF ParameterPositions
  <2>3. IsFiniteSet(1..Len(route.browser))
    BY <2>1, FS_Interval
  <2> QED
    BY <2>2, <2>3, FS_Subset
<1>2. ExistsBijection(1..Cardinality(P), P)
  BY <1>1, FS_CardinalityType
<1> QED
  BY <1>2 DEF Supplied, ExistsBijection
LEMMA ValueOfArgument ==
    ASSUME NEW arguments, NoDuplicates(arguments), NEW k \in DOMAIN arguments
    PROVE  ValueOf(arguments, arguments[k].name) = arguments[k].value
<1> DEFINE i == CHOOSE l \in DOMAIN arguments : arguments[l].name = arguments[k].name
<1>1. i \in DOMAIN arguments /\ arguments[i].name = arguments[k].name
  OBVIOUS
<1>2. i = k
  BY <1>1 DEF NoDuplicates
<1> QED
  BY <1>2 DEF ValueOf

(* The arguments of a path a valid route matches are those its upstream     *)
(* template needs, whatever order they come in.                             *)
LEMMA SuppliedAreAccepted ==
    ASSUME NEW route, ValidRoute(route), NEW path, MatchesPath(route, path),
           NEW arguments \in Supplied(route, path)
    PROVE  /\ NoDuplicates(arguments) /\ PathArgumentsOK(route, arguments)
           /\ \A j \in ParameterPositions(route) :
                  ValueOf(arguments, route.browser[j].text) = path[j]
<1> DEFINE P == ParameterPositions(route)
<1>1. PICK order \in [DOMAIN arguments -> P] :
          /\ \A k \in DOMAIN arguments : /\ arguments[k].name = route.browser[order[k]].text
                                         /\ arguments[k].value = path[order[k]]
          /\ \A j \in P : \E k \in DOMAIN arguments : order[k] = j
          /\ \A k, l \in DOMAIN arguments : order[k] = order[l] => k = l
  BY SuppliedArguments
<1>2. TemplateOK(route.browser, route.params) /\ TemplateOK(route.upstream, route.params)
  BY DEF ValidRoute, BrowserPathOK
<1>3. \A j \in P : /\ j \in DOMAIN route.browser /\ IsParameter(route.browser[j])
                   /\ route.browser[j].text \in route.params /\ path[j] \in Uuids
  BY <1>2 DEF ParameterPositions, TemplateOK, SegmentOK, MatchesPath
<1>4. \A k \in DOMAIN arguments : order[k] \in P
  OBVIOUS
<1>5. NoDuplicates(arguments)
  <2> SUFFICES ASSUME NEW k \in DOMAIN arguments, NEW l \in DOMAIN arguments,
                      arguments[k].name = arguments[l].name
               PROVE  k = l
    BY DEF NoDuplicates
  <2>1. route.browser[order[k]].text = route.browser[order[l]].text
    BY <1>1
  <2>2. order[k] = order[l]
    BY <1>2, <1>3, <1>4, <2>1 DEF TemplateOK
  <2> QED
    BY <1>1, <2>2
<1>6. ASSUME NEW j \in P
      PROVE  /\ route.browser[j].text \in NamesOf(arguments)
             /\ ValueOf(arguments, route.browser[j].text) = path[j]
  <2>1. PICK k \in DOMAIN arguments : order[k] = j
    BY <1>1
  <2>2. arguments[k].name = route.browser[j].text /\ arguments[k].value = path[j]
    BY <1>1, <2>1
  <2> QED
    BY <1>5, <2>2, ValueOfArgument DEF NamesOf
<1>7. NamesOf(arguments) \subseteq route.params
  BY <1>1, <1>3, <1>4 DEF NamesOf
<1>8. ASSUME NEW i \in DOMAIN route.upstream, IsParameter(route.upstream[i])
      PROVE  /\ route.upstream[i].text \in NamesOf(arguments)
             /\ PathValueMatches(ValueOf(arguments, route.upstream[i].text))
  <2>1. route.upstream[i].text \in route.params
    BY <1>2, <1>8 DEF TemplateOK, SegmentOK
  <2>2. PICK j \in DOMAIN route.browser : route.browser[j] = Parameter(route.upstream[i].text)
    BY <1>2, <2>1 DEF TemplateOK
  <2>3. j \in P /\ route.browser[j].text = route.upstream[i].text
    BY <2>2 DEF ParameterPositions, IsParameter, Parameter
  <2> QED
    BY <1>3, <1>6, <2>3 DEF PathValueMatches
<1> QED
  BY <1>5, <1>6, <1>7, <1>8 DEF PathArgumentsOK

(* A request whose path a route matches resolves to that route, and its     *)
(* arguments arrive where they belong, in every policy anybody uses         *)
(* (policy.rs lines 565-625 against 706-742).                               *)
THEOREM PathsResolve == Spec => []MatchedPathsResolve
<1>1. ASSUME TypeOK, NEW s \in InUse, NEW route \in s.routes, NEW path, MatchesPath(route, path),
             NEW method \in route.methods, NEW arguments \in Supplied(route, path),
             NEW q, q = [id |-> route.id, method |-> method, path |-> arguments, query |-> <<>>]
      PROVE  LET result == Resolve(s, q)
             IN  /\ result # Rejected /\ result.route = route.id
                 /\ \A i \in DOMAIN route.upstream, j \in ParameterPositions(route) :
                        route.upstream[i] = route.browser[j] => result.path[i] = path[j]
  <2>1. /\ ValidRoute(route)
        /\ \A other \in s.routes : other.id = route.id => other = route
    BY <1>1, InUseIsAccepted DEF Accepted
  <2>2. /\ NoDuplicates(arguments) /\ PathArgumentsOK(route, arguments)
        /\ \A j \in ParameterPositions(route) :
               ValueOf(arguments, route.browser[j].text) = path[j]
    BY <1>1, <2>1, SuppliedAreAccepted
  <2>3. q.id = route.id /\ q.method = method /\ q.path = arguments /\ q.query = <<>>
    BY <1>1
  <2>4. NoDuplicates(q.query) /\ QueryArgumentsOK(route, q.query)
    BY <2>3 DEF NoDuplicates, QueryArgumentsOK, NamesOf
  <2>5. Admits(route, q)
    BY <1>1, <2>2, <2>3, <2>4 DEF Admits
  <2>6. \A other \in s.routes : Admits(other, q) => other = route
    BY <2>1, <2>3 DEF Admits
  <2>7. Resolve(s, q) = Resolution(route, q)
    BY <2>5, <2>6 DEF Resolve
  <2>8. /\ Resolution(route, q).route = route.id
        /\ Resolution(route, q).path = ResolvedPath(route, arguments)
    BY <2>3 DEF Resolution
  <2>9. ASSUME NEW i \in DOMAIN route.upstream, NEW j \in ParameterPositions(route),
               route.upstream[i] = route.browser[j]
        PROVE  ResolvedPath(route, arguments)[i] = path[j]
    <3>1. IsParameter(route.upstream[i])
      BY <2>9 DEF ParameterPositions
    <3> QED
      BY <2>2, <2>9, <3>1 DEF ResolvedPath
  <2> QED
    BY <2>7, <2>8, <2>9, ErrorsAreNoResults
<1>2. TypeOK => MatchedPathsResolve
  BY <1>1 DEF MatchedPathsResolve
<1> QED
  BY <1>2, TypeCorrect, PTL
(* A finite set of routes told apart by numbers as ids has an order by id:  *)
(* a route comes at the place that counts the ids up to its own.            *)
LEMMA RoutesHaveAnOrder ==
    ASSUME NEW routes, IsFiniteSet(routes), \A r \in routes : r.id \in Nat,
           \A r, t \in routes : r.id = t.id => r = t
    PROVE  \E lines \in Bijection(1..Cardinality(routes), routes) :
               \A i, j \in DOMAIN lines : i < j => lines[i].id < lines[j].id
<1> DEFINE n == Cardinality(routes)
           UpTo(r) == {t \in routes : t.id <= r.id}
           place == [r \in routes |-> Cardinality(UpTo(r))]
<1>1. \A r \in routes : UpTo(r) \in SUBSET routes /\ r \in UpTo(r)
  OBVIOUS
<1>2. ASSUME NEW r \in routes, NEW t \in routes, r.id < t.id
      PROVE  UpTo(r) \in SUBSET UpTo(t) /\ UpTo(r) # UpTo(t)
  <2>1. t \in UpTo(t) /\ t \notin UpTo(r)
    BY <1>2
  <2>2. \A x \in routes : x.id <= r.id => x.id <= t.id
    BY <1>2
  <2> QED
    BY <2>1, <2>2
<1> HIDE DEF UpTo
<1>3. n \in Nat
  BY FS_CardinalityType
<1>4. ASSUME NEW r \in routes
      PROVE  IsFiniteSet(UpTo(r)) /\ Cardinality(UpTo(r)) \in 1..n
  <2>1. IsFiniteSet(UpTo(r)) /\ Cardinality(UpTo(r)) <= n
    BY <1>1, FS_Subset
  <2>2. Cardinality(UpTo(r)) \in Nat
    BY <2>1, FS_CardinalityType
  <2>3. Cardinality(UpTo(r)) # 0
    BY <1>1, <2>1, FS_EmptySet
  <2> QED
    BY <1>3, <2>1, <2>2, <2>3
<1> HIDE DEF n
<1>5. ASSUME NEW r \in routes, NEW t \in routes, r.id < t.id
      PROVE  place[r] < place[t]
  <2>1. /\ IsFiniteSet(UpTo(r)) /\ Cardinality(UpTo(r)) \in Nat
        /\ IsFiniteSet(UpTo(t)) /\ Cardinality(UpTo(t)) \in Nat
    BY <1>3, <1>4
  <2>2. UpTo(r) \in SUBSET UpTo(t) /\ UpTo(r) # UpTo(t)
    BY <1>2, <1>5
  <2>3. Cardinality(UpTo(r)) <= Cardinality(UpTo(t)) /\ Cardinality(UpTo(r)) # Cardinality(UpTo(t))
    BY <2>1, <2>2, FS_Subset
  <2> QED
    BY <2>1, <2>3
<1>6. place \in [routes -> 1..n]
  BY <1>4
<1>7. \A r \in routes : place[r] \in Nat
  BY <1>3, <1>6
<1> HIDE DEF place
<1>8. place \in Bijection(routes, 1..n)
  <2>1. place \in Injection(routes, 1..n)
    <3>1. ASSUME NEW r \in routes, NEW t \in routes, place[r] = place[t]
          PROVE  r = t
      <4>1. ~(r.id < t.id) /\ ~(t.id < r.id)
        BY <1>5, <1>7, <3>1
      <4> QED
        BY <4>1
    <3> QED
      BY <1>6, <3>1, Fun_IsInj
  <2>2. IsFiniteSet(1..n) /\ Cardinality(1..n) = n
    BY <1>3, FS_Interval
  <2>3. place \in Surjection(routes, 1..n)
    BY <2>1, <2>2, FS_Injection DEF n
  <2> QED
    BY <2>1, <2>3, Fun_IsBij
<1> DEFINE lines == Inverse(place, routes, 1..n)
<1>9. lines \in Bijection(1..n, routes) /\ \A r \in routes : lines[place[r]] = r
  BY <1>8, Fun_BijInverse
<1> HIDE DEF lines
<1>10. lines \in [1..n -> routes] /\ DOMAIN lines = 1..n
  BY <1>9, Fun_BijectionProperties
<1>11. ASSUME NEW i \in 1..n, NEW j \in 1..n, i < j
       PROVE  lines[i].id < lines[j].id
  <2>1. PICK r \in routes : place[r] = i
    BY <1>8 DEF Bijection, Surjection
  <2>2. PICK t \in routes : place[t] = j
    BY <1>8 DEF Bijection, Surjection
  <2>3. ~(t.id < r.id) /\ r # t
    BY <1>3, <1>5, <1>11, <2>1, <2>2
  <2>4. lines[i] = r /\ lines[j] = t
    BY <1>9, <2>1, <2>2
  <2> QED
    BY <2>3, <2>4
<1> QED
  BY <1>9, <1>10, <1>11 DEF n

LEMMA LinesOfRoutes ==
    ASSUME NEW routes, IsFiniteSet(routes), \A r \in routes : r.id \in Nat,
           \A r, t \in routes : r.id = t.id => r = t
    PROVE  /\ RouteLines(routes) \in Seq(routes)
           /\ routes = {RouteLines(routes)[i] : i \in DOMAIN RouteLines(routes)}
<1>1. RouteLines(routes) \in Bijection(1..Cardinality(routes), routes)
  BY RoutesHaveAnOrder DEF RouteLines
<1> DEFINE lines == RouteLines(routes)
           n == Cardinality(routes)
<1>2. n \in Nat
  BY FS_CardinalityType
<1> HIDE DEF lines, n
<1>3. lines \in [1..n -> routes] /\ \A r \in routes : \E i \in 1..n : lines[i] = r
  BY <1>1 DEF lines, n, Bijection, Surjection
<1>4. lines \in Seq(routes) /\ DOMAIN lines = 1..n
  BY <1>2, <1>3
<1> QED
  BY <1>3, <1>4 DEF lines

LEMMA SameSequence ==
    ASSUME NEW S, NEW v \in Seq(S), NEW w \in Seq(S), Len(v) = Len(w),
           \A i \in 1..Len(v) : v[i] = w[i]
    PROVE  v = w
<1>1. v \in [1..Len(v) -> S] /\ w \in [1..Len(v) -> S]
  OBVIOUS
<1> QED
  BY <1>1

(* A text whose length comes first can be told from what follows it.        *)
Framed(v, k) == <<Len(v)>> \o v \o k

LEMMA FramedTextIsRead ==
    ASSUME NEW S, NEW v \in Seq(S), NEW w \in Seq(S), NEW k \in Seq(S), NEW l \in Seq(S),
           Nat \subseteq S,
           Framed(v, k) = Framed(w, l)
    PROVE  v = w /\ k = l
<1> DEFINE a == <<Len(v)>> \o v \o k
           b == <<Len(w)>> \o w \o l
<1>1. /\ Len(v) \in Nat /\ Len(w) \in Nat /\ Len(k) \in Nat /\ Len(l) \in Nat
      /\ <<Len(v)>> \in Seq(S) /\ <<Len(w)>> \in Seq(S)
  OBVIOUS
<1>2. /\ a[1] = Len(v) /\ Len(a) = 1 + Len(v) + Len(k)
      /\ \A i \in 1..Len(v) : a[1 + i] = v[i]
      /\ \A i \in 1..Len(k) : a[1 + Len(v) + i] = k[i]
  BY <1>1
<1>3. /\ b[1] = Len(w) /\ Len(b) = 1 + Len(w) + Len(l)
      /\ \A i \in 1..Len(w) : b[1 + i] = w[i]
      /\ \A i \in 1..Len(l) : b[1 + Len(w) + i] = l[i]
  BY <1>1
<1>4. a = b
  BY DEF Framed
<1> HIDE DEF a, b
<1>5. Len(v) = Len(w) /\ Len(k) = Len(l)
  BY <1>1, <1>2, <1>3, <1>4
<1>6. \A i \in 1..Len(v) : v[i] = w[i]
  BY <1>2, <1>3, <1>4, <1>5
<1>7. \A i \in 1..Len(k) : k[i] = l[i]
  BY <1>2, <1>3, <1>4, <1>5
<1> QED
  BY <1>5, <1>6, <1>7, SameSequence

(* Snapshots with one digest are one policy (REQ-BFF-PROXY-025; policy.rs   *)
(* lines 817-890): the length says where the version ends, and the routes   *)
(* have only one order.                                                     *)
THEOREM DigestsNamePolicies == Spec => []DigestNamesPolicy
<1>1. ASSUME TypeOK, NEW s \in InUse, NEW t \in InUse, Digest(s) = Digest(t)
      PROVE  s = t
  <2>1. Accepted(s) /\ Accepted(t)
    BY <1>1, InUseIsAccepted
  <2> DEFINE Texts(x) == {x.version[i] : i \in DOMAIN x.version}
             S == Nat \cup Texts(s) \cup Texts(t) \cup s.routes \cup t.routes
             k == RouteLines(s.routes)
             l == RouteLines(t.routes)
  <2>2. s.version \in Seq(Texts(s)) /\ t.version \in Seq(Texts(t))
    BY <2>1 DEF Accepted, IsList
  <2>3. /\ k \in Seq(s.routes) /\ s.routes = {k[i] : i \in DOMAIN k}
        /\ l \in Seq(t.routes) /\ t.routes = {l[i] : i \in DOMAIN l}
    <3>1. /\ IsFiniteSet(s.routes) /\ \A x \in s.routes : x.id \in Nat
          /\ \A x, y \in s.routes : x.id = y.id => x = y
      BY <2>1 DEF Accepted
    <3>2. /\ IsFiniteSet(t.routes) /\ \A x \in t.routes : x.id \in Nat
          /\ \A x, y \in t.routes : x.id = y.id => x = y
      BY <2>1 DEF Accepted
    <3> QED
      BY <3>1, <3>2, LinesOfRoutes
  <2> DEFINE v == s.version
             w == t.version
  <2>4. Framed(v, k) = Framed(w, l)
    BY <1>1 DEF Digest, Framed
  <2> HIDE DEF k, l, Texts
  <2>5. v \in Seq(S) /\ w \in Seq(S) /\ k \in Seq(S) /\ l \in Seq(S) /\ Nat \subseteq S
    BY <2>2, <2>3
  <2> HIDE DEF S, v, w
  <2>6. v = w /\ k = l
    BY <2>4, <2>5, FramedTextIsRead
  <2>7. s.routes = t.routes
    BY <2>3, <2>6
  <2> QED
    BY <2>1, <2>6, <2>7 DEF Accepted, v, w
<1>2. TypeOK => DigestNamesPolicy
  BY <1>1 DEF DigestNamesPolicy
<1> QED
  BY <1>2, TypeCorrect, PTL
=============================================================================
