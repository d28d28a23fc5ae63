---------------------------- MODULE RoutePolicy ----------------------------
(***************************************************************************)
(* Resource route policies (src/src/proxy/policy.rs): which candidates     *)
(* become a snapshot, what a snapshot resolves a request to, and the       *)
(* digest that names it.                                                   *)
(*                                                                         *)
(* Text is abstracted to what the code tells apart.  Malformed stands for  *)
(* any text a lexical check refuses: an identifier, parameter or header    *)
(* name, host, path segment or value with a byte it may not have, too long *)
(* or empty.  Lists the code turns into ordered sets are sets.             *)
(***************************************************************************)
EXTENDS Naturals, Sequences

CONSTANTS
    Words,        \* path segments and values of parameters
    Uuids,        \* those that are canonical UUIDs
    DotSegments,  \* "." and ".."
    SizeOf,       \* the length of each word, for AsciiToken
    Malformed,
    Forbidden     \* any header no route may forward

ASSUME WordsAssumption ==
    /\ Uuids \subseteq Words /\ Uuids # {}
    /\ DotSegments \subseteq Words \ Uuids
    /\ Malformed \notin Words
    /\ SizeOf \in [Words -> Nat]

WellFormed(text) == text # Malformed

\* Err(RoutePolicyError), whichever.
Rejected == [error |-> "RoutePolicyError"]

IsList(s) == s \in Seq({s[i] : i \in DOMAIN s})

-----------------------------------------------------------------------------
(* Templates.  The only path constraint is Uuid, so the constraint map of  *)
(* a route is the set of its parameter names.                              *)

Static(word)    == [kind |-> "static", text |-> word]
Parameter(name) == [kind |-> "parameter", text |-> name]
IsParameter(segment) == segment.kind = "parameter"

PathValueMatches(value) == value \in Uuids

\* parse_path_template.  The path "/" is the empty template.
SegmentOK(segment, params) ==
    /\ WellFormed(segment.text)
    /\ IF IsParameter(segment) THEN segment.text \in params
                               ELSE segment.text \in Words \ DotSegments

BugUnusedParameterAllowed(template, params) ==
    /\ \A i \in DOMAIN template : SegmentOK(template[i], params)
    /\ \A i, j \in DOMAIN template :
           /\ IsParameter(template[i]) /\ IsParameter(template[j])
           /\ template[i].text = template[j].text
           => i = j
TemplateOK(template, params) ==
    /\ \A i \in DOMAIN template : SegmentOK(template[i], params)
    /\ \A i, j \in DOMAIN template :
           /\ IsParameter(template[i]) /\ IsParameter(template[j])
           /\ template[i].text = template[j].text
           => i = j
    /\ \A name \in params : \E i \in DOMAIN template : template[i] = Parameter(name)

BrowserPathOK(template, params) == template # <<>> /\ TemplateOK(template, params)

-----------------------------------------------------------------------------
(* validate_route.  A query constraint is the maximal length of an         *)
(* AsciiToken, or AnyUuid.                                                 *)

AnyUuid == [uuid |-> TRUE]
AsciiToken(max) == [uuid |-> FALSE, max |-> max]

QueryOK(query) ==
    \A name \in DOMAIN query : WellFormed(name) /\ query[name] # AsciiToken(0)

HeadersOK(headers) == \A header \in headers : WellFormed(header) /\ header # Forbidden

\* An origin that is not https, or has port 0, counts as malformed.
ValidRoute(r) ==
    /\ WellFormed(r.id)
    /\ r.methods # {} /\ r.methods \subseteq {"GET", "HEAD"}
    /\ BrowserPathOK(r.browser, r.params)
    /\ WellFormed(r.origin)
    /\ ~r.redirects
    /\ TemplateOK(r.upstream, r.params)
    /\ QueryOK(r.query)
    /\ HeadersOK(r.requestHeaders) /\ HeadersOK(r.responseHeaders)

-----------------------------------------------------------------------------
(* RoutePolicySnapshot::try_new.                                           *)

BugStaticNeverMeetsParameter(s, t) == s.kind = t.kind /\ (IsParameter(s) \/ s.text = t.text)
BugStaticAlwaysMeetsParameter(s, t) == s.kind = t.kind => IsParameter(s) \/ s.text = t.text
SegmentsOverlap(s, t) ==
    CASE ~IsParameter(s) /\ ~IsParameter(t) -> s.text = t.text
      [] ~IsParameter(s) /\ IsParameter(t)  -> PathValueMatches(s.text)
      [] IsParameter(s) /\ ~IsParameter(t)  -> PathValueMatches(t.text)
      [] OTHER -> TRUE

BrowserRoutesOverlap(a, b) ==
    /\ Len(a.browser) = Len(b.browser)
    /\ \A i \in DOMAIN a.browser : SegmentsOverlap(a.browser[i], b.browser[i])

SharedMethod(a, b) == a.methods \cap b.methods # {}

\* Definitions are taken in order, each against those taken before it.
RefusedAt(definitions, i) ==
    \/ ~ValidRoute(definitions[i])
    \/ \E j \in 1..(i - 1) :
           LET earlier == definitions[j] IN
           \/ earlier.id = definitions[i].id
           \/ /\ SharedMethod(earlier, definitions[i])
              /\ BrowserRoutesOverlap(earlier, definitions[i])

\* A version is a sequence of pieces of text; with none it is blank.
Refused(candidate) ==
    \/ candidate.version = <<>>
    \/ \E i \in DOMAIN candidate.definitions : RefusedAt(candidate.definitions, i)

SnapshotOf(candidate) ==
    [version |-> candidate.version,
     routes  |-> {candidate.definitions[i] : i \in DOMAIN candidate.definitions}]

TryNew(candidate) == IF Refused(candidate) THEN Rejected ELSE SnapshotOf(candidate)

-----------------------------------------------------------------------------
(* RoutePolicySnapshot::resolve.  Arguments are sequences of [name, value]. *)

NamesOf(arguments) == {arguments[i].name : i \in DOMAIN arguments}

\* collect_unique_parameters
NoDuplicates(arguments) ==
    \A i, j \in DOMAIN arguments : arguments[i].name = arguments[j].name => i = j

ValueOf(arguments, name) ==
    arguments[CHOOSE i \in DOMAIN arguments : arguments[i].name = name].value

PathArgumentsOK(route, arguments) ==
    /\ NamesOf(arguments) \subseteq route.params
    /\ \A i \in DOMAIN route.upstream : IsParameter(route.upstream[i]) =>
           /\ route.upstream[i].text \in NamesOf(arguments)
           /\ PathValueMatches(ValueOf(arguments, route.upstream[i].text))

ResolvedPath(route, arguments) ==
    [i \in DOMAIN route.upstream |->
        IF IsParameter(route.upstream[i]) THEN ValueOf(arguments, route.upstream[i].text)
                                          ELSE route.upstream[i].text]

QueryValueMatches(constraint, value) ==
    IF constraint.uuid THEN value \in Uuids
    ELSE value \in Words /\ SizeOf[value] \in 1..constraint.max

QueryArgumentsOK(route, arguments) ==
    \A name \in NamesOf(arguments) :
        name \in DOMAIN route.query /\ QueryValueMatches(route.query[name], ValueOf(arguments, name))

Resolution(route, call) ==
    [route  |-> route.id, method |-> call.method, origin |-> route.origin,
     path   |-> ResolvedPath(route, call.path),
     query  |-> [name \in NamesOf(call.query) |-> ValueOf(call.query, name)],
     requestHeaders |-> route.requestHeaders, responseHeaders |-> route.responseHeaders]

\* The route with the id of the call, if it admits the call.
Admits(route, call) ==
    /\ route.id = call.id
    /\ call.method \in route.methods
    /\ NoDuplicates(call.path) /\ PathArgumentsOK(route, call.path)
    /\ NoDuplicates(call.query) /\ QueryArgumentsOK(route, call.query)

Resolve(snapshot, call) ==
    IF \E route \in snapshot.routes : Admits(route, call)
    THEN Resolution(CHOOSE route \in snapshot.routes : Admits(route, call), call)
    ELSE Rejected

-----------------------------------------------------------------------------
(* What templates mean: which paths a browser may request by a route.      *)

MatchesPath(route, path) ==
    /\ DOMAIN path = DOMAIN route.browser
    /\ \A i \in DOMAIN path :
           IF IsParameter(route.browser[i]) THEN path[i] \in Uuids
                                            ELSE path[i] = route.browser[i].text

\* No request is matched by two routes of the snapshot.
IsUnambiguous(snapshot) ==
    \A a, b \in snapshot.routes : a # b =>
        /\ a.id # b.id
        /\ SharedMethod(a, b) =>
               ~ \E path \in [DOMAIN a.browser -> Words] : MatchesPath(a, path) /\ MatchesPath(b, path)
=============================================================================
