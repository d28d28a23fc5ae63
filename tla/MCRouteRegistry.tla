--------------------------- MODULE MCRouteRegistry ---------------------------
(* Candidates for the two runs of RouteRegistry: every pair of short       *)
(* templates, one candidate for each way to be refused, versions that hold *)
(* the lines of a route, and a small set for the concurrent run.           *)
EXTENDS RouteRegistry

CONSTANTS w, u, u2, dot, n, m, v, Here, There

MCSizeOf == [word \in {w, u, u2, dot} |-> IF word \in {u, u2} THEN 2 ELSE 1]

NamesIn(template) == {template[i].text : i \in {k \in DOMAIN template : IsParameter(template[k])}}

Route(id, methods, browser) ==
    [id |-> id, methods |-> methods, browser |-> browser,
     params |-> NamesIn(browser),
     upstream |-> SelectSeq(browser, IsParameter) \o <<Static(w)>>,
     query |-> [name \in {n} |-> AsciiToken(1)], origin |-> Here, redirects |-> FALSE,
     requestHeaders |-> {}, responseHeaders |-> {}]

Candidate(version, definitions) == [version |-> version, definitions |-> definitions]

Segments  == {Static(w), Static(u), Parameter(n)}
Templates == {<<s>> : s \in Segments} \cup {<<s, t>> : s, t \in Segments}

Pairs ==
    {Candidate(<<v>>, <<Route(1, {"GET"}, s), Route(2, {"GET", "HEAD"}, t)>>) : s, t \in Templates}
    \cup {Candidate(<<v>>, <<Route(1, {"GET"}, s), Route(2, {"HEAD"}, s)>>) : s \in Templates}

Plain == Route(1, {"GET"}, <<Static(w)>>)
Other == Route(2, {"GET"}, <<Parameter(n), Static(w)>>)
Spare == Route(3, {"HEAD"}, <<Parameter(n), Parameter(m)>>)

\* One route, valid but for what is changed.
Variants ==
    {[Other EXCEPT !.id = Malformed],
     [Other EXCEPT !.methods = {}],
     [Other EXCEPT !.methods = {"GET", "POST"}],
     [Other EXCEPT !.browser = <<>>],
     [Other EXCEPT !.browser = <<Static(w)>>],
     [Other EXCEPT !.browser = <<Parameter(n), Static(dot)>>],
     [Other EXCEPT !.browser = <<Parameter(n), Parameter(m)>>],
     [Other EXCEPT !.upstream = <<>>],
     [Other EXCEPT !.upstream = <<Parameter(n), Static(Malformed)>>],
     [Other EXCEPT !.params = {n, m}],
     [Other EXCEPT !.origin = Malformed],
     [Other EXCEPT !.redirects = TRUE],
     [Other EXCEPT !.query = [name \in {n} |-> AsciiToken(0)]],
     [Other EXCEPT !.query = [name \in {Malformed} |-> AnyUuid]],
     [Other EXCEPT !.requestHeaders = {Forbidden}],
     [Other EXCEPT !.responseHeaders = {Forbidden}]}

\* Some of these would be one text if the length of the version were left out.
Framing ==
    {Candidate(<<v>>, <<Plain, Other>>), Candidate(<<v, Plain>>, <<Other>>),
     Candidate(<<v, Plain, Other>>, <<>>), Candidate(<<v>>, <<Spare, Other>>),
     Candidate(<<v>>, <<Other, Plain, Spare>>)}

MCManyCandidates ==
    Pairs \cup Framing \cup {Candidate(<<v>>, <<variant>>) : variant \in Variants}
    \cup {Candidate(<<>>, <<Plain>>), Candidate(<<v>>, <<Plain, Plain>>)}

MCFewCandidates ==
    {Candidate(<<v>>, <<Plain, Other>>),
     Candidate(<<v>>, <<[Plain EXCEPT !.origin = There]>>),
     Candidate(<<>>, <<Plain>>)}

Call(id, path, query) == [id |-> id, method |-> "GET", path |-> path, query |-> query]
Argument(name, value) == [name |-> name, value |-> value]

MCCalls ==
    {Call(1, <<>>, <<Argument(n, w)>>),
     Call(2, <<Argument(n, u)>>, <<>>),
     Call(2, <<Argument(n, w)>>, <<>>),
     Call(1, <<>>, <<Argument(n, u)>>),
     Call(2, <<Argument(n, u), Argument(n, u)>>, <<>>)}
=============================================================================
