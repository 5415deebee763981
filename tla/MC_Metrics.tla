----------------------------- MODULE MC_Metrics -----------------------------
EXTENDS MetricQueries

Filter(m) == [name |-> "job", match |-> m, value |-> "api"]
Args(op, expr, step, filters) ==
    [op |-> op, expr |-> expr, step |-> step, filters |-> filters]

MCMetricArgs ==
    {Args("instant", e, "empty", <<>>) : e \in {"name", "deep", "costly", "empty"}}
    \cup {Args("range", "closed", s, <<>>) : s \in {"1m", "empty"}}
    \cup {Args("instant", "name", "empty", << Filter(m), Nothing >>) :
             m \in {"EXACT", "NOT_EQUAL", "REGEX", "NOT_REGEX"}}
    \cup {Args("range", e, "1m",
               << Filter("REGEX"), [name |-> "code", match |-> "NOT_EQUAL", value |-> v] >>) :
             e \in {"name", "binary", "closed"}, v \in {"500", "}"}}

Response(t, series) == [http |-> "ok", type |-> t, series |-> series]
Line(points) == [labels |-> {"job"}, points |-> points]
MCResponses ==
    {[http |-> h, type |-> "none", series |-> <<>>] :
        h \in {"bad_status", "garbage"}}
    \cup {Response("vector", s) : s \in {<<>>, << Line(<<"num">>), Line(<<"special">>) >>,
                                         << Line(<<"num">>), Line(<<"num">>), Line(<<"bad">>) >>}}
    \cup {Response("matrix", s) : s \in {<< Line(<<"num", "special">>) >>,
                                         << Line(<<"num", "bad">>), Line(<<"num">>) >>}}
    \cup {Response("scalar", << [labels |-> {}, points |-> <<"special">>] >>),
          Response("string", << [labels |-> {}, points |-> <<"num">>] >>),
          Response("other", << [labels |-> {}, points |-> <<>>] >>)}
=============================================================================
