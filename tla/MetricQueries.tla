--------------------------- MODULE MetricQueries ----------------------------
(***************************************************************************)
(* The Prometheus adapter, internal/adapter/prometheus, under the          *)
(* prometheusInstant and prometheusRange resolvers, health checks and the  *)
(* manager's Connect.  Calls run concurrently.  Each of them is one HTTP   *)
(* round trip that InstrumentedTransport counts until its body is closed.  *)
(* Connect keeps the adapter's mutex during its round trip.                *)
(*                                                                         *)
(* A response holds series, each with its labels and its points; a point   *)
(* is a number ("num"), NaN or an infinity ("special"), or something that  *)
(* cannot be parsed ("bad").  An expression is one metric name ("name"),   *)
(* has several selectors and ends in a name ("binary"), or ends in a       *)
(* bracket or a range ("closed"); or it is refused.                        *)
(***************************************************************************)
EXTENDS Integers, Sequences, SequencesExt, FiniteSets

CONSTANTS
    Calls,           \* goroutines that use the adapter
    MetricArgs,      \* queries the clients ask
    Responses,       \* what Prometheus can answer
    MaxDataPoints,   \* max_data_points
    Unsafe,          \* label values with a special character of PromQL
    Nothing

\* A label filter of the client, as the schema has it, and one series.
LabelFilters ==
    [name : STRING, value : STRING,
     match : {"EXACT", "NOT_EQUAL", "REGEX", "NOT_REGEX"}]
Series == [labels : SUBSET STRING, points : Seq({"num", "special", "bad"})]

ASSUME MetricConstants ==
    /\ MaxDataPoints \in Nat /\ IsFiniteSet(Calls)
    /\ \A a \in MetricArgs : a.filters \in Seq(LabelFilters \cup {Nothing})
    /\ \A r \in Responses : r.series \in Seq(Series)

VARIABLES
    reachable,      \* the adapter's available flag
    activeConns,    \* the transport's counter
    holder,         \* the call that holds the mutex over its round trip
    call            \* call |-> where it is

metricVars == <<reachable, activeConns, holder, call>>

IdleCall == [at |-> "idle", op |-> "none", args |-> Nothing,
             sent |-> Nothing, got |-> Nothing, result |-> Nothing]

MetricInit ==
    /\ reachable = FALSE /\ activeConns = 0 /\ holder = Nothing
    /\ call = [c \in Calls |-> IdleCall]

-----------------------------------------------------------------------------
(* The request *)

convertLabelMatchType(m) ==
    CASE m = "EXACT" -> "EQ" [] m = "NOT_EQUAL" -> "NEQ"
      [] m = "REGEX" -> "LIKE" [] m = "NOT_REGEX" -> "NOT_IN"
      [] OTHER -> "EQ"

\* NOT_IN, which stands for NOT_REGEX, has no counterpart.
filterOpToLabelMatch(op) ==
    CASE op = "EQ" -> "=" [] op = "NEQ" -> "!=" [] op = "LIKE" -> "=~"
      [] OTHER -> "none"

\* The filters of the request, the null ones of the client left out.
buildPrometheusRequest(fs) ==
    FlattenSeq([i \in DOMAIN fs |->
        IF fs[i] = Nothing THEN <<>>
        ELSE << [field |-> fs[i].name, value |-> fs[i].value,
                 op |-> convertLabelMatchType(fs[i].match)] >>])

\* The matchers in braces; filters without a counterpart are skipped.
appendLabelMatchers(fs) ==
    FlattenSeq([i \in DOMAIN fs |->
        IF filterOpToLabelMatch(fs[i].op) = "none" THEN <<>>
        ELSE << [name |-> fs[i].field, sign |-> filterOpToLabelMatch(fs[i].op),
                 value |-> fs[i].value] >>])

\* The braces are written behind the expression, whatever it is: PromQL cannot
\* parse them behind a bracket or a range, and behind a name they restrict
\* the selector of this name.
Parses(expr, matchers) == matchers = <<>> \/ expr # "closed"
Selectors(expr) == IF expr = "binary" THEN 1 .. 2 ELSE {1}
InForce(expr, matchers, n) ==
    IF expr = "closed" \/ n + 1 \in Selectors(expr) THEN {} ELSE ToSet(matchers)

\* No special characters in label values; no deep subqueries and no costly
\* operations in the expression, which must not be empty.
ValidateLabelValue(f) == f = Nothing \/ f.value \notin Unsafe
ValidateQueryExpression(a) == a.expr \notin {"deep", "costly"}
Valid(a) ==
    /\ \A i \in DOMAIN a.filters : ValidateLabelValue(a.filters[i])
    /\ ValidateQueryExpression(a)

BuildInstant(a) == a.expr # "empty"
BuildRange(a) == a.expr # "empty" /\ a.step # "empty"

-----------------------------------------------------------------------------
(* The response *)

\* parseTimestampValue and ConvertValue: the value, null unless it is a
\* number, and one warning for each null.
parseTimestampValue(p) ==
    [value |-> IF p = "num" THEN "num" ELSE "null",
     warnings |-> IF p = "num" THEN 0 ELSE 1]

Points(resp) ==
    SumFunction([i \in DOMAIN resp.series |-> Len(resp.series[i].points)])

\* Mutant: max_data_points counts series.
TooManyPoints_Series(resp) ==
    resp.type \in {"vector", "matrix"} /\ Len(resp.series) > MaxDataPoints

TooManyPoints(resp) ==
    resp.type \in {"vector", "matrix"} /\ Points(resp) > MaxDataPoints

ConvertSeries(s) ==
    LET read == [i \in DOMAIN s.points |-> parseTimestampValue(s.points[i])] IN
    [values |-> [i \in DOMAIN read |-> read[i].value],
     warnings |-> SumFunction([i \in DOMAIN read |-> read[i].warnings])]

\* A row has its value or its values under a key, with the Go type that the
\* adapter gives them.  A string is passed on as it is; a result of a type the
\* adapter does not know becomes one row with the raw text.
Row(key, type, labels, values) ==
    [key |-> key, type |-> type, labels |-> labels, values |-> values]
convertResponse(resp) ==
    LET Convert(s) ==
          CASE resp.type = "matrix" ->
                 Row("values", "[]*float64", s.labels, ConvertSeries(s).values)
            [] resp.type = "string" -> Row("value", "string", {}, s.points)
            [] resp.type = "other"  -> Row("raw", "string", {}, <<>>)
            [] OTHER ->
                 Row("value", "*float64", s.labels, ConvertSeries(s).values)
    IN  [rows |-> [i \in DOMAIN resp.series |-> Convert(resp.series[i])],
         warnings |-> IF resp.type \in {"string", "other"} THEN 0
                      ELSE SumFunction([i \in DOMAIN resp.series |->
                                   ConvertSeries(resp.series[i]).warnings])]

\* The resolvers' conversion, by the Go types of the row: labels must be a
\* map[string]any and are a map[string]string; a number must be a float64 or a
\* string that can be parsed, and is a *float64; values must be a []any and
\* are a []*float64.
extractMetricLabels(row) == {}
toFloat64(type, v) == IF type = "string" /\ v = "num" THEN v ELSE "0"
extractDataPoint(row) ==
    <<IF row.key = "value" THEN toFloat64(row.type, row.values[1]) ELSE "null">>
extractDataPoints(row) == <<>>

convertToInstantResult(rows) ==
    [i \in DOMAIN rows |-> [labels |-> extractMetricLabels(rows[i]),
                            values |-> extractDataPoint(rows[i])]]
convertToRangeResult(rows) ==
    [i \in DOMAIN rows |-> [labels |-> extractMetricLabels(rows[i]),
                            values |-> extractDataPoints(rows[i])]]

-----------------------------------------------------------------------------
(* Calls *)

Fails(c) == call' = [call EXCEPT ![c] = [IdleCall EXCEPT !.at = "failed",
                                                         !.op = call[c].op]]

\* Execute up to the request: the flag is read under the mutex.
BeginQuery(c) ==
    /\ call[c].at = "idle" /\ holder = Nothing
    /\ \E a \in MetricArgs :
         IF reachable /\ Valid(a)
            /\ (IF a.op = "range" THEN BuildRange(a) ELSE BuildInstant(a))
         THEN /\ call' = [call EXCEPT ![c] =
                   [IdleCall EXCEPT !.at = "sent", !.op = a.op, !.args = a,
                                    !.sent = appendLabelMatchers(
                                        buildPrometheusRequest(a.filters))]]
              /\ activeConns' = activeConns + 1
         ELSE /\ call' = [call EXCEPT ![c] = [IdleCall EXCEPT !.at = "failed",
                                                              !.op = a.op]]
              /\ UNCHANGED activeConns
    /\ UNCHANGED <<reachable, holder>>

BeginHealthCheck(c) ==
    /\ call[c].at = "idle"
    /\ call' = [call EXCEPT ![c] = [IdleCall EXCEPT !.at = "sent",
                                                    !.op = "health"]]
    /\ activeConns' = activeConns + 1
    /\ UNCHANGED <<reachable, holder>>

\* Connect is a no-op on an adapter that is available.
BeginConnect(c) ==
    /\ call[c].at = "idle" /\ holder = Nothing
    /\ IF reachable
       THEN /\ call' = [call EXCEPT ![c] = [IdleCall EXCEPT !.at = "done",
                                                            !.op = "connect"]]
            /\ UNCHANGED <<activeConns, holder>>
       ELSE /\ call' = [call EXCEPT ![c] = [IdleCall EXCEPT !.at = "sent",
                                                            !.op = "connect"]]
            /\ activeConns' = activeConns + 1
            /\ holder' = c
    /\ UNCHANGED reachable

\* Mutant: a failed round trip is never counted down.
RoundTripFails_Counted(c) ==
    /\ call[c].at = "sent"
    /\ call[c].op = "health" => holder = Nothing
    /\ reachable' = IF call[c].op = "health" THEN FALSE ELSE reachable
    /\ holder' = IF holder = c THEN Nothing ELSE holder
    /\ Fails(c)
    /\ UNCHANGED activeConns

\* The round trip fails or runs into the client's timeout.
RoundTripFails(c) ==
    /\ call[c].at = "sent"
    /\ call[c].op = "health" => holder = Nothing
    /\ activeConns' = activeConns - 1
    /\ reachable' = IF call[c].op = "health" THEN FALSE ELSE reachable
    /\ holder' = IF holder = c THEN Nothing ELSE holder
    /\ Fails(c)

\* The header arrives; the body is wrapped and still to be read.
RoundTripAnswers(c) ==
    /\ call[c].at = "sent"
    /\ \E r \in Responses :
          /\ call[c].op \in {"instant", "range"} =>
                Parses(call[c].args.expr, call[c].sent) \/ r.http = "bad_status"
          /\ call' = [call EXCEPT ![c].at = "body", ![c].got = r]
    /\ UNCHANGED <<reachable, activeConns, holder>>

\* doQuery reads, closes and parses the body, Execute converts it, the
\* resolver answers.  The body may break off.
FinishQuery(c) ==
    /\ call[c].at = "body" /\ call[c].op \in {"instant", "range"}
    /\ activeConns' = activeConns - 1
    /\ \/ Fails(c)
       \/ /\ call[c].got.http = "ok" /\ ~TooManyPoints(call[c].got)
          /\ LET r == convertResponse(call[c].got) IN
             call' = [call EXCEPT
                ![c].at = "done",
                ![c].result =
                   [warnings |-> r.warnings,
                    answer |-> IF call[c].op = "range"
                               THEN convertToRangeResult(r.rows)
                               ELSE convertToInstantResult(r.rows)]]
    /\ UNCHANGED <<reachable, holder>>

\* A health check takes the mutex to write the flag; Connect has it.
FinishProbe(c) ==
    /\ call[c].at = "body" /\ call[c].op \in {"health", "connect"}
    /\ holder \in {Nothing, c}
    /\ activeConns' = activeConns - 1
    /\ LET ok == call[c].got.http # "bad_status" IN
       /\ reachable' = IF call[c].op = "health" THEN ok ELSE reachable \/ ok
       /\ IF ok THEN call' = [call EXCEPT ![c].at = "done"] ELSE Fails(c)
    /\ holder' = Nothing

CloseAdapter ==
    /\ holder = Nothing /\ reachable
    /\ reachable' = FALSE
    /\ UNCHANGED <<activeConns, holder, call>>

Return(c) ==
    /\ call[c].at \in {"done", "failed"}
    /\ call' = [call EXCEPT ![c] = IdleCall]
    /\ UNCHANGED <<reachable, activeConns, holder>>

MetricNext ==
    \/ \E c \in Calls :
         \/ BeginQuery(c) \/ BeginHealthCheck(c) \/ BeginConnect(c)
         \/ RoundTripFails(c) \/ RoundTripAnswers(c)
         \/ FinishQuery(c) \/ FinishProbe(c) \/ Return(c)
    \/ CloseAdapter

MetricSpec == MetricInit /\ [][MetricNext]_metricVars

-----------------------------------------------------------------------------
Open == {c \in Calls : call[c].at \in {"sent", "body"}}

\* The connection gauge of InstrumentedTransport is exact: it counts the
\* calls that wait for a response or have a body open, whichever way the
\* earlier ones ended.
ConnsCounted == activeConns = Cardinality(Open)

\* What a label filter asks for, by the meaning its match type has
\* (official_document/graphql-api.md).
Documented(f) ==
    [name |-> f.name, value |-> f.value,
     sign |-> CASE f.match = "EXACT" -> "="  [] f.match = "NOT_EQUAL" -> "!="
                [] f.match = "REGEX" -> "=~" [] f.match = "NOT_REGEX" -> "!~"]
Asked(fs) == {Documented(f) : f \in ToSet(fs) \ {Nothing}}

\* The filters that have a counterpart (all but NOT_REGEX).
Expressible(fs) ==
    \A i \in DOMAIN fs : fs[i] # Nothing => fs[i].match # "NOT_REGEX"

\* A query about one selector that is answered was restricted by the label
\* filters of the client, each with its name, its kind and its value, and by
\* nothing else: filters are never lost or changed from the schema through
\* convertLabelMatchType, filterOpToLabelMatch and appendLabelMatchers, and
\* behind an expression that they cannot restrict there is no answer.
MatchersReachPrometheus ==
    \A c \in Calls :
        call[c].at = "done" /\ call[c].op \in {"instant", "range"}
        /\ call[c].args.expr # "binary" /\ Expressible(call[c].args.filters) =>
            InForce(call[c].args.expr, call[c].sent, 1) = Asked(call[c].args.filters)

\* The points Prometheus returned.
Returned(resp) == FlattenSeq([i \in DOMAIN resp.series |-> resp.series[i].points])

\* The client has an entry for every series Prometheus returned, for responses
\* of at most max_data_points points, and one warning in the extensions for
\* every point that was no number (convertVector, convertMatrix,
\* parseTimestampValue, setExtensionWarnings).
PointsAccountedFor ==
    \A c \in Calls :
        call[c].at = "done" /\ call[c].op \in {"instant", "range"}
        /\ call[c].got.type \in {"vector", "matrix"} =>
            LET vs == Returned(call[c].got) IN
            /\ Len(call[c].result.answer) = Len(call[c].got.series)
            /\ Len(vs) <= MaxDataPoints
            /\ call[c].result.warnings
                 = Cardinality({i \in DOMAIN vs : vs[i] # "num"})

\* A metric query that is answered asked Prometheus for what the client asked
\* for, and tells of every series and of every point that is no number.
MetricsAnswered == MatchersReachPrometheus /\ PointsAccountedFor

-----------------------------------------------------------------------------
\* Inductive together with ConnsCounted.
CallsAreRecords ==
    /\ DOMAIN call = Calls
    /\ \A c \in Calls :
          DOMAIN call[c] = {"at", "op", "args", "sent", "got", "result"}

\* Inductive together with MetricsAnswered: a query is under way with its own
\* matchers, and what it has got is what Prometheus can answer to them.
QueriesUnderWay ==
    \A c \in Calls :
        call[c].at \in {"sent", "body"} /\ call[c].op \in {"instant", "range"} =>
            /\ call[c].args \in MetricArgs
            /\ call[c].sent = appendLabelMatchers(
                                buildPrometheusRequest(call[c].args.filters))
            /\ call[c].at = "body" =>
                  /\ call[c].got \in Responses
                  /\ \/ Parses(call[c].args.expr, call[c].sent)
                     \/ call[c].got.http = "bad_status"

MetricInv ==
    CallsAreRecords /\ ConnsCounted /\ QueriesUnderWay /\ MetricsAnswered
=============================================================================
