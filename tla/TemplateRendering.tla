------------------------- MODULE TemplateRendering --------------------------
(***************************************************************************)
(* What a template query does to its arguments: validateParams checks and  *)
(* converts the parameters, render executes the template and passes the    *)
(* SQL through the lexical scanner of sanitizeSQL, wrapWithPagination and  *)
(* wrapWithCount put it into the statements that are sent, and the         *)
(* resolver cuts the rows to a page.  TemplateEngine has the concurrency   *)
(* of the same queries; here there is one client, which walks through the  *)
(* result page by page.                                                    *)
(*                                                                         *)
(* SQL is a sequence of characters; letters that no code tells apart are   *)
(* one, and so is a numeral.  A value is a record with its Go type.        *)
(***************************************************************************)
EXTENDS Integers, Sequences, SequencesExt

CONSTANTS
    TemplateRequests,  \* the requests clients start with
    Absent,            \* an argument that is not given, a schema without default
    MaxRenderedSQLLen,
    RowLimit,          \* graphql.max_result_rows, which nothing validates
    UniqueColumns,     \* columns in which no two rows of a result are alike
    ResultSizes        \* numbers of rows the template's SQL may select

\* A template is its parts: text, with what the text means once its comments
\* are gone, or a parameter with the functions of its pipeline.
\* A request from the start has no offset or 0.
ASSUME RenderingConstants ==
    /\ MaxRenderedSQLLen \in Nat /\ RowLimit \in Int
    /\ ResultSizes \subseteq Nat /\ ResultSizes # {}
    /\ Absent \notin Int /\ TemplateRequests # {}
    /\ \A r \in TemplateRequests :
          /\ DOMAIN r = {"template", "params", "fields", "orderBy", "first", "offset",
                         "needCount", "fromStart"}
          /\ {r.first, r.offset} \subseteq Int \cup {Absent}
          /\ r.fromStart => r.offset \in {0, Absent}

VARIABLES
    request,   \* the arguments of the next or the current call
    found,     \* the rows the template's SQL selects
    job,       \* the call of Execute under way
    seen       \* rows the client has been given

renderVars == <<request, found, job, seen>>

Text(s) == [type |-> "string", chars |-> s]
Number(type, n) == [type |-> type, is |-> n]

-----------------------------------------------------------------------------
(* validateParams *)

\* The numerals of int64 and of float64, but for "NaN".
Unsigned == {"0", "1", "2^63-1"}
WholeNumerals == Unsigned \cup {"-2^63"}
Numerals == WholeNumerals \cup {"1.5", "2^63"}
Spelled(n) == IF n = "-2^63" THEN <<"-", "2^63">> ELSE <<n>>
Parsed(v, ns) == {n \in ns : v.chars = Spelled(n)}

\* float64(n), and int64(x), which for an x beyond the range is the least int64
\* or the greatest, as the processor has it.
float64Of(n) == IF n = "2^63-1" THEN "2^63" ELSE n
int64Of(x) == IF x = "2^63" THEN {"2^63-1", "-2^63"} ELSE {x}

\* fmt.Sprint
Sprint(v) == CASE v.type = "string" -> v.chars
               [] v.type = "list" -> <<"[">> \o FlattenSeq([i \in DOMAIN v.items |->
                                        IF i = 1 THEN v.items[i].chars
                                        ELSE <<" ">> \o v.items[i].chars]) \o <<"]">>
               [] OTHER -> Spelled(v.is)

\* A conversion gives the values it may have, none when it refuses.
convertString(v) == {w \in {v} : w.type = "string"}

convertInt(v) ==
    CASE v.type = "int" -> {v}
      [] v.type = "float" /\ v.is \in WholeNumerals \cup {"2^63"} ->
             {Number("int", n) : n \in int64Of(v.is)}
      [] v.type = "string" -> {Number("int", n) : n \in Parsed(v, WholeNumerals)}
      [] OTHER -> {}

\* Mutant: a string that parses is not checked to be finite.
convertFloat_AnyParsed(v) ==
    CASE v.type \in {"int", "float"} /\ v.is \in Numerals -> {Number("float", float64Of(v.is))}
      [] v.type = "string" ->
             {Number("float", float64Of(n)) : n \in Parsed(v, Numerals \cup {"NaN"})}
      [] OTHER -> {}

convertFloat(v) ==
    CASE v.type \in {"int", "float"} /\ v.is \in Numerals -> {Number("float", float64Of(v.is))}
      [] v.type = "string" -> {Number("float", float64Of(n)) : n \in Parsed(v, Numerals)}
      [] OTHER -> {}

convertBoolean(v) == {w \in {v} : w.type = "bool"}

convertStringSlice(v) ==
    {w \in {v} : w.type = "list" /\ \A i \in DOMAIN w.items : w.items[i].type = "string"}

convertParamType(v, type) ==
    CASE type = "string" -> convertString(v)
      [] type = "int" -> convertInt(v)
      [] type = "float" -> convertFloat(v)
      [] type = "boolean" -> convertBoolean(v)
      [] type = "string[]" -> convertStringSlice(v)

validateConstraints(s, v) ==
    /\ s.enum # {} => Sprint(v) \in s.enum
    /\ s.type = "string" /\ s.maxLength > 0 => Len(v.chars) <= s.maxLength
    /\ s.type = "string[]" /\ s.maxItems > 0 => Len(v.items) <= s.maxItems
    /\ s.type = "string" /\ s.pattern # {} => Range(v.chars) \subseteq s.pattern

\* What the loader makes of a default: a value of the type, which for a float
\* may be NaN.  A string[] has none.
parseDefaultValue(s) ==
    CASE s.type = "string" -> s.default.type = "string"
      [] s.type = "int" -> s.default \in {Number("int", n) : n \in WholeNumerals}
      [] s.type = "float" ->
             s.default \in {Number("float", n) : n \in Numerals \cup {"NaN"}}
      [] s.type = "boolean" -> s.default.type = "bool"
      [] s.type = "string[]" -> FALSE

\* Params of the request that have no schema stay as they are.
Validated(s, params) ==
    IF s.name \notin DOMAIN params
    THEN CASE s.required -> {}
           [] ~s.required /\ s.default # Absent ->
                  {[p \in DOMAIN params \cup {s.name} |->
                       IF p = s.name THEN s.default ELSE params[p]]}
           [] OTHER -> {params}
    ELSE {[params EXCEPT ![s.name] = v] :
             v \in {w \in convertParamType(params[s.name], s.type) :
                       validateConstraints(s, w)}}

validateParams(params, schemas) ==
    LET after[n \in 0 .. Len(schemas)] ==
            IF n = 0 THEN {params}
            ELSE UNION {Validated(schemas[n], p) : p \in after[n - 1]}
    IN  after[Len(schemas)]

-----------------------------------------------------------------------------
(* The functions of a template *)

Replaced(s, c, by) ==
    FlattenSeq([i \in DOMAIN s |-> IF s[i] = c THEN by ELSE <<s[i]>>])

\* Mutant: the quote is escaped and the backslash is not.
safeString_QuoteOnly(v) ==
    Replaced(Replaced(Sprint(v), "NUL", <<>>), "'", <<"'", "'">>)

safeString(v) ==
    LET nulless == Replaced(Sprint(v), "NUL", <<>>)
    IN  Replaced(Replaced(nulless, "\\", <<"\\", "\\">>), "'", <<"'", "'">>)

quote(v) == <<"'">> \o safeString(v) \o <<"'">>

safeInt(v) == {Spelled(n.is) : n \in convertInt(v)}

safeFloat(v) == {Spelled(n.is) : n \in {m \in convertFloat(v) : m.is # "NaN"}}

\* At most two segments, none of them empty.  No name is longer than 64.
safeIdentifier(v) ==
    LET s == Sprint(v)
        dots == {i \in DOMAIN s : s[i] = "."}
    IN  IF /\ s # <<>> /\ Cardinality(dots) <= 1
           /\ dots \cap {1, Len(s)} = {}
           /\ Range(s) \subseteq {"a", "b", "."} \cup Unsigned
        THEN {<<"tick">> \o Replaced(s, ".", <<"tick", ".", "tick">>) \o <<"tick">>}
        ELSE {}

Comma(ss) == FlattenSeq([i \in DOMAIN ss |-> IF i = 1 THEN ss[i] ELSE <<",">> \o ss[i]])

safeInList(v) ==
    {Comma([i \in DOMAIN w.items |-> quote(w.items[i])]) :
        w \in {l \in convertStringSlice(v) : l.items # <<>>}}

safeLike(v) ==
    Replaced(Replaced(Replaced(Sprint(v), "\\", <<"\\", "\\">>),
                          "%", <<"\\", "%">>), "_", <<"\\", "_">>)

join(v) == IF v.type = "list" THEN {Comma([i \in DOMAIN v.items |-> Sprint(v.items[i])])}
           ELSE {}

Zero(v) == v \in {Text(<<>>), Number("int", "0"), Number("float", "0"), Number("bool", "false")}

\* One function of a pipeline; "default" has the argument 1.
Apply(fn, v) ==
    CASE fn = "quote" -> {Text(quote(v))}
      [] fn = "safeString" -> {Text(safeString(v))}
      [] fn = "safeLike" -> {Text(safeLike(v))}
      [] fn = "default" -> {IF Zero(v) THEN Number("int", "1") ELSE v}
      [] fn = "safeInt" -> {Text(s) : s \in safeInt(v)}
      [] fn = "safeFloat" -> {Text(s) : s \in safeFloat(v)}
      [] fn = "safeIdentifier" -> {Text(s) : s \in safeIdentifier(v)}
      [] fn = "safeInList" -> {Text(s) : s \in safeInList(v)}
      [] fn = "join" -> {Text(s) : s \in join(v)}

Piped(v, fns) ==
    LET after[n \in 0 .. Len(fns)] ==
            IF n = 0 THEN {v} ELSE UNION {Apply(fns[n], w) : w \in after[n - 1]}
    IN  after[Len(fns)]

\* missingkey=error: a parameter that is not there is an error.
Evaluate(part, params) ==
    IF part.param = Absent THEN {part.chars}
    ELSE IF part.param \notin DOMAIN params THEN {}
    ELSE {Sprint(v) : v \in Piped(params[part.param], part.fns)}

TemplateExecute(parts, params) ==
    LET texts == [i \in DOMAIN parts |-> Evaluate(parts[i], params)]
    IN  IF \E i \in DOMAIN parts : texts[i] = {} THEN {}
        ELSE {FlattenSeq([i \in DOMAIN parts |-> CHOOSE s \in texts[i] : TRUE])}

\* The types of parameters and "any", what every value is; and the functions
\* by the type they take and the one they give.
ParamTypes == {"string", "int", "float", "boolean", "string[]"}
Signatures ==
    {<<t, fn, "string">> : t \in ParamTypes \cup {"any"},
                           fn \in {"quote", "safeString", "safeLike"}}
    \cup {<<t, "default", "any">> : t \in ParamTypes \cup {"any"}}
    \cup {<<"int", "default", "int">>, <<"float", "default", "float">>,
          <<"int", "safeInt", "string">>, <<"float", "safeFloat", "string">>,
          <<"string[]", "join", "string">>}

\* A pipeline that takes every value a schema lets through, but for an empty
\* list: each function takes what the one before gives.  Names of tables and
\* columns come from an enum.
Typed(fns, type) ==
    \E ts \in [0 .. Len(fns) -> ParamTypes \cup {"any"}] :
        ts[0] = type /\ \A n \in 1 .. Len(fns) : <<ts[n - 1], fns[n], ts[n]>> \in Signatures
Suits(fns, s) ==
    \/ Typed(fns, s.type)
    \/ fns = <<"safeInList">> /\ s.type = "string[]"
    \/ /\ fns = <<"safeIdentifier">> /\ s.type = "string" /\ s.default = Absent
       /\ s.enum # {} /\ \A e \in s.enum : safeIdentifier(Text(e)) # {}

\* What a template needs so that its functions take its parameters.  The loader
\* checks the defaults only; the rest is up to the author of the template.
ASSUME TemplatesFit ==
    \A r \in TemplateRequests :
        LET schemas == r.template.schemas
            parts == r.template.parts
        IN  /\ Len(schemas) \in Nat /\ DOMAIN schemas = 1 .. Len(schemas)
            /\ \A i \in DOMAIN schemas :
                   /\ schemas[i].type \in ParamTypes
                   /\ schemas[i].default # Absent => parseDefaultValue(schemas[i])
                   /\ \A j \in DOMAIN schemas : schemas[i].name = schemas[j].name => i = j
            /\ \A i \in DOMAIN parts :
                   parts[i].param # Absent =>
                       /\ Len(parts[i].fns) \in Nat
                       /\ \E j \in DOMAIN schemas :
                             /\ schemas[j].name = parts[i].param
                             /\ Suits(parts[i].fns, schemas[j])

Trimmed(s) ==
    LET inked == {i \in DOMAIN s : s[i] \notin {" ", "\n"}}
    IN  IF inked = {} THEN <<>> ELSE SubSeq(s, Min(inked), Max(inked))

-----------------------------------------------------------------------------
(* sanitizeSQL: one turn of the scanner's loop *)

QuoteMarks == {"'", "dquote", "tick"}
Turn(eaten, emit, mode) == [eaten |-> eaten, emit |-> emit, mode |-> mode]

ScanComment(mode, ahead) ==
    CASE mode = "line" /\ ahead[1] = "\n" -> Turn(1, <<"\n">>, "normal")
      [] mode = "block" /\ Len(ahead) > 1 /\ SubSeq(ahead, 1, 2) = <<"*", "/">> ->
             Turn(2, <<" ">>, "normal")
      [] OTHER -> Turn(1, <<>>, mode)

\* Inside a string, a quoted identifier or a hint everything is kept.
ScanQuoted(mode, ahead) ==
    LET pair == SubSeq(ahead, 1, Min({2, Len(ahead)}))
        escapes == IF mode = "'" THEN {<<"\\", "\\">>, <<"\\", "'">>, <<"'", "'">>}
                   ELSE {<<mode, mode>>}
    IN  CASE mode # "hint" /\ pair \in escapes -> Turn(2, pair, mode)
          [] mode # "hint" /\ pair \notin escapes /\ ahead[1] = mode ->
                 Turn(1, <<mode>>, "normal")
          [] mode = "hint" /\ pair = <<"*", "/">> -> Turn(2, pair, "normal")
          [] OTHER -> Turn(1, <<ahead[1]>>, mode)

ScanNormal(ahead) ==
    LET c == ahead[1]
        pair == SubSeq(ahead, 1, Min({2, Len(ahead)}))
    IN  CASE c \in QuoteMarks -> Turn(1, <<c>>, c)
          [] pair = <<"-", "-">> -> Turn(2, <<>>, "line")
          [] ahead = <<"/", "*", "+">> -> Turn(3, ahead, "hint")
          [] pair = <<"/", "*">> /\ ahead # <<"/", "*", "+">> -> Turn(2, <<>>, "block")
          [] c = ";" -> Turn(1, <<>>, "unsafe")
          [] OTHER -> Turn(1, <<c>>, "normal")

ScanTurn(mode, ahead) ==
    CASE mode = "normal" -> ScanNormal(ahead)
      [] mode \in {"line", "block"} -> ScanComment(mode, ahead)
      [] OTHER -> ScanQuoted(mode, ahead)

-----------------------------------------------------------------------------
(* The call *)

NoCall == [at |-> "idle", params |-> <<>>, sql |-> <<>>, pos |-> 1,
           mode |-> "normal", out |-> <<>>, reply |-> Absent]

BeforeRender(requests, sizes) ==
    /\ request \in requests
    /\ found \in sizes
    /\ job = NoCall
    /\ seen = {}

RenderInit == BeforeRender(TemplateRequests, ResultSizes)

Refuse(why) == job' = [job EXCEPT !.at = why] /\ UNCHANGED <<request, found, seen>>

ValidateRequest ==
    /\ job.at = "idle"
    /\ LET valid == validateParams(request.params, request.template.schemas)
       IN  IF valid = {} THEN Refuse("invalid")
           ELSE \E p \in valid :
                    /\ job' = [job EXCEPT !.at = "render", !.params = p]
                    /\ UNCHANGED <<request, found, seen>>

RenderTemplate ==
    /\ job.at = "render"
    /\ LET texts == TemplateExecute(request.template.parts, job.params)
           sql == Trimmed(CHOOSE s \in texts : TRUE)
       IN  IF texts = {} THEN Refuse("render failed")
           ELSE IF sql = <<>> THEN Refuse("empty")
           ELSE IF Len(sql) > MaxRenderedSQLLen THEN Refuse("unsafe")
           ELSE /\ job' = [job EXCEPT !.at = "scan", !.sql = sql]
                /\ UNCHANGED <<request, found, seen>>

\* The goroutine that executes the template may outlast render_timeout.
RenderTimesOut == job.at = "render" /\ Refuse("timed out")

Scan ==
    /\ job.at = "scan" /\ job.pos <= Len(job.sql)
    /\ LET turn == ScanTurn(job.mode,
                       SubSeq(job.sql, job.pos, Min({job.pos + 2, Len(job.sql)})))
       IN  IF turn.mode = "unsafe" THEN Refuse("unsafe")
           ELSE /\ job' = [job EXCEPT !.pos = @ + turn.eaten, !.mode = turn.mode,
                                        !.out = @ \o turn.emit]
                /\ UNCHANGED <<request, found, seen>>

ScanEnds ==
    /\ job.at = "scan" /\ job.pos > Len(job.sql)
    /\ IF job.mode \in {"normal", "line"}
       THEN job' = [job EXCEPT !.at = "clean"] /\ UNCHANGED <<request, found, seen>>
       ELSE Refuse("unsafe")

-----------------------------------------------------------------------------
(* The page *)

\* wrapWithPagination asks for one row more than the page has.
\* Mutant: it asks for the page only.
LimitOfPage_Exact(first) == IF first = Absent THEN RowLimit ELSE first

LimitOfPage(first) == IF first = Absent THEN RowLimit + 1 ELSE first + 1

\* The names of the fields and of orderBy are checked alike.  There is an ORDER
\* BY only for a client that gives an orderBy.
wrapWithPagination(req) ==
    [limit |-> LimitOfPage(req.first),
     offset |-> IF req.offset = Absent THEN 0 ELSE req.offset,
     ok |-> \A f \in Range(req.fields) \cup Range(req.orderBy) :
               safeIdentifier(Text(f)) # {}]

\* The order by a unique column, if the client asks for one, is the same on every
\* page; the rows have their numbers in it.  Otherwise a statement may return any
\* rows of the result.
UniqueOrder(req) == \E i \in DOMAIN req.orderBy : req.orderBy[i] \in UniqueColumns

Rows(req, limit, offset) ==
    LET n == Max({0, Min({limit, found - offset})})
    IN  {s \in [1 .. n -> 1 .. found] :
            IF UniqueOrder(req) THEN \A i \in 1 .. n : s[i] = offset + i
            ELSE \A i, j \in 1 .. n : s[i] = s[j] => i = j}

\* The cut to max_result_rows, if that is positive, is told in the warnings.
TemplateReply(data, req, count) ==
    LET page == IF req.first # Absent /\ Len(data) > req.first
                THEN SubSeq(data, 1, req.first) ELSE data
        cut == RowLimit > 0 /\ Len(page) > RowLimit
    IN  [nodes |-> IF cut THEN SubSeq(page, 1, RowLimit) ELSE page,
         hasNextPage |-> req.first # Absent /\ Len(data) > req.first,
         warned |-> cut,
         totalCount |-> count]

\* A negative LIMIT or OFFSET is a syntax error; first = -1 asks for no rows,
\* and cutting the page at -1 panics.
RunTemplate ==
    /\ job.at = "clean"
    /\ LET wrapped == wrapWithPagination(request)
       IN  CASE ~wrapped.ok -> Refuse("invalid")
             [] wrapped.ok /\ (wrapped.limit < 0 \/ wrapped.offset < 0) -> Refuse("query failed")
             [] wrapped.ok /\ request.first = -1 /\ wrapped.limit >= 0 /\ wrapped.offset >= 0 ->
                  Refuse("panic")
             [] OTHER ->
                  \E data \in Rows(request, wrapped.limit, wrapped.offset) :
                  LET reply == TemplateReply(data, request, IF ~request.needCount THEN 0
                                   ELSE IF request.template.countEnabled THEN found ELSE -1)
                  IN  /\ job' = [job EXCEPT !.at = "answered", !.reply = reply]
                      /\ seen' = seen \cup Range(reply.nodes)
                      /\ UNCHANGED <<request, found>>

\* The client goes on where the page ended.
NextTemplatePage ==
    /\ job.at = "answered" /\ job.reply.hasNextPage /\ job.reply.nodes # <<>>
    /\ request' = [request EXCEPT !.offset =
                      Len(job.reply.nodes) + IF @ = Absent THEN 0 ELSE @]
    /\ job' = NoCall
    /\ UNCHANGED <<found, seen>>

RenderNext == \/ ValidateRequest \/ RenderTemplate \/ RenderTimesOut \/ Scan \/ ScanEnds
              \/ RunTemplate \/ NextTemplatePage

RenderSpec == RenderInit /\ [][RenderNext]_renderVars

-----------------------------------------------------------------------------
(* How StarRocks reads the SQL: string literals, and single characters     *)

Token(lit, s) == [lit |-> lit, chars |-> s]

ReadChar(st, c) ==
    CASE st.mode = "string" /\ c = "\\" -> [st EXCEPT !.mode = "escape"]
      [] st.mode = "string" /\ c = "'" -> [st EXCEPT !.mode = "maybe"]
      [] st.mode \in {"string", "escape"} /\ (c \notin {"'", "\\"} \/ st.mode = "escape") ->
             [st EXCEPT !.mode = "string", !.lit = Append(@, c)]
      [] st.mode = "maybe" /\ c = "'" ->
             [st EXCEPT !.mode = "string", !.lit = Append(@, "'")]
      [] st.mode = "maybe" /\ c # "'" ->
             [mode |-> "normal", lit |-> <<>>,
              tokens |-> st.tokens \o <<Token(TRUE, st.lit), Token(FALSE, <<c>>)>>]
      [] st.mode = "normal" /\ c = "'" -> [st EXCEPT !.mode = "string"]
      [] OTHER -> [st EXCEPT !.tokens = Append(@, Token(FALSE, <<c>>))]

NothingRead == [mode |-> "normal", lit |-> <<>>, tokens |-> <<>>]
Reading(sql) ==
    LET after[n \in 0 .. Len(sql)] ==
            IF n = 0 THEN NothingRead ELSE ReadChar(after[n - 1], sql[n])
    IN  after[Len(sql)]

ReadSQL(sql) ==
    LET st == Reading(sql)
    IN  IF st.mode = "maybe" THEN Append(st.tokens, Token(TRUE, st.lit)) ELSE st.tokens

\* What the author of the template means by a part, given what the client says.
CharsOf(s) == [i \in DOMAIN s |-> Token(FALSE, <<s[i]>>)]
Literal(v) == <<Token(TRUE, Replaced(v.chars, "NUL", <<>>))>>
NumeralOf(v) == IF v.type = "string" THEN CHOOSE n \in Numerals : v.chars = Spelled(n) ELSE v.is
Meant(part, params) ==
    LET v == params[part.param]
        n == NumeralOf(v)
    IN  CASE part.param = Absent -> CharsOf(part.means)
          [] part.fns = <<"quote">> -> Literal(v)
          [] part.fns = <<"safeInList">> ->
                 FlattenSeq([i \in DOMAIN v.items |->
                     (IF i = 1 THEN <<>> ELSE CharsOf(<<",">>)) \o Literal(v.items[i])])
          [] part.fns = <<"safeLike", "quote">> -> Literal(Text(safeLike(v)))
          [] part.fns = <<"safeInt">> -> CharsOf(Spelled(n))
          [] part.fns = <<"safeFloat">> -> CharsOf(Spelled(float64Of(n)))
          [] part.fns = <<"safeIdentifier">> ->
                 CharsOf(<<"tick">> \o Replaced(v.chars, ".", <<"tick", ".", "tick">>)
                                \o <<"tick">>)
          [] part.fns = <<"default", "safeInt">> ->
                 CharsOf(IF n = "0" THEN <<"1">> ELSE Spelled(n))

\* What the client gave, with the defaults of what it left out.
ClientParams == [p \in DOMAIN job.params |->
             IF p \in DOMAIN request.params THEN request.params[p] ELSE job.params[p]]

AsMeant ==
    ReadSQL(job.out) = FlattenSeq([i \in DOMAIN request.template.parts |->
                                       Meant(request.template.parts[i], ClientParams)])

\* A whole number beyond int64 for an integer: convertInt takes it.
Overflows == \E i \in DOMAIN request.template.schemas :
                 LET s == request.template.schemas[i]
                 IN  s.type = "int" /\ s.name \in DOMAIN ClientParams
                     /\ ClientParams[s.name] = Number("float", "2^63")

\* Of the SQL that leaves the scanner the database reads the text of the
\* template without its comments, and every parameter as the value the client
\* gave, if that fits the type: neither the conversions of validateParams, nor
\* the escaping of the template functions, nor the scanner, which both follow the
\* database's rules for strings, changes what is read.
ReadsAsMeant ==
    job.at \in {"clean", "answered"} /\ ~Overflows => AsMeant

\* What validateParams accepts, the functions of a template that fit the types
\* accept too: a query with valid parameters renders, unless the template lists
\* an empty string[], names an optional parameter that the client left out, or
\* has NaN for a default, which the loader takes and safeFloat does not.
ValidatedRenders ==
    job.at = "render failed" =>
        \E i \in DOMAIN request.template.parts :
            LET part == request.template.parts[i]
            IN  /\ part.param # Absent
                /\ \/ part.param \notin DOMAIN job.params
                   \/ /\ part.fns = <<"safeInList">>
                      /\ job.params[part.param].items = <<>>
                   \/ \E j \in DOMAIN request.template.schemas :
                         LET s == request.template.schemas[j]
                         IN  /\ s.name = part.param /\ s.default = Number("float", "NaN")
                             /\ job.params[part.param] = s.default

\* The rows in front of the page.
Skipped == IF request.offset = Absent THEN 0 ELSE request.offset

\* A client that follows hasNextPage from the start has been given as many rows
\* as the result has when there is no next page, and if it orders them by a
\* unique column it has seen every row.  Not so if a page came with the
\* truncation warning, or if the client gives no page size and max_result_rows
\* is not positive.  A total that was counted is the number of rows.
TemplateWalkSeesEverything ==
    job.at = "answered" =>
        /\ (/\ ~job.reply.hasNextPage /\ ~job.reply.warned /\ request.fromStart
            /\ RowLimit > 0 \/ request.first # Absent) =>
               /\ Skipped + Len(job.reply.nodes) = found
               /\ UniqueOrder(request) => seen = 1 .. found
        /\ request.needCount /\ request.template.countEnabled =>
               job.reply.totalCount = found

-----------------------------------------------------------------------------
(* Inductive together with TemplateWalkSeesEverything                      *)

RenderTypeOK ==
    /\ DOMAIN request = {"template", "params", "fields", "orderBy", "first", "offset",
                         "needCount", "fromStart"}
    /\ {request.first, request.offset} \subseteq Int \cup {Absent}
    /\ found \in Nat /\ seen \subseteq 1 .. found
    /\ DOMAIN job = {"at", "params", "sql", "pos", "mode", "out", "reply"}

\* An ordered walk from the start has seen the rows up to where it is, and the
\* page it was given last ends there.
RowsUpTo(n) == n \in 0 .. found /\ (UniqueOrder(request) => seen = 1 .. n)

TemplateWalkSoFar ==
    /\ request.fromStart /\ job.at # "answered" => RowsUpTo(Skipped)
    /\ job.at = "answered" =>
          /\ Len(job.reply.nodes) \in Nat
          /\ request.fromStart => RowsUpTo(Skipped + Len(job.reply.nodes))
          /\ (/\ request.fromStart /\ ~job.reply.hasNextPage /\ ~job.reply.warned
              /\ RowLimit > 0 \/ request.first # Absent) =>
                Skipped + Len(job.reply.nodes) = found
          /\ request.needCount /\ request.template.countEnabled =>
                job.reply.totalCount = found

RenderInv == RenderTypeOK /\ TemplateWalkSoFar

\* The parameters of a call that is rendered have passed validateParams, and
\* one that failed there had a part that gave nothing.
RenderedFromValid ==
    /\ \E r \in TemplateRequests :
          request.template = r.template /\ request.params = r.params
    /\ job.at \in {"render", "render failed"} =>
          job.params \in validateParams(request.params, request.template.schemas)
    /\ job.at = "render failed" =>
          \E i \in DOMAIN request.template.parts :
              Evaluate(request.template.parts[i], job.params) = {}

-----------------------------------------------------------------------------
(* The scanner and the database read alike *)

\* SQL without quoted identifiers and hints, which the reader of the database
\* above does not know.
PlainSQL(sql) ==
    /\ sql \in Seq(Range(sql))
    /\ Range(sql) \cap {"dquote", "tick"} = {}
    /\ \A i \in 1 .. Len(sql) - 2 : SubSeq(sql, i, i + 2) # <<"/", "*", "+">>

Separator == Token(FALSE, <<";">>)

\* Of SQL that leaves the scanner the database has read every string to its end
\* and no separator of statements outside of one: it is one statement.
OneStatement ==
    job.at \in {"clean", "answered"} /\ PlainSQL(job.sql) =>
        /\ Reading(job.out).mode \in {"normal", "maybe"}
        /\ \A i \in DOMAIN ReadSQL(job.out) : ReadSQL(job.out)[i] # Separator

\* What the database may have read of the SQL that has left the scanner so far.
Written(sql) == Range(sql) \cup {" ", "\n"}
TokensOf(sql) == [lit : BOOLEAN, chars : Seq(Written(sql))] \ {Separator}
Readings(sql) ==
    [mode : {"normal", "maybe", "string", "escape"}, lit : Seq(Written(sql)),
     tokens : Seq(TokensOf(sql))]

\* The database is in a string where the scanner is.  Only at the end of a pair
\* that the scanner takes in one turn would it see a quote that it takes for
\* escaped, or one that opens a string where one may have ended.
InStep(sql, pos, mode, out) ==
    LET st == Reading(out)
    IN  /\ pos \in Nat \ {0} /\ out \in Seq(Written(sql)) /\ st \in Readings(sql)
        /\ \/ mode \in {"normal", "line", "block"} /\ st.mode \in {"normal", "maybe"}
           \/ mode = "'" /\ st.mode \in {"string", "escape"}
        /\ pos <= Len(sql) =>
              /\ st.mode = "escape" => sql[pos] \notin {"'", "\\"}
              /\ mode = "normal" /\ st.mode = "maybe" => sql[pos] # "'"

ScannedAsRead ==
    /\ job.at \in {"idle", "render"} =>
          job.pos = 1 /\ job.mode = "normal" /\ job.out = <<>>
    /\ job.at = "scan" /\ PlainSQL(job.sql) => InStep(job.sql, job.pos, job.mode, job.out)
    /\ job.at \in {"clean", "answered"} /\ PlainSQL(job.sql) =>
          Reading(job.out) \in Readings(job.sql)
          /\ Reading(job.out).mode \in {"normal", "maybe"}
=============================================================================
