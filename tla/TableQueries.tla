---------------------------- MODULE TableQueries ----------------------------
(***************************************************************************)
(* The starrocks query of the GraphQL API: the resolver builds a request,  *)
(* the adapter behind "analytics_db" turns it into one SELECT and, when    *)
(* totalCount was asked for, one COUNT; the resolver cuts the rows to      *)
(* max_result_rows and answers with a Relay connection.  A client walks    *)
(* through a table page by page, by offset or by cursor, while rows are    *)
(* appended to it.                                                         *)
(*                                                                         *)
(* A table is the sequence of the values of its column "c"; the column     *)
(* "id" of a row is its place.  A statement keeps its clauses and its      *)
(* parameters apart, as database/sql does: the database binds the          *)
(* parameters to the placeholders by position.                             *)
(***************************************************************************)
EXTENDS Integers, Sequences, SequencesExt

CONSTANTS
    Kinds,           \* types of data source "analytics_db" can have
    QueryArgs,       \* the arguments clients give
    None,            \* an argument that is not given; SQL's NULL
    AllowedTables,   \* allowed_tables: table |-> its columns
    Malformed,       \* names that are no identifiers
    MaxResultRows,   \* graphql.max_result_rows
    MaxQueryLimit,   \* maxQueryLimit of the ClickHouse adapter
    MaxRows,         \* bound: rows of the table
    MaxPages         \* bound: pages a client asks for

Comparisons == {"EQ", "NEQ", "GT", "GTE", "LT", "LTE", "LIKE"}
Memberships == {"IN", "NOT_IN"}
NullTests == {"IS_NULL", "IS_NOT_NULL"}
FilterOps == Comparisons \cup Memberships \cup NullTests

\* What the schema of the API makes of the arguments.  A filter has one value
\* whatever its operator, a string that reads as a number here.
StarRocksFilter == [field : STRING, op : FilterOps, val : Int]
StarRocksOrderBy == [field : STRING, dir : {"ASC", "DESC"}]
Cursors == [encoded : BOOLEAN, n : Int]
StarRocksArgs ==
    [table : STRING, fields : Seq(STRING),
     filters : Seq(StarRocksFilter \cup {None}),
     orderBy : Seq(StarRocksOrderBy \cup {None}),
     first : Int \cup {None}, after : Cursors \cup {None},
     offset : Int \cup {None}, limit : Int \cup {None}, needCount : BOOLEAN]

\* max_result_rows is not validated; without a positive one nothing is cut.
ASSUME QueryConstants ==
    /\ QueryArgs # {} /\ \A a \in QueryArgs : a \in StarRocksArgs
    /\ None \notin Int
    /\ Kinds \subseteq {"starrocks", "clickhouse"}
    /\ MaxResultRows \in Int /\ MaxQueryLimit \in Nat
    /\ MaxRows \in Nat /\ MaxPages \in Nat

VARIABLES
    kind,    \* type of "analytics_db"
    rows,    \* the table's column c, by id
    walk,    \* the client: its next arguments and what it has seen
    query    \* the resolver's call under way

queryVars == <<kind, rows, walk, query>>

CellValues == {1, 2, None}

-----------------------------------------------------------------------------
(* The request: buildStarRocksQueryRequest and the enum conversions        *)

convertFilterOperator(op) == IF op \in FilterOps THEN op ELSE "EQ"

convertSortDirection(dir) == IF dir = "DESC" THEN "DESC" ELSE "ASC"

\* Null elements of the two lists are skipped.
Given(s) == FlattenSeq([i \in DOMAIN s |-> IF s[i] = None THEN <<>> ELSE <<s[i]>>])

buildStarRocksQueryRequest(a) ==
    [table |-> a.table, fields |-> a.fields, needCount |-> a.needCount,
     filters |-> [i \in DOMAIN Given(a.filters) |->
                    [Given(a.filters)[i] EXCEPT !.op = convertFilterOperator(@)]],
     orderBy |-> [i \in DOMAIN Given(a.orderBy) |->
                    [Given(a.orderBy)[i] EXCEPT !.dir = convertSortDirection(@)]],
     first |-> a.first, after |-> a.after, offset |-> a.offset,
     limit |-> a.limit]

-----------------------------------------------------------------------------
(* The statement: the query builders of the two adapters                   *)

ValidateIdentifier(name) == name \notin Malformed

validateTable(table) ==
    ValidateIdentifier(table) /\ table \in DOMAIN AllowedTables

\* A column a clause may name.
ColumnAllowed(table, col) ==
    ValidateIdentifier(col) /\ col \in AllowedTables[table]

\* The parameters a filter adds, one for each of its placeholders.
FilterParams(f) == IF f.op \in NullTests THEN <<>> ELSE <<f.val>>

\* IN and NOT IN ask for a list of values, which a filter of this API never
\* has: both are refused.
buildINClause(f) == f.op \notin Memberships

buildWhereClause(fs) ==
    [clauses |-> [i \in DOMAIN fs |->
                    [field |-> fs[i].field, op |-> fs[i].op,
                     marks |-> Len(FilterParams(fs[i]))]],
     params |-> FlattenSeq([i \in DOMAIN fs |-> FilterParams(fs[i])])]

WhereAllowed(req) ==
    \A i \in DOMAIN req.filters :
        LET f == req.filters[i] IN
        /\ ColumnAllowed(req.table, f.field)
        /\ buildINClause(f)

\* A cursor is the number a client wrote, or what encodeCursor returned:
\* the base64 text of "cursor:n", in which Sscanf finds no number.
decodeCursor(c) == IF c.encoded \/ c.n < 0 THEN -1 ELSE c.n

\* First goes before limit; after before offset, and an after that cannot
\* be decoded gives no OFFSET at all.
LimitOf(req) == IF req.first # None THEN req.first ELSE req.limit
OffsetOf(req) ==
    IF req.after = None THEN req.offset
    ELSE IF decodeCursor(req.after) >= 0 THEN decodeCursor(req.after)
    ELSE None

Clamped(n, top) == IF n < 0 THEN 0 ELSE IF n > top THEN top ELSE n

buildLimitClause(req) ==
    LET l == LimitOf(req)  o == OffsetOf(req) IN
    IF kind = "starrocks" THEN [limit |-> l, offset |-> o]
    ELSE [limit |-> IF l = None THEN None ELSE Clamped(l, MaxQueryLimit),
          offset |-> IF o = None \/ o >= 0 THEN o ELSE 0]

OrderAllowed(req) ==
    \A i \in DOMAIN req.orderBy : ColumnAllowed(req.table, req.orderBy[i].field)

Buildable(req) ==
    /\ validateTable(req.table)
    /\ \A i \in DOMAIN req.fields : ColumnAllowed(req.table, req.fields[i])
    /\ WhereAllowed(req) /\ OrderAllowed(req)

Build(req) ==
    [where |-> buildWhereClause(req.filters), order |-> req.orderBy,
     page |-> buildLimitClause(req)]

\* COUNT with the filters of Build.
BuildCount(req) ==
    [where |-> buildWhereClause(req.filters), order |-> <<>>,
     page |-> [limit |-> None, offset |-> None]]

-----------------------------------------------------------------------------
(* The database *)

\* SQL comparisons are not true of NULL.  A pattern without wildcards is
\* LIKE itself only.
Satisfies(op, cell, args) ==
    CASE op = "IS_NULL"     -> cell = None
      [] op = "IS_NOT_NULL" -> cell # None
      [] OTHER -> /\ cell # None
                  /\ CASE op \in {"EQ", "LIKE"} -> cell = args[1]
                       [] op = "NEQ"    -> cell # args[1]
                       [] op = "GT"     -> cell > args[1]
                       [] op = "GTE"    -> cell >= args[1]
                       [] op = "LT"     -> cell < args[1]
                       [] op = "LTE"    -> cell <= args[1]
                       [] op = "IN"     -> \E i \in DOMAIN args : cell = args[i]
                       [] op = "NOT_IN" -> \A i \in DOMAIN args : cell # args[i]

Cell(id, col) == IF col = "id" THEN id ELSE rows[id]

MarksBefore(clauses, i) ==
    SumFunctionOnSet([j \in DOMAIN clauses |-> clauses[j].marks], 1 .. i - 1)

ArgsOf(where, i) ==
    LET b == MarksBefore(where.clauses, i) IN
    SubSeq(where.params, b + 1, b + where.clauses[i].marks)

Matching(where) ==
    {id \in DOMAIN rows : \A i \in DOMAIN where.clauses :
        Satisfies(where.clauses[i].op, Cell(id, where.clauses[i].field),
                  ArgsOf(where, i))}

\* The driver counts the placeholders; LIMIT and OFFSET must not be negative.
Accepted(sql) ==
    /\ Len(sql.where.params)
         = MarksBefore(sql.where.clauses, Len(sql.where.clauses) + 1)
    /\ sql.page.limit # None => sql.page.limit >= 0
    /\ sql.page.offset # None => sql.page.offset >= 0

\* Without ORDER BY the rows come in any order.
Ordered(order, ids) ==
    {s \in SetToSeqs(ids) :
        order # <<>> =>
            \A i, j \in DOMAIN s :
                i < j => IF order[1].dir = "ASC"
                         THEN Cell(s[i], order[1].field) <= Cell(s[j], order[1].field)
                         ELSE Cell(s[i], order[1].field) >= Cell(s[j], order[1].field)}

Page(page, s) ==
    LET from == IF page.offset = None THEN 0 ELSE page.offset
        to == IF page.limit = None THEN Len(s) ELSE from + page.limit
    IN  SubSeq(s, from + 1, IF to < Len(s) THEN to ELSE Len(s))

-----------------------------------------------------------------------------
(* The client and the resolver *)

NoPage == [ids |-> <<>>, hasNextPage |-> FALSE, hasPreviousPage |-> FALSE,
           endCursor |-> None, total |-> 0]

Tables == UNION {[1 .. n -> CellValues] : n \in 0 .. MaxRows}

\* A client with one of these arguments before one of these tables.
Before(kinds, tables, args) ==
    /\ kind \in kinds /\ rows \in tables
    /\ \E a \in args :
         walk = [at |-> "asking", args |-> a, from |-> a.offset,
                 known |-> rows, seen |-> <<>>, warned |-> FALSE,
                 pages |-> 0, page |-> NoPage, fresh |-> TRUE]
    /\ query = [at |-> "idle", data |-> <<>>, total |-> None]

QueryInit == Before(Kinds, Tables, QueryArgs)

Request == buildStarRocksQueryRequest(walk.args)

\* The call ends with an error: refused by the builder, or failed.
Ends(how) ==
    /\ walk' = [walk EXCEPT !.at = how]
    /\ query' = [at |-> "idle", data |-> <<>>, total |-> None]
    /\ UNCHANGED <<kind, rows>>

\* The resolver calls the adapter, which refuses what it cannot build.
Starrocks ==
    /\ walk.at = "asking" /\ query.at = "idle"
    /\ \/ ~Buildable(Request) /\ Ends("refused")
       \/ /\ Buildable(Request)
          /\ query' = [query EXCEPT !.at = "select"]
          /\ UNCHANGED <<kind, rows, walk>>

\* QueryContext and scanRows.  A connection may fail at any time.
ExecuteSelect ==
    /\ query.at = "select"
    /\ \/ Ends("failed")
       \/ /\ Accepted(Build(Request))
          /\ \E s \in Ordered(Build(Request).order, Matching(Build(Request).where)) :
                query' = [query EXCEPT
                            !.at = IF Request.needCount THEN "count" ELSE "reply",
                            !.data = Page(Build(Request).page, s)]
          /\ UNCHANGED <<kind, rows, walk>>

\* Mutant: the count is that of the rows read.
ExecuteCount_OfPage ==
    /\ query.at = "count"
    /\ query' = [query EXCEPT !.at = "reply", !.total = Len(query.data)]
    /\ UNCHANGED <<kind, rows, walk>>

\* The second statement sees the table as it is by then.
ExecuteCount ==
    /\ query.at = "count"
    /\ \/ Ends("failed")
       \/ /\ Accepted(BuildCount(Request))
          /\ query' = [query EXCEPT
                         !.at = "reply",
                         !.total = Cardinality(Matching(BuildCount(Request).where))]
          /\ UNCHANGED <<kind, rows, walk>>

encodeCursor(n) == [encoded |-> TRUE, n |-> n]

\* Mutant: a full page is taken for the last one.
buildStarRocksConnection_FullIsLast(data, total, offset, first) ==
    LET start == IF offset = None THEN 0 ELSE offset IN
    [ids |-> data,
     hasNextPage |-> first # None /\ Len(data) > first,
     hasPreviousPage |-> start > 0,
     endCursor |-> IF data = <<>> THEN None
                   ELSE encodeCursor(start + Len(data) - 1),
     total |-> IF total = None THEN 0 ELSE total]

\* The index of the first row is the offset argument, whatever after says.
buildStarRocksConnection(data, total, offset, first) ==
    LET start == IF offset = None THEN 0 ELSE offset IN
    [ids |-> data,
     hasNextPage |-> first # None /\ Len(data) >= first,
     hasPreviousPage |-> start > 0,
     endCursor |-> IF data = <<>> THEN None
                   ELSE encodeCursor(start + Len(data) - 1),
     total |-> IF total = None THEN 0 ELSE total]

Truncated(data) == MaxResultRows > 0 /\ Len(data) > MaxResultRows

\* The rows are cut to max_result_rows, with a warning in the extensions.
Reply ==
    /\ query.at = "reply"
    /\ LET data == SubSeq(query.data, 1, IF Truncated(query.data)
                                         THEN MaxResultRows ELSE Len(query.data))
           page == buildStarRocksConnection(data, query.total,
                                            walk.args.offset, walk.args.first)
       IN  walk' = [walk EXCEPT
                      !.at = "answered", !.page = page,
                      !.pages = walk.pages + 1,
                      !.warned = walk.warned \/ Truncated(query.data),
                      !.fresh = \A i \in DOMAIN data :
                                    \A j \in DOMAIN walk.seen :
                                        data[i] # walk.seen[j],
                      !.seen = walk.seen \o data]
    /\ query' = [at |-> "idle", data |-> <<>>, total |-> None]
    /\ UNCHANGED <<kind, rows>>

\* The client asks for the rows behind the ones it has, by offset ...
NextByOffset ==
    /\ walk.at = "answered" /\ walk.page.hasNextPage
    /\ walk.pages < MaxPages /\ walk.args.after = None
    /\ walk' = [walk EXCEPT
                  !.at = "asking",
                  !.args.offset = (IF walk.args.offset = None THEN 0
                                   ELSE walk.args.offset) + Len(walk.page.ids)]
    /\ UNCHANGED <<kind, rows, query>>

\* ... or by the cursor of the last row.
NextByCursor ==
    /\ walk.at = "answered" /\ walk.page.hasNextPage
    /\ walk.pages < MaxPages /\ walk.page.endCursor # None
    /\ walk.args.offset = None
    /\ walk' = [walk EXCEPT !.at = "asking",
                            !.args.after = walk.page.endCursor]
    /\ UNCHANGED <<kind, rows, query>>

\* Somebody appends a row to the table.
AppendRow ==
    /\ Len(rows) < MaxRows /\ walk.at \in {"asking", "answered"}
    /\ \E v \in CellValues : rows' = Append(rows, v)
    /\ UNCHANGED <<kind, walk, query>>

QueryNext ==
    \/ Starrocks \/ ExecuteSelect \/ ExecuteCount \/ Reply
    \/ NextByOffset \/ NextByCursor \/ AppendRow

QuerySpec == QueryInit /\ [][QueryNext]_queryVars

-----------------------------------------------------------------------------
\* What a client asked for, by the meaning of the operators it wrote.
Wanted(a, id, cell) ==
    \A i \in DOMAIN a.filters :
        a.filters[i] # None =>
            Satisfies(a.filters[i].op,
                      IF a.filters[i].field = "id" THEN id ELSE cell,
                      <<a.filters[i].val>>)

\* The rows of a page are rows the client asked for, however many comparisons
\* and null tests it combined (convertFilterOperator, buildWhereClause: the
\* parameters meet their placeholders), and no more than first or
\* max_result_rows of them.
RowsAnswerTheFilters ==
    walk.at = "answered" =>
        /\ \A i \in DOMAIN walk.page.ids :
               Wanted(walk.args, walk.page.ids[i], rows[walk.page.ids[i]])
        /\ MaxResultRows > 0 => Len(walk.page.ids) <= MaxResultRows
        /\ walk.args.first # None /\ walk.args.first >= 0 =>
               Len(walk.page.ids) <= walk.args.first

\* The rows of a table that a client asked for, by id.
WantedOf(a, table) ==
    FlattenSeq([id \in DOMAIN table |->
                   IF Wanted(a, id, table[id]) THEN <<id>> ELSE <<>>])

\* Where a walk began.
Start(from) == IF from = None THEN 0 ELSE from

\* How many rows the statement of a client that gives first asks for.
PageSize ==
    IF kind = "starrocks" \/ walk.args.first <= MaxQueryLimit
    THEN walk.args.first ELSE MaxQueryLimit

\* ClickHouse lowers a LIMIT to maxQueryLimit and says nothing: the page looks
\* like the last one, unless max_result_rows lies below and its warning tells.
\* (The defaults, 10000 and 100000, do.)
CutsAreTold ==
    PageSize = walk.args.first \/ (MaxResultRows > 0 /\ MaxResultRows < MaxQueryLimit)

\* A walk by offset over a table ordered by id, from an offset that is not
\* negative, with pages that are not cut in silence.
WalksById ==
    /\ walk.args.first # None /\ walk.args.first > 0
    /\ walk.args.after = None /\ Start(walk.from) >= 0
    /\ Given(walk.args.orderBy) = << [field |-> "id", dir |-> "ASC"] >>
    /\ CutsAreTold

\* Such a walk that ends because hasNextPage is false, and was never told of
\* a truncation, has seen every row asked for that was there when it began,
\* once and in order, whatever was appended meanwhile
\* (buildStarRocksConnection, buildLimitClause).
WalkSeesEverything ==
    (walk.at = "answered" /\ ~walk.page.hasNextPage /\ ~walk.warned
     /\ WalksById) =>
        LET all == WantedOf(walk.args, walk.known)
        IN  IsPrefix(SubSeq(all, Start(walk.from) + 1, Len(all)), walk.seen)

\* How many rows are in front of the page asked for.
InFront ==
    IF OffsetOf(Request) = None \/ OffsetOf(Request) < 0 THEN 0 ELSE OffsetOf(Request)

\* totalCount comes from a statement of its own, run after the rows were
\* read (Execute): with rows only ever appended it counts at least the rows
\* up to the end of the page.
PageWithinTotal ==
    walk.at = "answered" /\ walk.args.needCount /\ walk.page.ids # <<>> =>
        walk.page.total >= InFront + Len(walk.page.ids)

\* A page answers the query: its rows are wanted ones, within the limits, and
\* the total that comes with them covers them, although others write meanwhile.
PageAnswersQuery == RowsAnswerTheFilters /\ PageWithinTotal

\* Relay paging, "first: 20, after: endCursor_value" for the next page
\* (official_document/graphql-api.md): the page behind a cursor has no row
\* that the client has seen before.
CursorPagesAdvance ==
    walk.at = "answered" /\ walk.args.after # None => walk.fresh

-----------------------------------------------------------------------------
(* Inductive invariant                                                     *)

Pages ==
    [ids : Seq(Nat), hasNextPage : BOOLEAN, hasPreviousPage : BOOLEAN,
     endCursor : Cursors \cup {None}, total : Nat]
Walks ==
    [at : {"asking", "answered", "refused", "failed"}, args : StarRocksArgs,
     from : Int \cup {None}, known : Seq(CellValues), seen : Seq(Nat),
     warned : BOOLEAN, pages : Nat, page : Pages, fresh : BOOLEAN]
Queries ==
    [at : {"idle", "select", "count", "reply"}, data : Seq(Nat),
     total : Nat \cup {None}]

QueryTypeOK == rows \in Seq(CellValues) /\ walk \in Walks /\ query \in Queries

\* The rows of a table a client asks for, and those of this one.
WantedIds(a, table) == {id \in DOMAIN table : Wanted(a, id, table[id])}
WantedRows == WantedIds(walk.args, rows)

\* The rows read and not yet sent are rows asked for, no more than first; a
\* count made after them covers them and all in front of them.
ReadAnswersQuery ==
    /\ query.at # "idle" => walk.at = "asking"
    /\ query.at \in {"count", "reply"} =>
          /\ \A i \in DOMAIN query.data : query.data[i] \in WantedRows
          /\ query.data # <<>> => InFront + Len(query.data) <= Cardinality(WantedRows)
          /\ walk.args.first # None /\ walk.args.first >= 0 =>
                Len(query.data) <= walk.args.first
    /\ query.at = "reply" /\ walk.args.needCount =>
          /\ query.total # None
          /\ query.data # <<>> => InFront + Len(query.data) <= query.total

\* So are those of the page sent last.
PageIsWanted ==
    walk.at = "answered" =>
        \A i \in DOMAIN walk.page.ids : walk.page.ids[i] \in WantedRows

\* The table only grows.
TableGrows ==
    /\ Len(walk.known) <= Len(rows)
    /\ \A id \in DOMAIN walk.known : rows[id] = walk.known[id]

\* The rows s are those behind the first n of all.
Behind(all, s, n) == \A k \in DOMAIN s : n + k <= Len(all) /\ s[k] = all[n + k]

\* A walk by offset has seen the rows from its start to its offset, and a page
\* that is not full reaches behind all rows that were there when it began.
WalkSoFar ==
    LET old == Len(WantedOf(walk.args, walk.known))
        all == WantedOf(walk.args, rows)
        at == Start(walk.args.offset)
    IN  WalksById /\ ~walk.warned =>
          /\ Behind(all, walk.seen, Start(walk.from))
          /\ walk.at # "answered" => at = Start(walk.from) + Len(walk.seen)
          /\ walk.at = "answered" =>
                /\ at + Len(walk.page.ids) = Start(walk.from) + Len(walk.seen)
                /\ ~walk.page.hasNextPage => old <= Start(walk.from) + Len(walk.seen)
          /\ query.at \in {"count", "reply"} =>
                /\ Behind(all, query.data, at)
                /\ Len(query.data) < PageSize => old <= at + Len(query.data)

QueryInv ==
    /\ QueryTypeOK /\ ReadAnswersQuery /\ PageIsWanted /\ PageAnswersQuery
    /\ TableGrows /\ WalkSoFar
=============================================================================
