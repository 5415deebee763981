---------------------------- MODULE MC_Mutations ----------------------------
EXTENDS Mutations, TLC

MCWritableTables ==
    ("t" :> [columns |-> {"c", "d"}, operations |-> {"insert", "update", "delete"}])
    @@ ("log" :> [columns |-> {"c"}, operations |-> {"insert"}])
MCReadableTables == ("t" :> {"id", "c", "d"}) @@ ("log" :> {"c"}) @@ ("u" :> {"c"})

Writer == [operations |-> {"query", "mutation"}, sources |-> {"ds"}]
Identities == {Null, Writer, [operations |-> {"query"}, sources |-> {}],
            [operations |-> {"mutation"}, sources |-> {"other"}]}

On(field, op, vals, list) == [field |-> field, op |-> op, vals |-> vals, list |-> list]
One(op, vals, list) == On("c", op, vals, list)
Filters ==
    {One(op, vs, FALSE) : op \in {"EQ", "NEQ", "GT", "GTE", "LT", "LTE", "LIKE"},
                          vs \in {<<2>>, <<Null>>}}
    \cup {One(op, <<1>>, FALSE) : op \in Memberships \cup NullTests}
    \cup {One(op, vs, TRUE) : op \in Memberships,
                              vs \in {<<>>, <<1>>, <<1, 2>>, <<2, Null>>}}

Insert == [op |-> "insert", table |-> "t", cols |-> <<"c">>, rows |-> << <<1>> >>,
           filters |-> <<>>, who |-> Writer]
Update == [Insert EXCEPT !.op = "update", !.rows = << <<2>> >>,
                         !.filters = <<One("EQ", <<1>>, FALSE)>>]
Delete == [Update EXCEPT !.op = "delete", !.cols = <<>>, !.rows = <<>>]
Batch == [Insert EXCEPT !.op = "insertBatch", !.rows = << <<1>>, <<2>> >>]

InsertArgs ==
    {[Insert EXCEPT !.who = w] : w \in Identities}
    \cup {[Insert EXCEPT !.table = x] : x \in {"log", "u", "x", "a b"}}
    \cup {[Insert EXCEPT !.cols = <<x>>] : x \in {"id", "a b"}}
    \cup {[Insert EXCEPT !.cols = <<>>, !.rows = << <<>> >>]}
FilterArgs ==
    {[u EXCEPT !.filters = fs] :
        u \in {Update, Delete},
        fs \in {<<f>> : f \in Filters} \cup
               {<<>>, <<One("IN", <<1, 2>>, TRUE), On("id", "IS_NOT_NULL", <<Null>>, FALSE),
                        On("d", "LT", <<2>>, FALSE)>>,
                <<On("d", "EQ", <<1>>, FALSE), On("id", "EQ", <<2>>, FALSE)>>,
                <<On("hidden", "EQ", <<1>>, FALSE)>>}}
    \cup {[Update EXCEPT !.cols = <<>>, !.rows = << <<>> >>],
          [Delete EXCEPT !.table = "log"], [Update EXCEPT !.table = "a b"]}
BatchArgs ==
    {[Batch EXCEPT !.rows = rs] :
        rs \in {<<>>, << <<1>> >>, << <<1>>, <<2>> >>, << <<1>>, <<1>>, <<1>> >>,
                << <<1>>, <<1, 2>> >>}}
    \cup {[Batch EXCEPT !.cols = <<"d", "c">>, !.rows = << <<1, 2>>, <<2, Null>> >>],
          [Batch EXCEPT !.cols = <<>>], [Batch EXCEPT !.who = Null]}

\* Every call once the switch is settled, one kind of call while it moves, and
\* a longer history of the file without calls.
MCWorkloads ==
    {[args |-> InsertArgs \cup FilterArgs \cup BatchArgs, edits |-> 0, audit |-> b] :
        b \in BOOLEAN}
    \cup {[args |-> {Insert}, edits |-> 1, audit |-> TRUE],
          [args |-> {}, edits |-> MaxEdits, audit |-> TRUE]}
MCToggle == {[args |-> {Insert}, edits |-> 1, audit |-> TRUE]}
=============================================================================
