----------------------------- MODULE MC_Tables ------------------------------
EXTENDS TableQueries, TLC

MCAllowedTables == ("t" :> {"id", "c"})

ById == << [field |-> "id", dir |-> "ASC"] >>
Plain == [table |-> "t", fields |-> <<>>, filters |-> <<>>, orderBy |-> ById,
          first |-> None, after |-> None, offset |-> None, limit |-> None,
          needCount |-> FALSE]
On(field, op, val) == [field |-> field, op |-> op, val |-> val]

\* Every filter alone, two filters together, and names that are not allowed.
FilterArgs ==
    {[Plain EXCEPT !.filters = <<On("c", op, 1)>>, !.first = 2] : op \in FilterOps}
    \cup {[Plain EXCEPT !.filters = <<On("id", op, 1), None, On("c", q, 2)>>] :
             op \in {"GT", "IS_NOT_NULL"}, q \in {"NEQ", "GTE", "IS_NULL"}}
    \cup {[Plain EXCEPT !.table = "x1"], [Plain EXCEPT !.table = "a b"],
          [Plain EXCEPT !.fields = <<"id", "hidden">>],
          [Plain EXCEPT !.filters = <<On("hidden", "EQ", 1)>>],
          [Plain EXCEPT !.orderBy = <<[field |-> "hidden", dir |-> "ASC"]>>]}

\* The ways to ask for a page, with the count.
PageArgs ==
    {[Plain EXCEPT !.first = f, !.offset = o, !.needCount = TRUE,
                   !.filters = fs] :
        f \in {None, -1, 0, 1, 2, 3, 4}, o \in {None, 1},
        fs \in {<<>>, <<On("c", "NEQ", 1)>>}}
    \cup {[Plain EXCEPT !.limit = 1, !.offset = o] : o \in {None, -1, 1}}
    \cup {[Plain EXCEPT !.first = 1, !.after = [encoded |-> FALSE, n |-> n]] :
             n \in {-1, 1}}
    \cup {[Plain EXCEPT !.first = 2, !.orderBy = o] :
             o \in {<<>>, <<None, [field |-> "id", dir |-> "DESC"]>>}}

MCQueryArgs == FilterArgs \cup PageArgs
MCCursorArgs == {[Plain EXCEPT !.first = 2]}
=============================================================================
