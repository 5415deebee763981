---------------------------- MODULE MC_Rendering ----------------------------
EXTENDS TemplateRendering, TLC

Schema(name, type) == [name |-> name, type |-> type, required |-> TRUE,
                       default |-> Absent, enum |-> {}, maxLength |-> 0,
                       maxItems |-> 0, pattern |-> {}]
Writes(s) == [param |-> Absent, chars |-> s, means |-> s, fns |-> <<>>]
Comment(s, means) == [param |-> Absent, chars |-> s, means |-> means, fns |-> <<>>]
Use(p, fns) == [param |-> p, chars |-> <<>>, means |-> <<>>, fns |-> fns]

\* One parameter x, between a letter and the rest of the statement.
Template(schema, fns, rest) ==
    [schemas |-> <<schema>>, countEnabled |-> TRUE,
     parts |-> <<Writes(<<"a">>), Use("x", fns), rest>>]

Letter == Writes(<<"b">>)
Comments == {Comment(<<"-", "-", ";", "'", "\n", "b">>, <<"\n", "b">>),
             Comment(<<"/", "*", "'", "*", "/", "b">>, <<" ", "b">>),
             Writes(<<"/", "*", "+", ";", "*", "/">>),
             Writes(<<"-", "/">>)}

WholeResult == [fields |-> <<>>, orderBy |-> <<>>, first |-> Absent, offset |-> Absent,
           needCount |-> FALSE, fromStart |-> TRUE]
Asks(template, params) == [template |-> template, params |-> params] @@ WholeResult
With(template, v) == Asks(template, "x" :> v)

Strings == {Text(s) : s \in SeqOf({"a", "'", "\\", "NUL", "-", ";", "%"}, 3)}
Shorter == {Text(s) : s \in SeqOf({"a", "'", "\\"}, 2)}
Numbers == {Number(t, n) : t \in {"int", "float"}, n \in {"0", "1", "-2^63"}}
           \cup {Number("float", n) : n \in {"1.5", "2^63", "NaN"}}
           \cup {Number("int", "2^63-1"), Number("json.Number", "1"), Number("bool", "false")}
           \cup {Text(Spelled(n)) : n \in Numerals \cup {"NaN", "a"}}
Lists == {[type |-> "list", items |-> s] : s \in SeqOf(Shorter, 2)}
         \cup {[type |-> "list", items |-> <<Text(<<"a">>), Number("int", "1")>>]}

Constrained == {[Schema("x", "string") EXCEPT !.maxLength = 1],
                [Schema("x", "string") EXCEPT !.enum = {<<"a">>}],
                [Schema("x", "string") EXCEPT !.pattern = {"a"}]}
Optional == {[Schema("x", "string") EXCEPT !.required = FALSE, !.default = d] :
                d \in {Absent, Text(<<"'">>)}}
Identifier == [Schema("x", "string") EXCEPT !.enum = {<<"a">>, <<"a", ".", "b">>}]
Ratios == {[Schema("x", "float") EXCEPT !.required = FALSE, !.default = Number("float", n)] :
              n \in {"1.5", "NaN"}}

RenderingRequests ==
    {With(Template(Schema("x", "string"), fns, Letter), v) :
        fns \in {<<"quote">>, <<"safeLike", "quote">>}, v \in Strings}
    \cup {With(Template(s, <<"quote">>, c), v) :
             s \in {Schema("x", "string")} \cup Constrained, c \in Comments, v \in Shorter}
    \cup {With(Template(Identifier, <<"safeIdentifier">>, Letter), v) :
             v \in {Text(<<"a">>), Text(<<"a", ".", "b">>), Text(<<"b">>)}}
    \cup {Asks(Template(s, <<"safeFloat">>, Letter), <<>>) : s \in Ratios}
    \cup {With(Template(Schema("x", type), fns, Letter), v) : v \in Numbers,
             type \in {"int"}, fns \in {<<"safeInt">>, <<"default", "safeInt">>}}
    \cup {With(Template(Schema("x", "float"), <<"safeFloat">>, Letter), v) : v \in Numbers}
    \cup {With(Template([Schema("x", "string[]") EXCEPT !.maxItems = n],
                        <<"safeInList">>, Letter), v) : v \in Lists, n \in {0, 1}}
    \cup {Asks(Template(s, <<"quote">>, Letter), <<>>) :
             s \in Optional \cup {Schema("x", "string")}}
    \cup {With([schemas |-> <<Schema("x", "boolean")>>, countEnabled |-> TRUE,
                parts |-> <<Writes(s)>>], v) :
             v \in {Number("bool", "true"), Number("int", "1")},
             s \in {<<"a">>, <<" ">>, <<"a", ";">>, <<"a", "'">>, <<"a", "dquote", ";">>,
                    <<"tick", ";", "tick">>, <<"/", "*", "a">>}}

\* Columns a, which is unique, and b.
MCUniqueColumns == {<<"a">>}
Names == {<<fields, orderBy>> : fields \in {<<>>, << <<"a">> >>},
                                orderBy \in {<<>>, << <<"b">>, <<"a">> >>}}
         \cup {<< <<>>, << <<"b">> >> >>, << << <<"-">> >>, <<>> >>, << <<>>, << <<"-">> >> >>}

PagingRequests ==
    {[With([Template(Schema("x", "string"), <<"quote">>, Letter)
            EXCEPT !.countEnabled = counts], Text(<<"a">>))
      EXCEPT !.first = first, !.offset = offset, !.needCount = TRUE,
             !.fields = names[1], !.orderBy = names[2],
             !.fromStart = (offset \in {Absent, 0})] :
        first \in {Absent, -2, -1, 0, 1, 2, 3, 5}, offset \in {Absent, -1, 0, 1, 5},
        names \in Names, counts \in BOOLEAN}

MCTemplateRequests == RenderingRequests \cup PagingRequests
=============================================================================
