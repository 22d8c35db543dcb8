---------------------------- MODULE MCStatements ----------------------------
(***************************************************************************)
(* The statements checked: parsed SELECTs over a table t of rows in one or *)
(* two segments, and a dimension q.                                        *)
(***************************************************************************)
EXTENDS PlanEvaluation

CONSTANTS a, b

\* Nodes of an expression.
Col(c) == [e |-> "column", q |-> << >>, c |-> c]
In(q, c) == [e |-> "column", q |-> <<q>>, c |-> c]
Num(n) == [e |-> "number", n |-> n]
Str(s) == [e |-> "string", s |-> s]
Un(op, x) == [e |-> "unary", op |-> op, x |-> x]
Bin(op, l, r) == [e |-> "binary", op |-> op, l |-> l, r |-> r]
Paren(x) == [e |-> "paren", x |-> x]
IsNull(x, negated) == [e |-> "isnull", x |-> x, negated |-> negated]
OneOf(x, list, negated) == [e |-> "in", x |-> x, list |-> list, negated |-> negated]
Fn(f, args) == [e |-> "call", f |-> f, args |-> args, over |-> << >>]
When(c, v, otherwise) == [e |-> "case", whens |-> <<[when |-> c, then |-> v]>>, otherwise |-> otherwise]
Star == [e |-> "star"]

Over(f, args, partition, order, frame) ==
    [Fn(f, args) EXCEPT !.over = <<[partition |-> partition, order |-> order, frame |-> frame]>>]

By_(x) == <<[x |-> x, descending |-> FALSE, nulls |-> << >>]>>

Frame_(unit, preceding) == <<[unit |-> unit, preceding |-> preceding, end |-> "current"]>>

Unbounded == [e |-> "unbounded"]

As(x, name) == [x |-> x, alias |-> <<name>>]
Plainly(x) == [x |-> x, alias |-> << >>]

SelectOf(items) ==
    [from |-> "t", alias |-> << >>, join |-> << >>, where |-> << >>, items |-> items, group |-> << >>,
     having |-> << >>, distinct |-> FALSE, order |-> << >>, limit |-> << >>, offset |-> << >>]

----------------------------------------------------------------------------
\* Tables.

Fact(clocks, symbols, cells, numbers) ==
    [i \in DOMAIN clocks |-> [ts |-> clocks[i], sym |-> symbols[i], x |-> cells[i], n |-> numbers[i]]]

FactTable(rows, cut) ==
    [types |-> [ts |-> "i64", sym |-> "key", x |-> "f64", n |-> "i64"], ordering |-> "ts",
     segments |-> <<SubSeq(rows, 1, cut), SubSeq(rows, cut + 1, Len(rows))>>]

DimensionTable(rows) ==
    [types |-> [k |-> "key", qts |-> "i64", d |-> "f64"], ordering |-> "qts", segments |-> <<rows>>]

StatementCase(statement, tables) ==
    [segments |-> << >>, dimension |-> << >>,
     plan |-> [kind |-> "statement", join |-> "none", statement |-> statement, tables |-> tables]]

Alone(statement, table) == StatementCase(statement, [t |-> table])

Rows3(cells) == Fact(<<-1, 0, 0>>, <<a, Null, b>>, cells, <<0, Null, 2>>)

----------------------------------------------------------------------------
\* Expressions of the SELECT list.
RunningSum == Over("sum", <<Col("x")>>, << >>, By_(Col("ts")), Frame_("rows", Unbounded))
Lagged == Over("lag", <<Col("x")>>, << >>, By_(Col("ts")), << >>)
Kernel(x) == Fn("running", <<x>>)

Expressions ==
    {Un("-", Col("x")), Bin("-", Num(1), Col("x")), Bin("*", Fn("abs", <<Col("x")>>), Num(2)),
     Bin("+", Col("n"), Num(1)), Fn("sqrt", <<Col("x")>>), Fn("abs", <<Col("x"), Col("x")>>),
     When(Bin(">", Col("x"), Num(0)), Col("x"), <<Un("-", Num(1))>>),
     When(Bin("<", Num(0), Col("x")), Num(1), << >>),
     When(IsNull(Col("x"), FALSE), Num(0), <<Bin("+", Col("x"), Num(1))>>),
     When(OneOf(Col("sym"), <<Str(a)>>, TRUE), Col("x"), <<Num(3)>>),
     When(Bin(">", Bin("+", Col("x"), Lagged), Num(0)), Lagged, <<RunningSum>>),
     Kernel(Col("x")), Bin("*", Kernel(Bin("+", Col("x"), Num(1))), Num(2)), Fn("abs", <<Kernel(Col("x"))>>),
     Kernel(Fn("abs", <<Kernel(Col("x"))>>)), Kernel(Col("n")),
     When(Bin(">", Kernel(Col("x")), Num(1)), Num(1), <<Num(0)>>),
     When(Bin(">", Num(0), Bin("-", Kernel(Col("x")), Num(1))), Num(1), << >>),
     When(Bin(">", Col("x"), Num(0)), Kernel(Col("x")), <<Num(0)>>),
     Bin("+", RunningSum, Col("x")), Bin("-", Col("x"), Lagged), Bin("-", Lagged, RunningSum),
     Bin("+", Kernel(Col("x")), Lagged), Bin("=", Col("x"), Num(1))}

Cells3 == [1..3 -> {Null, -1, 2}]

ItemStatements ==
    {Alone([SelectOf(<<Plainly(Col("x")), As(x, "y")>>) EXCEPT !.where = where], FactTable(Rows3(cells), cut)) :
        x \in Expressions, cells \in Cells3, cut \in {1, 2},
        where \in {<< >>, <<Bin("<>", Col("x"), Num(2))>>}}

----------------------------------------------------------------------------
\* WHERE.
Conditions ==
    {Bin(op, Num(1), Col("x")) : op \in Comparisons}
    \union {Bin(op, Col("x"), Un("-", Num(1))) : op \in Comparisons}
    \union {Bin(op, Bin("-", Num(1), Col("x")), Col("x")) : op \in {"<", ">="}}
    \union {Bin(op, Str(a), Col("sym")) : op \in {"=", "<>", "<"}}
    \union {Un("not", Paren(Bin("and", Bin(">", Col("x"), Num(0)), Un("not", Bin("=", Col("sym"), Str(a)))))),
            Bin("or", IsNull(Paren(Col("x")), FALSE), OneOf(Col("sym"), <<Str(b), Str(a)>>, TRUE)),
            Bin("and", Bin("<", Num(0), Col("n")), IsNull(Col("x"), TRUE)),
            Bin(">", Fn("abs", <<Col("x")>>), Num(1)), Bin(">", Kernel(Col("x")), Num(1)),
            Bin(">", Lagged, Num(0)), Bin("=", Col("x"), Col("n")), Bin(">", Num(2), Num(1)),
            Bin("=", Col("x"), Str(a)), Bin("=", Col("sym"), Num(1)), IsNull(Fn("abs", <<Col("x")>>), FALSE),
            Bin("=", When(Bin(">", Col("x"), Num(0)), Num(1), << >>), Num(1)),
            Bin("=", Col("nowhere"), Num(1))}

WhereStatements ==
    {Alone([SelectOf(<<Plainly(Col("ts")), Plainly(Col("sym")), Plainly(Col("x"))>>) EXCEPT !.where = <<where>>],
           FactTable(Rows3(cells), 2)) :
        where \in Conditions, cells \in [1..3 -> {Null, -1, 1}]}

----------------------------------------------------------------------------
\* GROUP BY and HAVING.
Sum(c) == Fn("sum", <<Col(c)>>)
CountAll == Fn("count", <<Star>>)
Bucket == Bin("/", Col("ts"), Num(2))
BucketStart == Bin("*", Paren(Bucket), Num(2))

Groupings ==
    {<<<<Col("sym")>>, <<Plainly(Col("sym")), As(Sum("x"), "s"), As(CountAll, "c")>>>>,
     <<<<Col("sym")>>, <<As(Sum("x"), "x"), As(Col("sym"), "s")>>>>,
     <<<<Col("sym")>>, <<As(CountAll, "__having0"), As(Sum("x"), "s")>>>>,
     <<<<Col("ts"), Col("sym")>>, <<Plainly(Col("sym")), Plainly(Col("ts")), As(Fn("count", <<Col("sym")>>), "c")>>>>,
     <<<<Bucket>>, <<As(Bucket, "w"), As(Fn("last", <<Col("x")>>), "s")>>>>,
     <<<<Col("w"), Col("sym")>>, <<As(BucketStart, "w"), As(Sum("n"), "s")>>>>,
     <<<<Col("ts")>>, <<As(Bucket, "ts"), As(Fn("first", <<Col("x")>>), "s")>>>>,
     <<<<Paren(BucketStart)>>, <<As(Bucket, "w"), As(CountAll, "c")>>>>,
     <<<<Col("n")>>, <<Plainly(Col("n")), As(CountAll, "c")>>>>,
     <<<<Col("x")>>, <<Plainly(Col("x"))>>>>,
     << << >>, <<As(Sum("x"), "s"), As(Fn("min", <<Col("n")>>), "c")>>>>,
     << << >>, <<Plainly(Col("sym")), As(CountAll, "c")>>>>}

Havings ==
    {<< >>, <<Bin(">", Sum("x"), Num(0))>>, <<Bin("<", Num(1), CountAll)>>, <<Bin("=", Col("s"), Num(2))>>,
     <<Un("not", Bin(">", Fn("min", <<Col("x")>>), Sum("x")))>>,
     <<Bin("or", Bin("=", Col("sym"), Str(a)), IsNull(Paren(Fn("max", <<Col("x")>>)), FALSE))>>,
     <<Bin(">", Bin("+", Sum("x"), Num(1)), Fn("first", <<Col("x")>>))>>,
     <<Bin(">", Fn("sum", <<Bin("+", Col("x"), Num(1))>>), Num(0))>>}

GroupStatements ==
    {Alone([SelectOf(g[2]) EXCEPT !.group = g[1], !.having = having, !.where = where],
           FactTable(Fact(clocks, <<a, Null, a, b>>, cells, <<2, 0, Null, 1>>), 2)) :
        g \in Groupings, having \in Havings, where \in {<< >>, <<Bin("<", Num(3), Col("x"))>>},
        clocks \in {<<-3, -1, -1, 2>>, <<1, 0, 2, 1>>}, cells \in {<<2, Null, 1, 0>>, <<-1, 2, 3, Null>>}}

----------------------------------------------------------------------------
\* Windows.
FramesOf(order) ==
    IF order = << >> THEN {<< >>, Frame_("rows", Num(1))}
    ELSE {<< >>, Frame_("rows", Unbounded), Frame_("rows", Num(1)), Frame_("range", Num(0)),
          Frame_("range", Num(1)), <<[unit |-> "rows", preceding |-> Num(1), end |-> "following"]>>}

WindowCalls ==
    LET partitions == {<< >>, <<Col("sym")>>, <<Bucket>>, <<Col("sym"), BucketStart>>, <<Col("n")>>, <<Col("x")>>}
        orders == {<< >>, By_(Col("ts")), By_(Col("x")), <<[x |-> Col("ts"), descending |-> TRUE, nulls |-> << >>]>>}
    IN  UNION {{Over(f, <<Col("x")>>, partition, order, frame) :
                   frame \in FramesOf(order), f \in {"sum", "count", "first"}} :
               partition \in partitions, order \in orders}
        \union {Over(f, args, partition, order, << >>) :
                   f \in {"lag", "lead"}, args \in {<<Col("x")>>, <<Col("n"), Num(2)>>, <<Col("x"), Num(0)>>},
                   partition \in partitions, order \in orders}

WindowStatements ==
    {Alone([SelectOf(<<As(w, "w"), Plainly(Col("ts"))>>) EXCEPT !.where = where],
           FactTable(Fact(clocks, symbols, <<1, 2, 3, -1>>, <<0, 0, 1, 0>>), 2)) :
        w \in WindowCalls, where \in {<< >>, <<Bin("<>", Col("x"), Num(1))>>},
        clocks \in {<<-1, 0, 0, 2>>, <<0, 2, 1, 3>>}, symbols \in {<<a, b, a, b>>, <<Null, a, b, a>>}}

----------------------------------------------------------------------------
\* Joins: sides of a comparison either way round, tables by name and by alias.
Equalities ==
    {Bin("=", In("t", "sym"), In("q", "k")), Bin("=", In("dim", "k"), In("t", "sym")),
     Bin("=", Col("sym"), In("q", "k")), Bin("=", In("q", "k"), Col("sym")), Bin("=", Col("sym"), Col("k"))}

Clocked == {Bin(op, In("t", "ts"), In("q", "qts")) : op \in Comparisons}
           \union {Bin(op, In("dim", "qts"), Col("ts")) : op \in {"<", "<=", ">"}}
           \union {Bin(">=", In("t", "x"), In("q", "qts")), Bin("<", In("q", "qts"), In("q", "d"))}

JoinsOf(kind) ==
    {[kind |-> kind, table |-> "q", alias |-> <<"dim">>, on |-> on, asof |-> asof] :
        on \in Equalities \union {Bin("and", e, c) : e \in {Bin("=", In("t", "sym"), In("q", "k"))}, c \in Clocked},
        asof \in BOOLEAN}

JoinedItems ==
    {<<Plainly(Col("ts")), Plainly(In("q", "d"))>>,
     <<As(Bin("-", In("dim", "d"), In("t", "x")), "y")>>,
     <<As(When(Bin(">", Col("x"), Num(1)), Col("d"), <<Num(0)>>), "y")>>,
     <<As(When(Bin(">", In("t", "x"), Num(1)), Col("d"), << >>), "y")>>,
     <<As(Kernel(Col("d")), "y")>>, <<Plainly(In("u", "d"))>>,
     <<As(Over("lag", <<In("q", "d")>>, << >>, By_(In("t", "ts")), << >>), "y")>>}

Quotes3 ==
    {<<[k |-> a, qts |-> t, d |-> 1], [k |-> s, qts |-> u, d |-> 2], [k |-> b, qts |-> 1, d |-> Null]>> :
        s \in {a, Null}, t, u \in {0, 1}}

JoinStatementsOf(items, kinds) ==
    {StatementCase([SelectOf(i) EXCEPT !.join = <<join>>, !.order = order, !.where = where],
                   [t |-> FactTable(Fact(<<0, 1, 2>>, <<a, b, a>>, <<1, 2, Null>>, <<1, 1, 1>>), 1),
                    q |-> DimensionTable(rows)]) :
        i \in items, join \in UNION {JoinsOf(kind) : kind \in kinds}, rows \in Quotes3,
        where \in {<< >>, <<Bin(">", In("dim", "d"), Num(1))>>},
        order \in {<< >>, <<[x |-> Col("d"), descending |-> TRUE, nulls |-> <<FALSE>>]>>}}

JoinStatements == JoinStatementsOf(JoinedItems, {"inner", "left"})

----------------------------------------------------------------------------
\* DISTINCT, ORDER BY, LIMIT and OFFSET.
OrderedStatements ==
    {Alone([SelectOf(items) EXCEPT !.distinct = distinct, !.order = order, !.limit = page[1], !.offset = page[2]],
           FactTable(Fact(<<0, 1, 2>>, <<a, b, a>>, cells, <<1, 1, 0>>), 1)) :
        items \in {<<Plainly(Col("x")), Plainly(Col("sym"))>>, <<As(Col("n"), "x")>>,
                   <<As(Un("-", Col("x")), "x"), As(Col("x"), "n")>>, <<As(Lagged, "y")>>},
        distinct \in BOOLEAN, cells \in [1..3 -> {Null, 1}] \union {<<2, 1, 2>>, <<1, 2, Null>>},
        order \in {<< >>} \union {<<[x |-> c, descending |-> descending, nulls |-> nulls]>> :
                      c \in {Col("x"), Col("n"), Col("sym"), In("t", "x")}, descending \in BOOLEAN,
                      nulls \in {<< >>, <<TRUE>>}},
        page \in {<< << >>, << >> >>, <<<<Num(1)>>, <<Num(1)>>>>, << << >>, <<Num(2)>>>>, <<<<Un("-", Num(1))>>, << >>>>}}
=============================================================================
