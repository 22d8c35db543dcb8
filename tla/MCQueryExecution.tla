-------------------------- MODULE MCQueryExecution --------------------------
(***************************************************************************)
(* The queries checked: for every stage of the executor, the plans and the *)
(* snapshots that stage tells apart.                                       *)
(***************************************************************************)
EXTENDS Mutations, PartialReads, MCStatements

Row(ts, sym, x, n, seq) == [ts |-> ts, sym |-> sym, x |-> x, n |-> n, seq |-> seq]

\* A segment with an object it is not read from.
Segment(rows, dead, mapped) ==
    [rows |-> rows, live |-> DOMAIN rows \ dead, mapped |-> mapped, resident |-> TRUE,
     base |-> 0, births |-> "explicit", scheme |-> [mode |-> "raw"]]

\* Rows in two segments, the first of them cut long.
Split(rows, cut, dead, mapped) ==
    <<Segment(SubSeq(rows, 1, cut), dead, mapped),
      [Segment(SubSeq(rows, cut + 1, Len(rows)), {}, mapped) EXCEPT !.base = cut]>>

By(label, width, multiply) == [label |-> label, width |-> width, multiply |-> multiply]

BasePlan ==
    [join |-> "none", left |-> FALSE, where |-> << >>, kind |-> "rows", columns |-> {"ts", "x"},
     by |-> By(FALSE, 0, FALSE), argument |-> "x", having |-> << >>,
     frame |-> [unit |-> "rows", width |-> 0], partition |-> "none",
     distinct |-> FALSE, order |-> Null, limit |-> Null, offset |-> 0,
     read |-> "query", floor |-> 0, set |-> << >>]

\* The first of two segments evicted, so that it must be faulted.
Evicting(segments, evict) == [segments EXCEPT ![1].resident = ~evict]

Case(segments, dimension, query) == [segments |-> segments, dimension |-> dimension, plan |-> query]

Compare(column, cmp, value) ==
    [op |-> "compare", column |-> column, cmp |-> cmp, value |-> value, widened |-> FALSE]

Operators == {"=", "<>", "<", "<=", ">", ">="}

----------------------------------------------------------------------------
\* WHERE: every comparison alone, negated and joined with an UNKNOWN.
Leaves == {Compare("x", cmp, value) : cmp \in Operators, value \in {0, 1}}

Wheres ==
    {<<leaf>> : leaf \in Leaves}
    \cup {<<leaf, [op |-> "not", left |-> 1]>> : leaf \in Leaves}
    \cup {<<leaf, Compare("n", ">", 0), [op |-> op, left |-> 1, right |-> 2]>> :
             leaf \in {Compare("x", "=", 1), Compare("x", ">", 0)}, op \in {"and", "or"}}
    \cup {<<[op |-> "null", column |-> column, negated |-> negated]>> :
             column \in {"x", "sym"}, negated \in BOOLEAN}
    \cup {<<[op |-> "columns", column |-> "x", other |-> "n", cmp |-> cmp]>> : cmp \in {"<", "="}}
    \cup {<<[op |-> "in", column |-> "sym", values |-> {a}, negated |-> negated]>> :
             negated \in BOOLEAN}
    \cup {<<[Compare("n", "<", 1) EXCEPT !.widened = TRUE]>>}

WhereCases ==
    {Case(Split(<<Row(0, a, x, 1, 0), Row(0, Null, y, Null, 1), Row(1, b, 0, 0, 2)>>,
                2, dead, mapped),
          << >>, [BasePlan EXCEPT !.where = where]) :
        x, y \in {Null, -1, 0, 1, NaN}, dead \in {{}, {1}, {1, 2}}, mapped \in BOOLEAN,
        where \in Wheres}

----------------------------------------------------------------------------
\* GROUP BY: keys on both sides of zero, in and out of order, over values
\* whose prefix sums overflow.
GroupCases ==
    {Case(Split([i \in 1..4 |-> Row(clocks[i], symbols[i], cells[i], cells[i], i - 1)],
                slice[1], slice[2], TRUE),
          << >>,
          [BasePlan EXCEPT !.kind = "groups", !.by = by, !.argument = "n"]) :
        clocks \in [1..4 -> {-3, -1, 1}],
        symbols \in {<<a, b, a, b>>, <<b, Null, b, a>>},
        cells \in {<<1, 0, 1, 1>>, <<Null, 2, -1, Null>>, <<3, -2, 2, -4>>},
        slice \in {<<2, {}>>, <<1, {1}>>},
        by \in {By(FALSE, 0, FALSE), By(TRUE, 0, FALSE), By(FALSE, 2, TRUE), By(TRUE, 2, FALSE)}}

HavingCases ==
    {Case(Split([i \in 1..4 |-> Row(0, symbols[i], cells[i], 0, i - 1)], 2, {}, TRUE), << >>,
          [BasePlan EXCEPT !.kind = "groups", !.by = By(TRUE, 0, FALSE),
                           !.having = <<Compare(column, ">", 1)>>, !.order = order,
                           !.limit = 1, !.offset = offset]) :
        symbols \in [1..4 -> {a, b}], cells \in {<<1, NaN, 2, Null>>, <<Null, 2, 1, Null>>},
        column \in {"star", "high"}, offset \in {0, 1},
        order \in {Null, [column |-> "last", descending |-> TRUE, nullsFirst |-> FALSE]}}

----------------------------------------------------------------------------
\* Windows.
Clocks == {<<-4, -4, -1, 0>>, <<-1, 0, 0, 0>>, <<0, 1, 1, 3>>, <<3, 3, 3, 3>>,
           <<0, 1, -1, 2>>, <<1, 0, 2, 2>>}

Frames == [unit : {"rows"}, width : {0, 1, Null}]
          \cup [unit : {"range"}, width : {0, 1, 7}]
          \cup [unit : {"partition"}, width : {Null}]
          \cup [unit : {"lag", "lead"}, width : {1, 2}]

FrameCasesOf(frames) ==
    {Case(Split([i \in 1..4 |-> Row(clocks[i], symbols[i], cells[i], 0, i - 1)], cut, dead, TRUE),
          << >>,
          [BasePlan EXCEPT !.kind = "frames", !.by = By(FALSE, 2, FALSE), !.frame = frame,
                           !.partition = partition,
                           !.where = where]) :
        clocks \in Clocks, symbols \in {<<a, b, a, b>>, <<b, a, Null, a>>},
        cells \in {<<1, 2, 3, 0>>, <<1, Null, 2, 3>>}, cut \in {1, 2}, dead \in {{}, {1}},
        frame \in frames, partition \in {"none", "sym", "bucket"},
        where \in {<< >>, <<Compare("x", "<>", 3)>>}}

FrameCases == FrameCasesOf(Frames)

----------------------------------------------------------------------------
\* DISTINCT, ORDER BY, OFFSET and LIMIT.
Orders == [column : {"x"}, descending : BOOLEAN, nullsFirst : BOOLEAN]

Bounds == {<<Null, 0>>, <<Null, 2>>, <<0, 0>>, <<1, 1>>, <<2, 1>>, <<4, 0>>, <<2, 4>>}

SortCases ==
    {Case(Split([i \in DOMAIN cells |-> Row(i - 1, a, cells[i], 0, i - 1)], 2, {}, TRUE), << >>,
          [BasePlan EXCEPT !.columns = columns, !.order = order,
                           !.limit = bound[1], !.offset = bound[2]]) :
        cells \in [1..4 -> {Null, 1, NaN}] \cup [1..3 -> {1, 2, NaN}] \cup [1..5 -> {1, NaN}], columns \in {{"ts"}},
        order \in Orders,
        bound \in Bounds}

DistinctCases ==
    {Case(Split([i \in 1..4 |-> Row(0, symbols[i], cells[i], 0, i - 1)], 2, {}, TRUE), << >>,
          [BasePlan EXCEPT !.columns = {"sym", "x"}, !.distinct = TRUE, !.order = order,
                           !.limit = bound[1], !.offset = bound[2]]) :
        symbols \in {<<a, a, a, b>>, <<Null, a, Null, a>>}, cells \in [1..4 -> {Null, 1, NaN}],
        order \in {Null, [column |-> "x", descending |-> TRUE, nullsFirst |-> FALSE]},
        bound \in {<<Null, 0>>, <<1, 1>>}}

----------------------------------------------------------------------------
\* Joins: dimensions ingested out of order, corrected, tied and compacted.
Quote(sym, ts, d, seq) == [sym |-> sym, ts |-> ts, d |-> d, seq |-> seq]

Dimensions ==
    {<<[rows |-> <<Quote(a, t, 1, 0), Quote(s, u, 2, 1)>>, live |-> live],
       [rows |-> <<Quote(a, v, d, 2)>>, live |-> {1}]>> :
        s \in {a, b, Null}, t, u \in 0..2, v \in 0..1, live \in {{1, 2}, {2}}, d \in {3, Null}}

JoinCases ==
    {Case(Evicting(Split(<<Row(clock, a, 1, 0, 0), Row(1, sym, 0, 1, 1)>>, 1, {}, TRUE), left),
          dimension,
          [BasePlan EXCEPT !.join = join, !.left = left, !.columns = {"ts", "d"},
                           !.where = where]) :
        clock \in {0, 2}, sym \in {b, Null}, dimension \in Dimensions,
        join \in {"equi", "asof", "before"}, left \in BOOLEAN,
        where \in {<< >>, <<Compare("d", ">", 1)>>, <<Compare("x", ">", 0)>>}}

----------------------------------------------------------------------------
\* Segments read from their objects: keys, births and integers of every
\* shape, and every way to store a chunk of doubles.
Evicted(rows, base, births, scheme, query) ==
    Case(<<[Segment(rows, {}, TRUE) EXCEPT
               !.resident = FALSE, !.base = base, !.births = births, !.scheme = scheme]>>,
         << >>, query)

BirthsOf == {<<"ids", <<2, 3, 4, 5>>>>, <<"contiguous", <<4, 5, 6, 7>>>>,
             <<"explicit", <<0, 7, 5, 6>>>>}

StoredKeys ==
    {Evicted([i \in 1..4 |-> Row(clocks[i], symbols[i], 0, cells[i], births[2][i])],
             2, births[1], [mode |-> "raw"], [BasePlan EXCEPT !.columns = {"ts", "sym", "n", "seq"}]) :
        clocks \in [1..4 -> {-4, -1, 0, 3}], symbols \in {<<b, Null, a, b>>},
        cells \in {<<Null, -4, 3, 0>>, <<1, 1, 1, -3>>}, births \in BirthsOf}

Schemes ==
    {[mode |-> "alp", e |-> p[1], f |-> p[2], cut |-> 1] : p \in {q \in (0..2) \X {0, 1} : q[2] <= q[1]}}
    \cup [mode : {"rd"}, e : {0}, f : {0}, cut : {1, 2}]
    \cup [mode : {"raw"}, e : {0}, f : {0}, cut : {1}]

StoredReals ==
    {Evicted([i \in 1..4 |-> Row(i - 1, a, cells[i], 0, i - 1)], 0, "ids", scheme,
             [BasePlan EXCEPT !.columns = {"x"}, !.where = where]) :
        cells \in [1..4 -> {Null, -4, 3, NaN}], scheme \in Schemes,
        where \in {<< >>, <<Compare("x", ">", 1)>>}}

----------------------------------------------------------------------------
\* DELETE and UPDATE: rows of two segments, dead ones before live ones.
MutationCases ==
    {Case(Evicting(Split(<<Row(0, a, x, 1, 0), Row(0, Null, y, Null, 1), Row(1, b, 0, 0, 2)>>,
                         2, dead, TRUE),
                   dead = {1}),
          << >>, [BasePlan EXCEPT !.kind = "mutation", !.where = where, !.set = set]) :
        x, y \in {Null, 0, NaN}, dead \in {{}, {1}}, where \in Wheres \cup {<< >>},
        set \in {<< >>, [x |-> Null], [sym |-> a, n |-> 2]}}

\* Reads from partial aggregates: hidden buckets of two keys.
RunningCases ==
    {Case(Split([i \in 1..4 |-> Row(clocks[i], symbols[i], cells[i], cells[i], i - 1)],
                2, kept[1], TRUE),
          << >>,
          [BasePlan EXCEPT !.kind = "groups", !.by = By(label, 2, FALSE), !.argument = argument,
                           !.where = kept[2], !.read = "running"]) :
        clocks \in [1..4 -> {-3, -1, 2}], symbols \in {<<a, b, a, b>>, <<a, Null, a, a>>},
        cells \in {<<1, Null, 1, 2>>, <<3, -2, 1, 3>>, <<Null, Null, 2, 0>>},
        label \in BOOLEAN, argument \in {"x", "n"},
        kept \in {<<{}, << >>>>, <<{1, 2}, << >>>>, <<{}, <<Compare("x", "<", 3)>>>>}}

CumulativeCases ==
    {Case(Split([i \in 1..4 |-> Row(clocks[i], symbols[i], cells[i], 0, i - 1)], cut, {}, TRUE),
          << >>,
          [BasePlan EXCEPT !.kind = "groups", !.by = By(label, 2, FALSE), !.where = where,
                           !.read = "cumulative", !.floor = floor]) :
        clocks \in Clocks, symbols \in {<<a, b, a, b>>, <<b, Null, a, a>>}, cut \in {1, 2},
        cells \in {<<1, 2, NaN, 0>>, <<NaN, Null, 2, 3>>}, label \in BOOLEAN,
        where \in {<< >>, <<Compare("x", "<>", 2)>>}, floor \in Numbers}

\* Texts: two pieces, the first one opened and closed in every way, closed or
\* not by what opened it.
Openers == {<< >>, <<"-", "-", " ">>, <<"/", "*">>, <<"'">>, <<"\"">>}
Closers == {<<" ">>, <<Newline>>, <<" ", "*", "/">>, <<"'">>, <<"\"">>}

TextPieces ==
    {<<"asof", " ", "5", " ">>, <<" ", "asof", " ", "left", " ", "join", " ">>,
     <<" ", "for", " ", "system_time", " ", "as", Newline, "of", " ", "7", " ">>,
     <<"as", " ", "of", " ", "5", ",">>, <<";">>, <<"/", " ">>, <<"'">>}

KeyPieces ==
    {<<"ordering", Newline, "key">>, <<" ", "ts", " ", "primary", " ", "key", " ">>, <<",">>, <<" ", "ts", "'">>,
     <<"asof", " ", "5", " ">>}

TextsOf(start, pieces) ==
    {start \o opener \o first \o closer \o second :
        opener \in Openers, first \in pieces, closer \in Closers, second \in pieces}

TextCase(text) == Case(<< >>, << >>, [text |-> text] @@ [BasePlan EXCEPT !.kind = "text"])

\* No two words in a row.
WordsApart(text) == \A i \in 2..Len(text) : ~IsWord(text[i - 1]) \/ ~IsWord(text[i])

TextCases ==
    {TextCase(text) : text \in
        {t \in TextsOf(<<"t", " ">>, TextPieces) \union TextsOf(<<"create", " ", "table", " ", "(", "k", " ">>, KeyPieces) :
            WordsApart(t)}}

MCCases ==
    {ItemStatements, WhereStatements, GroupStatements, WindowStatements, JoinStatements, OrderedStatements,
     TextCases, MutationCases, RunningCases, CumulativeCases, StoredKeys, StoredReals, WhereCases,
     GroupCases, HavingCases, FrameCases, SortCases, DistinctCases, JoinCases}

StatementNext == Next \/ MutationNext \/ PartialNext \/ TextNext \/ PlanNext

StatementSpec == Init /\ [][StatementNext]_vars
=============================================================================
