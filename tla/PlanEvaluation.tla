---------------------------- MODULE PlanEvaluation ----------------------------
(***************************************************************************)
(* The evaluation of a plan (query_lite/exec.rs): its names against the    *)
(* joined schema, expressions a view at a time, kernels and windows over   *)
(* the whole query, groups, HAVING, ORDER BY.                              *)
(*                                                                         *)
(* A relation is [types, ordering, parts]: the types of its columns, its   *)
(* ordering key, and of every view its rows and whether its segment is in  *)
(* order.  A column is [name, type, cells], cells over the rows of all     *)
(* parts in turn.  What may be refused yields a set: one result, or none.  *)
(***************************************************************************)
EXTENDS Planner

RowsOf(parts) == FlattenSeq([v \in DOMAIN parts |-> parts[v].rows])

\* The cells of each view.
PerView(cells, parts) ==
    [v \in DOMAIN parts |-> SubSeq(cells, Len(RowsOf(SubSeq(parts, 1, v - 1))) + 1,
                                          Len(RowsOf(SubSeq(parts, 1, v))))]

Has(types, c, of) == c \in DOMAIN types /\ types[c] \in of

----------------------------------------------------------------------------
\* Expressions and predicates over rows, three-valued.

\* The kernel that keeps state from row to row: the running total.
Running(cells) ==
    [i \in DOMAIN cells |-> IF cells[i] = Null THEN Null ELSE Total(Present(SubSeq(cells, 1, i)))]

Lift1(cells, Op(_)) == [i \in DOMAIN cells |-> IF cells[i] = Null THEN Null ELSE Op(cells[i])]

Lift2(l, r, Op(_, _)) ==
    [i \in DOMAIN l |-> IF Null \in {l[i], r[i]} THEN Null ELSE Op(l[i], r[i])]

RECURSIVE Scalars(_, _, _, _), Verdicts(_, _, _, _)

\* The first arm whose condition is TRUE; every arm is evaluated.
Chosen(arms, fallback, i) ==
    LET held == {k \in DOMAIN arms : arms[k].held[i] = TRUE}
    IN  IF held # {} THEN arms[Min(held)].values[i]
        ELSE IF fallback = << >> THEN Null ELSE fallback[1][i]

\* evaluate_scalar: columns are DOUBLE only.
Scalars(s, types, rows, windows) ==
    LET Of(x) == Scalars(x, types, rows, windows) IN
    CASE s.s = "window" -> {windows[s.i]}
      [] s.s = "column" -> If(Has(types, s.c, {"f64"}), [i \in DOMAIN rows |-> rows[i][s.c]])
      [] s.s = "literal" -> {[i \in DOMAIN rows |-> s.n]}
      [] s.s = "negate" -> {Lift1(x, LAMBDA v : -v) : x \in Of(s.x)}
      [] s.s = "binary" -> {Lift2(l, r, LAMBDA a, b : Arithmetic(s.op, a, b)) : l \in Of(s.l), r \in Of(s.r)}
      [] s.s = "call" -> {Lift1(x, Magnitude) : x \in Of(s.args[1])}
      [] s.s = "registered" ->
           IF s.f # "running" \/ Len(s.args) # 1 THEN {} ELSE {Running(x) : x \in Of(s.args[1])}
      [] s.s = "case" ->
           LET Arm(k) == {[held |-> c, values |-> v] :
                             c \in Verdicts(k.condition, types, rows, windows), v \in Of(k.value)}
           IN  {[i \in DOMAIN rows |-> Chosen(arms, fallback, i)] :
                   arms \in All(s.arms, Arm), fallback \in All(s.otherwise, Of)}

\* evaluate_3vl.
Verdicts(p, types, rows, windows) ==
    LET Of(x) == Verdicts(x, types, rows, windows)
        Cells(Test(_)) == [i \in DOMAIN rows |-> Test(rows[i][p.c])]
    IN  CASE p.p = "compare" ->
               If(Has(types, p.c, {"f64", "i64"}),
                  Cells(LAMBDA v : IF v = Null THEN Null ELSE Holds(p.op, v, p.n)))
          [] p.p = "label" ->
               If(Has(types, p.c, {"key"}),
                  Cells(LAMBDA v : IF v = Null THEN Null ELSE (v \in p.values) # p.negated))
          [] p.p = "null" -> If(p.c \in DOMAIN types, Cells(LAMBDA v : (v = Null) # p.negated))
          [] p.p = "expressions" ->
               {Lift2(l, r, LAMBDA a, b : Holds(p.op, a, b)) :
                   l \in Scalars(p.l, types, rows, windows), r \in Scalars(p.r, types, rows, windows)}
          [] p.p = "not" -> {[i \in DOMAIN x |-> Not3(x[i])] : x \in Of(p.x)}
          [] p.p = "and" -> {[i \in DOMAIN l |-> And3(l[i], r[i])] : l \in Of(p.l), r \in Of(p.r)}
          [] p.p = "or" -> {[i \in DOMAIN l |-> Or3(l[i], r[i])] : l \in Of(p.l), r \in Of(p.r)}

\* The rows a predicate is TRUE of.
Where(p, types, rows) ==
    {LET held == SelectSeq(Positions(rows), LAMBDA i : x[i] = TRUE)
     IN  [k \in DOMAIN held |-> rows[held[k]]] : x \in Verdicts(p, types, rows, << >>)}

----------------------------------------------------------------------------
\* The columns a plan reads.

RECURSIVE ScalarColumns(_), PredicateColumns(_)

ScalarColumns(s) ==
    CASE s.s = "column" -> {s.c}
      [] s.s = "negate" -> ScalarColumns(s.x)
      [] s.s = "binary" -> ScalarColumns(s.l) \union ScalarColumns(s.r)
      [] s.s \in {"call", "registered"} -> UNION {ScalarColumns(x) : x \in ToSet(s.args)}
      [] s.s = "case" -> UNION ({PredicateColumns(arm.condition) \union ScalarColumns(arm.value) : arm \in ToSet(s.arms)}
                                \union {ScalarColumns(x) : x \in ToSet(s.otherwise)})
      [] OTHER -> {}

PredicateColumns(p) ==
    CASE p.p = "expressions" -> ScalarColumns(p.l) \union ScalarColumns(p.r)
      [] p.p \in {"and", "or"} -> PredicateColumns(p.l) \union PredicateColumns(p.r)
      [] p.p = "not" -> PredicateColumns(p.x)
      [] OTHER -> {p.c}

WindowColumns(w) == ToSet(w.args) \union ToSet(w.order) \union {k.column : k \in ToSet(w.partition)}

AggColumns(item) == IF item.i = "key" THEN {item.key.column} ELSE ToSet(item.arg)

ItemColumns(item) ==
    CASE item.i = "column" -> {item.c}
      [] item.i = "window" -> WindowColumns(item.call)
      [] item.i = "computed" -> ScalarColumns(item.x) \union UNION {WindowColumns(w) : w \in ToSet(item.windows)}
      [] OTHER -> AggColumns(item)

\* referenced_columns: by any route.
ReferencedColumns(p) ==
    UNION ({PredicateColumns(x) : x \in ToSet(p.predicate)}
           \union {{o.column} : o \in ToSet(p.order)}
           \union {ItemColumns(item) : item \in ToSet(p.projection.items)}
           \union IF p.projection.kind = "items" THEN {}
                  ELSE {{k.column} : k \in ToSet(p.projection.keys)}
                       \union UNION {{AggColumns(item) : item \in ToSet(h.items)} \union {PredicateColumns(h.predicate)} :
                                        h \in ToSet(p.projection.having)})

----------------------------------------------------------------------------
\* The relation a plan reads: a table's segments, or the join of two.

TableParts(name) ==
    LET segments == SelectSeq(Table(name).segments, LAMBDA s : s # << >>)
        clock == Table(name).ordering
    IN  [s \in DOMAIN segments |->
            [rows |-> segments[s],
             ordered |-> \A i \in 2..Len(segments[s]) : segments[s][i - 1][clock] <= segments[s][i][clock]]]

\* DimensionIndex: the dimension rows a fact row may be given; the rows of a
\* table come in the order of their births.
Picks(join, dimension, fact, clock) ==
    LET axis == Table(join.dimension).ordering
        same == {d \in DOMAIN dimension : dimension[d][join.key] = fact[join.fact] /\ fact[join.fact] # Null}
        reached == {d \in same : CASE join.axis.match = "equi" -> TRUE
                                   [] join.axis.match = "asof" -> dimension[d][axis] <= fact[clock]
                                   [] join.axis.match = "before" -> dimension[d][axis] < fact[clock]}
        latest == {d \in reached : \A o \in reached :
                      dimension[o][axis] < dimension[d][axis] \/ (dimension[o][axis] = dimension[d][axis] /\ o <= d)}
    IN  {dimension[d] : d \in latest}

\* What execute_join refuses: a key that is no key or, without a clock, not
\* unique; a clock that is not the ordering key; a column both tables have.
JoinRefused(p) ==
    LET join == p.join[1]
        fact == Table(p.table)
        dimension == Table(join.dimension)
        stored == TableRows(join.dimension)
    IN  \/ ~Has(fact.types, join.fact, {"key"}) \/ ~Has(dimension.types, join.key, {"key"})
        \/ /\ join.axis.match = "equi"
           /\ \E i, j \in DOMAIN stored :
                 i # j /\ stored[i][join.key] = stored[j][join.key] /\ stored[i][join.key] # Null
        \/ join.axis.named \notin {<< >>, <<fact.ordering, dimension.ordering>>}
        \/ (DOMAIN dimension.types \ {join.key}) \intersect DOMAIN fact.types # {}

\* The fact's rows widened by the dimension columns the plan reads.
Relation(p) ==
    LET fact == Table(p.table)
        alone == [types |-> fact.types, ordering |-> fact.ordering, parts |-> TableParts(p.table)]
        join == p.join[1]
        dimension == Table(join.dimension)
        read == (DOMAIN dimension.types \ {join.key}) \intersect ReferencedColumns(p)
        Widen(row) ==
            LET picks == Picks(join, TableRows(join.dimension), row, fact.ordering)
            IN  IF picks # {} THEN {row @@ [c \in read |-> d[c]] : d \in picks}
                ELSE IF join.left THEN {row @@ [c \in read |-> Null]}
                ELSE {}
        WidenAll(rows) == FlattenSeq([i \in DOMAIN rows |-> SetToSeq(Widen(rows[i]))])
    IN  IF p.join = << >> THEN {alone}
        ELSE If(~JoinRefused(p),
                [types |-> fact.types @@ [c \in read |-> dimension.types[c]], ordering |-> fact.ordering,
                 parts |-> [v \in DOMAIN alone.parts |->
                               [alone.parts[v] EXCEPT !.rows = WidenAll(@)]]])

\* WHERE, a view at a time; a view no row is left in is dropped.
Scan(p, relation) ==
    LET Pass(part) == IF part.rows = << >> \/ p.predicate = << >> THEN {part}
                      ELSE {[part EXCEPT !.rows = kept] : kept \in Where(p.predicate[1], relation.types, part.rows)}
    IN  {[relation EXCEPT !.parts = SelectSeq(parts, LAMBDA part : part.rows # << >>)] :
            parts \in All(relation.parts, Pass)}

----------------------------------------------------------------------------
\* Windows.

\* GroupTerm::code reads a number where it is stored, and a NULL is stored as 0.
StoredNumber(v) == IF v = Null THEN 0 ELSE v

\* resolve_group_key, resolve_partition_key: a bucket is of the ordering key;
\* any BIGINT partitions, of those only the ordering key groups.
TermRefused(k, relation, grouping) ==
    IF IsBucket(k) THEN k.column # relation.ordering
    ELSE ~Has(relation.types, k.column, {"key", "i64"})
         \/ (grouping /\ relation.types[k.column] = "i64" /\ k.column # relation.ordering)

TermCode(k, relation, row) ==
    LET stored == IF relation.types[k.column] = "key" THEN row[k.column] ELSE StoredNumber(row[k.column])
        bucket == Buckets!BucketOf(stored, k.divide)
    IN  IF ~IsBucket(k) THEN stored ELSE IF k.multiply = Null THEN bucket ELSE bucket * k.multiply

\* check_order: the ordering key, and rows in its order.
OrderRefused(w, relation) ==
    LET parts == relation.parts
        Edge(v) == Last(parts[v].rows)[relation.ordering] > Head(parts[v + 1].rows)[relation.ordering]
    IN  w.order # << >> /\ \/ w.order[1] \notin DOMAIN relation.types
                           \/ parts # << >> /\ w.order[1] # relation.ordering
                           \/ \E v \in DOMAIN parts : ~parts[v].ordered
                           \/ \E v \in 1..(Len(parts) - 1) : Edge(v)

\* window_value and window_aggregate: an aggregate takes DOUBLEs without NULL,
\* a symbol partitions when no row lacks it.
WindowRefuses(w, relation) ==
    LET rows == RowsOf(relation.parts)
        positional == w.f \in {"lag", "lead"}
        Lacks(c) == \E i \in DOMAIN rows : rows[i][c] = Null
    IN  \/ ~positional /\ (w.f \notin Aggregates \/ Len(w.args) # 1)
        \/ ~Has(relation.types, w.args[1], IF positional THEN {"f64", "i64"} ELSE {"f64"})
        \/ ~positional /\ Lacks(w.args[1])
        \/ OrderRefused(w, relation)
        \/ \E k \in ToSet(w.partition) :
              TermRefused(k, relation, FALSE) \/ (relation.types[k.column] = "key" /\ Lacks(k.column))

\* The cell of one row: from its run, the row it names or the frame's rows.
WindowResult(w, relation, rows, i) ==
    LET Same(j) == \A k \in DOMAIN w.partition :
                      TermCode(w.partition[k], relation, rows[j]) = TermCode(w.partition[k], relation, rows[i])
        run == SelectSeq(Positions(rows), Same)
        position == CHOOSE q \in DOMAIN run : run[q] = i
        source == IF w.f = "lead" THEN position + w.offset ELSE position - w.offset
        keys == [q \in DOMAIN run |-> rows[run[q]][relation.ordering]]
        bounds == CASE w.frame.unit = "rows" -> RowBounds(Len(run), w.frame.width)
                    [] w.frame.unit = "range" -> RangeBounds(keys, w.frame.width)
                    [] w.frame.unit = "partition" -> [q \in DOMAIN run |-> <<1, Len(run)>>]
        Argument(q) == rows[run[q]][w.args[1]]
    IN  IF w.f \in {"lag", "lead"}
        THEN IF source \in DOMAIN run THEN Argument(source) ELSE Null
        ELSE LET frame == bounds[position]
             IN  Reduced(w.f, [q \in 1..(frame[2] - frame[1] + 1) |-> Argument(frame[1] + q - 1)])

WindowCells(w, relation) ==
    LET rows == RowsOf(relation.parts)
    IN  If(~WindowRefuses(w, relation), [i \in DOMAIN rows |-> WindowResult(w, relation, rows, i)])

----------------------------------------------------------------------------
\* The SELECT list.

NamedAs(item, name) == IF item.alias # << >> THEN item.alias[1] ELSE name

\* Whether the column is one an expression with a kernel can be gathered for.
RECURSIVE HasCase(_)
HasCase(s) ==
    CASE s.s = "case" -> TRUE
      [] s.s = "negate" -> HasCase(s.x)
      [] s.s = "binary" -> HasCase(s.l) \/ HasCase(s.r)
      [] s.s \in {"call", "registered"} -> \E k \in DOMAIN s.args : HasCase(s.args[k])
      [] OTHER -> FALSE

\* computed_column_whole: a kernel sees the rows of the query as one column,
\* and CASE beside it is refused.
WholeColumn(s, windows, relation) ==
    LET read == ScalarColumns(s) IN
    IF HasCase(s) \/ (relation.parts # << >> /\ \E c \in read : ~Has(relation.types, c, {"f64"})) THEN {}
    ELSE Scalars(s, [c \in read |-> "f64"], RowsOf(relation.parts), windows)

\* computed_column: anything else goes a view at a time.
ComputedCells(item, relation) ==
    LET parts == relation.parts
        Part(windows, v) == Scalars(item.x, relation.types, parts[v].rows,
                                    [w \in DOMAIN windows |-> PerView(windows[w], parts)[v]])
        Windows == All(item.windows, LAMBDA w : WindowCells(w, relation))
    IN  UNION {IF CallsKernel(item.x) THEN WholeColumn(item.x, windows, relation)
               ELSE {FlattenSeq(cells) : cells \in All(Positions(parts), LAMBDA v : Part(windows, v))} :
               windows \in Windows}

ItemColumn(item, relation) ==
    LET rows == RowsOf(relation.parts)
        Column(name, type, cells) == [name |-> NamedAs(item, name), type |-> type, cells |-> cells]
    IN  CASE item.i = "column" ->
               If(item.c \in DOMAIN relation.types,
                  Column(item.c, relation.types[item.c], [i \in DOMAIN rows |-> rows[i][item.c]]))
          [] item.i = "window" ->
               {Column(item.call.f, IF item.call.f \in {"lag", "lead"} THEN relation.types[item.call.args[1]]
                                    ELSE IF item.call.f = "count" THEN "i64" ELSE "f64", cells) :
                   cells \in WindowCells(item.call, relation)}
          [] item.i = "computed" -> {Column("", "f64", cells) : cells \in ComputedCells(item, relation)}

\* Accumulator::new: only COUNT takes a symbol.
CallRefused(item, relation) ==
    item.arg # << >> /\ ~Has(relation.types, item.arg[1],
                             IF item.f = "count" THEN {"key", "f64", "i64"} ELSE {"f64", "i64"})

\* project_aggregate: groups by the codes of their terms, as they appear.
GroupColumns(items, keys, relation) ==
    LET rows == RowsOf(relation.parts)
        CodeAt(i) == [k \in DOMAIN keys |-> TermCode(keys[k], relation, rows[i])]
        codes == [i \in DOMAIN rows |-> CodeAt(i)]
        groups == IF keys = << >> THEN << << >> >> ELSE FirstOccurrences(codes)
        Members(g) == SelectSeq(Positions(rows), LAMBDA i : codes[i] = groups[g])
        Reduction(item, g) ==
            IF item.arg = << >> THEN Len(Members(g))
            ELSE Reduced(item.f, [q \in DOMAIN Members(g) |-> rows[Members(g)[q]][item.arg[1]]])
        KeyCell(item, g) == groups[g][CHOOSE k \in DOMAIN keys : keys[k] = item.key]
        GroupColumn(item) ==
            IF item.i = "key"
            THEN [name |-> NamedAs(item, IF IsBucket(item.key) THEN "" ELSE item.key.column),
                  type |-> IF Has(relation.types, item.key.column, {"key"}) THEN "key" ELSE "i64",
                  cells |-> [g \in DOMAIN groups |-> KeyCell(item, g)]]
            ELSE [name |-> NamedAs(item, ""),
                  type |-> IF item.f = "count" THEN "i64" ELSE relation.types[item.arg[1]],
                  cells |-> [g \in DOMAIN groups |-> Reduction(item, g)]]
        refused == \/ \E k \in ToSet(keys) : k.column \notin DOMAIN relation.types \/ TermRefused(k, relation, TRUE)
                   \/ \E k \in DOMAIN items : items[k].i = "call" /\ CallRefused(items[k], relation)
    IN  If(~refused, [k \in DOMAIN items |-> GroupColumn(items[k])])

\* The columns' names, their types, and a row of them: of two columns of one
\* name the first is meant.
Column(columns, name) == columns[Min({k \in DOMAIN columns : columns[k].name = name})]

Names(columns) == {columns[k].name : k \in DOMAIN columns}

OutputRows(columns) ==
    [i \in DOMAIN columns[1].cells |-> [n \in Names(columns) |-> Column(columns, n).cells[i]]]

OutputTypes(columns) == [n \in Names(columns) |-> Column(columns, n).type]

Picked(columns, picks) == [k \in DOMAIN columns |-> [columns[k] EXCEPT !.cells = [i \in DOMAIN picks |-> @[picks[i]]]]]

\* filter_having: WHERE over the groups' columns and the hidden ones, which go.
Having(columns, having, visible) ==
    {SubSeq(Picked(columns, SelectSeq(Positions(held), LAMBDA i : held[i] = TRUE)), 1, visible) :
        held \in Verdicts(having.predicate, OutputTypes(columns), OutputRows(columns), << >>)}

Aggregated(p, relation) ==
    LET hidden == IF p.having = << >> THEN << >> ELSE p.having[1].items
    IN  UNION {IF p.having = << >> THEN {columns} ELSE Having(columns, p.having[1], Len(p.items)) :
               columns \in GroupColumns(p.items \o hidden, p.keys, relation)}

\* A column sorted by and not selected is carried to the sort and then goes.
HiddenOrder(p) ==
    LET NameOf(item) == NamedAs(item, CASE item.i = "column" -> item.c
                                        [] item.i = "window" -> item.call.f
                                        [] OTHER -> "")
    IN  /\ p.projection.kind = "items" /\ ~p.distinct /\ p.order # << >>
        /\ \A item \in ToSet(p.projection.items) : NameOf(item) # p.order[1].column

ProjectedColumns(p, relation) ==
    LET carried == IF HiddenOrder(p) THEN <<[i |-> "column", c |-> p.order[1].column, alias |-> << >>]>> ELSE << >>
    IN  IF p.projection.kind = "groups" THEN Aggregated(p.projection, relation)
        ELSE All(p.projection.items \o carried, LAMBDA item : ItemColumn(item, relation))

\* DISTINCT, ORDER BY a number, OFFSET and LIMIT; the answer is rows of cells.
Arranged(p, columns) ==
    LET rows == [i \in DOMAIN columns[1].cells |-> [k \in DOMAIN columns |-> columns[k].cells[i]]]
        distinct == IF p.distinct THEN FirstOccurrences(rows) ELSE rows
        o == p.order[1]
        key == Min({k \in DOMAIN columns : columns[k].name = o.column})
        sorted == IF p.order = << >> THEN distinct ELSE ByCells(distinct, [i \in DOMAIN distinct |-> distinct[i][key]], o)
        visible == IF HiddenOrder(p) THEN Len(columns) - 1 ELSE Len(columns)
        paged == Page(sorted, p.limit, p.offset)
    IN  If(p.order # << >> => o.column \in Names(columns) /\ Column(columns, o.column).type # "key",
           [i \in DOMAIN paged |-> SubSeq(paged[i], 1, visible)])

Answers(p) ==
    UNION {UNION {UNION {Arranged(p, columns) : columns \in ProjectedColumns(p, scanned)} :
                  scanned \in Scan(p, relation)} : relation \in Relation(p)}

----------------------------------------------------------------------------
\* A statement is planned, and its plan evaluated or refused.

Planned(to) == phase' = to /\ UNCHANGED <<input, handles, views, sink, heap, at>>

PlanStatement ==
    /\ phase = "statement"
    /\ LET plans == LowerSelect(plan.statement)
       IN  output' = SetToSeq(plans) /\ Planned(IF plans = {} THEN "unplanned" ELSE "planned")

EvaluatePlan ==
    /\ phase = "planned"
    /\ LET answers == Answers(output[1])
       IN  IF answers = {} THEN output' = << >> /\ Planned("unresolved")
           ELSE output' = (CHOOSE answer \in answers : TRUE) /\ Planned("evaluated")

PlanNext == PlanStatement \/ EvaluatePlan

----------------------------------------------------------------------------
\* A plan that is evaluated gives what its statement means, however it was
\* lowered: sides of joins and comparisons told apart, windows hoisted, calls
\* of HAVING and sort keys hidden, qualifiers and aliases resolved, kernels
\* given the whole query. Two kinds of statement are left out, for which it does
\* not hold: a frame RANGE UNBOUNDED PRECEDING over tied keys, planned as ROWS,
\* and a PARTITION BY over a BIGINT column that holds NULL, read as zero.
PlanMeansStatement == phase = "evaluated" => output = Meaning(plan.statement)
=============================================================================
