--------------------------- MODULE StatementMeaning ---------------------------
(***************************************************************************)
(* What a parsed SELECT means over a database of two tables: expressions   *)
(* are evaluated as they stand, names are resolved in their scopes, and a  *)
(* window, a join and a group are sets of rows.  Nothing here plans.       *)
(*                                                                         *)
(* A database is plan.tables: for each table its columns' types, its       *)
(* ordering key, its live rows in segments, and its symbol column.  A node *)
(* of an expression is a record with its kind in e; an optional part is a  *)
(* sequence of length 0 or 1.                                              *)
(***************************************************************************)
EXTENDS StatementText

Table(name) == plan.tables[name]

TableRows(name) == FlattenSeq(Table(name).segments)

\* A statement's tables by what a qualifier calls them.
Called(st, name, word) ==
    IF name = st.from THEN word \in {st.from} \union ToSet(st.alias)
    ELSE \E j \in DOMAIN st.join :
             name = st.join[j].table /\ word \in {st.join[j].table} \union ToSet(st.join[j].alias)

\* A column of the row in scope; a name both tables have is the fact's.
Cell(st, env, x) ==
    LET Has(name) == x.c \in DOMAIN env[name] /\ (x.q # << >> => Called(st, name, x.q[1]))
    IN  IF Has(st.from) THEN env[st.from][x.c]
        ELSE LET name == CHOOSE n \in DOMAIN env : Has(n) IN env[name][x.c]

And3(p, q) == IF FALSE \in {p, q} THEN FALSE ELSE IF Null \in {p, q} THEN Null ELSE TRUE

Not3(p) == IF p = Null THEN Null ELSE ~p

Or3(p, q) == Not3(And3(Not3(p), Not3(q)))

Arithmetic(op, l, r) ==
    CASE op = "+" -> l + r
      [] op = "-" -> l - r
      [] op = "*" -> l * r
      [] op = "/" -> Buckets!BucketOf(l, r)

Comparisons == {"=", "<>", "<", "<=", ">", ">="}

Applied(op, l, r) ==
    CASE op = "and" -> And3(l, r)
      [] op = "or" -> Or3(l, r)
      [] Null \in {l, r} -> Null
      [] op \in Comparisons -> Holds(op, l, r)
      [] OTHER -> Arithmetic(op, l, r)

Magnitude(v) == IF v < 0 THEN -v ELSE v

Present(cells) == SelectSeq(cells, LAMBDA v : v # Null)

Total(cells) == FoldLeft(LAMBDA t, v : t + v, 0, cells)

\* An aggregate over the cells it is given, in clock order.
Reduced(f, cells) ==
    LET seen == Present(cells) IN
    CASE f = "count" -> Len(seen)
      [] seen = << >> -> Null
      [] f = "sum" -> Total(seen)
      [] f = "min" -> Min(ToSet(seen))
      [] f = "max" -> Max(ToSet(seen))
      [] f = "first" -> Head(seen)
      [] f = "last" -> Last(seen)

Aggregates == {"count", "sum", "min", "max", "first", "last"}

InRowOrder(set) == SetToSortSeq(set, <)

\* A place to evaluate at: a row, or a group with what the SELECT list calls
\* its columns.
AtRow(st, envs, i) == [st |-> st, envs |-> envs, i |-> i, members |-> {}, output |-> << >>]

Unary(op, v) ==
    CASE v = Null -> Null
      [] op = "not" -> ~v
      [] op = "-" -> -v
      [] op = "abs" -> Magnitude(v)
      [] OTHER -> v

RECURSIVE Value(_, _)

\* A call with OVER: LAG and LEAD read one row of the run, the others the rows
\* of the frame.
WindowValue(x, place) ==
    LET Here(y, j) == Value(y, AtRow(place.st, place.envs, j))
        spec == x.over[1]
        run == {j \in DOMAIN place.envs :
                   \A k \in DOMAIN spec.partition :
                       Here(spec.partition[k], j) = Here(spec.partition[k], place.i)}
        Between(lo, hi) == Cardinality({k \in run : lo < k /\ k <= hi})
        clock(j) == Here(spec.order[1].x, j)
        width == spec.frame[1].preceding.n
        Framed(j) ==
            CASE spec.order = << >> -> TRUE
              [] j > place.i -> spec.frame[1].unit = "range" /\ clock(j) = clock(place.i)
              [] spec.frame[1].preceding.e = "unbounded" -> TRUE
              [] spec.frame[1].unit = "rows" -> Between(j, place.i) <= width
              [] spec.frame[1].unit = "range" -> clock(j) >= clock(place.i) - width
        offset == IF Len(x.args) = 2 THEN x.args[2].n ELSE 1
        one == {j \in run : IF x.f = "lag" THEN j < place.i /\ Between(j, place.i) = offset
                            ELSE place.i < j /\ Between(place.i, j) = offset}
        order == InRowOrder({j \in run : Framed(j)})
    IN  IF x.f \notin {"lag", "lead"}
        THEN Reduced(x.f, [k \in DOMAIN order |-> Here(x.args[1], order[k])])
        ELSE IF one = {} THEN Null ELSE Here(x.args[1], Min(one))

\* A call of an aggregate over the members of a group.
GroupValue(x, place) ==
    LET order == InRowOrder(place.members)
        Here(j) == Value(x.args[1], AtRow(place.st, place.envs, j))
    IN  IF x.args[1].e = "star" THEN Len(order) ELSE Reduced(x.f, [k \in DOMAIN order |-> Here(order[k])])

CaseValue(x, place) ==
    LET held == {k \in DOMAIN x.whens : Value(x.whens[k].when, place) = TRUE}
    IN  IF held # {} THEN Value(x.whens[Min(held)].then, place)
        ELSE IF x.otherwise # << >> THEN Value(x.otherwise[1], place)
        ELSE Null

\* A registered kernel that keeps state: the running total.
RunningValue(x, place) ==
    LET Here(j) == Value(x.args[1], AtRow(place.st, place.envs, j))
    IN  IF Here(place.i) = Null THEN Null ELSE Total(Present([j \in 1..place.i |-> Here(j)]))

Value(x, place) ==
    CASE x.e = "column" -> IF place.output # << >> THEN place.output[x.c]
                           ELSE Cell(place.st, place.envs[place.i], x)
      [] x.e = "number" -> x.n
      [] x.e = "string" -> x.s
      [] x.e = "paren" -> Value(x.x, place)
      [] x.e = "unary" -> Unary(x.op, Value(x.x, place))
      [] x.e = "binary" -> Applied(x.op, Value(x.l, place), Value(x.r, place))
      [] x.e = "isnull" -> (Value(x.x, place) = Null) # x.negated
      [] x.e = "in" -> LET v == Value(x.x, place)
                       IN  IF v = Null THEN Null ELSE (v \in {Value(y, place) : y \in ToSet(x.list)}) # x.negated
      [] x.e = "case" -> CaseValue(x, place)
      [] x.e = "call" -> IF x.over # << >> THEN WindowValue(x, place)
                         ELSE IF x.f = "abs" THEN Unary("abs", Value(x.args[1], place))
                         ELSE IF x.f = "running" THEN RunningValue(x, place)
                         ELSE GroupValue(x, place)

----------------------------------------------------------------------------
\* The rows of FROM and JOIN: for each fact row the dimension rows ON admits,
\* and of those, for an as-of join, the latest.

Nothing(name) == [c \in DOMAIN Table(name).types |-> Null]

Env(st, fact, dimension) ==
    IF st.join = << >> THEN (st.from :> fact)
    ELSE (st.from :> fact) @@ (st.join[1].table :> dimension)

Matches(st, fact) ==
    LET join == st.join[1]
        rows == TableRows(join.table)
        clock == Table(join.table).ordering
        On(d) == Value(join.on, AtRow(st, <<Env(st, fact, rows[d])>>, 1)) = TRUE
        Past(d) == rows[d][clock] <= fact[Table(st.from).ordering]
        admitted == {d \in DOMAIN rows : On(d) /\ (join.asof => Past(d))}
    IN  IF ~join.asof THEN {rows[d] : d \in admitted}
        ELSE {rows[d] : d \in {d \in admitted : \A o \in admitted :
                 rows[o][clock] < rows[d][clock] \/ (rows[o][clock] = rows[d][clock] /\ o <= d)}}

\* LEFT keeps a fact row no dimension row is admitted for.
Beside(st, fact, matches) ==
    IF matches = {} THEN IF st.join[1].kind = "left" THEN <<Env(st, fact, Nothing(st.join[1].table))>> ELSE << >>
    ELSE SetToSeq({Env(st, fact, m) : m \in matches})

Joined(st, fact) ==
    IF st.join = << >> THEN <<Env(st, fact, fact)>> ELSE Beside(st, fact, Matches(st, fact))

Filter(st, envs) ==
    LET kept == SelectSeq(Positions(envs), LAMBDA i :
                    \A w \in DOMAIN st.where : Value(st.where[w], AtRow(st, envs, i)) = TRUE)
    IN  [k \in DOMAIN kept |-> envs[kept[k]]]

Envs(st) ==
    LET facts == TableRows(st.from)
    IN  Filter(st, FlattenSeq([i \in DOMAIN facts |-> Joined(st, facts[i])]))

----------------------------------------------------------------------------
\* SELECT, GROUP BY, HAVING, DISTINCT, ORDER BY, LIMIT.

OutputName(item) ==
    IF item.alias # << >> THEN item.alias[1] ELSE IF item.x.e = "column" THEN item.x.c ELSE ""

IsAggregate(x) == x.e = "call" /\ x.over = << >> /\ x.f \in Aggregates

Grouping(st) == st.group # << >> \/ \E k \in DOMAIN st.items : IsAggregate(st.items[k].x)

\* A GROUP BY term that is an output name stands for its expression.
Term(st, x) ==
    LET named == {k \in DOMAIN st.items : x.e = "column" /\ st.items[k].alias = <<x.c>>}
    IN  IF named = {} THEN x ELSE st.items[Min(named)].x

\* The groups as sets of rows, as they first appear; without GROUP BY there
\* is one, even of no rows.
GroupSets(st, keys) ==
    IF st.group = << >> THEN <<DOMAIN keys>>
    ELSE SetToSortSeq({{j \in DOMAIN keys : keys[j] = keys[i]} : i \in DOMAIN keys},
                      LAMBDA g, h : Min(g) < Min(h))

GroupKeys(st, envs) ==
    [i \in DOMAIN envs |->
        [k \in DOMAIN st.group |-> Value(Term(st, st.group[k]), AtRow(st, envs, i))]]

GroupCells(st, envs, members) ==
    [k \in DOMAIN st.items |->
        Value(st.items[k].x, IF IsAggregate(st.items[k].x) THEN [AtRow(st, envs, 0) EXCEPT !.members = members]
                             ELSE AtRow(st, envs, Min(members)))]

\* The SELECT list's cells by name.
NamedCells(st, cells) ==
    [n \in {OutputName(st.items[k]) : k \in DOMAIN st.items} |->
        cells[Min({k \in DOMAIN st.items : OutputName(st.items[k]) = n})]]

Had(st, envs, row) ==
    \A h \in DOMAIN st.having :
        Value(st.having[h], [AtRow(st, envs, 0) EXCEPT
            !.members = row.members, !.output = NamedCells(st, row.cells)]) = TRUE

GroupRows(st, envs, groups) ==
    SelectSeq([g \in DOMAIN groups |-> [cells |-> GroupCells(st, envs, groups[g]), members |-> groups[g], env |-> << >>]],
              LAMBDA row : Had(st, envs, row))

ItemRows(st, envs) ==
    [i \in DOMAIN envs |->
        [cells |-> [k \in DOMAIN st.items |-> Value(st.items[k].x, AtRow(st, envs, i))],
         env |-> <<envs[i]>>]]

\* Rows by their key cells, stable, NULL last unless asked for first.
ByCells(rows, cells, order) ==
    LET Before(i, j) ==
            CASE cells[i] = cells[j] -> i < j
              [] Null \in {cells[i], cells[j]} -> (cells[i] = Null) = (order.nulls = <<TRUE>>)
              [] OTHER -> (cells[i] < cells[j]) # order.descending
        sorted == SetToSortSeq(DOMAIN rows, Before)
    IN  [k \in DOMAIN sorted |-> rows[sorted[k]]]

OrderCell(st, row) ==
    LET name == st.order[1].x.c
        items == {k \in DOMAIN st.items : OutputName(st.items[k]) = name}
    IN  IF items # {} THEN row.cells[Min(items)] ELSE Cell(st, row.env[1], st.order[1].x)

Page(rows, limit, offset) ==
    LET from == IF offset = << >> THEN 0 ELSE offset[1]
    IN  SubSeq(rows, from + 1, IF limit = << >> THEN Len(rows) ELSE Min({Len(rows), from + limit[1]}))

ResultRows(st, envs) ==
    IF Grouping(st) THEN GroupRows(st, envs, GroupSets(st, GroupKeys(st, envs))) ELSE ItemRows(st, envs)

SortedRows(st, rows) ==
    IF st.order = << >> THEN rows
    ELSE ByCells(rows, [i \in DOMAIN rows |-> OrderCell(st, rows[i])], st.order[1])

Deduplicated(st, rows) == IF st.distinct THEN FirstOccurrences(rows) ELSE rows

CellsOf(rows) == [i \in DOMAIN rows |-> rows[i].cells]

Meaning(st) ==
    Page(Deduplicated(st, CellsOf(SortedRows(st, ResultRows(st, Envs(st))))),
         [k \in DOMAIN st.limit |-> st.limit[k].n], [k \in DOMAIN st.offset |-> st.offset[k].n])
=============================================================================
