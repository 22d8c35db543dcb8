------------------------------- MODULE Planner -------------------------------
(***************************************************************************)
(* The lowering of a parsed statement to a plan (query_lite/plan.rs,       *)
(* predicate.rs), and what the executor evaluates of it: names against the *)
(* joined schema, scalar expressions a view at a time, kernels and windows *)
(* over the whole query.  Joins, scans, groups, frames and sorts as such   *)
(* are in QueryExecution.                                                  *)
(*                                                                         *)
(* What may be refused yields a set: the one result, or none.              *)
(***************************************************************************)
EXTENDS StatementMeaning

Then(results, Op(_)) == UNION {Op(r) : r \in results}

\* The results of a sequence, if there is one for each.
All(xs, Op(_)) ==
    FoldLeft(LAMBDA done, x : {Append(d, r) : d \in done, r \in Op(x)}, {<< >>}, xs)

If(condition, result) == IF condition THEN {result} ELSE {}

\* The same with the windows hoisted so far handed on: a result is [v, ws].
Hoisting(xs, ws, Op(_, _)) ==
    FoldLeft(LAMBDA done, x :
                 UNION {{[v |-> Append(d.v, r.v), ws |-> r.ws] : r \in Op(x, d.ws)} : d \in done},
             {[v |-> << >>, ws |-> ws]}, xs)

\* What a result becomes, its windows kept.
Made(results, Op(_)) == {[r EXCEPT !.v = Op(r.v)] : r \in results}

Bare(x) == x.e = "column" /\ x.q = << >>

Named(x) == If(Bare(x), x.c)

----------------------------------------------------------------------------
\* Windows.

BucketLiteral(x) == If(x.e = "number" /\ x.n > 0, x.n)

Key(column, divide, multiply) == [column |-> column, divide |-> divide, multiply |-> multiply]

\* lower_group_key: a column, a bucket, or the start of a bucket.
RECURSIVE LowerGroupKey(_)
LowerGroupKey(x) ==
    LET Inner(y) == IF y.e = "paren" THEN y.x ELSE y IN
    CASE Bare(x) -> {Key(x.c, Null, Null)}
      [] x.e = "paren" -> LowerGroupKey(x.x)
      [] x.e = "binary" /\ x.op = "*" ->
           {[k EXCEPT !.multiply = m] :
               k \in {k \in LowerGroupKey(Inner(x.l)) : k.divide # Null /\ k.multiply = Null},
               m \in BucketLiteral(x.r)}
      [] x.e = "binary" /\ x.op = "/" -> {Key(c, d, Null) : c \in Named(x.l), d \in BucketLiteral(x.r)}
      [] OTHER -> {}

\* lower_frame; RANGE from the start of the run goes as ROWS.
LowerFrame(frames) ==
    IF frames = << >> THEN {}
    ELSE LET f == frames[1]
             Frame(unit, width) == If(f.unit \in {"rows", "range"} /\ f.end = "current",
                                      [unit |-> unit, width |-> width])
         IN  CASE f.preceding.e = "unbounded" -> Frame("rows", Null)
               [] f.preceding.e = "number" -> Frame(f.unit, f.preceding.n)
               [] OTHER -> {}

\* lower_offset_args: a column, and an offset of one or more.
LowerOffset(args) ==
    IF Len(args) \notin {1, 2} THEN {}
    ELSE IF Len(args) = 1 THEN {<<c, 1>> : c \in Named(args[1])}
    ELSE {<<c, n>> : c \in Named(args[1]), n \in BucketLiteral(args[2])}

\* lower_window_call.
LowerWindow(x) ==
    LET spec == x.over[1]
        positional == x.f \in {"lag", "lead"}
        ordered == spec.order # << >>
        Call(args, offset, partition, order, frame) ==
            [f |-> x.f, args |-> args, offset |-> offset, partition |-> partition,
             order |-> order, frame |-> frame]
        orders == All(spec.order, LAMBDA o : IF o.descending THEN {} ELSE Named(o.x))
        partitions == All(spec.partition, LowerGroupKey)
        frames == IF ordered THEN LowerFrame(spec.frame)
                  ELSE If(spec.frame = << >>, [unit |-> "partition", width |-> Null])
        unordered == Len(spec.order) > 1 \/ (~ordered /\ x.f \in {"lag", "lead", "first", "last"})
    IN  IF unordered THEN {}
        ELSE IF positional
        THEN IF spec.frame # << >> THEN {}
             ELSE {Call(<<o[1]>>, o[2], p, c, Null) :
                      o \in LowerOffset(x.args), p \in partitions, c \in orders}
        ELSE {Call(a, Null, p, c, f) :
                 a \in All(x.args, Named), p \in partitions, c \in orders, f \in frames}

----------------------------------------------------------------------------
\* Scalar expressions and predicates.

ScalarFunctions == [abs |-> 1]

\* A comparison read from the other side.
Flip(op) ==
    CASE op = "<" -> ">" [] op = "<=" -> ">=" [] op = ">" -> "<" [] op = ">=" -> "<=" [] OTHER -> op

Literals == {"number", "string", "null"}

IsLiteral(x) == x.e \in Literals \/ (x.e = "unary" /\ x.op = "-" /\ x.x.e \in Literals)

RECURSIVE Scalar(_, _), LowerPredicate(_, _), LowerComparison(_, _, _, _)

\* lower_scalar_expr.
LowerCall(x, ws) ==
    Then(Hoisting(x.args, ws, Scalar), LAMBDA args :
        LET Call(kind) == {[v |-> [s |-> kind, f |-> x.f, args |-> args.v], ws |-> args.ws]} IN
        IF x.f \in DOMAIN ScalarFunctions
        THEN IF Len(args.v) = ScalarFunctions[x.f] THEN Call("call") ELSE {}
        ELSE IF x.f \in Aggregates THEN {} ELSE Call("registered"))

LowerCase(x, ws) ==
    LET Arm(w, hoisted) ==
            Then(LowerPredicate(w.when, hoisted), LAMBDA c :
                Made(Scalar(w.then, c.ws), LAMBDA v : [condition |-> c.v, value |-> v]))
    IN  Then(Hoisting(x.whens, ws, Arm), LAMBDA arms :
            Made(Hoisting(x.otherwise, arms.ws, Scalar),
                 LAMBDA o : [s |-> "case", arms |-> arms.v, otherwise |-> o]))

Scalar(x, ws) ==
    CASE Bare(x) -> {[v |-> [s |-> "column", c |-> x.c], ws |-> ws]}
      [] x.e = "paren" -> Scalar(x.x, ws)
      [] x.e = "number" -> {[v |-> [s |-> "literal", n |-> x.n], ws |-> ws]}
      [] x.e = "unary" /\ x.op = "-" -> Made(Scalar(x.x, ws), LAMBDA v : [s |-> "negate", x |-> v])
      [] x.e = "unary" /\ x.op = "+" -> Scalar(x.x, ws)
      [] x.e = "binary" /\ x.op \in {"+", "-", "*", "/"} ->
           Made(Hoisting(<<x.l, x.r>>, ws, Scalar),
                LAMBDA v : [s |-> "binary", op |-> x.op, l |-> v[1], r |-> v[2]])
      [] x.e = "call" /\ x.over # << >> ->
           {[v |-> [s |-> "window", i |-> Len(ws) + 1], ws |-> Append(ws, w)] : w \in LowerWindow(x)}
      [] x.e = "call" /\ x.over = << >> -> LowerCall(x, ws)
      [] x.e = "case" -> LowerCase(x, ws)
      [] OTHER -> {}

CompareExpressions(l, op, r, ws) ==
    Made(Hoisting(<<l, r>>, ws, Scalar), LAMBDA v : [p |-> "expressions", op |-> op, l |-> v[1], r |-> v[2]])

\* lower_comparison: a literal on the left changes sides; a bare column
\* against a literal is what a zone map can rule out.
LowerComparison(l, op, r, ws) ==
    LET negated == r.e = "unary" /\ r.op = "-"
        literal == IF negated THEN r.x ELSE r
        One(p) == {[v |-> p, ws |-> ws]}
    IN  CASE IsLiteral(l) /\ Bare(r) -> LowerComparison(r, Flip(op), l, ws)
          [] Bare(l) /\ literal.e = "number" ->
               One([p |-> "compare", c |-> l.c, op |-> op, n |-> IF negated THEN -literal.n ELSE literal.n])
          [] Bare(l) /\ literal.e = "string" ->
               IF negated \/ op \notin {"=", "<>"} THEN {}
               ELSE One([p |-> "label", c |-> l.c, values |-> {literal.s}, negated |-> op = "<>"])
          [] OTHER -> CompareExpressions(l, op, r, ws)

RECURSIVE NullTested(_)
NullTested(x) == IF x.e = "paren" THEN NullTested(x.x) ELSE Named(x)

LowerPredicate(x, ws) ==
    CASE x.e = "paren" -> LowerPredicate(x.x, ws)
      [] x.e = "unary" /\ x.op = "not" -> Made(LowerPredicate(x.x, ws), LAMBDA v : [p |-> "not", x |-> v])
      [] x.e = "isnull" ->
           {[v |-> [p |-> "null", c |-> c, negated |-> x.negated], ws |-> ws] : c \in NullTested(x.x)}
      [] x.e = "in" ->
           {[v |-> [p |-> "label", c |-> c, values |-> ToSet(values), negated |-> x.negated], ws |-> ws] :
               c \in Named(x.x), values \in All(x.list, LAMBDA y : If(y.e = "string", y.s))}
      [] x.e = "binary" /\ x.op \in {"and", "or"} ->
           Made(Hoisting(<<x.l, x.r>>, ws, LowerPredicate),
                LAMBDA v : [p |-> x.op, l |-> v[1], r |-> v[2]])
      [] x.e = "binary" /\ x.op \in Comparisons -> LowerComparison(x.l, x.op, x.r, ws)
      [] OTHER -> {}

RECURSIVE CallsKernel(_), PredicateCallsKernel(_)

\* mutant: a kernel in a condition goes unseen
CallsKernelInValues(s) ==
    CASE s.s = "registered" -> TRUE
      [] s.s = "negate" -> CallsKernel(s.x)
      [] s.s = "binary" -> CallsKernel(s.l) \/ CallsKernel(s.r)
      [] s.s = "call" -> \E k \in DOMAIN s.args : CallsKernel(s.args[k])
      [] s.s = "case" -> \/ \E k \in DOMAIN s.arms : CallsKernel(s.arms[k].value)
                         \/ \E k \in DOMAIN s.otherwise : CallsKernel(s.otherwise[k])
      [] OTHER -> FALSE

\* uses_registered.
CallsKernel(s) ==
    CASE s.s = "registered" -> TRUE
      [] s.s = "negate" -> CallsKernel(s.x)
      [] s.s = "binary" -> CallsKernel(s.l) \/ CallsKernel(s.r)
      [] s.s = "call" -> \E k \in DOMAIN s.args : CallsKernel(s.args[k])
      [] s.s = "case" ->
           \/ \E k \in DOMAIN s.arms :
                 PredicateCallsKernel(s.arms[k].condition) \/ CallsKernel(s.arms[k].value)
           \/ \E k \in DOMAIN s.otherwise : CallsKernel(s.otherwise[k])
      [] OTHER -> FALSE

PredicateCallsKernel(p) ==
    CASE p.p = "expressions" -> CallsKernel(p.l) \/ CallsKernel(p.r)
      [] p.p \in {"and", "or"} -> PredicateCallsKernel(p.l) \/ PredicateCallsKernel(p.r)
      [] p.p = "not" -> PredicateCallsKernel(p.x)
      [] OTHER -> FALSE

\* lower_row_predicate: neither a window nor a kernel filters rows.
RowPredicate(x) ==
    {r.v : r \in {r \in LowerPredicate(x, << >>) : r.ws = << >> /\ ~PredicateCallsKernel(r.v)}}

----------------------------------------------------------------------------
\* FROM and JOIN.

\* strip_qualifiers: a qualifier must name a table of the query; CASE, unlike
\* every other expression, is left as it is.
RECURSIVE Strip(_, _)
Strip(x, known) ==
    LET Inside(y) == Strip(y, known)
        StripOrder(o) == {[o EXCEPT !.x = y] : y \in Inside(o.x)}
        StripOver(w) == {[w EXCEPT !.partition = p, !.order = o] :
                            p \in All(w.partition, Inside), o \in All(w.order, StripOrder)}
    IN  CASE x.e = "column" /\ x.q # << >> -> If(x.q[1] \in known, [x EXCEPT !.q = << >>])
          [] x.e \in {"paren", "unary", "isnull"} -> {[x EXCEPT !.x = y] : y \in Inside(x.x)}
          [] x.e = "binary" -> {[x EXCEPT !.l = l, !.r = r] : l \in Inside(x.l), r \in Inside(x.r)}
          [] x.e = "in" -> {[x EXCEPT !.x = y, !.list = l] : y \in Inside(x.x), l \in All(x.list, Inside)}
          [] x.e = "call" -> {[x EXCEPT !.args = a, !.over = o] :
                                 a \in All(x.args, Inside), o \in All(x.over, StripOver)}
          [] OTHER -> {x}

NamesOf(table, alias) == {table} \union ToSet(alias)

\* Whether the fact's column is the left one: a qualifier on either says so.
FactLeft(st, l, r) ==
    LET IsFact(x) == IF x.q = << >> THEN Null ELSE x.q[1] \in NamesOf(st.from, st.alias)
    IN  IF {l.e, r.e} # {"column"} THEN {}
        ELSE If(IsFact(l) # IsFact(r), IsFact(l) = TRUE \/ IsFact(r) = FALSE)

\* lower_asof_inequality: the fact's clock must be the later one; all the
\* operator chooses is whether an equal clock matches.
LowerAxis(st, x) ==
    IF x.e # "binary" \/ x.op \notin {"<", "<=", ">", ">="} THEN {}
    ELSE {[match |-> IF x.op \in {"<=", ">="} THEN "asof" ELSE "before",
           named |-> IF left THEN <<x.l.c, x.r.c>> ELSE <<x.r.c, x.l.c>>] :
             left \in {f \in FactLeft(st, x.l, x.r) : f = (x.op \in {">", ">="})}}

LowerJoin(st) ==
    LET join == st.join[1]
        split == join.asof /\ join.on.e = "binary" /\ join.on.op = "and"
        equality == IF split THEN join.on.l ELSE join.on
        axes == IF split THEN LowerAxis(st, join.on.r)
                ELSE {[match |-> IF join.asof THEN "asof" ELSE "equi", named |-> << >>]}
    IN  IF equality.e # "binary" \/ equality.op # "=" THEN {}
        ELSE {[dimension |-> join.table, left |-> join.kind = "left", axis |-> axis,
               fact |-> IF left THEN equality.l.c ELSE equality.r.c,
               key |-> IF left THEN equality.r.c ELSE equality.l.c] :
                 axis \in axes, left \in FactLeft(st, equality.l, equality.r)}

\* The statement with its names plain and its join lowered.
LowerFrom(st) ==
    LET known == NamesOf(st.from, st.alias) \union NamesOf(st.join[1].table, st.join[1].alias)
        StripItem(item) == {[item EXCEPT !.x = x] : x \in Strip(item.x, known)}
    IN  IF st.join = << >> THEN {[st |-> st, join |-> << >>]}
        ELSE {[st |-> [st EXCEPT !.items = items, !.where = where], join |-> <<join>>] :
                 join \in LowerJoin(st), items \in All(st.items, StripItem),
                 where \in All(st.where, LAMBDA x : Strip(x, known))}

----------------------------------------------------------------------------
\* The SELECT list.

IsBucket(k) == k.divide # Null

\* resolve_group_aliases: a name the SELECT list gives a bucket is that bucket.
GroupAliases(st, keys) ==
    LET Bucketing(k) == {i \in DOMAIN st.items : /\ st.items[i].alias = <<k.column>>
                                                /\ \E b \in LowerGroupKey(st.items[i].x) : IsBucket(b)}
    IN  [i \in DOMAIN keys |->
            IF IsBucket(keys[i]) \/ Bucketing(keys[i]) = {} THEN keys[i]
            ELSE CHOOSE b \in LowerGroupKey(st.items[Min(Bucketing(keys[i]))].x) : TRUE]

\* lower_agg_item, lower_agg_argument: a term of GROUP BY or one call.
LowerAggItem(item, keys) ==
    LET x == item.x IN
    CASE x.e \in {"column", "binary", "paren"} ->
           {[i |-> "key", key |-> k, alias |-> item.alias] : k \in LowerGroupKey(x) \intersect ToSet(keys)}
      [] x.e = "call" /\ x.over = << >> /\ x.f \in Aggregates /\ Len(x.args) = 1 ->
           IF x.args[1].e = "star"
           THEN If(x.f = "count", [i |-> "call", f |-> x.f, arg |-> << >>, alias |-> item.alias])
           ELSE {[i |-> "call", f |-> x.f, arg |-> <<c>>, alias |-> item.alias] : c \in Named(x.args[1])}
      [] OTHER -> {}

\* extract_having_calls: a call becomes the name of a hidden column.
HiddenName(n) == "__having" \o ToString(n)

Reserved == {HiddenName(n) : n \in 0..2}

RECURSIVE ExtractCalls(_, _)
ExtractCalls(x, hidden) ==
    LET One(y, Back(_)) == {[v |-> Back(r.v), ws |-> r.ws] : r \in ExtractCalls(y, hidden)} IN
    CASE x.e \in {"paren", "isnull", "unary"} -> One(x.x, LAMBDA y : [x EXCEPT !.x = y])
      [] x.e = "binary" -> Made(Hoisting(<<x.l, x.r>>, hidden, ExtractCalls),
                                LAMBDA v : [x EXCEPT !.l = v[1], !.r = v[2]])
      [] x.e = "call" /\ x.over = << >> ->
           {[v |-> [e |-> "column", q |-> << >>, c |-> HiddenName(Len(hidden))],
             ws |-> Append(hidden, item)] :
               item \in LowerAggItem([x |-> x, alias |-> <<HiddenName(Len(hidden))>>], << >>)}
      [] OTHER -> {[v |-> x, ws |-> hidden]}

LowerHaving(x) ==
    UNION {{[items |-> r.ws, predicate |-> p] : p \in RowPredicate(r.v)} : r \in ExtractCalls(x, << >>)}

LowerItem(item) ==
    LET x == item.x IN
    IF Bare(x) THEN {[i |-> "column", c |-> x.c, alias |-> item.alias]}
    ELSE IF x.e = "call" /\ x.over # << >>
    THEN {[i |-> "window", call |-> w, alias |-> item.alias] : w \in LowerWindow(x)}
    ELSE {[i |-> "computed", x |-> r.v, windows |-> r.ws, alias |-> item.alias] : r \in Scalar(x, << >>)}

\* Whether the SELECT list is one of groups: GROUP BY or an aggregate call.
AggregateShaped(st) == st.group # << >> \/ \E k \in DOMAIN st.items : IsAggregate(st.items[k].x)

\* With HAVING the names of its hidden columns are taken.
LowerGroups(st) ==
    IF st.having # << >> /\ \E k \in DOMAIN st.items : OutputName(st.items[k]) \in Reserved THEN {}
    ELSE
    UNION {LET keys == GroupAliases(st, terms) IN
           {[kind |-> "groups", keys |-> keys, items |-> items, having |-> having] :
               items \in All(st.items, LAMBDA item : LowerAggItem(item, keys)),
               having \in All(st.having, LowerHaving)} :
           terms \in All(st.group, LowerGroupKey)}

LowerProjection(st) ==
    IF AggregateShaped(st) THEN LowerGroups(st)
    ELSE IF st.having # << >> THEN {}
    ELSE {[kind |-> "items", items |-> items] : items \in All(st.items, LowerItem)}

Deduplicates(p) == p.kind = "items" /\ \A k \in DOMAIN p.items : p.items[k].i = "column"

LowerOrder(o) == {[column |-> c, descending |-> o.descending, nulls |-> o.nulls] : c \in Named(o.x)}

\* LIMIT and OFFSET are literals, and not negative ones.
LowerCount(x) == If(x.e = "number" /\ x.n >= 0, x.n)

\* lower_query and lower_select: the plans of a SELECT, one or none.
LowerSelect(st) ==
    UNION {{[table |-> st.from, join |-> from.join, predicate |-> predicate, projection |-> projection,
             distinct |-> st.distinct, order |-> order, limit |-> limit, offset |-> offset] :
               predicate \in All(from.st.where, RowPredicate),
               projection \in {p \in LowerProjection(from.st) : st.distinct => Deduplicates(p)},
               order \in IF Len(st.order) > 1 THEN {} ELSE All(st.order, LowerOrder),
               limit \in All(st.limit, LowerCount), offset \in All(st.offset, LowerCount)} :
           from \in LowerFrom(st)}
=============================================================================
