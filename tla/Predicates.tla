----------------------------- MODULE Predicates -----------------------------
(***************************************************************************)
(* WHERE over one segment (query_lite/predicate.rs): the three-valued      *)
(* evaluation of a predicate over the segment's rows, and the test on zone *)
(* maps (storage_lite/mem.rs) that skips a segment unread.                 *)
(*                                                                         *)
(* A predicate is the sequence of its nodes, children before parents, the  *)
(* root last.  A row is a function of column names; a cell is Null, a      *)
(* label or a number.                                                      *)
(***************************************************************************)
EXTENDS Integers, SequencesExt

CONSTANTS
    MaxNumber,   \* i64::MAX, scaled down
    Null         \* SQL's NULL

ASSUME MaxNumberAssumption == MaxNumber \in Nat \ {0}

KeyColumns == {"sym"}

Numbers == -MaxNumber - 1 .. MaxNumber

\* One f64 relation everywhere (cmp_f64): NaN is above every number.
NaN == MaxNumber + 1

ASSUME NullAssumption == Null \notin Numbers \cup {NaN}

\* CmpOp::holds, and the same six tests through cmp_f64 and cmp_i64_f64.
Holds(op, left, right) ==
    CASE op = "=" -> left = right
      [] op = "<>" -> left # right
      [] op = "<" -> left < right
      [] op = "<=" -> left <= right
      [] op = ">" -> left > right
      [] op = ">=" -> left >= right

----------------------------------------------------------------------------
\* Three-valued evaluation: the rows a predicate is TRUE for and those it is
\* FALSE for; it is UNKNOWN for the others.

\* A comparison with a NULL is UNKNOWN.
LeafResult(valid, held) == [truth |-> valid \intersect held, falsity |-> valid \ held]

Both(left, right) ==
    [truth   |-> left.truth \intersect right.truth,
     falsity |-> left.falsity \union right.falsity]

Either(left, right) ==
    [truth   |-> left.truth \union right.truth,
     falsity |-> left.falsity \intersect right.falsity]

Negation(result) == [truth |-> result.falsity, falsity |-> result.truth]

\* An expression is evaluated over the live rows only and its results, indexed
\* by live position, are scattered back to the stored rows.
Scattered(rows, live) ==
    LET evaluated == [p \in 1..Cardinality(live) |-> rows[SetToSortSeq(live, <)[p]]]
    IN  [i \in live |-> evaluated[Cardinality({j \in live : j <= i})]]

\* A node that is no connective.  "in" stands for =, IN and LIKE on a label
\* column: values are the dictionary entries the test admits.
Leaf(node, rows, live) ==
    LET present(column) == {i \in DOMAIN rows : rows[i][column] # Null}
    IN  CASE node.op = "compare" ->
               LET valid == present(node.column) IN
               LeafResult(valid, {i \in valid : Holds(node.cmp, rows[i][node.column], node.value)})
          [] node.op = "columns" ->
               LET cells == Scattered(rows, live)
                   valid == live \intersect present(node.column) \intersect present(node.other)
               IN  LeafResult(valid, {i \in valid :
                       Holds(node.cmp, cells[i][node.column], cells[i][node.other])})
          [] node.op = "null" ->
               LeafResult(DOMAIN rows,
                   IF node.negated THEN present(node.column)
                   ELSE DOMAIN rows \ present(node.column))
          [] node.op = "in" ->
               LET valid == present(node.column) IN
               LeafResult(valid, {i \in valid :
                       (rows[i][node.column] \in node.values) # node.negated})

\* evaluate: the rows for which the predicate is TRUE.
Evaluate(predicate, rows, live) ==
    LET Result[i \in DOMAIN predicate] ==
          LET node == predicate[i] IN
          CASE node.op = "and" -> Both(Result[node.left], Result[node.right])
            [] node.op = "or"  -> Either(Result[node.left], Result[node.right])
            [] node.op = "not" -> Negation(Result[node.left])
            [] OTHER -> Leaf(node, rows, live)
    IN  Result[Len(predicate)].truth

----------------------------------------------------------------------------
\* Zone maps.

\* compute_zone_map: of the valid values of a numeric column, tombstoned rows
\* included.  All NaN: a map whose bounds are NaN.  No valid value: no map.
ZoneMap(rows, column) ==
    LET valid == {rows[i][column] : i \in DOMAIN rows} \ {Null}
        numbers == IF valid = {NaN} THEN valid ELSE valid \ {NaN}
    IN  [present |-> valid # {},
         min |-> IF valid = {} THEN Null ELSE Min(numbers),
         max |-> IF valid = {} THEN Null ELSE Max(numbers),
         hasNaN |-> NaN \in valid]

\* The bounds alone, NaN forgotten.
WithinBounds(map, op, target) ==
    CASE op = "=" -> map.min <= target /\ target <= map.max
      [] op = "<>" -> ~(map.min = target /\ map.max = target)
      [] op = "<" -> map.min < target
      [] op = "<=" -> map.min <= target
      [] op = ">" -> map.max > target
      [] op = ">=" -> map.max >= target

MayHold(map, op, target) ==
    CASE op = "=" -> map.min <= target /\ target <= map.max
      [] op = "<>" -> map.hasNaN \/ ~(map.min = target /\ map.max = target)
      [] op = "<" -> map.min < target
      [] op = "<=" -> map.min <= target
      [] op = ">" -> map.hasNaN \/ map.max > target
      [] op = ">=" -> map.hasNaN \/ map.max >= target

\* can_match: FALSE means provably no row.  A column the schema does not
\* have, an expression, a label test and NOT prune nothing; neither does a
\* float literal against integer bounds, which widening would round.
CanMatch(predicate, schema, segment) ==
    LET rows == segment.rows
        Maybe[i \in DOMAIN predicate] ==
          LET node == predicate[i] IN
          CASE node.op = "and" -> Maybe[node.left] /\ Maybe[node.right]
            [] node.op = "or"  -> Maybe[node.left] \/ Maybe[node.right]
            [] node.op = "compare" /\ node.column \in schema ->
                 LET map == ZoneMap(rows, node.column) IN
                 /\ map.present
                 /\ node.widened \/ MayHold(map, node.cmp, node.value)
            [] node.op = "null" /\ node.column \in schema \ KeyColumns ->
                 node.negated => ZoneMap(rows, node.column).present
            [] OTHER -> TRUE
    IN  ~segment.mapped \/ Maybe[Len(predicate)]
=============================================================================
