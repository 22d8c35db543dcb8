--------------------------- MODULE QueryExecution ---------------------------
(***************************************************************************)
(* The execution of one query over a snapshot (query_lite/exec.rs): the    *)
(* star and as-of joins, the scan with its pruning, streaming and hashed   *)
(* grouping, windows, DISTINCT, the top-k sort, OFFSET and LIMIT.          *)
(*                                                                         *)
(* A case is a snapshot and a plan.  A segment is its rows, which of them  *)
(* are live, whether it carries zone maps, and whether it is resident or   *)
(* its rows come from its stored object.  A row is a function of column    *)
(* names: ts, the ordering key, which is never NULL; sym, a symbol; x, an  *)
(* f64; n, an i64; seq, its birth.                                         *)
(***************************************************************************)
EXTENDS SegmentFormat

CONSTANT Cases   \* families of [segments, dimension, plan]

VARIABLES
    input,       \* the case: a snapshot and a plan
    phase,       \* what the executor does next
    handles,     \* the segments not yet scanned
    views,       \* the surviving rows of those scanned
    sink,        \* the aggregation: unified, open, bucket, closed
    heap,        \* the rows the sort retains
    at,          \* how many rows the aggregation or the sort has taken
    output       \* the projected rows

vars == <<input, phase, handles, views, sink, heap, at, output>>

plan == input.plan

Positions(seq) == [i \in 1..Len(seq) |-> i]

Project(row, columns) == [column \in columns |-> row[column]]

----------------------------------------------------------------------------
\* Joins.  A dimension row is [sym, ts, d, seq]; what it gives a fact is d.

Stored(segments) ==
    FlattenSeq([i \in DOMAIN segments |->
        SelectSeq([r \in DOMAIN segments[i].rows |->
                      [row |-> segments[i].rows[r], live |-> r \in segments[i].live]],
                  LAMBDA stored : stored.live)])

\* live_rows of every view in turn.
LiveRows(segments) ==
    LET stored == Stored(segments) IN [i \in DOMAIN stored |-> stored[i].row]

\* DimensionIndex::unique refuses a key two live rows share.
Duplicated(rows) ==
    \E i, j \in DOMAIN rows : i # j /\ rows[i].sym = rows[j].sym /\ rows[i].sym # Null

\* A history left in storage order.
StorageHistory(rows, symbol) == SelectSeq(rows, LAMBDA row : row.sym = symbol)

\* DimensionIndex::history: a symbol's rows by clock, ties by birth.
History(rows, symbol) ==
    SortSeq(SelectSeq(rows, LAMBDA row : row.sym = symbol),
            LAMBDA a, b : a.ts < b.ts \/ (a.ts = b.ts /\ a.seq < b.seq))

\* picks: the last row of the history the fact's clock has reached.
Pick(rows, fact) ==
    LET history == History(rows, fact.sym)
        reached == {i \in DOMAIN history :
                       IF plan.join = "before" THEN history[i].ts < fact.ts
                       ELSE plan.join = "asof" => history[i].ts <= fact.ts}
    IN  IF fact.sym = Null \/ reached = {} THEN {} ELSE {history[Max(reached)]}

Widened(fact, picks) ==
    [column \in DOMAIN fact \cup {"d"} |->
        IF column # "d" THEN fact[column]
        ELSE IF picks = {} THEN Null ELSE (CHOOSE p \in picks : TRUE).d]

\* The joined segment; INNER's misses die under the live mask.
JoinedSegment(segment, rows) ==
    LET picks == [i \in DOMAIN segment.rows |-> Pick(rows, segment.rows[i])] IN
    [segment EXCEPT
        !.rows = [i \in DOMAIN segment.rows |-> Widened(segment.rows[i], picks[i])],
        !.live = IF plan.left THEN @ ELSE {i \in @ : picks[i] # {}},
        !.mapped = TRUE]

----------------------------------------------------------------------------
\* The scan.

FactSchema == {"ts", "sym", "x", "n"}
Schema == IF plan.join = "none" THEN FactSchema ELSE FactSchema \cup {"d"}

Filtered == plan.where # << >>

Skipped(segment) ==
    \/ segment.live = {}
    \/ Filtered /\ ~CanMatch(plan.where, Schema, segment)

\* The live mask with the predicate folded in.
Mask(segment) ==
    IF Filtered THEN segment.live \intersect Evaluate(plan.where, segment.rows, segment.live)
    ELSE segment.live

View(segment) ==
    [rows |-> LiveRows(<<[segment EXCEPT !.live = Mask(segment)]>>),
     ordered |-> Ordered(segment.rows),
     dictionary |-> Dictionary(segment.rows)]

Survivors == FlattenSeq([i \in DOMAIN views |-> views[i].rows])

\* Order within each segment only.
OrderedWithin(snapshot) == \A i \in DOMAIN snapshot : snapshot[i].ordered

\* ordering_problem is none: within every segment and across them.
InOrder(snapshot) ==
    /\ \A i \in DOMAIN snapshot : snapshot[i].ordered
    /\ \A i \in 1..(Len(snapshot) - 1) :
          Last(snapshot[i].rows).ts <= Head(snapshot[i + 1].rows).ts

----------------------------------------------------------------------------
\* Grouping.

Buckets == INSTANCE ViewBuckets WITH MaxKey <- MaxNumber

Bucketed(by) == by.width > 0

\* The rows in the order they are scanned, each with its view.
Walk ==
    FlattenSeq([v \in DOMAIN views |->
        [r \in DOMAIN views[v].rows |-> [view |-> v, row |-> views[v].rows[r]]]])

\* The query-lifetime key space: symbols by first appearance in the views'
\* dictionaries, each of which is remapped into it.
Unified(snapshot) ==
    FoldLeft(LAMBDA values, view :
                 values \o SelectSeq(view.dictionary, LAMBDA v : ~Contains(values, v)),
             << >>, snapshot)

\* GroupTerm::code.  NULLs are one group.
Code(row, by) ==
    [label |-> IF ~by.label \/ row.sym = Null THEN Null
               ELSE CHOOSE c \in DOMAIN Unified(views) : Unified(views)[c] = row.sym,
     bucket |-> IF ~Bucketed(by) THEN Null
                ELSE LET index == Buckets!BucketOf(row.ts, by.width) IN
                     IF by.multiply THEN index * by.width ELSE index]

\* What a closed group's code is read back as.
Decoded(code) ==
    [code EXCEPT !.label = IF @ = Null THEN Null ELSE Unified(views)[@]]

Streaming == Bucketed(plan.by) /\ InOrder(views)

NoCells == [star |-> 0, count |-> 0, sum |-> Null, low |-> Null, high |-> Null,
            first |-> Null, firstAt |-> Null, last |-> Null, lastAt |-> Null]

NewGroup(code) == [code |-> code, cells |-> NoCells]

\* SUM over BIGINT is checked at every row; over DOUBLE it rounds instead,
\* and is left out.
Summed(cells, cell) ==
    IF plan.argument # "n" THEN Null ELSE IF cells.sum = Null THEN cell ELSE cells.sum + cell

\* Accumulator::update of every call: a NULL only counts for COUNT(*); NaN is
\* the greatest; FIRST keeps what it holds at an equal clock, LAST takes it.
Updated(cells, cell, clock) ==
    LET counted == [cells EXCEPT !.star = @ + 1] IN
    IF cell = Null THEN counted
    ELSE LET seen == cells.count > 0
             earlier == ~seen \/ clock < cells.firstAt
             later == ~seen \/ clock >= cells.lastAt
         IN  [counted EXCEPT
                !.count = @ + 1,
                !.sum = Summed(cells, cell),
                !.low = IF ~seen \/ cell < @ THEN cell ELSE @,
                !.high = IF ~seen \/ cell > @ THEN cell ELSE @,
                !.first = IF earlier THEN cell ELSE @,
                !.firstAt = IF earlier THEN clock ELSE @,
                !.last = IF later THEN cell ELSE @,
                !.lastAt = IF later THEN clock ELSE @]

\* GroupSink::close: what is left of a group is its key and its results.
Answer(group) ==
    [label |-> Decoded(group.code).label, bucket |-> group.code.bucket,
     star |-> group.cells.star, count |-> group.cells.count, sum |-> group.cells.sum,
     low |-> group.cells.low, high |-> group.cells.high,
     first |-> group.cells.first, last |-> group.cells.last]

Closed(groups) == [i \in DOMAIN groups |-> Answer(groups[i])]

EmptySink == [open |-> << >>, bucket |-> Null, closed |-> << >>]

\* A bucket left open.
NeverClosed(s, code) == [s EXCEPT !.bucket = code.bucket]

\* Leaving a bucket closes everything inside it.
AtBucket(s, code) ==
    IF ~Streaming \/ s.bucket = code.bucket THEN s
    ELSE [open |-> << >>, bucket |-> code.bucket, closed |-> s.closed \o Closed(s.open)]

WithGroup(s, code) ==
    IF \E i \in DOMAIN s.open : s.open[i].code = code THEN s
    ELSE [s EXCEPT !.open = Append(@, NewGroup(code))]

\* A row's group, opened if it is new, the bucket it leaves closed.
Placed(s, row) == WithGroup(AtBucket(s, Code(row, plan.by)), Code(row, plan.by))

GroupIn(s, row) ==
    CHOOSE i \in DOMAIN s.open : s.open[i].code = Code(row, plan.by)

Overflows(s, row) ==
    LET sum == Summed(s.open[GroupIn(s, row)].cells, row[plan.argument])
    IN  plan.argument = "n" /\ row.n # Null /\ sum \notin Numbers

\* HAVING keeps what is TRUE; a group's row is its predicate's row.
HavingKept(rows) ==
    IF plan.having = << >> THEN rows
    ELSE LET kept == Evaluate(plan.having, rows, DOMAIN rows)
         IN  [i \in 1..Cardinality(kept) |-> rows[SetToSortSeq(kept, <)[i]]]

----------------------------------------------------------------------------
\* Windows.

\* The partition a row falls in, as a set of row positions.
PartitionKey(row) ==
    CASE plan.partition = "none" -> Null
      [] plan.partition = "sym" -> row.sym
      [] plan.partition = "bucket" -> Buckets!BucketOf(row.ts, plan.by.width)

\* value_runs: the positions of one partition's rows, in scan order.
RunOf(rows, i) ==
    SelectSeq(Positions(rows), LAMBDA j : PartitionKey(rows[j]) = PartitionKey(rows[i]))

\* Frames that stop at the row itself.
RangeWithoutPeers(keys, span) ==
    [i \in DOMAIN keys |->
        <<Min({j \in DOMAIN keys : keys[j] >= Buckets!Saturated(keys[i] - span)}), i>>]

\* range_bounds: two pointers that only advance; the last peer closes a frame.
RangeBounds(keys, span) ==
    LET Advance(walk, i) ==
          LET floor == Buckets!Saturated(keys[i] - span)
              reached == Max({walk.end, i})
              start == Min({j \in walk.start..Len(keys) : keys[j] >= floor})
              end == Max({j \in reached..Len(keys) :
                             \A k \in reached + 1..j : keys[k] = keys[i]})
          IN  [start |-> start, end |-> end, bounds |-> Append(walk.bounds, <<start, end>>)]
    IN  FoldLeft(Advance, [start |-> 1, end |-> 0, bounds |-> << >>], Positions(keys)).bounds

\* window_bounds; no width starts at the run's first row.
RowBounds(length, width) ==
    [i \in 1..length |-> <<IF width = Null THEN 1 ELSE Max({1, i - width}), i>>]

\* lower_frame: RANGE from the start of the run is planned as ROWS.
Lowered(frame) ==
    IF frame.unit = "range" /\ frame.width = Null THEN [frame EXCEPT !.unit = "rows"] ELSE frame

FrameBounds(keys) ==
    LET frame == Lowered(plan.frame) IN
    CASE frame.unit = "rows" -> RowBounds(Len(keys), frame.width)
      [] frame.unit = "range" -> RangeBounds(keys, frame.width)
      [] frame.unit = "partition" -> [i \in DOMAIN keys |-> <<1, Len(keys)>>]

\* A window function is a function of its frame: the cell is the argument's
\* values in the frame, in order.  LAG and LEAD read one row.
WindowCell(rows, i) ==
    LET run == RunOf(rows, i)
        position == CHOOSE p \in DOMAIN run : run[p] = i
        keys == [p \in DOMAIN run |-> rows[run[p]].ts]
        bounds == FrameBounds(keys)[position]
        source == IF plan.frame.unit = "lead" THEN position + plan.frame.width
                  ELSE position - plan.frame.width
    IN  IF plan.frame.unit \in {"lag", "lead"}
        THEN IF source \in DOMAIN run THEN rows[run[source]].x ELSE Null
        ELSE [p \in 1..(bounds[2] - bounds[1] + 1) |-> rows[run[bounds[1] + p - 1]].x]

\* What a window refuses: rows out of order when it has an order, a NULL in
\* an aggregate's argument, a NULL label in its partition key.
WindowRefused(rows) ==
    \/ plan.frame.unit # "partition" /\ ~InOrder(views)
    \/ plan.frame.unit \notin {"lag", "lead"} /\ \E i \in DOMAIN rows : rows[i].x = Null
    \/ plan.partition = "sym" /\ \E i \in DOMAIN rows : rows[i].sym = Null

----------------------------------------------------------------------------
\* The sort.  An entry is a row's key cell and its position in the input,
\* which breaks every tie.

Sorted == plan.order # Null

Precedes(a, b) ==
    IF a.cell = b.cell THEN a.position < b.position
    ELSE IF Null \in {a.cell, b.cell} THEN (a.cell = Null) = plan.order.nullsFirst
    ELSE (a.cell < b.cell) # plan.order.descending

Swapped(entries, i, j) ==
    [entries EXCEPT ![i] = entries[j], ![j] = entries[i]]

\* The max-heap: the worst row kept at the root.
RECURSIVE SiftUp(_, _)
SiftUp(entries, i) ==
    LET parent == i \div 2 IN
    IF i = 1 \/ ~Precedes(entries[parent], entries[i]) THEN entries
    ELSE SiftUp(Swapped(entries, i, parent), parent)

\* The left child alone.
WorseLeft(entries, i) ==
    IF 2 * i <= Len(entries) /\ Precedes(entries[i], entries[2 * i]) THEN 2 * i ELSE i

\* The worst of an entry and its children.
Worst(entries, i) ==
    CHOOSE w \in {i, 2 * i, 2 * i + 1} \intersect DOMAIN entries :
        \A c \in {i, 2 * i, 2 * i + 1} \intersect DOMAIN entries :
            ~Precedes(entries[w], entries[c])

RECURSIVE SiftDown(_, _)
SiftDown(entries, i) ==
    LET worst == Worst(entries, i) IN
    IF worst = i THEN entries ELSE SiftDown(Swapped(entries, i, worst), worst)

\* The rows LIMIT alone asks for.
Limited == plan.limit

\* How many leading rows the query can use; Null: all of them.
Keep == IF plan.limit = Null THEN Null ELSE plan.limit + plan.offset

Entry(row, position) == [cell |-> row[plan.order.column], position |-> position]

Retained(entries, entry) ==
    IF Keep # Null /\ Len(entries) = Keep
    THEN IF Keep > 0 /\ Precedes(entry, entries[1])
         THEN SiftDown([entries EXCEPT ![1] = entry], 1)
         ELSE entries
    ELSE SiftUp(Append(entries, entry), Len(entries) + 1)

\* distinct_output: first occurrences; NaN equals itself and so does NULL.
FirstOccurrences(rows) ==
    LET first == {i \in DOMAIN rows : \A j \in 1..(i - 1) : rows[j] # rows[i]}
    IN  [i \in 1..Cardinality(first) |-> rows[SetToSortSeq(first, <)[i]]]

\* A column sorted by and not selected is carried hidden to the end.
Hidden ==
    plan.kind # "groups" /\ ~plan.distinct /\ Sorted /\ plan.order.column \notin plan.columns

Carried == IF Hidden THEN plan.columns \cup {plan.order.column} ELSE plan.columns

Shown(row) == IF Hidden THEN Project(row, DOMAIN row \ {plan.order.column}) ELSE row

----------------------------------------------------------------------------
\* The pipeline.

Init ==
    /\ \E family \in Cases : input \in family
    /\ phase = CASE plan.kind = "mutation" -> "match"
                 [] plan.kind \in {"text", "statement"} -> plan.kind
                 [] plan.join = "none" -> "scan"
                 [] OTHER -> "join"
    /\ handles = input.segments
    /\ views = << >>
    /\ sink = EmptySink
    /\ heap = << >>
    /\ at = 0
    /\ output = << >>

Dimension == LiveRows(input.dimension)

Refused == phase' = "refused" /\ UNCHANGED <<input, handles, views, sink, heap, at, output>>

RefuseJoin ==
    /\ phase = "join"
    /\ plan.join = "equi" /\ Duplicated(Dimension)
    /\ Refused

\* The handles whose rows are asked for next: what pruning leaves.
Due(i) ==
    CASE phase = "join" -> Filtered => CanMatch(plan.where, FactSchema, handles[i])
      [] phase = "scan" -> i = 1 /\ ~Skipped(handles[i])
      [] phase = "match" -> i = 1
      [] OTHER -> FALSE

\* SegmentHandle::view: a segment that is not resident is decoded from its
\* object.
Fault ==
    \E i \in DOMAIN handles :
        /\ ~handles[i].resident /\ Due(i)
        /\ handles' = [handles EXCEPT ![i].rows = DecodeSegment(EncodeSegment(handles[i])),
                                      ![i].resident = TRUE]
        /\ UNCHANGED <<input, phase, views, sink, heap, at, output>>

\* Fact segments are pruned before they are joined, on their own columns.
Join ==
    /\ phase = "join"
    /\ ~(plan.join = "equi" /\ Duplicated(Dimension))
    /\ LET kept == SelectSeq(handles, LAMBDA segment :
                       Filtered => CanMatch(plan.where, FactSchema, segment))
       IN  /\ \A i \in DOMAIN kept : kept[i].resident
           /\ handles' = [i \in DOMAIN kept |-> JoinedSegment(kept[i], Dimension)]
    /\ phase' = "scan"
    /\ UNCHANGED <<input, views, sink, heap, at, output>>

SkipSegment ==
    /\ phase = "scan" /\ handles # << >>
    /\ Skipped(Head(handles))
    /\ handles' = Tail(handles)
    /\ UNCHANGED <<input, phase, views, sink, heap, at, output>>

\* The segment is evaluated; a view no row survives in is dropped.
ScanSegment ==
    /\ phase = "scan" /\ handles # << >>
    /\ Head(handles).resident /\ ~Skipped(Head(handles))
    /\ handles' = Tail(handles)
    /\ LET view == View(Head(handles))
       IN  views' = IF view.rows = << >> THEN views ELSE Append(views, view)
    /\ UNCHANGED <<input, phase, sink, heap, at, output>>

Scanned(kind) == phase = "scan" /\ handles = << >> /\ plan.kind = kind

ProjectRows ==
    /\ Scanned("rows")
    /\ output' = [i \in DOMAIN Survivors |-> Project(Survivors[i], Carried)]
    /\ phase' = "output"
    /\ UNCHANGED <<input, handles, views, sink, heap, at>>

RefuseWindow ==
    /\ Scanned("frames")
    /\ WindowRefused(Survivors)
    /\ Refused

\* A window's column is "window" in the output.
ProjectWindow ==
    /\ Scanned("frames")
    /\ ~WindowRefused(Survivors)
    /\ output' = [i \in DOMAIN Survivors |->
                     [window |-> WindowCell(Survivors, i)] @@ Project(Survivors[i], Carried)]
    /\ phase' = "output"
    /\ UNCHANGED <<input, handles, views, sink, heap, at>>

\* Without keys there is one group, even over no rows.
BeginGroups ==
    /\ Scanned("groups")
    /\ sink' = IF plan.by.label \/ Bucketed(plan.by) THEN EmptySink
               ELSE [EmptySink EXCEPT !.open = <<NewGroup([label |-> Null, bucket |-> Null])>>]
    /\ phase' = "group"
    /\ UNCHANGED <<input, handles, views, heap, at, output>>

NextRow == Walk[at + 1].row

GroupRow ==
    /\ phase = "group" /\ at < Len(Walk)
    /\ LET placed == Placed(sink, NextRow) IN
       /\ ~Overflows(placed, NextRow)
       /\ sink' = [placed EXCEPT !.open[GroupIn(placed, NextRow)].cells =
                      Updated(@, NextRow[plan.argument], NextRow.ts)]
    /\ at' = at + 1
    /\ UNCHANGED <<input, phase, handles, views, heap, output>>

RefuseSum ==
    /\ phase = "group" /\ at < Len(Walk)
    /\ Overflows(Placed(sink, NextRow), NextRow)
    /\ Refused

CloseGroups ==
    /\ phase = "group" /\ at = Len(Walk)
    /\ sink' = [sink EXCEPT !.open = << >>, !.closed = @ \o Closed(sink.open)]
    /\ output' = HavingKept(sink'.closed)
    /\ at' = 0
    /\ phase' = "output"
    /\ UNCHANGED <<input, handles, views, heap>>

Distinct ==
    /\ phase = "output" /\ plan.distinct
    /\ output' = FirstOccurrences(output)
    /\ phase' = "distinct"
    /\ UNCHANGED <<input, handles, views, sink, heap, at>>

Projected == phase = "distinct" \/ (phase = "output" /\ ~plan.distinct)

SortRow ==
    /\ Projected /\ Sorted /\ at < Len(output)
    /\ heap' = Retained(heap, Entry(output[at + 1], at + 1))
    /\ at' = at + 1
    /\ UNCHANGED <<input, phase, handles, views, sink, output>>

FinishSort ==
    /\ Projected /\ Sorted /\ at = Len(output)
    /\ LET entries == SortSeq(heap, Precedes)
       IN  output' = [i \in DOMAIN entries |-> output[entries[i].position]]
    /\ heap' = << >>
    /\ phase' = "sorted"
    /\ UNCHANGED <<input, handles, views, sink, at>>

\* OFFSET and LIMIT, then the hidden column goes.
Finish ==
    /\ phase = "sorted" \/ (Projected /\ ~Sorted)
    /\ LET end == IF plan.limit = Null THEN Len(output)
                  ELSE Min({Len(output), plan.offset + plan.limit})
           kept == SubSeq(output, plan.offset + 1, end)
       IN  output' = [i \in DOMAIN kept |-> Shown(kept[i])]
    /\ phase' = "done"
    /\ UNCHANGED <<input, handles, views, sink, heap, at>>

Ended ==
    /\ phase \in {"lifted", "split", "done", "refused", "matched", "answered", "unanswerable",
                  "unplanned", "evaluated", "unresolved"}
    /\ UNCHANGED vars

Next ==
    \/ RefuseJoin \/ Join \/ Fault \/ SkipSegment \/ ScanSegment
    \/ ProjectRows \/ RefuseWindow \/ ProjectWindow
    \/ BeginGroups \/ GroupRow \/ RefuseSum \/ CloseGroups
    \/ Distinct \/ SortRow \/ FinishSort \/ Finish
    \/ Ended

Spec == Init /\ [][Next]_vars

----------------------------------------------------------------------------
\* What SQL means, row by row, whatever the segments, zone maps, streams and
\* heaps do.

\* Kleene's logic for one row; Null is UNKNOWN.
Kleene(predicate, row) ==
    LET LeafValue(node) ==
          IF node.op = "null" THEN (row[node.column] = Null) # node.negated
          ELSE IF row[node.column] = Null \/ (node.op = "columns" /\ row[node.other] = Null)
               THEN Null
          ELSE CASE node.op = "in" -> (row[node.column] \in node.values) # node.negated
                 [] node.op = "compare" -> Holds(node.cmp, row[node.column], node.value)
                 [] node.op = "columns" -> Holds(node.cmp, row[node.column], row[node.other])
        \* x decides the connective; else NULL does
        Decide(x, sides) == IF x \in sides THEN x ELSE IF Null \in sides THEN Null ELSE ~x
        Value[i \in DOMAIN predicate] ==
          LET node == predicate[i] IN
          CASE node.op = "and" -> Decide(FALSE, {Value[node.left], Value[node.right]})
            [] node.op = "or" -> Decide(TRUE, {Value[node.left], Value[node.right]})
            [] node.op = "not" -> IF Value[node.left] = Null THEN Null ELSE ~Value[node.left]
            [] OTHER -> LeafValue(node)
    IN  Value[Len(predicate)] = TRUE

\* The dimension rows a fact row may be matched with, and the latest of them.
Reached(fact) ==
    {p \in ToSet(Dimension) :
        /\ p.sym = fact.sym /\ p.sym # Null
        /\ plan.join = "asof" => p.ts <= fact.ts
        /\ plan.join = "before" => p.ts < fact.ts}

Latest(dimension) ==
    {p \in dimension : \A q \in dimension : q.ts < p.ts \/ (q.ts = p.ts /\ q.seq <= p.seq)}

Wide(fact) ==
    IF plan.join = "none" THEN fact ELSE Widened(fact, Latest(Reached(fact)))

\* The rows of the answer before projection, from segments not yet joined.
Matching(rows) ==
    LET joined == SelectSeq(rows, LAMBDA row :
                     plan.join = "none" \/ plan.left \/ Reached(row) # {})
        wide == [i \in DOMAIN joined |-> Wide(joined[i])]
    IN  SelectSeq(wide, LAMBDA row : Filtered => Kleene(plan.where, row))

Expected == Matching(LiveRows(input.segments))

\* A group: the bucket and the label its rows share.
KeyOf(row, by) ==
    [label |-> IF by.label THEN row.sym ELSE Null,
     bucket |-> IF ~Bucketed(by) THEN Null
                ELSE Buckets!BucketOf(row.ts, by.width) * (IF by.multiply THEN by.width ELSE 1)]

\* A group's answer from the set of its rows' positions.
Aggregate(rows, by, key) ==
    LET members == {i \in DOMAIN rows : KeyOf(rows[i], by) = key}
        cell(i) == rows[i][plan.argument]
        valid == {i \in members : cell(i) # Null}
        earliest == {i \in valid : \A j \in valid : rows[i].ts <= rows[j].ts}
        latest == {i \in valid : \A j \in valid : rows[i].ts >= rows[j].ts}
    IN  [label |-> key.label, bucket |-> key.bucket,
         star |-> Cardinality(members), count |-> Cardinality(valid),
         sum |-> IF plan.argument # "n" \/ valid = {} THEN Null
                 ELSE FoldSet(LAMBDA i, total : total + cell(i), 0, valid),
         low |-> IF valid = {} THEN Null ELSE Min({cell(i) : i \in valid}),
         high |-> IF valid = {} THEN Null ELSE Max({cell(i) : i \in valid}),
         first |-> IF valid = {} THEN Null ELSE cell(Min(earliest)),
         last |-> IF valid = {} THEN Null ELSE cell(Max(latest))]

\* Groups in the order they are first seen.
Groups(rows, by) ==
    LET keys == FirstOccurrences([i \in DOMAIN rows |-> KeyOf(rows[i], by)])
        all == IF by.label \/ Bucketed(by) THEN keys
               ELSE <<[label |-> Null, bucket |-> Null]>>
    IN  [k \in DOMAIN all |-> Aggregate(rows, by, all[k])]

\* The rows a window's frame covers, seen from row i.
FrameRows(rows, i) ==
    LET run == {j \in DOMAIN rows : PartitionKey(rows[j]) = PartitionKey(rows[i])}
        Back(j) == Cardinality({k \in run : j <= k /\ k < i})
        frame == plan.frame
    IN  CASE frame.unit = "partition" -> run
          [] frame.unit = "rows" -> {j \in run : j <= i /\ (frame.width # Null => Back(j) <= frame.width)}
          [] frame.unit = "range" ->
               {j \in run : rows[j].ts <= rows[i].ts
                           /\ (frame.width # Null => rows[j].ts >= rows[i].ts - frame.width)}

Windowed(rows, i) ==
    LET run == {j \in DOMAIN rows : PartitionKey(rows[j]) = PartitionKey(rows[i])}
        lag == {j \in run : j < i /\ Cardinality({k \in run : j <= k /\ k < i}) = plan.frame.width}
        lead == {j \in run : i < j /\ Cardinality({k \in run : i < k /\ k <= j}) = plan.frame.width}
        read == IF plan.frame.unit = "lag" THEN lag ELSE lead
    IN  IF plan.frame.unit \in {"lag", "lead"}
        THEN IF read = {} THEN Null ELSE rows[Min(read)].x
        ELSE LET frame == SetToSortSeq(FrameRows(rows, i), <)
             IN  [p \in DOMAIN frame |-> rows[frame[p]].x]

\* Projection, HAVING and DISTINCT.
Shaped ==
    LET rows == Expected
        groups == Groups(rows, plan.by)
        shaped == CASE plan.kind = "rows" -> rows
                    [] plan.kind = "frames" ->
                         [i \in DOMAIN rows |-> [window |-> Windowed(rows, i)] @@ rows[i]]
                    [] plan.kind = "groups" ->
                         SelectSeq(groups, LAMBDA row :
                             plan.having # << >> => Kleene(plan.having, row))
    IN  IF ~plan.distinct THEN shaped
        ELSE FirstOccurrences([i \in DOMAIN shaped |->
                 IF plan.kind = "groups" THEN shaped[i] ELSE Project(shaped[i], plan.columns)])

\* The rows sorted stably: the k-th is the one k - 1 others come before.
InOrderOf(rows) ==
    LET entries == [i \in DOMAIN rows |-> Entry(rows[i], i)]
        Rank(i) == Cardinality({j \in DOMAIN rows : Precedes(entries[j], entries[i])})
    IN  IF ~Sorted THEN rows
        ELSE [k \in DOMAIN rows |-> rows[CHOOSE i \in DOMAIN rows : Rank(i) = k - 1]]

Visible(row) ==
    CASE plan.kind = "groups" -> row
      [] plan.kind = "rows" -> Project(row, plan.columns)
      [] plan.kind = "frames" -> Project(row, plan.columns \cup {"window"})

\* The answer the query asks for.
Asked ==
    LET rows == InOrderOf(Shaped)
        last == IF plan.limit = Null THEN Len(rows) ELSE Min({Len(rows), plan.offset + plan.limit})
        kept == SubSeq(rows, plan.offset + 1, last)
    IN  [i \in DOMAIN kept |-> Visible(kept[i])]

----------------------------------------------------------------------------
\* Properties.

\* Types; and a streamed aggregation holds the groups of one bucket only.
TypeOK ==
    /\ phase \in {"join", "scan", "group", "output", "distinct", "sorted", "done", "refused",
                  "match", "matched", "answered", "unanswerable"}
    /\ at \in Nat
    /\ \A i \in DOMAIN views : views[i].rows # << >>
    /\ phase = "group" /\ Streaming =>
          \A i \in DOMAIN sink.open : sink.open[i].code.bucket = sink.bucket
    /\ Keep # Null => Len(heap) <= Keep

\* A joined row carries what its symbol's latest reachable dimension row had,
\* by clock and then by birth, and nothing when there is none: neither the
\* order the dimension is stored in nor what else a segment holds matters.
JoinPicksLatest ==
    phase = "scan" /\ plan.join # "none" =>
        \A i \in DOMAIN handles : \A r \in DOMAIN handles[i].rows :
            LET row == handles[i].rows[r] IN
            row.d = Widened(row, Latest(Reached(row))).d

\* Pruning is invisible: the rows the views hold, and those the remaining
\* segments would yield, are the rows of the snapshot the predicate is TRUE
\* for, a segment at a time and in order.
ScanKeepsMatches ==
    phase \in {"scan", "group", "output", "distinct", "sorted", "done"} =>
        LET rest == LiveRows(handles)
        IN  Survivors \o SelectSeq(rest, LAMBDA row : Filtered => Kleene(plan.where, row)) = Expected

\* After any number of rows, the groups closed and the groups open are the
\* groups of those rows, in the order they were first seen: no bucket is
\* closed while a row of it is still to come.  SUM refuses only what does not
\* fit, some prefix of a group's values leaving 64 bits.
GroupsExact ==
    /\ phase = "group" =>
          LET taken == SubSeq(Survivors, 1, at)
          IN  sink.closed \o Closed(sink.open) = Groups(taken, plan.by)
    /\ phase = "refused" /\ plan.kind = "groups" /\ plan.join = "none" =>
          \E group \in ToSet(Groups(SubSeq(Survivors, 1, at + 1), plan.by)) :
              group.sum \notin Numbers \cup {Null}

\* A window function sees exactly the rows of its frame: of its partition
\* only, whatever segments it spans, the RANGE frame with every peer of the
\* current row and a span that may reach below the smallest key.
FramesExact ==
    phase = "output" /\ plan.kind = "frames" =>
        \A i \in DOMAIN output : output[i].window = Windowed(Survivors, i)

\* At every row the heap holds the best of the rows seen so far, as many as
\* the query can use, with the worst of them at the root.
BestRowsKept ==
    heap # << >> =>
        LET entries == {Entry(output[i], i) : i \in 1..at}
            better(e) == Cardinality({f \in entries : Precedes(f, e)})
        IN  /\ ToSet(heap) = {e \in entries : Keep = Null \/ better(e) < Keep}
            /\ \A e \in ToSet(heap) : ~Precedes(heap[1], e)

\* The answer is the one the query asks for, whichever path computed it.
AnswerExact == phase = "done" => output = Asked

\* A stored column cut short anywhere, or with an element of zero bits behind
\* it, is refused when it is decoded to the segment's number of rows, however
\* the column was encoded. Elements changed in place are not what this is about:
\* a codec has no way to see those.
DamageRefused ==
    phase = "scan" /\ handles # << >> /\ ~Head(handles).resident =>
        LET object == EncodeSegment(Head(handles))
            Refuses(codec, bytes) == ~DecodeValues(codec, bytes, object.count).ok
        IN  \A stream \in Streams(object) :
                /\ \A length \in 0..(Len(stream[2]) - 1) :
                      Refuses(stream[1], SubSeq(stream[2], 1, length))
                /\ Refuses(stream[1], Append(stream[2], 0))
=============================================================================
