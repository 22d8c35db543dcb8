---------------------------- MODULE PartialReads ----------------------------
(***************************************************************************)
(* The reads of running and cumulative views (view.rs, partials.rs).  Such *)
(* a view keeps no answers but partial aggregates, one row for every       *)
(* hidden bucket of the ordering key and label; the answer is put together *)
(* at read.  plan is first the partials' own query, whose output stands    *)
(* for the union of the materialization with what is folded live; plan.read*)
(* says what is read, "running" or "cumulative", and plan.floor is the     *)
(* lower bound a cumulative read's WHERE puts on the ordering key.         *)
(***************************************************************************)
EXTENDS QueryExecution

PartialColumns == {"star", "count", "sum", "low", "high", "first", "last"}

\* partials_union: the clean buckets as they are stored, the fresh behind.
Union(rows, fresh) ==
    SelectSeq(rows, LAMBDA row : row.bucket \notin fresh)
        \o SelectSeq(rows, LAMBDA row : row.bucket \in fresh)

\* The cells of one partial column that are not NULL.
Cells(rows, column) ==
    SelectSeq([i \in DOMAIN rows |-> rows[i][column]], LAMBDA cell : cell # Null)

\* mutant: the first stored
FirstStored(rows, column) == Cells(rows, column)[1]

\* FIRST and LAST over the partials, whose clock is the hidden bucket.
FirstByBucket(rows, column) ==
    LET held == {i \in DOMAIN rows : rows[i][column] # Null}
    IN  rows[CHOOSE i \in held : \A j \in held : rows[i].bucket <= rows[j].bucket][column]

LastByBucket(rows, column) ==
    LET held == {i \in DOMAIN rows : rows[i][column] # Null}
    IN  rows[CHOOSE i \in held : \A j \in held : rows[i].bucket >= rows[j].bucket][column]

\* decompose's combines: counts add, and so do sums; COUNT of nothing is 0.
Recombined(rows, column) ==
    LET cells == Cells(rows, column)
    IN  CASE column \in {"star", "count"} -> SumOf(cells)
          [] cells = << >> -> Null
          [] column = "sum" -> SumOf(cells)
          [] column = "low" -> Min(ToSet(cells))
          [] column = "high" -> Max(ToSet(cells))
          [] column = "first" -> FirstByBucket(rows, column)
          [] column = "last" -> LastByBucket(rows, column)

\* The combine: partials grouped by the label alone; one group without keys.
Combined(rows) ==
    LET labels == IF plan.by.label THEN FirstOccurrences([i \in DOMAIN rows |-> rows[i].label])
                  ELSE <<Null>>
    IN  [l \in DOMAIN labels |->
            LET own == SelectSeq(rows, LAMBDA row : row.label = labels[l])
            IN  [column \in PartialColumns \cup {"label"} |->
                    IF column = "label" THEN labels[l] ELSE Recombined(own, column)]]

\* The combine's SUM is checked at every partial.
CombineOverflows(rows) ==
    \E n \in DOMAIN rows :
        LET own == SelectSeq(SubSeq(rows, 1, n), LAMBDA row : row.label = rows[n].label)
        IN  plan.argument = "n" /\ SumOf(Cells(own, "sum")) \notin Numbers

BucketsOf(rows) == {rows[i].bucket : i \in DOMAIN rows}

PartialsRead(read) == phase = "done" /\ plan.read = read

\* query_running.
CombineRunning ==
    /\ PartialsRead("running")
    /\ \E fresh \in SUBSET BucketsOf(output) :
          LET rows == Union(output, fresh) IN
          /\ ~CombineOverflows(rows)
          /\ output' = Combined(rows)
    /\ phase' = "answered"
    /\ UNCHANGED <<input, handles, views, sink, heap, at>>

RefuseCombine ==
    /\ PartialsRead("running")
    /\ \E fresh \in SUBSET BucketsOf(output) : CombineOverflows(Union(output, fresh))
    /\ phase' = "unanswerable"
    /\ UNCHANGED <<input, handles, views, sink, heap, at, output>>

\* The bucket a cumulative read is split at.
BoundaryBucket == Buckets!BucketOf(plan.floor, plan.by.width)

\* The partials strictly below it.
BelowBoundary(rows) == SelectSeq(rows, LAMBDA row : row.bucket < BoundaryBucket)

\* The definition's expanding windows over the rows from the bucket's low
\* edge up, its own WHERE kept.
AssemblyPlan ==
    LET edge == [op |-> "compare", column |-> "ts", cmp |-> ">=", widened |-> FALSE,
                 value |-> Buckets!BucketLow(BoundaryBucket, plan.by.width)]
    IN  [plan EXCEPT
            !.kind = "frames", !.read = "assembly", !.columns = {"ts", "sym"},
            !.frame = [unit |-> "rows", width |-> Null],
            !.partition = IF plan.by.label THEN "sym" ELSE "none",
            !.where = IF Filtered
                      THEN plan.where \o <<edge, [op |-> "and", left |-> Len(plan.where) + 1,
                                                  right |-> Len(plan.where)]>>
                      ELSE <<edge>>]

\* query_cumulative: the boundary is combined, then the assembly is run.
BeginAssembly ==
    /\ PartialsRead("cumulative")
    /\ sink' = [sink EXCEPT !.closed = Combined(BelowBoundary(output))]
    /\ input' = [input EXCEPT !.plan = AssemblyPlan]
    /\ handles' = input.segments
    /\ views' = << >>
    /\ output' = << >>
    /\ phase' = "scan"
    /\ UNCHANGED <<heap, at>>

\* What an expanding COUNT, MIN and MAX make of their frame.
Expanded(values) ==
    [count |-> Len(values), low |-> Min(ToSet(values)), high |-> Max(ToSet(values))]

\* folded: a side that is missing leaves the other.
Adjusted(window, boundary) ==
    LET low == {boundary.low, window.low} \ {Null}
        high == {boundary.high, window.high} \ {Null}
    IN  [count |-> boundary.count + window.count, low |-> Min(low), high |-> Max(high)]

\* adjust_batches; a partition with nothing below the boundary keeps its own.
\* Then the read's own WHERE.
Adjust ==
    /\ PartialsRead("assembly")
    /\ LET key(row) == IF plan.by.label THEN row.sym ELSE Null
           boundary(row) == SelectSeq(sink.closed, LAMBDA b : b.label = key(row))
           window(row) == Expanded(row.window)
           rows == [i \in DOMAIN output |->
                       [output[i] EXCEPT !.window =
                           IF boundary(output[i]) = << >> THEN window(output[i])
                           ELSE Adjusted(window(output[i]), boundary(output[i])[1])]]
       IN  output' = SelectSeq(rows, LAMBDA row : row.ts >= plan.floor)
    /\ phase' = "answered"
    /\ UNCHANGED <<input, handles, views, sink, heap, at>>

PartialNext == CombineRunning \/ RefuseCombine \/ BeginAssembly \/ Adjust

----------------------------------------------------------------------------
\* The whole-table answers, from the snapshot's rows themselves.
RunningAsked ==
    LET groups == Groups(Expected, [plan.by EXCEPT !.width = 0])
    IN  {[column \in PartialColumns \cup {"label"} |-> groups[g][column]] : g \in DOMAIN groups}

\* plan.where still ends in the low edge; definition is what stands before it.
Definition ==
    IF Len(plan.where) = 1 THEN << >> ELSE SubSeq(plan.where, 1, Len(plan.where) - 2)

WholeRows ==
    SelectSeq(LiveRows(input.segments), LAMBDA row : Definition # << >> => Kleene(Definition, row))

CumulativeAsked ==
    LET Seen(i) == {j \in 1..i : WholeRows[j].x # Null
                                 /\ (plan.by.label => WholeRows[j].sym = WholeRows[i].sym)}
        Cell(i) == LET values == {WholeRows[j].x : j \in Seen(i)} IN
                   [count |-> Cardinality(Seen(i)), low |-> Min(values), high |-> Max(values)]
        asked == SelectSeq(Positions(WholeRows), LAMBDA i : WholeRows[i].ts >= plan.floor)
    IN  [k \in DOMAIN asked |->
            [window |-> Cell(asked[k])] @@ Project(WholeRows[asked[k]], plan.columns)]

\* A running or cumulative read from partial aggregates is the answer the
\* definition gives over the whole table, whichever buckets are folded live
\* and wherever the floor falls, as long as the table is in order; a running
\* read is refused only if some of its buckets' sums leave 64 bits.
PartialReadsExact ==
    /\ phase = "answered" /\ plan.read = "running" => ToSet(output) = RunningAsked
    /\ phase = "answered" /\ plan.read = "assembly" /\ Ordered(WholeRows) => output = CumulativeAsked
    /\ phase = "unanswerable" =>
          \E some \in SUBSET {i \in DOMAIN output : output[i].sum # Null} :
              /\ Cardinality({output[i].label : i \in some}) = 1
              /\ FoldSet(LAMBDA i, total : total + output[i].sum, 0, some) \notin Numbers
=============================================================================
