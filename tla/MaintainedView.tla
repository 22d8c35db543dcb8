--------------------------- MODULE MaintainedView ---------------------------
(***************************************************************************)
(* A persistent maintained view over one source table, or over a fact      *)
(* table and a dimension (MaterializedView): its materialization table,    *)
(* its definition record (stamps, hidden width, ceiling), the refresh that *)
(* keeps them up with the sources, and the union read that answers exactly *)
(* however stale they are.  A crash falls between any two of the refresh's *)
(* writes, a write can fail, and a read-only console of another process    *)
(* opens sources, record and materialization at different instants.  The   *)
(* record is renamed and not synced, so that a crash of the machine may    *)
(* bring an earlier one back.                                              *)
(*                                                                         *)
(* A source is its history of ingest events, one coordinate each: an       *)
(* append, a delete or an update.  An aggregate is a function of the rows  *)
(* it folds, so a materialized row is its bucket with those rows, each     *)
(* with the dimension row it matches.                                      *)
(***************************************************************************)
EXTENDS ViewBuckets, FiniteSetsExt, SequencesExt

CONSTANTS
    Shapes,        \* the definitions: [kind, divide]
    Target,        \* TARGET_BUCKETS
    FactKeys, DimensionKeys,  \* the ordering keys rows arrive with
    Symbols,       \* the join keys
    Null,          \* a key column's NULL
    ReaderKinds,   \* the kinds a read-only console opens as well
    Faults,        \* which failures happen, of FaultKinds
    MaxFact, MaxDimension, MaxEvents, MaxRefreshes, MaxFailures   \* bounds; MaxFact and MaxEvents of each kind

FaultKinds == {"crash", "advance", "replace", "width", "lowering", "lost"}
Kinds == {"bucketed", "running", "asof", "before", "star"}

ASSUME KeysAssumption == FactKeys \union DimensionKeys \subseteq OrderingKeys
ASSUME FaultsAssumption == Faults \subseteq FaultKinds
ASSUME ShapesAssumption == \A s \in Shapes : s.kind \in Kinds /\ s.divide \in 1..MaxKey
ASSUME TargetAssumption == Target \in Nat \ {0}

VARIABLES
    shape,           \* the definition
    fact, dimension, \* the sources' events in memory
    saved,           \* how many of them a flush made durable
    mark,            \* stamp, width and JoinState in memory
    record,          \* the definition record on disk
    older,           \* earlier records, one of which a loss of power may bring back
    table,           \* the materialization in memory
    kept,            \* the materialization a reopen would find
    flushed,         \* the materialization a read-only open would find
    pc, todo,        \* the refresh in progress
    refreshes, failures, \* counters of the bounds
    console          \* the read-only console

sources == <<fact, dimension, saved>>
view == <<mark, record, older, table, kept, flushed, pc, todo>>
vars == <<shape, sources, view, refreshes, failures, console>>

----------------------------------------------------------------------------
\* Sources.

NoEvent == [key |-> Null, symbol |-> Null, kills |-> 0, life |-> 0]

Rows(h) == {i \in DOMAIN h : h[i].key # Null}
Killed(h) == {h[i].kills : i \in DOMAIN h}
LiveRows(h) == {[key |-> h[i].key, symbol |-> h[i].symbol, at |-> i, life |-> h[i].life] :
                  i \in Rows(h) \ Killed(h)}

\* touched_walk: the rows born or killed at a coordinate the stamp does not
\* cover.  Event i has coordinate i - 1.
Touched(h, since) ==
    {h[i] : i \in {j \in Rows(h) : j > since}}
        \union {h[h[i].kills] : i \in {j \in DOMAIN h : j > since /\ h[j].kills \in Rows(h)}}

----------------------------------------------------------------------------
\* The definition: what each fact row matches, and the fold by buckets.

Joined == shape.kind \in {"asof", "before", "star"}
AsOfJoin == shape.kind \in {"asof", "before"}
Hidden == shape.kind = "running"

\* The hidden width of an unsized view is the placeholder 1.
Divide(m) == IF Hidden THEN Max({m.width, 1}) ELSE shape.divide

\* The latest row at or before (or strictly before) the fact, ties by birth.
Candidates(f, dims) ==
    {d \in dims : /\ d.symbol = f.symbol /\ d.symbol # Null
                  /\ \/ shape.kind = "asof" /\ d.key <= f.key
                     \/ shape.kind = "before" /\ d.key < f.key
                     \/ shape.kind = "star"}

MatchOf(f, dims) ==
    {d \in Candidates(f, dims) : \A e \in Candidates(f, dims) :
        e.key < d.key \/ (e.key = d.key /\ e.at <= d.at)}

\* The definition restricted to some keys: one output row per bucket.
Fold(facts, dims, keys, divide) ==
    LET chosen == {f \in facts : f.key \in keys} IN
    {[bucket |-> b,
      rows |-> {<<f, MatchOf(f, dims)>> : f \in {g \in chosen : BucketOf(g.key, divide) = b}}] :
        b \in {BucketOf(f.key, divide) : f \in chosen}}

\* The equi join refuses a dimension whose key is not unique.
Refused(dims) ==
    shape.kind = "star" /\ \E d, e \in dims : d # e /\ d.symbol = e.symbol /\ d.symbol # Null

----------------------------------------------------------------------------
\* The dirty set.

\* The symbol's next reference key strictly after a touched one, if any.
NextKey(d, dims) ==
    LET later == {e.key : e \in {c \in dims : c.symbol = d.symbol /\ c.key > d.key}}
    IN  IF later = {} THEN {} ELSE {Min(later)}

\* mutant: the interval stops short of the next row under strict matching too
IntervalToNext(d, dims) ==
    LET next == NextKey(d, dims)
    IN  IF next = {} THEN <<d.key, MaxKey>> ELSE <<d.key, Max(next) - 1>>

\* The facts a reference row born or killed at d can reach.
Interval(d, dims) ==
    LET next == NextKey(d, dims)
    IN  IF next = {} THEN <<d.key, MaxKey>>
        ELSE <<d.key, IF shape.kind = "before" THEN Max(next) ELSE Max(next) - 1>>

Everything == {<<MinKey, MaxKey>>}

\* joined_touched_ranges, and touched_runs for a single source: the key
\* ranges to fold again.
Dirty(f, d, m) ==
    LET keys == {<<r.key, r.key>> : r \in Touched(f, m.stamp)}
        reference == Touched(d, m.dimensionStamp)
    IN  CASE AsOfJoin -> keys \union
                {Interval(r, LiveRows(d)) : r \in {q \in reference : q.symbol # Null}}
          [] shape.kind = "star" -> IF reference # {} THEN Everything ELSE keys
          [] OTHER -> keys

Runs(ranges, divide) ==
    IF divide = 1 THEN MergedRanges(ranges) ELSE BucketRuns(ranges, divide)

----------------------------------------------------------------------------
\* The union read.

\* What is folded live: the dirty ranges, and a join's tail.
LiveRanges(f, d, m) ==
    Dirty(f, d, m) \union (IF Joined THEN {<<m.ceiling, MaxKey>>} ELSE {})

\* query_union, query_joined, partials_union: the clean rows of the
\* materialization with a live fold of the rest; an unsized view recomputes.
UnionRead(f, d, m, rows) ==
    LET runs == Runs(LiveRanges(f, d, m), Divide(m))
        fresh == Fold(LiveRows(f), LiveRows(d), KeysOf(runs, Divide(m)), Divide(m))
        clean == {r \in rows : r.bucket \notin Covered(runs)}
    IN  IF Hidden /\ m.width = 0
        THEN Fold(LiveRows(f), LiveRows(d), OrderingKeys, Divide(m))
        ELSE clean \union fresh

\* query_cumulative above a lower bound: the partials below the bound's
\* bucket, and the source's rows from that bucket's low edge.
BoundaryRows(union, floor, divide) ==
    {r \in union : r.bucket < BucketOf(floor, divide)}
AssembledRows(f, floor, divide) ==
    {r \in LiveRows(f) : r.key >= BucketLow(BucketOf(floor, divide), divide)}

----------------------------------------------------------------------------
\* Creation.

Fresh == [stamp |-> 0, width |-> 0, dimensionStamp |-> 0, ceiling |-> MinKey]

Idle == [fold |-> {}, runs |-> {}, all |-> FALSE, mark |-> Fresh]

Closed == [at |-> "closed", fact |-> <<>>, dimension |-> <<>>, mark |-> Fresh, table |-> {}]

\* MaterializedView::persistent over empty sources.
Init ==
    /\ shape \in Shapes
    /\ fact = <<>> /\ dimension = <<>>
    /\ saved = [fact |-> 0, dimension |-> 0]
    /\ mark = Fresh /\ record = Fresh /\ older = {}
    /\ table = {} /\ kept = {} /\ flushed = {}
    /\ pc = "idle" /\ todo = Idle
    /\ refreshes = 0 /\ failures = 0
    /\ console = Closed

----------------------------------------------------------------------------
\* What the application writes: one event of either source.

Events(h, keys, symbols) ==
    LET live == Rows(h) \ Killed(h) IN
    {[key |-> k, symbol |-> s, kills |-> v, life |-> failures] :
        k \in keys, s \in symbols, v \in live \union {0}}
      \union {[NoEvent EXCEPT !.kills = v] : v \in live}

WriteFact ==
    /\ pc = "idle"
    /\ Len(fact) < MaxFact[shape.kind] /\ Len(fact) + Len(dimension) < MaxEvents[shape.kind]
    /\ \E event \in Events(fact, FactKeys, IF Joined THEN Symbols ELSE {Null}) :
          fact' = Append(fact, event)
    /\ UNCHANGED <<shape, dimension, saved, view, refreshes, failures, console>>

WriteDimension ==
    /\ pc = "idle"
    /\ Joined
    /\ Len(dimension) < MaxDimension /\ Len(fact) + Len(dimension) < MaxEvents[shape.kind]
    /\ \E event \in Events(dimension, DimensionKeys, Symbols) :
          dimension' = Append(dimension, event)
    /\ UNCHANGED <<shape, fact, saved, view, refreshes, failures, console>>

----------------------------------------------------------------------------
\* The refresh.

Failing(fault) ==
    /\ fault \in Faults
    /\ failures < MaxFailures
    /\ failures' = failures + 1

Flushed == [fact |-> Len(fact), dimension |-> Len(dimension)]

Now(m) == [m EXCEPT !.stamp = Len(fact), !.dimensionStamp = Len(dimension)]

\* A width rounded down, 0 for a span below the target.
WidthRoundedDown(live) ==
    LET keys == {r.key : r \in live} IN (Max(keys) - Min(keys) + 1) \div Target

\* The width is chosen once, from the span of the source's keys.
Width(live) ==
    LET keys == {r.key : r \in live}
        span == Max(keys) - Min(keys) + 1
    IN  (span + Target - 1) \div Target

\* The low edge of the frontier's bucket; a star view parks it at the top.
Ceiling(dims) ==
    IF AsOfJoin
    THEN BucketLow(BucketOf(Max({d.key : d \in dims}), shape.divide), shape.divide)
    ELSE MaxKey

\* The rows between the old and the new ceiling leave whichever way it moves.
Victims(ranges, old, new) ==
    ranges \union (IF old < new THEN {<<old, new - 1>>} ELSE {})
           \union (IF new < old THEN {<<new, old - 1>>} ELSE {})

\* Runs to fold, runs to take out (or all rows), and where that leads.
Plan(ranges, victims, all, m) ==
    [fold |-> Fold(LiveRows(fact), LiveRows(dimension),
                   KeysOf(Runs(ranges, Divide(m)), Divide(m)), Divide(m)),
     runs |-> Runs(victims, Divide(m)), all |-> all, mark |-> m]

\* refresh for one source.
PlanSingle(m) ==
    LET dirty == Dirty(fact, dimension, m) IN Plan(dirty, dirty, FALSE, Now(m))

\* refresh_joined.
PlanAsOf ==
    LET dims == LiveRows(dimension)
        new == Ceiling(dims)
        below == {<<r[1], Min({r[2], new - 1})>> :
                     r \in {q \in Dirty(fact, dimension, mark) : q[1] < new}}
        rising == IF mark.ceiling < new THEN {<<mark.ceiling, new - 1>>} ELSE {}
    IN  IF dims = {}
        THEN Plan({}, {}, mark.ceiling > MinKey, [Now(mark) EXCEPT !.ceiling = MinKey])
        ELSE Plan(below \union rising, Victims(below, mark.ceiling, new), FALSE,
                  [Now(mark) EXCEPT !.ceiling = new])

\* refresh_star.
PlanStar ==
    LET dirty == Dirty(fact, dimension, mark)
        whole == mark.ceiling < MaxKey \/ dirty = Everything
        now == [Now(mark) EXCEPT !.ceiling = MaxKey]
    IN  IF whole THEN Plan(Everything, {}, TRUE, now) ELSE Plan(dirty, dirty, FALSE, now)

\* A refresh that leaves what the source has buffered buffered.
UnsavedRefresh == saved

\* Both sources are flushed before anything is stamped.
SavedByRefresh == Flushed

Refreshing(plan) ==
    /\ todo' = plan
    /\ pc' = IF plan.fold = {} /\ plan.runs = {} /\ ~plan.all THEN "flush" ELSE "replace"

Unsized == Hidden /\ mark.width = 0
Sized == [mark EXCEPT !.width = Width(LiveRows(fact))]

\* What every refresh starts with; the equi join's fold refuses a dimension
\* whose key is not unique.
Starting ==
    /\ pc = "idle"
    /\ refreshes < MaxRefreshes
    /\ refreshes' = refreshes + 1
    /\ ~Refused(LiveRows(dimension))
    /\ saved' = SavedByRefresh
    /\ UNCHANGED <<shape, fact, dimension, table, kept, flushed, console>>

\* The refresh up to its first write of the view: the flushes, the dirty
\* set and the fold.
BeginJoined ==
    /\ Starting
    /\ Joined
    /\ Refreshing(IF AsOfJoin THEN PlanAsOf ELSE PlanStar)
    /\ UNCHANGED <<mark, record, older, failures>>

BeginSingle ==
    /\ Starting
    /\ ~Joined /\ ~Unsized
    /\ Len(fact) # mark.stamp
    /\ Refreshing(PlanSingle(mark))
    /\ UNCHANGED <<mark, record, older, failures>>

BeginUnsized ==
    /\ Starting
    /\ Unsized /\ LiveRows(fact) = {}
    /\ Refreshing(Plan({}, {}, FALSE, Now(mark)))
    /\ UNCHANGED <<mark, record, older, failures>>

\* The width goes into memory, then into the record, before the fold.
BeginSizing ==
    /\ Starting
    /\ Unsized /\ LiveRows(fact) # {}
    /\ mark' = Sized /\ record' = Sized /\ older' = older \union {record}
    /\ Refreshing(PlanSingle(Sized))
    /\ UNCHANGED failures

\* The record's write fails: the refresh returns, the width stays.
SizingFails ==
    /\ Failing("width")
    /\ Starting
    /\ Unsized /\ LiveRows(fact) # {}
    /\ mark' = Sized
    /\ UNCHANGED <<record, older, pc, todo>>

\* The replacement rows in the order they are appended.
Inserted(n) == {r \in todo.fold : Cardinality({q \in todo.fold : q.bucket < r.bucket}) < n}

Kept(rows) == IF todo.all THEN {} ELSE {r \in rows : r.bucket \notin Covered(todo.runs)}

\* A segment or a delete log is published with its directory synced, and with
\* that the records renamed there before.
OlderAfter(published) == IF published THEN {} ELSE older

\* Table::replace_matching.  A supersession is one event, on disk when it
\* returns and shown to read-only handles by its flush; without victims the
\* rows are appended one by one; without rows the victims' delete log is on
\* disk, and shown, at once.
Replace ==
    LET victims == table \ Kept(table) IN
    /\ pc = "replace"
    /\ table' = Kept(table) \union todo.fold
    /\ \/ /\ victims # {} /\ todo.fold # {}
          /\ kept' = table'
          /\ flushed' \in {flushed, table'}
       \/ /\ victims # {} /\ todo.fold = {}
          /\ kept' = table'
          /\ flushed' = Kept(flushed)
       \/ /\ victims = {}
          /\ \E n \in 0..Cardinality(todo.fold) :
                kept' = table \union Inserted(n) /\ flushed' = kept'
       \/ /\ victims = {} /\ todo.fold # {}
          /\ kept' = table' /\ flushed' = flushed
    /\ older' = OlderAfter(victims # {} \/ flushed' # flushed)
    /\ pc' = "flush"
    /\ UNCHANGED <<shape, sources, mark, record, todo, refreshes, failures, console>>

\* An append of a replacement without victims fails: the earlier ones stay.
ReplaceFails ==
    /\ Failing("replace")
    /\ pc = "replace"
    /\ table \ Kept(table) = {}
    /\ \E n \in 0..(Cardinality(todo.fold) - 1) : table' = table \union Inserted(n)
    /\ kept' = table' /\ flushed' \in {flushed, table'}
    /\ older' = OlderAfter(flushed' # flushed)
    /\ pc' = "idle" /\ todo' = Idle
    /\ UNCHANGED <<shape, sources, mark, record, refreshes, console>>

\* An advance that writes the record before the table is flushed.
StampFirst ==
    /\ pc = "flush"
    /\ mark' = todo.mark
    /\ record' = todo.mark /\ older' = older \union {record}
    /\ pc' = "stamp"
    /\ UNCHANGED <<shape, sources, table, kept, flushed, todo, refreshes, failures, console>>

\* advance_stamp: the stamp in memory, then the view table's flush.
FlushView ==
    /\ pc = "flush"
    /\ mark' = todo.mark
    /\ kept' = table /\ flushed' = table
    /\ older' = OlderAfter(flushed # table)
    /\ pc' = "stamp"
    /\ UNCHANGED <<shape, sources, record, table, todo, refreshes, failures, console>>

\* The record, staged and renamed, neither synced.
WriteRecord ==
    /\ pc = "stamp"
    /\ record' = mark /\ older' = older \union {record}
    /\ pc' = "idle" /\ todo' = Idle
    /\ UNCHANGED <<shape, sources, mark, table, kept, flushed, refreshes, failures, console>>

\* The flush or the record's write fails: the refresh returns the error.
AdvanceFails ==
    /\ Failing("advance")
    /\ pc \in {"flush", "stamp"}
    /\ mark' = todo.mark
    /\ pc' = "idle" /\ todo' = Idle
    /\ UNCHANGED <<shape, sources, record, older, table, kept, flushed, refreshes, console>>

\* The refresh in progress lowers the ceiling on disk.
Lowering == Joined /\ pc # "idle" /\ todo.mark.ceiling < record.ceiling

\* An earlier record under which the materialization would be misread: rows of
\* a width it does not know, or missing above a ceiling lowered since.
Misleads(r) == r.width # record.width \/ r.ceiling > record.ceiling

\* The process dies and the directory is opened again: the sources come back as
\* prefixes that hold what was flushed. Where the machine goes down, the console
\* with it, the record may be an earlier one.
Crash ==
    /\ Failing("crash")
    /\ Lowering => "lowering" \in Faults
    /\ \E n \in saved.fact..Len(fact), k \in saved.dimension..Len(dimension) :
          /\ fact' = SubSeq(fact, 1, n)
          /\ dimension' = SubSeq(dimension, 1, k)
    /\ \E r \in {record} \union older :
          /\ Misleads(r) => "lost" \in Faults
          /\ record' = r /\ mark' = r
          /\ older' = IF r = record THEN older ELSE {}
          /\ console' = IF r = record THEN console ELSE Closed
    /\ table' = kept
    /\ pc' = "idle" /\ todo' = Idle
    /\ UNCHANGED <<shape, saved, kept, flushed, refreshes>>

----------------------------------------------------------------------------
\* The read-only console.

\* What a read-only handle of a source sees: flushed events, and a plain
\* delete of a flushed row at once.
Shown(h, n) ==
    [i \in DOMAIN h |->
        IF i <= n \/ (h[i].key = Null /\ h[i].kills \in 1..n) THEN h[i] ELSE NoEvent]

Reads == shape.kind \in ReaderKinds

Sourced(at) == [console EXCEPT !.at = at, !.fact = Shown(fact, saved.fact),
                               !.dimension = Shown(dimension, saved.dimension)]

\* Console::open_inner: the tables first.
OpenSources ==
    /\ Reads /\ console.at = "closed"
    /\ console' = Sourced("sourced")
    /\ UNCHANGED <<shape, sources, view, refreshes, failures>>

\* MaterializedView::open_read_only: the record, then the view table.
OpenRecord ==
    /\ console.at = "sourced"
    /\ console' = [console EXCEPT !.at = "marked", !.mark = record]
    /\ UNCHANGED <<shape, sources, view, refreshes, failures>>

OpenTable ==
    /\ console.at = "marked"
    /\ console' = [console EXCEPT !.at = "open", !.table = flushed]
    /\ UNCHANGED <<shape, sources, view, refreshes, failures>>

\* Console::refresh re-reads the tables; an open view keeps its pair.
RefreshConsole ==
    /\ console.at \in {"open", "fresh"}
    /\ console' = Sourced("fresh")
    /\ UNCHANGED <<shape, sources, view, refreshes, failures>>

----------------------------------------------------------------------------

Next ==
    \/ WriteFact \/ WriteDimension
    \/ BeginJoined \/ BeginSingle \/ BeginUnsized \/ BeginSizing
    \/ Replace \/ FlushView \/ WriteRecord
    \/ SizingFails \/ ReplaceFails \/ AdvanceFails \/ Crash
    \/ OpenSources \/ OpenRecord \/ OpenTable \/ RefreshConsole

Spec == Init /\ [][Next]_vars

----------------------------------------------------------------------------

TypeOK ==
    /\ saved.fact \in 0..Len(fact) /\ saved.dimension \in 0..Len(dimension)
    /\ pc \in {"idle", "replace", "flush", "stamp"}
    /\ \A m \in {mark, record, console.mark} :
          /\ m.stamp \in Nat /\ m.dimensionStamp \in Nat /\ m.width \in Nat
          /\ m.ceiling \in OrderingKeys
    /\ Hidden /\ table # {} => mark.width > 0
    /\ \A r \in table \union kept \union flushed : r.bucket \in OrderingKeys

\* The answer the definition itself gives: a bucketed view's rows; of a
\* running view, how often each source row is folded in.
Folded(union) ==
    IF Hidden
    THEN [pair \in UNION {r.rows : r \in union} |-> Cardinality({r \in union : pair \in r.rows})]
    ELSE union

Exact(f, d, m, rows) ==
    ~Refused(LiveRows(d)) =>
        Folded(UnionRead(f, d, m, rows))
            = Folded(Fold(LiveRows(f), LiveRows(d), OrderingKeys, Divide(m)))

\* The union read is exact however stale the materialization: between any
\* two refreshes, after any correction, and on what a crash leaves behind, also
\* where a loss of power brings back a record older than the rows it is read
\* with. It does not survive the loss of a hidden width or of a lowered ceiling
\* (the fault "lost").
UnionReadExact == pc = "idle" => Exact(fact, dimension, mark, table)

\* The cumulative read splits every expanding window in two without losing
\* or repeating a row, whatever bound the query names.
CumulativeReadExact ==
    Hidden /\ pc = "idle" /\ mark.width > 0 =>
        \A floor \in OrderingKeys :
            LET below == BoundaryRows(UnionRead(fact, dimension, mark, table), floor, mark.width)
                above == {<<r, {}>> : r \in AssembledRows(fact, floor, mark.width)}
            IN  /\ (UNION {r.rows : r \in below}) \union above = {<<r, {}>> : r \in LiveRows(fact)}
                /\ \A r \in below : r.rows \intersect above = {}

\* What the record on disk says is covered survives any crash: no event a
\* stamp counts can be lost from a source any more.
StampsCoverSavedEvents ==
    /\ record.stamp <= saved.fact /\ record.dimensionStamp <= saved.dimension
    /\ console.mark.stamp <= saved.fact

\* A console that has refreshed its tables once answers exactly from the
\* pair it opened, whatever the writer does meanwhile.
RefreshedConsoleExact ==
    console.at = "fresh" =>
        Exact(console.fact, console.dimension, console.mark, console.table)

\* What the documentation says of a read-only view: exact from the start.
ConsoleExact ==
    console.at \in {"open", "fresh"} =>
        Exact(console.fact, console.dimension, console.mark, console.table)

=============================================================================
