# A TLA+ development of TallyDB

TallyDB is an embedded, single-writer time-series database. This directory
holds TLA+ specifications of it, the TLC runs that check them, and proofs that
TLAPS checks. Source paths are relative to the repository (`src/...` is the
crate).

## 1. The system

| Part | State it keeps | Operations | What is hard about it | What makes it correct |
|---|---|---|---|---|
| Store, shared state (`storage_lite/store.rs`: `Shared`, `Knowledge`, snapshots) | frozen segments, write buffer, tombstones, history, the knowledge axis (births, watermark) behind one mutex | `append`, `tombstone`, `supersede`, `flush`, `compact`, `snapshot`, `as_of` | readers between two critical sections of one operation; row ids renumbered while coordinates are not; births implicit until the first mutation | every event has one coordinate, AS OF a spent coordinate is final, no row lost or held twice, ties keep ingest order |
| Store, durability (`store.rs`, `io.rs`, `format.rs`) | segments, delete logs, history objects, manifest, write-ahead log | the backend writes of each operation; `persistent_with` and `replay_wal` | crash between any two writes, unsynced log tail, failing and half-done writes, strays of an unfinished compaction | the store reopens; what comes back is a prefix of the acknowledged events, with their coordinates, holding every event promised durable |
| Read-only opens (`open_read_only`, `refresh`, `load_read_only`) | a reader's own copy of the layout | open, refresh | list/read races with a live writer, bounded retries, visibility of an uncommitted mutation | a reader sees the durable prefix, old-or-new per mutation |
| Segment cache (`SegmentCache`, `SegmentSlot`) | decoded segments behind one lock a slot, their bytes and the least-recently-touched list behind another | view (fault and admit), evict, flush and compaction installing slots | eviction takes slot locks while it holds the cache's; a slot is registered before it is counted; a compaction removes files under snapshots | one decoded copy a slot, nothing retained uncounted, everything current readable, nobody waits for ever |
| Formats and codecs (`format.rs`, `codec.rs`, `alp.rs`) | none | encode, decode | integer limits, dictionaries, chunk tails, cut streams | decode after encode is the identity, damage is refused |
| Views (`view.rs`) | the materialisation table, and a record with the stamps, the hidden width and the join ceiling | refresh, union read, running and cumulative reads | settled buckets, corrections on either source, a ceiling that falls, a stamp and its rows written separately, failed writes | a read equals the query over the base tables, however stale the view |
| Predicates (`query_lite/predicate.rs`) | none | evaluate, prune | three-valued logic, NULL, NaN, zone maps | a row is kept exactly if the predicate is TRUE for it |
| Executor (`query_lite/exec.rs`), partial aggregates (`partials.rs`) | none between queries | join, scan, group, window, distinct, sort | streaming that closes a bucket, dictionaries unified across segments, frames at partition edges, a bounded heap, sums at 64 bits | each stage, and the answer, is what SQL asks for row by row |
| Planner (`query_lite/plan.rs`) | none | SQL text to plan | clauses cut out of the text by spans before it is parsed; sides, names and windows settled in passes over one tree | an evaluated plan gives what the statement means |
| Table (`table.rs`) | the store, a registry | append, DELETE, UPDATE, replace, query | ids of dead rows, one call to the store per statement | a statement hits what the same WHERE selects |
| Database (`database.rs`) | tables and views of a directory | create, open, flush, refresh of every view | a refresh that stops half-way; a view's directory that becomes one in two writes; a console that lists while a writer creates | every view is refreshed or reported, a console finds what was published, nobody writes into a materialisation |
| Console, driver, script (`driver.rs`, `shell.rs`, `script.rs`, `bin/`) | open tables and views | statement dispatch, read-only refresh | sources and views opened at different instants | a console's answers belong to one instant |
| Arrow layer, Lua, linear algebra, multifactor | arrays, interpreter | conversions, kernels | numeric | - |
| `harness.rs`, `corpus.rs` | - | tests | - | - |

How they interact: `Table` owns a `Store` and turns SQL mutations into
`append`, `tombstone`, `supersede`. One writer holds `&mut Store`; reader
threads hold a `StoreReader` and share nothing with the writer but the mutex
around `Shared`, the slots' locks and the cache's. Reader processes share
nothing but the directory. A view is a table of its own with a record beside
it; it holds a stamp, a coordinate of each source's knowledge axis, and reads
what lies past it from a snapshot. The executor gets a snapshot: a list of
segment handles with their live masks, some of which have to be faulted.

Components, and every hazard found in the code with its line, are listed in
`PROJECT.json`.

## 2. Modules

| Module | Models | Role |
|---|---|---|
| `Knowledge` | what a table promises: versions with a birth and a kill, one coordinate per event | abstract specification |
| `StoreState` | `struct Shared` and `struct Knowledge` as a record, and what one critical section does to it, as operators | shared by the two state machines |
| `SharedStore` | the writer and the in-process readers: one action per critical section | state machine; implements `Knowledge` |
| `Disk` | the backend's objects and log, and how an open reads them back (`persistent_inner`, `replay_wal`) | operators |
| `DurableStore` | the writer of a persistent store: one action per backend write, crash and open | state machine; its memory implements `SharedStore` |
| `ReadOnlyStore` | a reader process over the objects of `Disk`, its steps between any two writes of `DurableStore` | state machine; composes with `DurableStore` |
| `SegmentCache` | faults, pins, eviction and the installation of new slots, one critical section at a time | state machine with fairness |
| `ViewBuckets` | bucket arithmetic at the limits of the integer | operators; used by views and executor |
| `MaintainedView` | a view, its sources' histories, the refresh write by write, the union read, a read-only console | state machine |
| `Predicates` | three-valued evaluation of WHERE, zone maps and pruning | operators |
| `SegmentFormat` | the segment object: validity, dictionaries, sequence section, every column codec | operators |
| `QueryExecution` | the executor over one snapshot, one action per stage, segment or row | state machine |
| `StatementText` | the clauses lifted out of a statement's text before it is parsed, and the console's cutting at semicolons, over short texts of words, quotes and comments | state machine of three steps |
| `StatementMeaning` | what a SELECT over the modelled grammar means, row by row | reference definition, translated from no code |
| `Planner` | `lower_select` and everything under it: statement to plan, or refused | operators |
| `PlanEvaluation` | what the executor makes of a plan: names, joins, expressions a view at a time, kernels over the whole query, windows, groups, HAVING, hidden sort keys | extends `Planner`; two actions beside `QueryExecution`'s |
| `Mutations` | which rows DELETE and UPDATE hit and the one store call they make | extends `QueryExecution` |
| `Catalogue` | a directory of tables and views, its writer process, a read-only console that scans it | state machine |
| `PartialReads` | running and cumulative reads put together from partial aggregates | extends `QueryExecution` |
| `MC...` | small constants | model checking |
| `KnowledgeProofs`, `StoreLemmas`, `SharedStoreProofs`, `DurableStoreProofs`, `RecoveryProofs`, `SegmentCacheProofs`, `CatalogueProofs`, `MaintainedViewProofs` | - | lemmas and theorems (section 5) |

### Correspondence

`shared` in `SharedStore` and `mem.shared` in `DurableStore` are the contents
of `Store.shared`:

| field | code |
|---|---|
| `frozen` | the segments' rows in row-id order, with the birth a reader derives (`Segment::sequence_at`); segment boundaries are kept on disk only, no reader in the process can see them |
| `buffer`, `base` | `buffer`, `buffer_base` |
| `diverged` | `knowledge.is_some()`: FALSE is a *virtual* table, whose sequences are its row ids |
| `next`, `seqBase`, `births` | `Knowledge.next`, `.buffer_base`, `.explicit` |
| `tombs`, `history` | `tombstones`, the history segments |

A row is `[key, tag]`. The key is the ordering column's value; the tag is an
identity the program does not have, used only to follow a row through
renumbering. `minted`, `truth` and `promised` are history variables as well.
Other columns are left out: no operation of the store branches on them.

`SharedStore`: `AppendOne` is `Store::append` without its flush, `Tombstone`
the in-memory half of `Store::tombstone`, `SupersedeBegin`, `SupersedeAppend`
and `SupersedeCommit` the critical sections of `Store::supersede`, `Flush` and
`Compact` the in-memory commits of those two. A `StoreReader` may take a
snapshot in every state. `MinReplacements` is 1 when the writer keeps the
contract of its callers in `table.rs` and 0 for the method as it is public.

`DurableStore`: an action is one backend write with the memory changes up to
the next one. `FlushSegment`, `FlushManifest`, `FlushReset`; `WriteDeleteLog`;
`OpenBracket`, `AppendReplacement`, `SyncReplacements`, `CommitSupersession`;
`WriteNextGeneration`, `CommitCompaction`, `CompactReset`, `Cleanup`. `then`
holds where a nested flush returns. `Crash` keeps the synced part of the log
and any prefix of the rest. `OpenLoad` and `OpenReplay` are the open, with a
crash possible in between.

Three groups of writes are one step each: the pre-clean that opens a
compaction, the clean-up that ends it (any subset of the stale objects may be
left behind, which also stands for a crash in the middle and for swallowed
errors), and the chunks of one compaction's history. Segment metadata
(sequence ends, stamps) are taken from the segment itself. A write fails in
one of three ways: before it took effect (`lost`), after the rename in the
directory sync (`late`), or inside a log record (`torn`).

`ReadOnlyStore`: `reader` is one handle of another process. `BeginLoad` is an
open or a `refresh`, `ReadManifest`, `ListObjects` and `FinishLoad` are the
reads of `load_read_only` in order, each between any two writes of the writer
(`Write`). Delete logs, and segments when the manifest records no layout, are
read after the listing, so one that has gone by then may have been read in time
or not; a recorded segment is read when a query needs it. `Attempts` stands for
the eight tries of `open_read_only_inner`. A handle is kept as what it answers:
the rows in force and those it knows superseded. Slots carried over a refresh,
and faults of a later query, are not modelled.

`SegmentCache`: a slot is named by its file. `cached` is the `Some` of its
mutex, `holder` who is in that mutex, `recency`, `resident` and `evictor` the
contents and the lock of the cache. A reader mints a snapshot of handles
(`Mint`), and a view call is the touch (`View`), the slot's lock, the read and
decode, the wait for the cache's lock and one step per slot the eviction tries
with `try_lock`. The writer's flush builds one slot and compaction builds
segments and history slots before it swaps them in and removes files.

`MaintainedView`: a source is the history of its ingest events, one coordinate
each. `mark` is the stamp, the width and the join state in memory, `record` the
same on disk; `table` is the materialisation in memory, `kept` what a reopen
would find and `flushed` what a read-only open would find. A refresh is
`BeginJoined`, `BeginSingle`, `BeginUnsized` or `BeginSizing` (the flushes, the
dirty set, the fold), `Replace` (`Table::replace_matching` with its three
branches), `FlushView` and `WriteRecord` (`advance_stamp`), with a crash and a
failing write at each. `life` tells rows written before a failure from
those written after, so that a row a crash took back is not mistaken for the one
that later gets its coordinate. The record is renamed and never synced; what
makes it durable is the next directory sync of the materialisation, behind a
segment or a delete log. `older` holds the records a loss of power may bring back
until then (`OlderAfter` empties it), and `Crash` takes the last record or one of
these. Two kinds of earlier record (`Misleads`: another width, or a ceiling
since lowered) it takes only where `Faults` holds `lost`, because the answers are
then wrong (section 4). An aggregate is
kept as the rows it folds. `console` opens sources, record and materialisation
one after another, as `Console::open_inner` does.

`QueryExecution`: `phase` is the place in `execute`; `handles` are the segments
not yet scanned, `views` those that were. `Fault` is `SegmentHandle::view` on a
segment that is not resident: what it yields is decoded from the encoded
object. `SkipSegment` is pruning, `ScanSegment` the evaluation of the mask,
`GroupRow` one step of the streamed or hashed aggregation, `SortRow` one step
of the bounded heap. The refusals are actions. A window function is a function
of its frame; the cell is the argument's values in the frame.

`SegmentFormat`: a word has few bits and a stream is a sequence of elements,
one per field the code writes; `DecodeX` takes elements off the front and says
how far it came. The decimal base of ALP is two. Which scheme a chunk of
doubles is stored in is an input, as the encoder chooses it by size.

`Planner` and `PlanEvaluation`: a parsed statement is a record of expression
trees, and whatever may be refused yields a set, of the one result or of none
(`Then`, `All`, `Hoisting` are the `?`, the collecting loops and the loops that
push hoisted windows). `PlanStatement` is `lower_query`, `EvaluatePlan`
`execute_single` or `execute_join` on the plan. `StatementMeaning` gives the same
statement its meaning on the rows of its tables without a plan, views or hidden
columns. The parser is external: statements enter as trees, several shapes of
parentheses and qualifiers among them. `MCStatements` holds the families of
statements (select list, WHERE, groups, windows, joins, order).

`StatementText`: a text is a sequence of pieces, words and the characters that
matter; `Lift` is `parse_statement` up to the parser, `SplitStatements` the
console's splitting.

`Mutations`: `MatchSegment` collects row ids and updated rows from one view,
`Issue` hands them to the store. `PartialReads`: the output of a partials query
stands for the union of stored and fresh buckets (`CombineRunning` for every
choice of which are fresh); `BeginAssembly` runs the definition over the rows
from the boundary bucket up, and `Adjust` folds the boundary in.

`Catalogue`: a table is the presence of its manifest and definition and two
counts of rows, so that the loops over tables and views are what is checked.
`Create...`, `BeginView` and `WriteDefinition` are the writes of a creation,
`FlushOne` and `RefreshOne` the bodies of two loops that `StepFails` may cut.
`Compact` stands for any number of calls of `Database::compact`; `past.raced`
holds the directories compacted while the console had them to read, and a load of
one of these may find its files gone at every try and fail (`Outrun`). `End` is
the end of the process, or of the machine, which may take a view's record that no
segment has followed yet (`Unsettled`).
The console's load is `List` (`read_dir`), `Partition` (which directories carry
a `view.def`), `OpenTable` and `OpenView`, with the writer in between; a
refresh begins with `Reread`.

Definitions marked as mutants are the wrong code a property is meant to catch.
No action uses them. They stand beside the definition they mutate.

## 3. Properties and runs

| Run | Distinct states | Shows |
|---|---|---|
| `shared_store` | 173,551 | every interleaving of critical sections: `TypeOK`, coordinates ordered (`CoordinatesOrdered`), ties keep ingest order, every row held once, the table AS OF the last spent coordinate is the latest one (`LatestIsLastSpent`), answers AS OF a spent coordinate never change (`SettledCuts`), refinement of `Knowledge` |
| `durable_full` | 1,281,730 | `WalSync::Full`, crash anywhere: the store comes back to an event prefix that loses no acknowledged event, with its coordinates (`RecoversCoordinates`); memory is a `SharedStore` (`ServesSharedStore`) |
| `durable_levels` | 3,374,285 | every level, raised between opens, over a compaction, two crashes and one write that fails: the store always opens (`AlwaysReopens`; a directory sync that fails behind a published object, `late`, is not among the run's faults, section 4); as long as no write has failed it comes back to a prefix that holds everything up to the last acknowledgement, sync or flush (`RecoversPrefix`), and no delete log outruns its replacements (`DeleteLogsCommitLast`) |
| `reader` | 369,029 | a reader process beside a `Full` writer that compacts and may crash: it answers with whole events, all that are flushed and some later deletes, unless a compaction overtakes the load (`WholeMutations`); wherever the writer stops, a load it does not disturb succeeds (`LoadsWhenQuiet`); a refresh never answers again with a row it saw superseded (`RefreshKeepsKills`) and, even one that fails, loses no row (`RefreshKeepsRows`) |
| `cache` | 266,103 | two readers and the writer under a budget that forces eviction: one decoded copy a slot (`OneDecodedCopy`), `resident` covers what is retained (`CountCoversRetained`), everything the store hands out can be faulted (`CurrentFaultable`), view calls and the writer's operations come back (`ViewsReturn`, `WriterReturns`) |
| `views` | 3,580,115 | five kinds of view, a crash or a failed write anywhere in a refresh, a loss of power that brings an earlier record back: the union read is exact between any two refreshes, a cumulative read's split loses and repeats nothing, the record's stamps cover saved events only, a console that refreshed its tables once answers exactly |
| `queries` | 414,957 | each stage of the executor, and the answer, against row-by-row definitions; stored columns decode to what was written, and bytes that end early or go on after the last value are refused (`DamageRefused`); DELETE and UPDATE hit what the WHERE selects; partial reads are exact; clauses are lifted and statements cut where the tokens say (`LiftsExact`, `SplitsExact`); a statement that is planned and evaluated gives what it means (`PlanMeansStatement`) |
| `catalogue` | 7,065,860 | a writer that creates, fills, flushes, refreshes, compacts, fails and ends, and a console that opens and refreshes between any two of its steps: the console finds everything published before it looked (`LoadsComplete`), is refused over creations only and fails otherwise only for a directory compacted during that load of it (`FailsOnlyOverChange`), a sweep that reports success covered every view (`SweepCoversAll`), only a creation cut in half lets rows into a materialisation (`DerivedOnly`) |
| `shared_readers`, `durable_downgrade`, `durable_failed_bracket`, `views_lowering` | - | expected violations: places where the code and a statement in the repository disagree, section 4 |

`RecoversPrefix` speaks of rows and `RecoversCoordinates` of births, kills and
the next coordinate as well. The second excludes states where a lone row
precedes a bracket in the log (section 4, births). With `WalSync::Off` a crash
between a supersession's flush and its delete log may leave both versions live;
the doc of `supersede` grants that, and the property allows it.

The properties of `queries` compare every intermediate state with a definition
that knows nothing of segments, dictionaries, streams, heaps or codecs: `Kleene`
for WHERE, `Latest(Reached(fact))` for joins, `Aggregate` for groups,
`FrameRows` for windows, ranks for the sort.

### Bounds

`SegmentRows = 2`: a flush by threshold, a partly filled buffer and a segment
boundary all occur with three rows. Three rows, four in `shared_store`, are
enough for a victim, its replacement and a bystander on either side, and for a
compaction that reorders. Two keys give ties and disorder; runs that ask
nothing about order use one. One compaction with one crash reaches every write
of a compaction; `durable_levels` has two crashes, so that a recovery is itself
interrupted and a stray meets the next compaction. The reader's two attempts
reach a retry and giving up; `reader` has two rows, one of which is deleted or
replaced by the other: a third would bring in the births of section 4, under
which a reader's coordinates and the writer's part. Its writer runs under
`Full`; under `WalSync::Off` a flush precedes the delete log of a supersession,
and a reader between the two sees both versions. One fault per behaviour; after
a failed write `durable_levels` asks only that the store opens, since section 4
names what such a write can lose.

`cache`: two readers, three files ever written, of sizes 1, 2 and 1, two of
them found by the open, and a budget of 1, so that every admission evicts and
one segment alone exceeds the budget.

`views`: `MaxKey = 3`, so integers run from -4 to 3 and both edges and the wide
bucket 0 are in reach; rows arrive at -2, 0 and 3; at most two fact events,
three dimension events, three events altogether (under strict matching,
whose intervals need three dimension rows, four, one of them of the fact table,
whose corrections the other joins have); two refreshes, one failure. Two
refreshes are what an earlier record needs to differ from the one lost.
Symmetry over the symbols: no definition orders them.

`queries`: integers are -4..3, NaN is 4, a byte has three bits, a chunk three
values, ALP-RD's dictionary two entries; snapshots are two segments of three to
five rows with dead rows among them. A family of cases per stage varies what
that stage tells apart (keys on both sides of zero, in and out of order, NULL
and NaN, ties, sums whose prefixes overflow, every frame at every edge, every
LIMIT and OFFSET around the size) and fixes the rest. The statements are over
a table of a few rows in one or two segments and a dimension, and vary one
clause at a time: the expression shapes of the SELECT list and WHERE, buckets,
aliases and HAVING calls, each window function with its frames and partitions,
every way to write the sides of ON.

`catalogue`: one table and two views over it, one row, two ends of the writer
and one failure. A view created while the console looks, one that was there
before and one cut in half all occur together; a second table adds no order the
loops do not have with two views. One `Compact` is as good as eight: the retries
of a single load are in `ReadOnlyStore`.

Deadlock is checked where the system can always go on: an idle writer can
always compact or close, a thread can always mint a snapshot, a query that has
ended stutters. The two `views` runs say `CHECK_DEADLOCK FALSE`: their
histories are bounded, and when the bounds are spent nothing is left to do.

Fairness is assumed in `SegmentCache` only, where threads meet. A mutex that
becomes free again and again is obtained in the end by whoever waits for it:
strong fairness of each thread's steps inside a view call (`SF_vars(Step(t))`),
weak fairness of the writer on what it has begun (`Finishing`). Nothing makes a
reader start a query or drop a snapshot. Elsewhere the code has no background
thread, every operation is a call that returns, and nothing promises progress of
its own.

## 4. Disagreements between code and text

Each of these has a run whose counterexample is a trace of the code.

- `shared_readers`: readers in the process can see a replacement and its victim
  both live, between `supersede`'s critical sections, where "old-or-new for
  crashes and readers" is promised.
- `durable_downgrade`: opening at `WalSync::Off` a store whose log holds the
  replacements of a committed supersession removes the log; a crash then leaves
  neither the old rows nor the new.
- `durable_failed_bracket`: a replacement's log append fails; the bracket stays
  open and swallows the next acknowledged row.
- `views_lowering`: a refresh that lowers a join view's ceiling takes rows out
  of the materialisation before the record says so; a crash between the two
  loses them from the answer until the next refresh. The same happens when no
  crash but a failed write of the record leaves the lowered ceiling in memory
  only and a crash follows later (`UnionReadExact` with
  `Faults = {"advance", "crash"}`, `MaxFailures = 2`).

These were met while modelling and have no run of their own. Where a definition
is named, put it in a copy of the nearest `.cfg`.

- Rows logged ahead of a bracket come back with other births than they had
  (`DurableStore!BirthsSurviveReopen`, `store.rs:1684`).
- After a log reset that fails behind a compaction, an acknowledged row can be
  lost (`ZeroLossWindow` with a compaction, `store.rs:2610`).
- A directory sync that fails behind a published manifest, then a retried
  compaction: objects the manifest names are removed (`AlwaysReopens` with
  `FaultKinds = {"late"}`, `io.rs:242`, `store.rs:2539`).
- A compaction's clean-up can remove a delete log before the segments it applies
  to; a reader that holds the old manifest sees a replacement and the row it
  replaced (`ReadOnlyStore!NeverTorn`, `store.rs:2625`).
- `Store::supersede` without replacements stamps a coordinate nobody consumes
  (`LatestIsLastSpent` with `MinReplacements = 0`, `store.rs:2255`); its callers
  never do so.
- A hidden width whose record could not be written stays in memory, and a later
  refresh folds under it; after a crash the view is sized again, perhaps with
  another width, over rows of the first, which `view.rs:479` excludes
  (`UnionReadExact` with `Faults = {"width", "crash"}`, `MaxFailures = 2`,
  `MaxFact` 3 for the running shape).
- A view's record is renamed without a sync, and `view.rs:1041` says that this
  is harmless: "a stamp can only be lost *backward*, and an old stamp merely
  re-folds". Of the stamp that is so (`UnionReadExact` in `views`), but the record
  holds the width and the ceiling as well. A loss of power after rows of a newly
  chosen hidden width reached the synced log, or behind a refresh that took rows
  out and then recorded a lowered ceiling, brings back the record from before, as
  long as no later directory sync of the materialisation made the new one durable.
  Without the width the view is sized again, perhaps with another width, over rows
  of the first, where `view.rs:479` says "never a different one"; under the higher
  ceiling the rows taken out are missing until the next refresh.
  `UnionReadExact` fails with the constants of `Views.cfg`, a running shape that
  divides by 1, and `Faults = {"crash", "lost"}`; and with those of
  `ViewsLowering.cfg` and the same `Faults`, where the lowering had completed.
- A read-only console's `.refresh` or open fails when a program compacts a
  directory more often than the eight tries of one load (`store.rs:1279`), and a
  failed open leaves no console, also of the tables read before. The message says
  to retry; `FailsOnlyOverChange` counts it as the second of two reasons.
- A console that lists a directory between the manifest and the `view.def` of a
  new view serves the materialisation as a plain table, which the comment at the
  partition (`shell.rs:178`) excludes (`Catalogue!ServedAsViews`). Every later
  `.refresh` of that console fails with a duplicate name.
- A view's creation that ends between those two writes leaves a plain table, and
  so does a loss of power before the view's first segment has synced its
  directory and the record in it. Rows a console inserts there are kept as derived rows when the view is created again.
- A read-only console's views answer from rows and records older than the
  tables it opened (`MaintainedView!ConsoleExact`, `shell.rs:249`).
- `SegmentCache.resident` counts detached slots until they are evicted
  (`SegmentCache!ResidentIsRetained`, `store.rs:770`), and a reader's snapshot
  can outlive the files it names (`SnapshotsStayReadable`, `store.rs:2565`).
- A buffer whose key column holds only NULL cannot be frozen (`mem.rs:386`).
  At `WalSync::Off` an `UPDATE ... SET k = NULL` can so leave both versions
  live, although `store.rs` near 2240 says a refused mutation changes nothing.
- `RANGE BETWEEN UNBOUNDED PRECEDING AND CURRENT ROW` is planned as `ROWS`, so
  rows with equal keys see different frames.
- A PARTITION BY over a nullable BIGINT column puts NULL rows with the rows that
  hold 0: `resolve_partition_key` (`exec.rs:2130`) admits any BIGINT and
  `GroupTerm::code` (`exec.rs:2495`) reads the placeholder, while the comments at
  `exec.rs:2172` and `exec.rs:2469` say such a key is refused or never NULL. The
  model has it (`StoredNumber`); the statements of `queries` leave it out.
- `plan.rs:33` says everything outside the subset is rejected; `COUNT(DISTINCT)`,
  `FILTER`, `QUALIFY`, `FETCH FIRST`, `ON CONFLICT` and the `LIMIT`, `ORDER BY` and
  `RETURNING` of DELETE and UPDATE are dropped in silence.
- `ON fact.k = nonsense.k` is accepted: one known qualifier decides the side and
  the other is not looked up (`plan.rs:1947`).
- The text layer: `rewrite_ordering_key` looks into comments (`plan.rs:1017`), a
  comment that hugs a word is read as part of it (`plan.rs:1136`), a splice
  between two adjacent quotes merges them, and the console cuts at a semicolon
  inside `/* */`.
- `SELECT n + 1` over a BIGINT column answers on an empty table and is refused
  as soon as there are rows (`exec.rs:1359`).
- `bucket * multiply` of a grouping key is not checked in the executor; the
  model has the multiplier equal to the width.
- A cumulative read with a floor answers where the base query refuses, when the
  NULL argument or the disorder lies below the floor's bucket.
- AVG over a BIGINT column in a running view goes through 64-bit SUM partials
  and can refuse where the query over the base table does not.

## 5. Proofs

What TLC shows for the constants of a run, these theorems show for all.

`SharedStoreProofs!TypeCorrect`: `Spec => []TypeOK` for every key set, flush
threshold, bound and WAL mode, given `MinReplacements > 0`. Without that
assumption it is false: `supersede` accepts a call without replacements, which
its two callers never make, and then a table that was never mutated would hold
a kill while its sequences are still its row ids. `TypeOK` is not inductive:
the inductive invariant `TypeInv` adds that an open supersession fits the bound on rows,
and that a supersession about to commit has diverged the table. The second carries the argument: a kill may enter
`tombs` only in a table whose knowledge is explicit, and the replacements that
precede it made it so. `StoreLemmas` has one lemma for each writing
operator of `StoreState`: what it keeps (`Shaped`, `WellFormed`) and what it
does to the row count and the dead ids. `Shaped` holds even inside a critical
section, between the tombstones and the coordinate they spend. The step proof
of each action cites these lemmas and expands none of the operators.

`SharedStoreProofs` proves three more, under the same assumption:
`CoordinatesSpentOnce` (`[]CoordinatesOrdered`), `TiesKept`
(`[]TiesKeepIngestOrder`) and `AnswersSettled` (`SettledCuts`). They share the
inductive invariant `OrderInv`: `TypeInv`; everything known lies below the
watermark and nothing died before its birth (`KnownBefore`); rows with one key
stand in the order of their births; and, while a supersession is open, the
watermark is its coordinate until the first replacement and the one after it
from then on, with every victim born before. The last part is what the
supersession's several locks need: the coordinate is read once, used much
later, and must still be nobody else's when the victims die at it.
A second group of lemmas in `StoreLemmas` says what each writing operator does to the *view* of a state
(row and birth of every row id, and the watermark); the buffer's three encodings
of births (virtual, contiguous, explicit) are taken apart there and nowhere
else. `AnswersSettled` follows because a step gives births and kills only at or
above the first unsettled coordinate, and a compaction moves the dead into
history with both their coordinates (`CompactedAnswers`).

`KnowledgeProofs!KnowledgeSettled`: in the abstract table, answers AS OF a
spent coordinate are final. The invariant `Spent` says that every coordinate in
use is below `next` and that versions die after their birth. Every event is
shown to have the same shape (`EventShape`: some versions die at `next`, some
are born there), and a step of that shape cannot touch a cut below `next`.

The last part of the module, under the same assumption: `RowsHeldOnce`
(`[]EveryRowHeldOnce`): every row ever stored is in exactly one place, the buffer,
one segment or the history, through freezes, compactions and both sections of a
supersession. Its invariant `RowInv` adds to `OrderInv` that the rows held are
exactly 1..`minted`, each once, and that a supersession about to commit has a live
replacement at its coordinate. The latter gives `LatestIsNewest`
(`[]LatestIsLastSpent`). `ImplementsKnowledge` is the refinement,
`Spec => RefinesKnowledge`, for every value of the constants: an append, a
tombstone and a commit of a supersession each take effect as one event of
`Knowledge`, in the section that ends them, and every other section is a
stutter. A supersession's replacements stay out of the abstract table until the
commit (`Standing`), which is why the mapping hides the rows of the open
coordinate; that nobody else holds it is `OrderInv`'s part.

`SegmentCacheProofs` takes any number of readers, any sizes and any budget.
`LocksHeldInPlace`: a slot's lock is held by the thread that is reading that
slot and by nobody else, and the cache's by the one that evicts. On it rests
`DecodedOnce` (`[]OneDecodedCopy`): two threads cannot have decoded one segment
into two copies. `CurrentReadable` (`[]CurrentFaultable`) needs what the writer is
about to adopt between its commit and its swap (`WriterInv`): it removes no file in
that time. `CountNeverUnderReports` (`[]CountCoversRetained`) is about a sum: the
bytes counted cover everything retained but what a thread has decoded and not yet
counted. A slot leaves what is retained in many ways (evicted, dropped with its
last handle, replaced by a compaction) and enters it in one, so the invariant
(`CoverInv`) adds only that the registry and the eviction's queue are lists of
files. The lemmas above it (`TotalAdd`, `TotalRemove`, `TotalGrows`) say what a sum
over a finite set does when the set changes.

`CatalogueProofs` takes any number of tables and views and any bound on the
rows: `SweepCovers` (`[]SweepCoversAll`), `RowsDerived` (`[]DerivedOnly`),
`LoadFindsAll` (`LoadsComplete`) and `LoadFailsOverChange`
(`FailsOnlyOverChange`). In `CatalogueInv` the part for a console in the middle
of its scan, `LoadInv`, is the long one: what it has listed, opened and set aside
so far, and what it still owes, against a directory the writer goes on changing.
Each writer action is proved once to keep the directory's part and to let it
only grow (`Grows`); each console action needs no more than that.

`MaintainedViewProofs` has five theorems. `StampsCovered`
(`[]StampsCoverSavedEvents`): no stamp, in memory or on disk, claims events that
a crash could take back. `SingleUnionExact`: `UnionReadExact` for every view over
one table. `SplitExact`: `CumulativeReadExact`. `SingleConsoleExact`:
`RefreshedConsoleExact` for every view over one table. The invariant of these last three (`ReadInv`) states what
incremental maintenance means: the stored rows equal the definition
over the stored history, bucket by bucket, except in buckets that an event after
the stamp has touched (`Agrees`); this is so of the rows in memory under the stamp in
memory and of the rows on disk under the record on disk (`Coherent`), and
through every cut of a refresh (`RefreshInv`). For the console, the rows a flush has
shown must agree with the record as well (`FlushedInv`), and what the console holds must agree
with the longer history it reads next (`ConsoleInv`): a record read before the
view table only counts fewer events than the rows stand for. An earlier record
that a loss of power brings back does the same (`OlderInv`, `CrashCoherent`): rows
that agree under a stamp agree under a smaller one, which only folds more
again. Under them lies the arithmetic of
`ViewBuckets` at the limits of the integer (`BucketAtLeast`, `BucketAtMost`,
`LowEdge`, `HighEdge`): a key lies between its bucket's edges, also where an edge
saturates. One exception is in the statements and is not a convenience: a
hidden width that parts from its record, because the record could not be written
or was lost, answers wrongly, as section 4 lists, so the theorems leave the
faults `width` and `lost` out for hidden shapes (`Single`).

The fifth, `JoinedUnionExact`, is `UnionReadExact` for the views over two
sources, as-of, strictly before and equi joins. Rows are `Current` under a mark
when they equal the definition's answer outside the buckets that a read under
that mark folds live. Two lemmas say why that survives any further events of
either source. `LiveGrows`: the keys folded live only become more; where a new
reference row cuts the interval of an older one short, it begins an interval of
its own. `MatchStays`: a fact outside all intervals has the match it had; a
candidate that came or went lies before one that stands. What a refresh does is
said bucket by bucket (`Plans`): every bucket the new mark calls current is
folded again or was current and stays, and as long as the ceiling does not fall
the same is true of the old mark, which is what a crash before the record's
write needs. The invariant `JoinInv` keeps rows and mark in memory apart from rows
and record on disk, and `JoinOlderInv` that no earlier record counts
more events than the last one; rows `Current` under a mark are so under an earlier
one of the same width and no higher ceiling (`OlderIsCurrent`). `Tolerated` is
the exception: crashes while a refresh lowers the ceiling, a loss of that
refresh's record, and a second failure after a failed `advance_stamp` break the
promise in the code as well (`views_lowering` and the notes in section 4).

`DurableStoreProofs` and `RecoveryProofs` are about the persistent store and the
reader process, at every WAL level and for any keys, bounds, crashes and
generations. Under them, `StoreLemmas` says what an open reads back: `SoundOpens` (objects that
are `Sound` are not refused), what each single write does to the rows a layout
lays out, and what a replay adds to the loaded state (`ReplayedGrows`), by
induction over the units of a log.

`StoreStaysFit` is the inductive invariant, `Spec => []StoreInv`. What is on disk
fits together whatever write came last (`ObjectsFit`: the layout's segments are
there and without gap, the delete logs name rows of theirs, nothing of another
generation can be taken for this one's), and memory describes it (`Mirrors`). The
long parts are the operations under way: the victims of a mutation whose delete
log comes several writes later are still in force and in segments
(`VictimsFit`); a flush has published the buffer's segment before the manifest
names it (`FlushFits`); a compaction has written exactly a prefix of the next
generation's objects beside the strays of an earlier one (`CompactionFits`).
`AlwaysReopens` alone is not inductive: whether the next write keeps a store
openable depends on memory. From `StoreInv` follow `StoreAlwaysReopens`
(`[]AlwaysReopens`) and, through `ReaderStaysFit`, `ReaderLoadsWhenQuiet`
(`[]LoadsWhenQuiet`).

These theorems assume `NoLateFaults`: a write may fail before it took effect or
tear a log record, but a directory sync does not fail behind a rename that
stands. That is no convenience: section 4 lists the run that breaks
`AlwaysReopens` with such a fault.

`ServesReaders` (`Spec => ServesSharedStore`) is the refinement of `SharedStore`
by the persistent store's memory: every backend write maps to one critical
section or to a stutter, with a nested flush inside an append, a deletion or a
supersession and a compaction around its own. Its invariant `ServeInv` matches
`pc`, `then` and `op` with the pending supersession of `SharedStore`. An open
starts a new behaviour of `SharedStore`, so the theorems above about it hold from
one open to the next crash. It assumes `NoFaults`: when a write fails inside a
supersession, the replacements already in memory stay there, and `SharedStore` has no
such step.

`RecoveryProofs` is about what a crash leaves. `StoreRecoversPrefix`
(`[]RecoversPrefix`): the rows an open finds are those of a prefix of the
acknowledged events that holds every promised one. `RecoversPrefix` speaks of
disks that do not exist yet, so the invariant, `Recoverable`, says why they are
harmless. While the store serves (`ServingFits`), every row of memory is in a
segment or in a unit of the log (`LogIs`): the log is the encoding of whole units,
each a row on its own or a bracket with its rows whose supersession committed,
and behind them the bracket that is open. Only the last `truth.next - promised`
units may be unsynced, all of them rows on their own, so that what a crash cuts
off is a row nobody was promised or a bracket that did not commit (`LogCut`);
and one such row less is the table one event earlier (`SettledAt`). Between a
flush or a compaction and the reset of the log none of its records may count again
(`LogSpent`), and with `WalSync::Off` the unflushed rows are promised to nobody
(`LogOff`). A closed store (`ClosedFits`) is described by what its open will find;
that open rewrites the log, and `ReplayBacks` closes the circle. A replay's
operators are recursive functions; what they make of an encoded log cut short
at any record is in the last part of `StoreLemmas` (`UnitsOfEncoded`, `PlainCut`,
`ReplaysWhole`, `RecoveredRows`).

From the same invariant follow `StoreDeleteLogsCommitLast`
(`[]DeleteLogsCommitLast`) and, where no write fails, `StoreMutationsWhole`
(`[]MutationsWhole`). The three assume `NoDowngrade`: a store that kept a log is
not reopened at `WalSync::Off`. Such an open drops the log, and the run
`durable_downgrade` (section 4) shows `MutationsWhole` failing for that reason;
the theorem shows that nothing else breaks it. They need `NoLateFaults` for
`StoreInv`. `RecoversPrefix` and `DeleteLogsCommitLast` themselves claim nothing
after a failed write; the run `durable_failed_bracket` shows why.

Assumptions: the named `ASSUME`s of each module about its constants, which TLC
evaluates in every run, and those named above.

Only model-checked so far: of `DurableStore`, `RecoversCoordinates`, and of
`ReadOnlyStore` `WholeMutations` and what a refresh keeps. For the first an
invariant has to say at which coordinate a replay gives birth to each row, where
the log has no row on its own ahead of a bracket; for the others, which events a
reader's mixture of old and new objects stands for. Further `SegmentCache`'s
`TypeOK` and the executor, planner and text modules (`Predicates`,
`SegmentFormat`, `QueryExecution`, `PlanEvaluation`, `Mutations`,
`PartialReads`, `StatementText`). Of these `QueryExecution`, `Planner` and
`PlanEvaluation`, and what extends them, compute by `RECURSIVE` operators, which the
provers do not take. Recursive functions are no obstacle: `StoreLemmas` and
`SegmentCacheProofs` reason about them by induction over a set of numbers or of
files. Liveness under fairness (`ViewsReturn`, `WriterReturns`) is out of the
provers' reach.

## 6. Plan

Next, proofs, in this order: `RecoversCoordinates`, from `LogIs` extended by the
births of the buffered rows; `ReadOnlyStore!WholeMutations`; the soundness of a
single zone-map test (`MayHold` against `Holds`).

## 7. Not modelled

- Byte layouts, headers and checksums; columns stored uncompressed; the trailer
  of superseded versions; the choice of a codec by size; manifests of older
  formats.
- Durability below the model's: a record whose name outlives a loss of power and
  whose contents do not (its checksum refuses it, and the view with it), and the
  entry of a new directory in its parent, which nothing syncs (`io.rs:131`).
- Errors of reading a file, in a console's loads and elsewhere, but for a file that
  a compaction has removed.
- Views: INNER joins, the recomputation AS OF, the compaction of a view's own
  table, the floors that choose between folding and recomputing by cost, the
  user's query over the rows a view read yields, beyond its lower bound.
- The executor: registered window aggregates, AVG and SUM over DOUBLE (they
  round), the bounds of AS OF beyond the two comparisons. Of the registered column
  functions one stands for all: a running total, which tells a whole query from
  its views.
- The SQL parser (external), LIKE, and the lowering of INSERT, UPDATE, DELETE and
  CREATE TABLE: translation of text without state. Type checks of assignments.
- `Database`: registration of Lua functions, the in-memory catalogue, `.import`.
- Arrow arrays and streaming, Lua, linear algebra, multifactor statistics:
  foreign or floating-point code. Text I/O of the console. Tests.

About half of the repository's lines are tests written beside the code, and a
further third is one of the kinds above; what is left is largely covered.
