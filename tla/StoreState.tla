----------------------------- MODULE StoreState -----------------------------
(***************************************************************************)
(* The reader-visible state of a store (struct Shared and its Knowledge,   *)
(* storage_lite/store.rs) as a record, and the operations the writer       *)
(* performs on it inside one critical section of the mutex, as operators   *)
(* from record to record.                                                  *)
(*                                                                         *)
(* A shared state s has the fields                                         *)
(*   frozen    the frozen segments' rows in row-id order, each             *)
(*             [row, born]; where the segment boundaries fall is not kept  *)
(*   buffer    the write buffer's rows                                     *)
(*   base      buffer_base, the row id of the buffer's first row           *)
(*   diverged  knowledge.is_some(); FALSE means sequence = row id          *)
(*   next      knowledge.next      (0 while virtual)                       *)
(*   seqBase   knowledge.buffer_base (0 while virtual)                     *)
(*   births    knowledge.explicit; the empty sequence stands for None      *)
(*   tombs     row id |-> the sequence its kill landed at                  *)
(*   history   versions a compaction retained: set of [row, born, killed]  *)
(* Row ids count from 0, sequences of TLA+ from 1.                         *)
(***************************************************************************)
EXTENDS Integers, Sequences, FiniteSets

EmptyShared ==
    [frozen   |-> << >>, buffer |-> << >>, base |-> 0,
     diverged |-> FALSE, next |-> 0, seqBase |-> 0, births |-> << >>,
     tombs    |-> [id \in {} |-> 0], history |-> {}]

----------------------------------------------------------------------------
\* Reading a shared state.

RowCount(s) == Len(s.frozen) + Len(s.buffer)

Ids(s) == 0 .. RowCount(s) - 1

Dead(s) == DOMAIN s.tombs

Live(s) == Ids(s) \ Dead(s)

\* The victims a mutation really kills: those not dead already.
AllNamed(s, ids) == ids                   \* mutant: kills the dead again
Newly(s, ids) == ids \ Dead(s)

\* The ingest-sequence watermark; while virtual it IS the row count.
Watermark(s, rows) == IF s.diverged THEN s.next ELSE rows

\* Birth of the i-th buffered row (i from 1): Shared::buffer_sequence, or
\* the row id while virtual.
BufferBirth(s, i) ==
    IF ~s.diverged THEN s.base + i - 1
    ELSE IF s.births # << >> THEN s.births[i]
    ELSE s.seqBase + i - 1

\* The row and the birth sequence of a row id.
RowAt(s, id) ==
    IF id < Len(s.frozen) THEN s.frozen[id + 1].row
    ELSE s.buffer[id - Len(s.frozen) + 1]

Born(s, id) ==
    IF id < Len(s.frozen) THEN s.frozen[id + 1].born
    ELSE BufferBirth(s, id - Len(s.frozen) + 1)

\* Rows of the latest-knowledge snapshot: Store::snapshot.
Latest(s) == {RowAt(s, id) : id \in Live(s)}

\* KnowledgeSnapshot::as_of.
AsOf(s, cut) ==
    {RowAt(s, id) : id \in {i \in Ids(s) :
        Born(s, i) <= cut /\ ~(i \in Dead(s) /\ s.tombs[i] <= cut)}}
      \cup {v.row : v \in {w \in s.history : w.born <= cut /\ cut < w.killed}}

\* The versions in force and the superseded ones, as Knowledge states them.
AliveVersions(s) ==
    {[row |-> RowAt(s, id), born |-> Born(s, id)] : id \in Live(s)}

KilledVersions(s) ==
    {[row |-> RowAt(s, id), born |-> Born(s, id), killed |-> s.tombs[id]]
       : id \in Dead(s)}

DeadVersions(s) == KilledVersions(s) \cup s.history

----------------------------------------------------------------------------
\* Writing a shared state.

\* Shared::append_row.
AppendRow(s, row) ==
    [s EXCEPT
        !.buffer = Append(@, row),
        !.births = IF s.diverged /\ @ # << >> THEN Append(@, s.next) ELSE @,
        !.next   = IF s.diverged THEN @ + 1 ELSE @]

\* mutant: the buffer's births start at the watermark, not before it
DivergedAtWatermark(s, rows) ==
    IF s.diverged THEN s
    ELSE [s EXCEPT !.diverged = TRUE, !.next = rows, !.seqBase = rows]

\* knowledge.get_or_insert_with: the first mutation diverges the table.
Diverged(s, rows) ==
    IF s.diverged THEN s
    ELSE [s EXCEPT !.diverged = TRUE,
                   !.next = rows,
                   !.seqBase = rows - Len(s.buffer)]

\* The buffer's births, one per row, from where contiguity ends.
Materialized(s) ==
    IF s.births # << >> THEN s.births
    ELSE [i \in 1..Len(s.buffer) |-> s.seqBase + i - 1]

\* mutants: the kill leaves no hole in the buffer's run; it spends nothing
ConsumeUnmaterialized(s, rows) == [Diverged(s, rows) EXCEPT !.next = @ + 1]
ConsumeNothing(s, rows) == Diverged(s, rows)

\* Shared::consume_sequence: a kill spends a coordinate without a row.
ConsumeSequence(s, rows) ==
    LET d == Diverged(s, rows)
    IN  IF d.buffer = << >>
        THEN [d EXCEPT !.next = @ + 1, !.seqBase = d.next + 1, !.births = << >>]
        ELSE [d EXCEPT !.next = @ + 1, !.births = Materialized(d)]

\* Shared::append_superseding: a replacement, born at the shared coordinate.
AppendSuperseding(s, row, sequence, rows) ==
    LET d == Diverged(s, rows)
    IN  [d EXCEPT !.buffer = Append(@, row),
                  !.births = Append(Materialized(d), sequence),
                  !.next   = IF @ < sequence + 1 THEN sequence + 1 ELSE @]

\* tombstones.extend: every id of ids dies at the sequence stamp.
Entomb(s, ids, stamp) ==
    [s EXCEPT !.tombs = [id \in Dead(s) \cup ids |->
                            IF id \in ids THEN stamp ELSE s.tombs[id]]]

\* Store::flush, the part readers see: the buffer becomes a segment and the
\* empty buffer restarts contiguous at the watermark.
FlushShared(s, rows) ==
    IF s.buffer = << >> THEN s
    ELSE [s EXCEPT
            !.frozen  = @ \o [i \in 1..Len(s.buffer) |->
                                [row |-> s.buffer[i], born |-> BufferBirth(s, i)]],
            !.buffer  = << >>,
            !.base    = rows,
            !.seqBase = IF s.diverged THEN s.next ELSE @,
            !.births  = << >>]

\* The merge order of a compaction: ids sorted by (ordering key, row id).
\* There is exactly one for a finite set; it is named by its properties.
PrecedesUnstably(s, a, b) ==              \* mutant: ties reversed
    \/ RowAt(s, a).key < RowAt(s, b).key
    \/ RowAt(s, a).key = RowAt(s, b).key /\ a > b

Precedes(s, a, b) ==
    \/ RowAt(s, a).key < RowAt(s, b).key
    \/ RowAt(s, a).key = RowAt(s, b).key /\ a < b

MergeOrders(s, ids) ==
    LET n == Cardinality(ids)
    IN  {order \in [1..n -> ids] :
            /\ \A i, j \in 1..n : i < j => Precedes(s, order[i], order[j])
            /\ \A id \in ids : \E i \in 1..n : order[i] = id}

\* Does this compaction break sequence = row id?
Diverging(s, order) ==
    \/ s.diverged
    \/ Dead(s) # {}
    \/ \E i \in 1..Len(order) : order[i] # i - 1

\* What history holds after a compaction: old segments chained with new.
RetainedLatest(s) == KilledVersions(s)    \* mutant: the old ones forgotten
Retained(s) == DeadVersions(s)

\* Store::compact, the in-memory commit: the live rows in merge order under
\* fresh row ids, the dead ones in history with both their coordinates.
Compacted(s, rows, order) ==
    LET diverging == Diverging(s, order)
        mark      == IF diverging THEN Watermark(s, rows) ELSE 0
    IN  [frozen   |-> [i \in 1..Len(order) |->
                        [row  |-> RowAt(s, order[i]),
                         born |-> IF diverging THEN Born(s, order[i]) ELSE i - 1]],
         buffer   |-> << >>,
         base     |-> Len(order),
         diverged |-> diverging,
         next     |-> mark,
         seqBase  |-> mark,
         births   |-> << >>,
         tombs    |-> [id \in {} |-> 0],
         history  |-> Retained(s)]

----------------------------------------------------------------------------

\* The fields of a shared state over rows from R.
SharedFields(s, R) ==
    [frozen   : Seq([row : R, born : Nat]),
     buffer   : Seq(R),
     base     : Nat,
     diverged : BOOLEAN,
     next     : Nat,
     seqBase  : Nat,
     births   : Seq(Nat),
     tombs    : [Dead(s) -> Nat],
     history  : SUBSET [row : R, born : Nat, killed : Nat]]

\* What a shared state holds even in the middle of a critical section: one
\* birth per buffered row once births are explicit, an otherwise contiguous
\* buffer that ends at the watermark, and kills of rows that exist.
Shaped(s, R) ==
    /\ s \in SharedFields(s, R)
    /\ s.base = Len(s.frozen)
    /\ s.births # << >> => Len(s.births) = Len(s.buffer)
    /\ s.diverged /\ s.births = << >> => s.seqBase + Len(s.buffer) = s.next
    /\ Dead(s) \subseteq Ids(s)
    /\ ~s.diverged => s.births = << >>

\* While a table is virtual its sequences are its row ids and nothing was
\* ever killed in it.
VirtualIsPlain(s) ==
    ~s.diverged => /\ s.history = {}
                   /\ Dead(s) = {}
                   /\ \A i \in DOMAIN s.frozen : s.frozen[i].born = i - 1

\* What every store holds between two critical sections.
WellFormed(s, R) == Shaped(s, R) /\ VirtualIsPlain(s)
=============================================================================
