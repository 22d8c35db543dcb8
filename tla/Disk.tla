-------------------------------- MODULE Disk --------------------------------
(***************************************************************************)
(* What a store keeps in its backend, and how an open reads it back        *)
(* (storage_lite/store.rs: persistent_inner, replay_wal).                  *)
(*                                                                         *)
(* A disk d is a record of                                                 *)
(*   manifest  [generation, layout, diverged, next, history]: the commit   *)
(*             point of the layout.  layout is the set of base row ids of  *)
(*             the segments it names (tag 1), diverged/next the recorded   *)
(*             next_sequence, history the number of history objects named  *)
(*   segments  <<generation, base>> |-> [rows, stamped]; rows carry the    *)
(*             births a reader derives, stamped is FALSE while sequence =  *)
(*             row id                                                      *)
(*   deletes   <<generation, index>> |-> [ids, stamp, superseding]         *)
(*   history   index |-> the versions one compaction retained              *)
(*   wal       [present, generation, base, entries, synced]: the first     *)
(*             synced entries survive any crash, later ones may not        *)
(* Objects are published whole (temporary file, sync, rename); only the    *)
(* log grows in place.  The chunks of one compaction's history are kept as *)
(* one object.                                                             *)
(***************************************************************************)
EXTENDS StoreState, SequencesExt

NoLog == [present |-> FALSE, generation |-> 0, base |-> 0,
          entries |-> << >>, synced |-> 0]

\* encode_wal_header published atomically: an empty log at the row watermark.
FreshLog(generation, base) ==
    [present |-> TRUE, generation |-> generation, base |-> base,
     entries |-> << >>, synced |-> 0]

NewDisk ==
    [manifest |-> [generation |-> 0, layout |-> {}, diverged |-> FALSE,
                   next |-> 0, history |-> 0],
     segments |-> [name \in {} |-> 0],
     deletes  |-> [name \in {} |-> 0],
     history  |-> [index \in {} |-> 0],
     wal      |-> NoLog]

Publish(objects, name, value) ==
    [n \in DOMAIN objects \cup {name} |-> IF n = name THEN value ELSE objects[n]]

Without(objects, names) == [n \in DOMAIN objects \ names |-> objects[n]]

\* Log entries: a row, the bracket that opens a supersession, and what a
\* failed append leaves behind.
RowEntry(row) == [kind |-> "row", row |-> row, sequence |-> 0, count |-> 0]
BracketEntry(sequence, count) ==
    [kind |-> "bracket", row |-> 0, sequence |-> sequence, count |-> count]
TornEntry == [kind |-> "torn", row |-> 0, sequence |-> 0, count |-> 0]

----------------------------------------------------------------------------
\* The layout an open finds.

\* The manifest's segment list or, when it names none, every segment of the
\* generation the listing shows.
Layout(d) ==
    IF d.manifest.layout # {} THEN d.manifest.layout
    ELSE {n[2] : n \in {m \in DOMAIN d.segments : m[1] = d.manifest.generation}}

SegmentOf(d, base) == d.segments[<<d.manifest.generation, base>>]

LayoutPresent(d) ==
    \A base \in Layout(d) : <<d.manifest.generation, base>> \in DOMAIN d.segments

\* One past the last row id the segments hold.
Extent(d) ==
    Max({0} \cup {base + Len(SegmentOf(d, base).rows) : base \in Layout(d)})

\* The segments' rows, in base order: slots.sort_by_key(base_row_id).  Asked
\* for only where they are contiguous.
FrozenRows(d) ==
    [i \in 1..Extent(d) |->
        LET base == Max({b \in Layout(d) : b < i})
        IN  SegmentOf(d, base).rows[i - base]]

\* Contiguity: each segment starts where the one before it ended.
Contiguous(d) ==
    \A base \in Layout(d) :
        base = 0 \/ \E b \in Layout(d) : b + Len(SegmentOf(d, b).rows) = base

DeleteLogs(d) == {n \in DOMAIN d.deletes : n[1] = d.manifest.generation}

Tombstones(d) ==
    [id \in UNION {d.deletes[n].ids : n \in DeleteLogs(d)} |->
        d.deletes[CHOOSE n \in DeleteLogs(d) : id \in d.deletes[n].ids].stamp]

\* The coordinates whose supersession committed: Tombstones.superseding.
NoEvidence(d) == {}                       \* mutant: the evidence is unread
CommittedSupersessions(d) ==
    {d.deletes[n].stamp : n \in {m \in DeleteLogs(d) : d.deletes[m].superseding}}

\* mutant: the last log's number is taken again
LastDeleteLog(d) == Max({0} \cup {n[2] : n \in DeleteLogs(d)})

NextDeleteLog(d) ==
    Max({0} \cup {n[2] + 1 : n \in DeleteLogs(d)})

\* SegmentMeta::sequence_end, one past the largest birth.
SequenceLast(segment) ==                  \* mutant: the largest birth itself
    Max({segment.rows[i].born : i \in DOMAIN segment.rows})

SequenceEnd(segment) ==
    Max({segment.rows[i].born : i \in DOMAIN segment.rows}) + 1

\* persistent_inner up to the replay: the shared state the segments, the
\* delete logs and the manifest describe.
Loaded(d) ==
    LET frozen   == FrozenRows(d)
        tombs    == Tombstones(d)
        killedAt == Max({0} \cup {tombs[id] : id \in DOMAIN tombs})
        diverged == \/ d.manifest.diverged
                    \/ killedAt > 0
                    \/ \E base \in Layout(d) : SegmentOf(d, base).stamped
        mark     == IF ~diverged THEN 0
                    ELSE Max({d.manifest.next}
                           \cup (IF killedAt > 0 THEN {killedAt + 1} ELSE {})
                           \cup {SequenceEnd(SegmentOf(d, b)) : b \in Layout(d)})
    IN  [frozen   |-> frozen,
         buffer   |-> << >>,
         base     |-> Len(frozen),
         diverged |-> diverged,
         next     |-> mark,
         seqBase  |-> mark,
         births   |-> << >>,
         tombs    |-> tombs,
         history  |-> UNION {d.history[i] : i \in 0 .. d.manifest.history - 1}]

\* Errors the open answers with: MissingRows and TombstoneOutOfRange.
OpenRefused(d) ==
    \/ ~LayoutPresent(d)
    \/ ~Contiguous(d)
    \/ \E id \in DOMAIN Tombstones(d) : id >= Extent(d)

----------------------------------------------------------------------------
\* Replay.

Unit(bracket, sequence, rows) ==
    [bracket |-> bracket, sequence |-> sequence, rows |-> rows]

\* decode_wal: the records before the first torn one.
Clean(entries) ==
    LET torn == {i \in DOMAIN entries : entries[i].kind = "torn"}
    IN  SubSeq(entries, 1, Min(torn \cup {Len(entries) + 1}) - 1)

\* replay_wal's first loop: rows and resolved brackets.  A complete bracket
\* replays when its delete log committed or records follow it; nothing after
\* an incomplete one does.
Units(entries, committed) ==
    LET From[i \in 1 .. Len(entries) + 1] ==
          IF i > Len(entries) THEN << >>
          ELSE IF entries[i].kind = "row"
          THEN << Unit(FALSE, 0, << entries[i].row >>) >> \o From[i + 1]
          ELSE LET last     == i + entries[i].count
                   complete == /\ last <= Len(entries)
                               /\ \A k \in (i + 1) .. last : entries[k].kind = "row"
                   replays  == entries[i].sequence \in committed \/ last < Len(entries)
                   unit     == Unit(TRUE, entries[i].sequence,
                                    [k \in 1 .. entries[i].count |-> entries[i + k].row])
               IN  IF ~complete THEN << >>
                   ELSE (IF replays THEN << unit >> ELSE << >>) \o From[last + 1]
    IN  From[1]

\* The units past the rows the segments already cover.
EveryUnit(units, covered) == units        \* mutant: covered rows replay too
Uncovered(units, covered) ==
    LET rows[n \in 0..Len(units)] ==
          IF n = 0 THEN 0 ELSE rows[n - 1] + Len(units[n].rows)
        past == {i \in DOMAIN units : rows[i - 1] >= covered}
    IN  SubSeq(units, Min(past \cup {Len(units) + 1}), Len(units))

\* What replay_wal keeps of the log: nothing of another generation's.
ReplayUnits(d) ==
    IF ~d.wal.present \/ d.wal.generation # d.manifest.generation THEN << >>
    ELSE Uncovered(Units(Clean(d.wal.entries), CommittedSupersessions(d)),
                   Max({0, Extent(d) - d.wal.base}))

\* apply_replayed: ordinary rows take the watermark, a bracket's rows the
\* coordinate it carries.
ApplyUnit(s, unit) ==
    LET after[k \in 0..Len(unit.rows)] ==
          IF k = 0 THEN s
          ELSE IF unit.bracket
          THEN AppendSuperseding(after[k - 1], unit.rows[k], unit.sequence,
                                 RowCount(after[k - 1]))
          ELSE AppendRow(after[k - 1], unit.rows[k])
    IN  after[Len(unit.rows)]

Replayed(s, units) ==
    LET after[n \in 0..Len(units)] ==
          IF n = 0 THEN s ELSE ApplyUnit(after[n - 1], units[n])
    IN  after[Len(units)]

Recovered(d) == Replayed(Loaded(d), ReplayUnits(d))

\* The replacement log: the replayed units re-encoded, brackets preserved.
EntriesOf(unit) ==
    (IF unit.bracket THEN << BracketEntry(unit.sequence, Len(unit.rows)) >>
     ELSE << >>)
      \o [k \in DOMAIN unit.rows |-> RowEntry(unit.rows[k])]

Encoded(units) ==
    LET upto[n \in 0..Len(units)] ==
          IF n = 0 THEN << >> ELSE upto[n - 1] \o EntriesOf(units[n])
    IN  upto[Len(units)]

RewrittenLog(d) ==
    LET entries == Encoded(ReplayUnits(d))
    IN  [FreshLog(d.manifest.generation, Extent(d))
            EXCEPT !.entries = entries, !.synced = Len(entries)]
=============================================================================
