---------------------------- MODULE DurableStore ----------------------------
(***************************************************************************)
(* The single writer of a persistent store (storage_lite/store.rs) and its *)
(* disk: every mutating operation as the sequence of backend writes it     *)
(* makes, the crash that may fall between any two of them, the write that  *)
(* fails, and the open that recovers.                                      *)
(*                                                                         *)
(* One action is one backend write together with the memory it adopts      *)
(* before the next write.  pc names the write that comes next.  A flush is *)
(* a part of four operations; `then' is where it returns to.               *)
(*                                                                         *)
(* truth is the table as its caller was told it is (Knowledge's alive,     *)
(* dead, next), and promised the coordinate below which every event is     *)
(* to survive a crash: both are history variables, never read by an action *)
(* of the program.                                                         *)
(***************************************************************************)
EXTENDS Disk

CONSTANTS
    Keys,            \* the ordering keys rows carry
    SegmentRows,     \* the flush threshold
    WalLevels,       \* the levels stores are opened at: "Off", "Group", "Full"
    LevelChanges,    \* <<old, new>>: changes of the level between two opens
    MaxReplacements, \* bound: replacement rows of one supersession
    MaxRows,         \* bound: rows ever written
    MaxGenerations,  \* bound: compactions committed
    MaxCrashes,      \* bound: crashes
    MaxFaults,       \* bound: backend writes that fail
    FaultKinds       \* how they fail: "lost", "late", "torn"

ASSUME WalLevelsAssumption ==
    /\ WalLevels \subseteq {"Off", "Group", "Full"}
    /\ LevelChanges \subseteq WalLevels \X WalLevels
ASSUME FaultKindsAssumption == FaultKinds \subseteq {"lost", "late", "torn"}
ASSUME SegmentRowsAssumption == SegmentRows \in Nat \ {0}
ASSUME BoundsAssumption ==
    {MaxReplacements, MaxRows, MaxGenerations, MaxCrashes, MaxFaults} \subseteq Nat

VARIABLES
    disk,      \* what survives (Disk)
    mem,       \* the writer's memory: Store's fields
    pc,        \* the write that comes next
    then,      \* where the flush under way returns to
    op,        \* the operation under way
    minted,    \* row identities handed out
    truth,     \* the table as acknowledged: [alive, dead, next]
    promised,  \* coordinates below it must survive
    crashes, faults

vars == <<disk, mem, pc, then, op, minted, truth, promised, crashes, faults>>
ghosts == <<minted, truth, promised, crashes>>

Phases == {"down", "replay", "refused", "idle", "flush", "manifest", "reset",
           "delete log", "bracket", "replace", "sync", "commit log",
           "compact", "compact manifest", "compact reset", "cleanup"}

\* due marks the flush an operation ends with when the buffer is full.
NoOp == [ids |-> {}, sequence |-> 0, total |-> 0, left |-> 0, order |-> << >>,
         due |-> FALSE]

NoMemory ==
    [shared |-> EmptyShared, rows |-> 0, generation |-> 0, deleteLogs |-> 0,
     sections |-> [layout |-> {}, diverged |-> FALSE, next |-> 0, history |-> 0],
     log |-> "none", walSync |-> "Off"]

\* What is left of memory between two opens: the level the host last asked for.
Forgotten == [NoMemory EXCEPT !.walSync = mem.walSync]

Told(s) ==
    [alive |-> AliveVersions(s), dead |-> DeadVersions(s),
     next  |-> Watermark(s, RowCount(s))]

\* The acknowledged table as it stood before coordinate cut was consumed.
Prefix(cut) ==
    [alive |-> {v \in truth.alive : v.born < cut}
                 \cup {[row |-> v.row, born |-> v.born] :
                         v \in {w \in truth.dead : w.born < cut /\ cut <= w.killed}},
     dead  |-> {v \in truth.dead : v.killed < cut},
     next  |-> cut]

----------------------------------------------------------------------------
\* Writes and their outcomes.

\* A write is done; or its error leaves the backend as it was ("lost"), or
\* comes after the object was published or the record written ("late").
Failures == IF faults < MaxFaults THEN FaultKinds ELSE {}

Outcomes == {"done"} \cup (Failures \ {"torn"})

\* The error returns to the caller through `?', from whatever operation is
\* under way; what the caller can read is the table from then on.
Abort(outcome) ==
    /\ outcome # "done"
    /\ faults' = faults + 1
    /\ pc' = "idle"
    /\ then' = "idle"
    /\ op' = NoOp
    /\ truth' = Told(mem'.shared)
    /\ UNCHANGED <<minted, promised, crashes>>

\* backend.write of an object: the disk with it, or not.
Wrote(outcome, after) == disk' = IF outcome = "lost" THEN disk ELSE after

ManifestOf(generation, sections) ==
    [generation |-> generation, layout |-> sections.layout,
     diverged |-> sections.diverged, next |-> sections.next,
     history |-> sections.history]

\* wal.append, and the sync the level asks for.  A log whose file was
\* replaced under the handle takes the bytes nowhere.
Logged(wal, entry, synced) ==
    IF mem.log # "open" THEN wal
    ELSE [wal EXCEPT !.entries = Append(@, entry),
                     !.synced  = IF synced THEN Len(wal.entries) + 1 ELSE @]

\* Does this append reach the disk before it returns?  Group syncs when the
\* interval has elapsed, which it may or may not have.
SyncChoices ==
    IF mem.walSync = "Full" THEN {TRUE}
    ELSE IF mem.walSync = "Group" THEN BOOLEAN
    ELSE {FALSE}

\* Outcomes of a log append: also a record cut short.
LogOutcomes ==
    IF mem.log = "none" THEN {"done"}
    ELSE {"done"} \cup Failures

\* mutant: goes on at target without the flush
SkipFlush(buffer, target) == pc' = target /\ then' = "idle"

\* Calls flush() and goes on at target: at once when the buffer is empty.
FlushThen(buffer, target) ==
    IF buffer = << >> THEN pc' = target /\ then' = "idle"
    ELSE pc' = "flush" /\ then' = target

\* mutant: the buffer outgrows its threshold
NeverFlush(buffer) == pc' = "idle" /\ then' = "idle" /\ op' = NoOp

\* The end of an operation that grew the buffer: the threshold flush.
FlushIfFull(buffer) ==
    IF Len(buffer) >= SegmentRows
    THEN FlushThen(buffer, "idle") /\ op' = [NoOp EXCEPT !.due = TRUE]
    ELSE pc' = "idle" /\ then' = "idle" /\ op' = NoOp

----------------------------------------------------------------------------

Init ==
    /\ disk = NewDisk
    /\ \E level \in WalLevels : mem = [NoMemory EXCEPT !.walSync = level]
    /\ pc = "down"
    /\ then = "idle"
    /\ op = NoOp
    /\ minted = 0
    /\ truth = Told(EmptyShared)
    /\ promised = 0
    /\ crashes = 0
    /\ faults = 0

\* Drop: a clean close syncs the log's tail.
Close ==
    /\ pc = "idle"
    /\ disk' = [disk EXCEPT !.wal.synced = Len(disk.wal.entries)]
    /\ mem' = Forgotten
    /\ pc' = "down"
    /\ promised' = IF mem.log = "open" THEN truth.next ELSE promised
    /\ UNCHANGED <<then, op, minted, truth, crashes, faults>>

\* Any instant: memory is gone, and the log keeps a prefix of what was not
\* yet synced.
Crash ==
    /\ pc \notin {"down", "refused"}
    /\ crashes < MaxCrashes
    /\ crashes' = crashes + 1
    /\ \E kept \in disk.wal.synced .. Len(disk.wal.entries) :
          disk' = [disk EXCEPT !.wal.entries = SubSeq(@, 1, kept),
                               !.wal.synced = kept]
    /\ mem' = Forgotten
    /\ pc' = "down"
    /\ then' = "idle"
    /\ UNCHANGED <<op, minted, truth, promised, faults>>

\* persistent_inner: read the manifest, the delete logs and the layout; a
\* layout found by listing is written into the manifest.
OpenLoad ==
    /\ pc = "down"
    /\ IF OpenRefused(disk)
       THEN pc' = "refused" /\ UNCHANGED <<disk, mem>>
       ELSE LET m == disk.manifest
                sections == [layout |-> Layout(disk), diverged |-> m.diverged,
                             next |-> m.next, history |-> m.history]
            IN  /\ pc' = "replay"
                /\ disk' = [disk EXCEPT !.manifest =
                                ManifestOf(m.generation, sections)]
                /\ mem' = [shared     |-> Loaded(disk),
                           rows       |-> Extent(disk),
                           generation |-> m.generation,
                           deleteLogs |-> NextDeleteLog(disk),
                           sections   |-> sections,
                           log        |-> "none",
                           walSync    |-> mem.walSync]
    /\ UNCHANGED <<then, op, faults>> /\ UNCHANGED ghosts

\* The first coordinate the segments alone do not account for.
FirstUnflushed(s) ==
    Min({Watermark(s, RowCount(s))} \cup {BufferBirth(s, i) : i \in DOMAIN s.buffer})

\* replay_wal: the log's rows re-enter the buffer, and the log is replaced by
\* one that holds exactly them.  At Off it is removed: the rows are as
\* durable as that level's unflushed rows are, which is not at all.
OpenReplay ==
    /\ pc = "replay"
    /\ \E level \in {mem.walSync} \cup {c[2] : c \in {d \in LevelChanges : d[1] = mem.walSync}} :
          LET s == Recovered(disk)
              off == level = "Off"
          IN  /\ mem' = [mem EXCEPT !.shared = s,
                                    !.rows = RowCount(s),
                                    !.log = IF off THEN "none" ELSE "open",
                                    !.walSync = level]
              /\ truth' = Told(s)
              /\ promised' = IF off THEN FirstUnflushed(s) ELSE truth'.next
              /\ disk' = [disk EXCEPT !.wal = IF off THEN NoLog ELSE RewrittenLog(disk)]
    /\ pc' = "idle"
    /\ op' = NoOp
    /\ UNCHANGED <<then, minted, crashes, faults>>

----------------------------------------------------------------------------
\* Store::append.

AppendRowOp ==
    /\ pc = "idle"
    /\ minted < MaxRows
    /\ minted' = minted + 1
    /\ \E key \in Keys, outcome \in LogOutcomes, synced \in SyncChoices :
          LET row == [key |-> key, tag |-> minted + 1]
              entry == IF outcome = "torn" THEN TornEntry ELSE RowEntry(row)
          IN  /\ Wrote(outcome,
                       [disk EXCEPT !.wal = Logged(@, entry, synced)])
              /\ IF outcome # "done"
                 THEN /\ faults' = faults + 1
                      /\ UNCHANGED <<mem, pc, then, op, truth, promised>>
                 ELSE LET s == AppendRow(mem.shared, row)
                      IN  /\ mem' = [mem EXCEPT !.shared = s, !.rows = @ + 1]
                          /\ truth' = Told(s)
                          /\ promised' = IF synced THEN truth'.next ELSE promised
                          /\ FlushIfFull(s.buffer)
                          /\ UNCHANGED faults
    /\ UNCHANGED crashes

----------------------------------------------------------------------------
\* Store::flush: segment, manifest, adoption in memory, fresh log.

StartFlush ==
    /\ pc = "idle"
    /\ mem.shared.buffer # << >>
    /\ FlushThen(mem.shared.buffer, "idle")
    /\ UNCHANGED <<disk, mem, op, faults>> /\ UNCHANGED ghosts

\* The buffer's rows as the segment that is published.
BufferSegment ==
    LET s == mem.shared
    IN  [rows |-> [i \in DOMAIN s.buffer |->
                      [row |-> s.buffer[i], born |-> BufferBirth(s, i)]],
         stamped |-> s.diverged]

FlushSegment ==
    /\ pc = "flush"
    /\ \E outcome \in Outcomes :
          /\ Wrote(outcome,
                   [disk EXCEPT !.segments =
                        Publish(@, <<mem.generation, mem.shared.base>>, BufferSegment)])
          /\ UNCHANGED mem
          /\ \/ Abort(outcome)
             \/ /\ outcome = "done"
                /\ pc' = "manifest"
                /\ UNCHANGED <<then, op, faults>> /\ UNCHANGED ghosts

FlushManifest ==
    /\ pc = "manifest"
    /\ \E outcome \in Outcomes :
          LET sections == [mem.sections EXCEPT !.layout = @ \cup {mem.shared.base}]
          IN  /\ Wrote(outcome,
                       [disk EXCEPT !.manifest = ManifestOf(mem.generation, sections)])
              /\ \/ UNCHANGED mem /\ Abort(outcome)
                 \/ /\ outcome = "done"
                    /\ mem' = [mem EXCEPT !.sections = sections,
                                          !.shared = FlushShared(@, mem.rows)]
                    /\ promised' = truth.next
                    /\ pc' = "reset"
                    /\ UNCHANGED <<then, op, minted, truth, crashes, faults>>

\* reset_wal: publish an empty log over the old one and reopen it.  An error
\* after the rename leaves the old handle on a file no name leads to.
ResetWal(target) ==
    \E outcome \in (IF mem.log = "none" THEN {"done"} ELSE Outcomes) :
        /\ Wrote(outcome,
                 [disk EXCEPT !.wal =
                    IF mem.log = "none" THEN @ ELSE FreshLog(mem.generation, mem.rows)])
        /\ mem' = [mem EXCEPT !.log = CASE outcome = "late" -> "detached"
                                        [] outcome = "lost" -> @
                                        [] mem.log = "none" -> "none"
                                        [] OTHER -> "open"]
        /\ \/ Abort(outcome)
           \/ /\ outcome = "done"
              /\ pc' = target
              /\ then' = "idle"
              /\ op' = [op EXCEPT !.due = FALSE]
              /\ UNCHANGED faults /\ UNCHANGED ghosts

FlushReset == pc = "reset" /\ ResetWal(then)

----------------------------------------------------------------------------
\* Store::tombstone: flush, delete log, memory.

Tombstone ==
    /\ pc = "idle"
    /\ \E ids \in SUBSET Live(mem.shared) :
          /\ ids # {}
          /\ op' = [NoOp EXCEPT !.ids = ids]
    /\ FlushThen(mem.shared.buffer, "delete log")
    /\ UNCHANGED <<disk, mem, faults>> /\ UNCHANGED ghosts

DeleteLog(stamp, superseding) ==
    [disk EXCEPT !.deletes =
        Publish(@, <<mem.generation, mem.deleteLogs>>,
                [ids |-> op.ids, stamp |-> stamp, superseding |-> superseding])]

WriteDeleteLog ==
    /\ pc = "delete log"
    /\ \E outcome \in Outcomes :
          LET stamp == Watermark(mem.shared, mem.rows)
          IN  /\ Wrote(outcome, DeleteLog(stamp, FALSE))
              /\ \/ UNCHANGED mem /\ Abort(outcome)
                 \/ /\ outcome = "done"
                    /\ mem' = [mem EXCEPT
                                !.deleteLogs = @ + 1,
                                !.shared = ConsumeSequence(
                                              Entomb(@, op.ids, stamp), mem.rows)]
                    /\ truth' = Told(mem'.shared)
                    /\ promised' = truth'.next
                    /\ pc' = "idle"
                    /\ op' = NoOp
                    /\ UNCHANGED <<then, minted, crashes, faults>>

----------------------------------------------------------------------------
\* Store::supersede, as Table calls it (a victim, a replacement): flush if a
\* victim is buffered, bracket, replacements, sync, delete log, memory,
\* deferred flush.  newly may be empty: victims already dead still commit.

Supersede ==
    /\ pc = "idle"
    /\ \E newly \in SUBSET Live(mem.shared), count \in 1..MaxReplacements :
          /\ newly # {} \/ Dead(mem.shared) # {}
          /\ minted + count <= MaxRows
          /\ op' = [NoOp EXCEPT !.ids = newly, !.total = count, !.left = count]
          /\ IF \E id \in newly : id >= mem.shared.base
             THEN FlushThen(mem.shared.buffer, "bracket")
             ELSE pc' = "bracket" /\ then' = "idle"
    /\ UNCHANGED <<disk, mem, faults>> /\ UNCHANGED ghosts

OpenBracket ==
    /\ pc = "bracket"
    /\ \E outcome \in LogOutcomes :
          LET sequence == Watermark(mem.shared, mem.rows)
              entry == IF outcome = "torn" THEN TornEntry
                       ELSE BracketEntry(sequence, op.total)
          IN  /\ Wrote(outcome, [disk EXCEPT !.wal = Logged(@, entry, FALSE)])
              /\ UNCHANGED mem
              /\ \/ Abort(outcome)
                 \/ /\ outcome = "done"
                    /\ op' = [op EXCEPT !.sequence = sequence]
                    /\ pc' = "replace"
                    /\ UNCHANGED <<then, faults>> /\ UNCHANGED ghosts

AppendReplacement ==
    /\ pc = "replace"
    /\ \E key \in Keys, outcome \in LogOutcomes, synced \in SyncChoices :
          LET row == [key |-> key, tag |-> minted + 1]
              entry == IF outcome = "torn" THEN TornEntry ELSE RowEntry(row)
          IN  /\ Wrote(outcome, [disk EXCEPT !.wal = Logged(@, entry, synced)])
              /\ \/ UNCHANGED mem /\ Abort(outcome)
                 \/ /\ outcome = "done"
                    /\ minted' = minted + 1
                    /\ mem' = [mem EXCEPT
                                 !.shared = AppendSuperseding(@, row, op.sequence, mem.rows),
                                 !.rows = @ + 1]
                    /\ op' = [op EXCEPT !.left = @ - 1]
                    /\ pc' = IF op.left = 1 THEN "sync" ELSE pc
                    /\ UNCHANGED <<then, truth, promised, crashes, faults>>

Unsynced == disk                          \* mutant: wal.sync() forgotten
SyncedLog == [disk EXCEPT !.wal.synced = Len(disk.wal.entries)]

\* Superseding rows are durable before the delete log: sync, or flush.
SyncReplacements ==
    /\ pc = "sync"
    /\ IF mem.log = "none"
       THEN /\ FlushThen(mem.shared.buffer, "commit log")
            /\ UNCHANGED <<disk, mem, op, faults>> /\ UNCHANGED ghosts
       ELSE \E outcome \in Outcomes :
              /\ Wrote(outcome,
                       IF mem.log = "open" THEN SyncedLog ELSE disk)
              /\ UNCHANGED mem
              /\ \/ Abort(outcome)
                 \/ /\ outcome = "done"
                    /\ pc' = "commit log"
                    /\ promised' = truth.next
                    /\ UNCHANGED <<then, op, minted, truth, crashes, faults>>

\* The commit record, the victims' tombstones, and the deferred flush.
CommitSupersession ==
    /\ pc = "commit log"
    /\ \E outcome \in Outcomes :
          /\ Wrote(outcome, DeleteLog(op.sequence, TRUE))
          /\ \/ UNCHANGED mem /\ Abort(outcome)
             \/ /\ outcome = "done"
                /\ mem' = [mem EXCEPT !.deleteLogs = @ + 1,
                                      !.shared = Entomb(@, op.ids, op.sequence)]
                /\ truth' = Told(mem'.shared)
                /\ promised' = truth'.next
                /\ FlushIfFull(mem.shared.buffer)
                /\ UNCHANGED <<minted, crashes, faults>>

----------------------------------------------------------------------------
\* Store::compact.

RetainsHistory == Dead(mem.shared) # {}

NotPreCleaned == disk                     \* mutant: strays survive

\* The pre-clean: strays of the next generation, and history objects the
\* manifest does not name.
PreCleaned ==
    [disk EXCEPT
        !.segments = Without(@, {n \in DOMAIN @ : n[1] = mem.generation + 1}),
        !.deletes  = Without(@, {n \in DOMAIN @ : n[1] = mem.generation + 1}),
        !.history  = Without(@, {i \in DOMAIN @ : i >= mem.sections.history})]

StartCompact ==
    /\ pc = "idle"
    /\ mem.generation < MaxGenerations
    /\ \E order \in MergeOrders(mem.shared, Live(mem.shared)) :
          op' = [NoOp EXCEPT !.order = order]
    /\ disk' = PreCleaned
    /\ pc' = IF Live(mem.shared) = {} /\ ~RetainsHistory
             THEN "compact manifest" ELSE "compact"
    /\ UNCHANGED <<mem, then, faults>> /\ UNCHANGED ghosts

\* The next generation in memory, and its objects: one of history if a row
\* died, then the segments, SegmentRows rows each.
NextShared == Compacted(mem.shared, mem.rows, op.order)

NewBases == {b \in 0 .. Len(op.order) - 1 : b % SegmentRows = 0}

NewSegment(base) ==
    [rows |-> SubSeq(NextShared.frozen, base + 1,
                     Min({base + SegmentRows, Len(op.order)})),
     stamped |-> NextShared.diverged]

\* Objects are written in order, op.left of them so far: history first, then
\* segments by base.
HistoryObjects == IF RetainsHistory THEN 1 ELSE 0

NextObject ==
    IF op.left < HistoryObjects
    THEN [disk EXCEPT !.history =
            Publish(@, mem.sections.history,
                    KilledVersions(mem.shared))]
    ELSE LET base == SegmentRows * (op.left - HistoryObjects)
         IN  [disk EXCEPT !.segments =
                Publish(@, <<mem.generation + 1, base>>, NewSegment(base))]

WriteNextGeneration ==
    /\ pc = "compact"
    /\ \E outcome \in Outcomes :
          /\ Wrote(outcome, NextObject)
          /\ UNCHANGED mem
          /\ \/ Abort(outcome)
             \/ /\ outcome = "done"
                /\ op' = [op EXCEPT !.left = @ + 1]
                /\ pc' = IF op.left + 1 = HistoryObjects + Cardinality(NewBases)
                         THEN "compact manifest" ELSE pc
                /\ UNCHANGED <<then, faults>> /\ UNCHANGED ghosts

\* The manifest is the commit point; memory adopts the new generation at
\* once.
CommitCompaction ==
    /\ pc = "compact manifest"
    /\ \E outcome \in Outcomes :
          LET s == NextShared
              sections ==
                [layout   |-> NewBases,
                 diverged |-> s.diverged \/ mem.sections.diverged,
                 next     |-> IF s.diverged THEN s.next ELSE mem.sections.next,
                 history  |-> mem.sections.history + HistoryObjects]
          IN  /\ Wrote(outcome,
                   [disk EXCEPT !.manifest = ManifestOf(mem.generation + 1, sections)])
              /\ \/ UNCHANGED mem /\ Abort(outcome)
                 \/ /\ outcome = "done"
                    /\ mem' = [mem EXCEPT !.generation = @ + 1,
                                          !.sections = sections,
                                          !.shared = s,
                                          !.rows = Len(op.order),
                                          !.deleteLogs = 0]
                    /\ promised' = truth.next
                    /\ pc' = "compact reset"
                    /\ UNCHANGED <<then, op, minted, truth, crashes, faults>>

CompactReset == pc = "compact reset" /\ ResetWal("cleanup")

\* Best-effort removal of the other generations' objects, in the order of
\* the listing, which is none in particular; errors are swallowed.
Cleanup ==
    /\ pc = "cleanup"
    /\ \E stale \in SUBSET {n \in DOMAIN disk.segments : n[1] # mem.generation},
          logs  \in SUBSET {n \in DOMAIN disk.deletes : n[1] # mem.generation} :
          disk' = [disk EXCEPT !.segments = Without(@, stale),
                               !.deletes  = Without(@, logs)]
    /\ pc' = "idle"
    /\ op' = NoOp
    /\ UNCHANGED <<mem, then, faults>> /\ UNCHANGED ghosts

----------------------------------------------------------------------------

Next ==
    \/ Close
    \/ Crash
    \/ OpenLoad
    \/ OpenReplay
    \/ AppendRowOp
    \/ StartFlush
    \/ FlushSegment
    \/ FlushManifest
    \/ FlushReset
    \/ Tombstone
    \/ WriteDeleteLog
    \/ Supersede
    \/ OpenBracket
    \/ AppendReplacement
    \/ SyncReplacements
    \/ CommitSupersession
    \/ StartCompact
    \/ WriteNextGeneration
    \/ CommitCompaction
    \/ CompactReset
    \/ Cleanup

Spec == Init /\ [][Next]_vars

----------------------------------------------------------------------------
\* Properties.

Row == [key : Keys, tag : 1..MaxRows]

(* The variables are well formed, and memory is consistent with itself and *)
(* with what it told its caller whenever no operation is under way: the    *)
(* buffer's base and the row counter agree with the layout, the sections   *)
(* kept in memory are the manifest's, and the next delete log is unused.   *)
TypeOK ==
    /\ pc \in Phases /\ then \in Phases
    /\ crashes \in 0..MaxCrashes /\ faults \in 0..MaxFaults
    /\ minted \in 0..MaxRows
    /\ disk.wal.synced \in 0..Len(disk.wal.entries)
    /\ promised \in 0..truth.next
    /\ pc = "idle" =>
         /\ mem.rows = RowCount(mem.shared)
         /\ mem.shared.base = Len(mem.shared.frozen)
         /\ truth = Told(mem.shared)
         /\ <<mem.generation, mem.deleteLogs>> \notin DOMAIN disk.deletes

\* Every disk a crash at this instant can leave.
AfterCrash ==
    {[disk EXCEPT !.wal.entries = SubSeq(@, 1, kept), !.wal.synced = kept] :
        kept \in disk.wal.synced .. Len(disk.wal.entries)}

(* Crash the writer before or after any write, and the store still opens:  *)
(* the segments the manifest names exist and are contiguous from row id 0, *)
(* and no delete log names a row that was not made durable (the two errors *)
(* of persistent_inner that would lock the caller out of the table).       *)
AlwaysReopens == pc # "refused" /\ \A d \in AfterCrash : ~OpenRefused(d)

\* WAL off, a supersession whose replacements are in segments and whose
\* delete log is not written: documented to leave both versions live.
TornByContract == mem.walSync = "Off" /\ op.total > 0 /\ op.left = 0

Rows(V) == {v.row : v \in V}

(* Whatever instant the crash picks, the rows that come back are those of  *)
(* a prefix of the acknowledged events, a mutation whole or not at all,    *)
(* that contains every event promised durable: with WalSync::Full every    *)
(* acknowledged one, with Group those up to the last sync, with Off those  *)
(* up to the last flush.  As long as no write fails (see ZeroLossWindow).  *)
RecoversPrefix ==
    faults = 0 =>
    \A d \in AfterCrash : \E cut \in promised .. truth.next :
        LET found == Latest(Recovered(d))
            owed  == Rows(Prefix(cut).alive)
        IN  IF TornByContract THEN owed \subseteq found ELSE found = owed

\* A row logged on its own ahead of a supersession's bracket.
PlainRowAheadOfBracket ==
    LET e == disk.wal.entries
        inBracket(i) == \E b \in 1..(i - 1) :
                          e[b].kind = "bracket" /\ i <= b + e[b].count
    IN  \E i, j \in DOMAIN e :
          i < j /\ e[i].kind = "row" /\ ~inBracket(i) /\ e[j].kind = "bracket"

(* And the recovered table is that prefix to the coordinate: every version *)
(* keeps its birth and its kill, history included, and the next event gets *)
(* the coordinate that follows - so AS OF answers survive the crash.  Not  *)
(* claimed where PlainRowAheadOfBracket (see BirthsSurviveReopen).         *)
RecoversCoordinates ==
    PlainRowAheadOfBracket \/ TornByContract \/
    \A d \in AfterCrash : \E cut \in promised .. truth.next :
        Told(Recovered(d)) = Prefix(cut)

(* "A delete log must never name a row that is not yet durable", nor       *)
(* commit ahead of rows that supersede its victims: at every instant a     *)
(* delete log's ids are rows of the layout, and a supersession's delete    *)
(* log finds its replacements in a segment or in the synced log.  After a  *)
(* log reset that failed behind a compaction the log is a stale one.       *)
DeleteLogsCommitLast ==
    faults = 0 =>
    \A n \in DeleteLogs(disk) :
        LET log == disk.deletes[n]
            flushed == {v \in Range(FrozenRows(disk)) : v.born = log.stamp}
            e == disk.wal.entries
        IN  /\ \A id \in log.ids : id < Extent(disk)
            /\ log.superseding =>
                 \/ flushed # {}
                 \/ \E b \in 1..disk.wal.synced :
                      /\ e[b].kind = "bracket" /\ e[b].sequence = log.stamp
                      /\ b + e[b].count <= disk.wal.synced

InBracket == pc \in {"replace", "sync", "commit log"}
                \/ (then = "commit log" /\ pc \in {"flush", "manifest", "reset"})

Readers == INSTANCE SharedStore
            WITH shared   <- mem.shared,
                 rows     <- mem.rows,
                 mutation <- [open     |-> InBracket,
                              sequence |-> IF InBracket THEN op.sequence ELSE 0,
                              victims  |-> IF InBracket THEN op.ids ELSE {},
                              left     |-> IF InBracket THEN op.left ELSE 0],
                 due      <- op.due /\ pc \in {"flush", "manifest"},
                 minted   <- minted,
                 MinReplacements <- 1,
                 WalOff   <- ("Off" \in WalLevels)

(* The mirror in memory: between an open and the next crash, readers of    *)
(* the writing process see the critical sections SharedStore describes and *)
(* nothing else, whatever the writes in between.                           *)
ServesSharedStore ==
    [][pc \notin {"down", "replay"} /\ pc' # "down"
         => Readers!Next \/ UNCHANGED Readers!vars]_<<mem, pc>>

(* The crash half of old-or-new: "replay finding the bracket without it    *)
(* drops the replacements whole", and a delete log that is there - the     *)
(* commit record - finds them.  Whatever the crash leaves, the table that  *)
(* has lost a supersession's victims has its replacements.                 *)
MutationsWhole ==
    \A d \in AfterCrash : \A stamp \in CommittedSupersessions(d) :
        LET t == Told(Recovered(d))
        IN  \E v \in t.alive \cup t.dead : v.born = stamp

(* The comment above the open's watermark fold: rows the log replays take  *)
(* "the same values they had before the crash, since assignment is         *)
(* deterministic in append order".                                         *)
BirthsSurviveReopen ==
    \A d \in AfterCrash : \A v \in AliveVersions(Recovered(d)) :
        \A w \in truth.alive : w.row = v.row => w.born = v.born

(* WalSync::Full: "Sync every append: zero loss window".  A row whose      *)
(* append returned survives a crash at any later instant.                  *)
ZeroLossWindow ==
    mem.walSync = "Full" =>
        \A d \in AfterCrash : \A v \in truth.alive :
            v.born < promised => v.row \in Latest(Recovered(d))
=============================================================================
