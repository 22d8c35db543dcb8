--------------------------- MODULE ReadOnlyStore ---------------------------
(***************************************************************************)
(* A second process that opens the directory of a live writer read-only    *)
(* (storage_lite/store.rs: open_read_only, refresh, load_read_only).  It   *)
(* takes no lock and shares nothing with the writer but the backend; its   *)
(* steps fall between any two of the writer's backend writes.              *)
(*                                                                         *)
(* An open reads the manifest, then lists the objects, then reads the      *)
(* delete logs the listing named.  Objects never change once published, so *)
(* what a listed object holds is what it held when it was listed, unless   *)
(* it is gone by the time it is read: then the open starts over.           *)
(***************************************************************************)
EXTENDS DurableStore

CONSTANT
    Attempts         \* loads one open tries before it gives up

ASSUME AttemptsAssumption == Attempts \in Nat \ {0}

VARIABLE
    reader           \* [at, left, seen, view]
                     \*   at    the load's next step, or "idle"
                     \*   left  attempts left to this open or refresh
                     \*   seen  what the load has read: a disk without a log
                     \*   view  what the handle answers: the rows in force, the
                     \*         superseded ones, the coordinate up to
                     \*         which rows were flushed, whether the
                     \*         manifest recorded the layout, and whether
                     \*         its generation outlasted the load

readerVars == <<reader, vars>>

\* Before the first successful open.
NoView == [rows |-> {}, dead |-> {}, flushed |-> 0,
           recorded |-> FALSE, current |-> TRUE]

\* The objects of the manifest's generation, as a listing shows them.
Listed(objects, manifest) ==
    Without(objects, {n \in DOMAIN objects : n[1] # manifest.generation})

\* Of the segments listed, those the load makes slots for.
ListedSegments(objects, manifest) ==
    LET listed == Listed(objects, manifest)
    IN  IF manifest.layout = {} THEN listed
        ELSE Without(listed, {n \in DOMAIN listed : n[2] \notin manifest.layout})

----------------------------------------------------------------------------

\* The flushed watermark: one past the largest birth in a segment.
Flushed(d) == Max({0} \cup {SequenceEnd(SegmentOf(d, base)) : base \in Layout(d)})

\* mutant: reaching the coordinate counts, not passing it
FlushedUpTo(d, log) == log.superseding => Flushed(d) >= log.stamp

\* A supersession's delete log counts once its replacements are in segments.
Visible(d, log) == log.superseding => Flushed(d) > log.stamp

\* The load's delete logs without those held back.
Settled(d) ==
    [d EXCEPT !.deletes = [n \in {m \in DOMAIN d.deletes : Visible(d, d.deletes[m])}
                              |-> d.deletes[n]]]

\* A kill of a row the layout does not have: the log is newer than it.
AheadOfRows(d) ==
    \E id \in DOMAIN Tombstones(Settled(d)) : id >= Extent(d)

\* What a handle over d answers.
ViewOf(d) ==
    LET s == Loaded(d)
    IN  [rows     |-> Latest(s),
         dead     |-> {v.row : v \in DeadVersions(s)},
         flushed  |-> Max({Flushed(d), d.manifest.next}),
         recorded |-> d.manifest.layout # {},
         current  |-> d.manifest.generation = disk.manifest.generation]

----------------------------------------------------------------------------

ReaderInit ==
    /\ Init
    /\ reader = [at |-> "idle", left |-> 0, seen |-> NewDisk, view |-> NoView]

\* Store::open_read_only, and Store::refresh of an open handle.
BeginLoad ==
    /\ reader.at = "idle"
    /\ reader' = [reader EXCEPT !.at = "manifest", !.left = Attempts]
    /\ UNCHANGED vars

\* load_read_only, first read: the manifest, atomically replaced as a whole.
ReadManifest ==
    /\ reader.at = "manifest"
    /\ reader' = [reader EXCEPT !.at = "list",
                                !.seen.manifest = disk.manifest]
    /\ UNCHANGED vars

\* load_read_only, the listing.
ListObjects ==
    /\ reader.at = "list"
    /\ LET manifest == reader.seen.manifest
       IN  reader' = [reader EXCEPT
                        !.at = "logs",
                        !.seen.segments = ListedSegments(disk.segments, manifest),
                        !.seen.deletes  = Listed(disk.deletes, manifest),
                        !.seen.history  = [i \in 0 .. manifest.history - 1
                                              |-> disk.history[i]]]
    /\ UNCHANGED vars

\* The open fails; a refresh that fails leaves the handle as it was.
Failed == [reader EXCEPT !.at = "idle", !.left = 0, !.seen = NewDisk]

\* mutant: the handle is replaced before the load succeeded
RetriedInPlace ==
    [reader EXCEPT !.at = "idle", !.left = 0, !.seen = NewDisk, !.view = ViewOf(NewDisk)]

\* The load failed with NotFound: again from the manifest, or give up.
Retried ==
    IF reader.left > 1
    THEN [reader EXCEPT !.at = "manifest", !.left = @ - 1, !.seen = NewDisk]
    ELSE Failed

\* Objects the load reads whole that have gone since the listing: the delete
\* logs, and the segments when the layout was listed.  A recorded segment is
\* read when a query first needs it.
Gone ==
    \/ DOMAIN reader.seen.deletes \ DOMAIN disk.deletes # {}
    \/ /\ reader.seen.manifest.layout = {}
       /\ DOMAIN reader.seen.segments \ DOMAIN disk.segments # {}

\* load_read_only, the rest: an object that has gone since the listing may
\* have been read before it went, or not.
FinishLoad ==
    /\ reader.at = "logs"
    /\ LET seen == reader.seen
       IN  \/ /\ Gone \/ ~LayoutPresent(seen)
              /\ reader' = Retried
           \/ /\ LayoutPresent(seen) /\ ~Contiguous(seen)
              /\ reader' = Failed
           \/ /\ LayoutPresent(seen) /\ Contiguous(seen) /\ AheadOfRows(seen)
              /\ reader' = Retried
           \/ /\ LayoutPresent(seen) /\ Contiguous(seen) /\ ~AheadOfRows(seen)
              /\ reader' = [at |-> "idle", left |-> 0, seen |-> NewDisk,
                            view |-> ViewOf(Settled(seen))]
    /\ UNCHANGED vars

Write == Next /\ UNCHANGED reader

ReaderNext ==
    \/ Write
    \/ BeginLoad
    \/ ReadManifest
    \/ ListObjects
    \/ FinishLoad

ReaderSpec == ReaderInit /\ [][ReaderNext]_readerVars

----------------------------------------------------------------------------
\* Properties.

\* The coordinates of the writer's acknowledged events, those that appended
\* rows and, among the rest, the plain deletes.
Events == 0 .. truth.next - 1

Births == {v.born : v \in truth.alive \cup truth.dead}

\* The table as it would be had only the events of E happened.
Outcome(E) ==
    Rows({v \in truth.alive : v.born \in E})
      \cup Rows({v \in truth.dead : v.born \in E /\ v.killed \notin E})

\* The outcome of whole events: every append and supersession up to the
\* flushed coordinate, and some of the deletes.
OldOrNew ==
    LET flushed == {c \in Births : c < reader.view.flushed}
    IN  \E deletes \in SUBSET (Events \ Births) :
            reader.view.rows = Outcome(flushed \cup deletes)

(* Old-or-new per mutation: whatever write of the writer the reader's      *)
(* steps fall between, and whatever crash, it answers with whole events.   *)
(* Not claimed for a load that a compaction overtook (see NeverTorn), nor  *)
(* once a recovery has renumbered the events (see BirthsSurviveReopen).    *)
WholeMutations == reader.at = "idle" /\ reader.view.current => OldOrNew

(* The doc of open_read_only, of every load: what a reader sees "is        *)
(* old-or-new per mutation, never a torn middle"; compaction races retry.  *)
NeverTorn == reader.at = "idle" => OldOrNew

\* What a load would have seen had it read the disk all at once.
AtOnce ==
    [reader.seen EXCEPT
        !.manifest = disk.manifest,
        !.segments = ListedSegments(disk.segments, disk.manifest),
        !.deletes  = Listed(disk.deletes, disk.manifest)]

(* "If this persists with an idle writer, the store has lost that object": *)
(* wherever the writer stops, or crashes, a load that it does not disturb  *)
(* finds every object and no kill ahead of its row.                        *)
LoadsWhenQuiet ==
    LayoutPresent(AtOnce) /\ Contiguous(AtOnce) /\ ~AheadOfRows(AtOnce)

(* A refresh never goes back: what a handle saw superseded it does not     *)
(* answer again.  Not from a layout found by listing, which may be ahead   *)
(* of the next manifest, nor to a load that a compaction overtook.         *)
RefreshKeepsKills ==
    [][reader.view.recorded /\ reader'.view.current
         => reader.view.dead \cap reader'.view.rows = {}]_reader

(* And a row it answered is there or was superseded, also by a refresh     *)
(* that fails or that meets a compaction.                                  *)
RefreshKeepsRows ==
    [][reader.view.recorded =>
         reader.view.rows \subseteq reader'.view.rows \cup reader'.view.dead]_reader
=============================================================================
