---------------------------- MODULE SharedStore ----------------------------
(***************************************************************************)
(* One store as the readers of its process see it: the single writer moves *)
(* the shared state (StoreState) one critical section of its mutex at a    *)
(* time, and a StoreReader may mint a snapshot between any two of them.    *)
(*                                                                         *)
(* A supersession spans several critical sections: one per replacement row *)
(* and one for the victims' tombstones (Store::supersede).  An append or a *)
(* supersession that fills the buffer ends with a flush, which is a        *)
(* section of its own.  Every other operation is a single section.         *)
(*                                                                         *)
(* A row is [key, tag]: its ordering key and an identity, which the        *)
(* program does not have and the properties need to follow a row through   *)
(* renumbering.  minted hands out the identities.                          *)
(***************************************************************************)
EXTENDS StoreState

CONSTANTS
    Keys,            \* the ordering keys rows carry
    SegmentRows,     \* the flush threshold, StoreOptions.segment_rows
    MinReplacements, \* 1 for Table's calls; Store::supersede accepts 0
    MaxReplacements, \* bound: replacement rows of one supersession
    MaxRows,         \* bound: rows ever written
    WalOff           \* the store is persistent without a WAL

ASSUME KeysAssumption == Keys \subseteq Int
ASSUME SegmentRowsAssumption == SegmentRows \in Nat \ {0}
ASSUME BoundsAssumption == {MinReplacements, MaxReplacements, MaxRows} \subseteq Nat
ASSUME WalOffAssumption == WalOff \in BOOLEAN

VARIABLES
    shared,    \* Store.shared, what a snapshot reads
    rows,      \* Store.rows, the writer's row counter
    mutation,  \* the supersession the writer is in the middle of
    due,       \* the flush the writer's operation has yet to end with
    minted     \* rows ever written (identities handed out)

vars == <<shared, rows, mutation, due, minted>>

Row == [key : Keys, tag : 1..MaxRows]

NoMutation == [open |-> FALSE, sequence |-> 0, victims |-> {}, left |-> 0]

Fresh(key) == [key |-> key, tag |-> minted + 1]

Full(s) == Len(s.buffer) >= SegmentRows

\* The writer is between two operations.
Idle == ~mutation.open /\ ~due

----------------------------------------------------------------------------

Init ==
    /\ shared = EmptyShared
    /\ rows = 0
    /\ mutation = NoMutation
    /\ due = FALSE
    /\ minted = 0

\* Store::append.
AppendOne ==
    /\ Idle
    /\ minted < MaxRows
    /\ \E key \in Keys : shared' = AppendRow(shared, Fresh(key))
    /\ rows' = rows + 1
    /\ minted' = minted + 1
    /\ due' = Full(shared')
    /\ UNCHANGED mutation

\* Store::tombstone.  Already-dead ids are ignored; a call that kills
\* nothing changes nothing.
Tombstone ==
    /\ Idle
    /\ \E ids \in SUBSET Ids(shared) :
          LET newly == Newly(shared, ids)
          IN  /\ newly # {}
              /\ shared' = ConsumeSequence(
                              Entomb(shared, newly, Watermark(shared, rows)), rows)
    /\ UNCHANGED <<rows, mutation, due, minted>>

\* Store::supersede, up to the first replacement: the coordinate and the
\* victims not yet dead are read once, and used until the commit.
SupersedeBegin ==
    /\ Idle
    /\ \E victims \in SUBSET Ids(shared),
          count \in MinReplacements..MaxReplacements :
          /\ victims # {}
          /\ count = 0 => Newly(shared, victims) # {}
          /\ minted + count <= MaxRows
          /\ mutation' = [open     |-> TRUE,
                          sequence |-> Watermark(shared, rows),
                          victims  |-> Newly(shared, victims),
                          left     |-> count]
    /\ UNCHANGED <<shared, rows, due, minted>>

\* One replacement row enters the buffer, under a lock of its own.
SupersedeAppend ==
    /\ mutation.open
    /\ mutation.left > 0
    /\ \E key \in Keys :
          shared' = AppendSuperseding(shared, Fresh(key), mutation.sequence, rows)
    /\ rows' = rows + 1
    /\ minted' = minted + 1
    /\ mutation' = [mutation EXCEPT !.left = @ - 1]
    /\ UNCHANGED due

\* The victims die, under another lock; the threshold flush was deferred
\* while the bracket was open.
SupersedeCommit ==
    /\ mutation.open
    /\ mutation.left = 0
    /\ shared' = Entomb(shared, mutation.victims, mutation.sequence)
    /\ mutation' = NoMutation
    /\ due' = Full(shared)
    /\ UNCHANGED <<rows, minted>>

\* Store::flush, where an operation ends with it, called on its own, before
\* a persistent store's tombstone or supersession, or - WAL off - between
\* the replacements and the delete log.
Flush ==
    /\ ~mutation.open \/ (WalOff /\ mutation.left = 0)
    /\ shared.buffer # << >>
    /\ shared' = FlushShared(shared, rows)
    /\ due' = FALSE
    /\ UNCHANGED <<rows, mutation, minted>>

\* Store::compact: row ids are handed out afresh, coordinates never are.
Compact ==
    /\ Idle
    /\ \E order \in MergeOrders(shared, Live(shared)) :
          /\ shared' = Compacted(shared, rows, order)
          /\ rows' = Len(order)
    /\ UNCHANGED <<mutation, due, minted>>

Next ==
    \/ AppendOne
    \/ Tombstone
    \/ SupersedeBegin
    \/ SupersedeAppend
    \/ SupersedeCommit
    \/ Flush
    \/ Compact

Spec == Init /\ [][Next]_vars

----------------------------------------------------------------------------
\* Properties.

(* The shared state is well formed (WellFormed), the writer's own row      *)
(* counter agrees with it - tombstone and as_of address rows through both  *)
(* - and an open supersession's victims are rows still in force.           *)
TypeOK ==
    /\ WellFormed(shared, Row)
    /\ rows = RowCount(shared)
    /\ mutation \in [open : BOOLEAN, sequence : Nat,
                     victims : SUBSET Nat, left : Nat]
    /\ mutation.victims \subseteq Live(shared)
    /\ ~mutation.open => mutation = NoMutation
    /\ due \in BOOLEAN
    /\ due => ~mutation.open /\ Full(shared)
    /\ minted \in 0..MaxRows

(* The watermark is above every coordinate in use, so no later event can   *)
(* join one already spent; a version dies strictly after its birth; and an *)
(* open supersession shares its coordinate with nobody else's event.       *)
CoordinatesOrdered ==
    LET mark == Watermark(shared, rows)
    IN  /\ \A id \in Ids(shared) : Born(shared, id) < mark
        /\ \A id \in Dead(shared) :
              Born(shared, id) < shared.tombs[id] /\ shared.tombs[id] < mark
        /\ \A v \in shared.history : v.born < v.killed /\ v.killed < mark
        /\ mutation.open => mark \in mutation.sequence .. mutation.sequence + 1

(* Rows that share an ordering key are held in the order they were known:  *)
(* compaction sorts by (key, row id) so that ties keep ingest order and    *)
(* "newest version wins" stays meaningful.                                 *)
TiesKeepIngestOrder ==
    \A a, b \in Ids(shared) :
        a < b /\ RowAt(shared, a).key = RowAt(shared, b).key
            => Born(shared, a) <= Born(shared, b)

(* A row is held once: no step loses a row ever written or holds it twice, *)
(* in the live layout, the buffer or history.                              *)
EveryRowHeldOnce ==
    /\ \A tag \in 1..minted :
          \/ \E id \in Ids(shared) : RowAt(shared, id).tag = tag
          \/ \E v \in shared.history : v.row.tag = tag
    /\ \A a, b \in Ids(shared) :
          RowAt(shared, a).tag = RowAt(shared, b).tag => a = b
    /\ \A id \in Ids(shared), v \in shared.history :
          RowAt(shared, id).tag # v.row.tag
    /\ \A v, w \in shared.history : v.row.tag = w.row.tag => v = w

(* Between mutations the table AS OF the last coordinate spent is the      *)
(* latest table, "in every mutation shape" (Store::next_sequence): an      *)
(* event that spent no coordinate of its own would not be addressable.     *)
LatestIsLastSpent ==
    ~mutation.open =>
        AsOf(shared, Watermark(shared, rows) - 1) = Latest(shared)

\* The first coordinate a reader must not rely on yet.
Unsettled == IF mutation.open THEN mutation.sequence ELSE Watermark(shared, rows)

(* What the table answers AS OF a coordinate already spent is fixed        *)
(* forever, through appends, mutations, flushes and the renumbering of a   *)
(* compaction (Store::next_sequence, KnowledgeSnapshot::as_of).            *)
SettledCuts ==
    [][\A cut \in 0..(Unsettled - 1) :
          AsOf(shared, cut)' = AsOf(shared, cut)]_vars

----------------------------------------------------------------------------
\* The abstract table.  The rows of an open supersession do not count yet:
\* it takes effect when its victims die.

Pending(v) == mutation.open /\ v.born = mutation.sequence

Table == INSTANCE Knowledge
         WITH alive <- {v \in AliveVersions(shared) : ~Pending(v)},
              dead  <- DeadVersions(shared),
              next  <- Unsettled

(* The store implements Knowledge: every operation is one ingest event at  *)
(* one coordinate, and everything else the writer does changes nothing.    *)
RefinesKnowledge == Table!Spec

(* DECISIONS.md promises readers "old-or-new per mutation": no snapshot    *)
(* shows a replacement next to the row it supersedes.                      *)
ReadersSeeOldOrNew ==
    mutation.open /\ mutation.victims # {}
        => \A id \in Live(shared) : Born(shared, id) # mutation.sequence
=============================================================================
