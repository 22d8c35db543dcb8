------------------------- MODULE SharedStoreProofs -------------------------
(***************************************************************************)
(* Theorems about SharedStore, for every set of keys, flush threshold,     *)
(* bound and WAL mode, under the contract Table keeps when it calls        *)
(* Store::supersede: at least one replacement row.  TypeCorrect comes      *)
(* first; then the knowledge axis is a total order of events and its past  *)
(* is final (CoordinatesSpentOnce, TiesKept, AnswersSettled); then what    *)
(* the store keeps of its rows (RowsHeldOnce, LatestIsNewest), and that    *)
(* its critical sections implement Knowledge (ImplementsKnowledge).        *)
(***************************************************************************)
EXTENDS SharedStore, StoreLemmas

(* TypeOK is inductive only together with two facts about an open          *)
(* supersession: its replacements were all minted within the bound, and    *)
(* once they are in the buffer the table has diverged (so that the kills   *)
(* that follow are kills of a table with explicit knowledge).              *)
TypeInv ==
    /\ TypeOK
    /\ mutation.open => minted + mutation.left <= MaxRows
    /\ mutation.open /\ mutation.left = 0 => shared.diverged

LEMMA BoundsType == MinReplacements \in Nat /\ MaxReplacements \in Nat /\ MaxRows \in Nat
BY BoundsAssumption

\* A row that still fits the bound is a row of the model.
LEMMA FreshType ==
    ASSUME minted \in Nat, minted < MaxRows, NEW key \in Keys
    PROVE  Fresh(key) \in Row /\ minted + 1 \in 0 .. MaxRows
BY BoundsType DEF Fresh, Row

\* Live ids are row ids.
LEMMA LiveType ==
    ASSUME NEW s, RowCount(s) \in Nat
    PROVE  Live(s) \in SUBSET Nat /\ Live(s) \in SUBSET Ids(s)
BY DEF Live, Ids

LEMMA TypeInit == MinReplacements > 0 /\ Init => TypeInv
<1> SUFFICES ASSUME Init PROVE TypeInv
  OBVIOUS
<1>1. EmptyShared \in SharedFields(EmptyShared, Row)
  <2>1. Dead(EmptyShared) = {}
    BY DEF Dead, EmptyShared
  <2> QED BY <2>1 DEF SharedFields, EmptyShared
<1>2. RowCount(EmptyShared) = 0
  BY DEF RowCount, EmptyShared
<1>3. Shaped(EmptyShared, Row)
  BY <1>1 DEF Shaped, EmptyShared, Dead
<1>4. VirtualIsPlain(EmptyShared)
  BY DEF VirtualIsPlain, EmptyShared, Dead
<1>5. WellFormed(EmptyShared, Row)
  BY <1>3, <1>4 DEF WellFormed
<1>6. /\ NoMutation \in [open : BOOLEAN, sequence : Nat,
                         victims : SUBSET Nat, left : Nat]
      /\ NoMutation.victims = {} /\ ~NoMutation.open
  BY DEF NoMutation
<1>7. /\ shared = EmptyShared /\ rows = 0 /\ mutation = NoMutation
      /\ due = FALSE /\ minted = 0
  BY DEF Init
<1>8. minted \in 0 .. MaxRows
  BY <1>7, BoundsType
<1>9. TypeOK
  BY <1>2, <1>5, <1>6, <1>7, <1>8 DEF TypeOK
<1> QED BY <1>6, <1>7, <1>9 DEF TypeInv

\* Store::append.
LEMMA AppendOneKeeps == TypeInv /\ AppendOne => TypeInv'
<1> SUFFICES ASSUME TypeInv, AppendOne PROVE TypeInv'
  OBVIOUS
<1>1. /\ TypeOK /\ WellFormed(shared, Row) /\ rows = RowCount(shared)
      /\ ~mutation.open /\ mutation = NoMutation
      /\ mutation' = mutation /\ due' = Full(shared') /\ rows' = rows + 1
      /\ minted \in Nat /\ minted < MaxRows /\ minted' = minted + 1
  BY BoundsType DEF TypeInv, TypeOK, AppendOne, Idle
<1>2. PICK key \in Keys : shared' = AppendRow(shared, Fresh(key))
  BY DEF AppendOne
<1>3. Fresh(key) \in Row /\ minted' \in 0 .. MaxRows
  BY <1>1, FreshType
<1>4. WellFormed(shared', Row) /\ rows' = RowCount(shared')
  BY <1>1, <1>2, <1>3, AppendRowKeeps
<1>5. NoMutation.victims = {} /\ ~NoMutation.open
  BY DEF NoMutation
<1>6. due' \in BOOLEAN
  BY <1>1 DEF Full
<1>7. Row' = Row
  BY DEF Row
<1>8. TypeOK'
  BY <1>1, <1>3, <1>4, <1>5, <1>6, <1>7 DEF TypeOK, Full
<1> QED BY <1>1, <1>8 DEF TypeInv

\* Store::tombstone.
LEMMA TombstoneKeeps == TypeInv /\ Tombstone => TypeInv'
<1> SUFFICES ASSUME TypeInv, Tombstone PROVE TypeInv'
  OBVIOUS
<1>1. /\ WellFormed(shared, Row) /\ Shaped(shared, Row) /\ rows = RowCount(shared)
      /\ ~mutation.open /\ mutation = NoMutation /\ due = FALSE
      /\ mutation' = mutation /\ due' = due /\ rows' = rows
      /\ minted' = minted /\ minted \in 0 .. MaxRows
  BY DEF TypeInv, TypeOK, Tombstone, Idle, WellFormed
<1>2. PICK ids \in SUBSET Ids(shared) :
         shared' = ConsumeSequence(Entomb(shared, Newly(shared, ids),
                                          Watermark(shared, rows)), rows)
  BY DEF Tombstone
<1> DEFINE buried == Entomb(shared, Newly(shared, ids), Watermark(shared, rows))
<1>3. Newly(shared, ids) \in SUBSET Ids(shared) /\ Watermark(shared, rows) \in Nat
  BY <1>1, ViewType DEF Newly
<1>4. Shaped(buried, Row) /\ RowCount(buried) = RowCount(shared)
  BY <1>1, <1>3, EntombKeeps, Zenon
<1>5. WellFormed(shared', Row) /\ RowCount(shared') = rows
  BY <1>1, <1>2, <1>4, ConsumeKeeps, Zenon
<1>6. NoMutation.victims = {} /\ ~NoMutation.open
  BY DEF NoMutation
<1>7. TypeOK'
  BY <1>1, <1>5, <1>6 DEF TypeOK, TypeInv, Row
<1> QED BY <1>1, <1>6, <1>7 DEF TypeInv

\* Store::supersede, opening: at least one replacement is to come.
LEMMA SupersedeBeginKeeps ==
    MinReplacements > 0 /\ TypeInv /\ SupersedeBegin => TypeInv'
<1> SUFFICES ASSUME MinReplacements > 0, TypeInv, SupersedeBegin PROVE TypeInv'
  OBVIOUS
<1>1. /\ TypeOK /\ WellFormed(shared, Row) /\ Shaped(shared, Row)
      /\ rows = RowCount(shared) /\ due = FALSE
      /\ shared' = shared /\ rows' = rows /\ due' = due /\ minted' = minted
  BY DEF TypeInv, TypeOK, SupersedeBegin, Idle, WellFormed
<1>2. PICK victims \in SUBSET Ids(shared), count \in MinReplacements .. MaxReplacements :
         /\ minted + count <= MaxRows
         /\ mutation' = [open     |-> TRUE,
                         sequence |-> Watermark(shared, rows),
                         victims  |-> Newly(shared, victims),
                         left     |-> count]
  BY DEF SupersedeBegin
<1>3. count \in Nat /\ count > 0
  BY BoundsType
<1>4. /\ Newly(shared, victims) \in SUBSET Live(shared)
      /\ Live(shared) \in SUBSET Nat
      /\ Watermark(shared, rows) \in Nat
  BY <1>1, ViewType, LiveType, FieldTypes DEF Newly, Live
<1>5. /\ mutation' \in [open : BOOLEAN, sequence : Nat,
                        victims : SUBSET Nat, left : Nat]
      /\ mutation'.victims \in SUBSET Live(shared)
      /\ mutation'.open /\ mutation'.left = count
  BY <1>2, <1>3, <1>4
<1>6. TypeOK'
  BY <1>1, <1>5 DEF TypeOK, Row
<1> QED BY <1>1, <1>2, <1>3, <1>5, <1>6 DEF TypeInv

\* Store::supersede, one replacement: its victims stay live meanwhile.
LEMMA SupersedeAppendKeeps == TypeInv /\ SupersedeAppend => TypeInv'
<1> SUFFICES ASSUME TypeInv, SupersedeAppend PROVE TypeInv'
  OBVIOUS
<1>1. /\ TypeOK /\ WellFormed(shared, Row) /\ Shaped(shared, Row)
      /\ rows = RowCount(shared) /\ rows' = rows + 1
      /\ mutation.open /\ due = FALSE /\ due' = due
      /\ mutation \in [open : BOOLEAN, sequence : Nat,
                       victims : SUBSET Nat, left : Nat]
      /\ mutation.victims \subseteq Live(shared)
  BY DEF TypeInv, TypeOK, SupersedeAppend, WellFormed
<1>2. PICK key \in Keys :
         shared' = AppendSuperseding(shared, Fresh(key), mutation.sequence, rows)
  BY DEF SupersedeAppend
<1>3. /\ mutation.left \in Nat /\ mutation.left > 0
      /\ mutation.sequence \in Nat
      /\ mutation' = [mutation EXCEPT !.left = @ - 1]
      /\ minted \in Nat /\ minted' = minted + 1
      /\ minted + mutation.left <= MaxRows
  BY <1>1 DEF TypeInv, TypeOK, SupersedeAppend
<1>4. Fresh(key) \in Row /\ minted' \in 0 .. MaxRows
  <2>1. minted < MaxRows
    BY <1>3, BoundsType
  <2> QED BY <1>3, <2>1, FreshType
<1>5. /\ WellFormed(shared', Row) /\ shared'.diverged
      /\ RowCount(shared') = rows' /\ Dead(shared') = Dead(shared)
  <2> DEFINE t == AppendSuperseding(shared, Fresh(key), mutation.sequence, rows)
  <2>1. /\ WellFormed(t, Row) /\ t.diverged
        /\ RowCount(t) = RowCount(shared) + 1 /\ Dead(t) = Dead(shared)
    <3>1. /\ Shaped(shared, Row) /\ rows = RowCount(shared)
          /\ Fresh(key) \in Row /\ mutation.sequence \in Nat
      BY <1>1, <1>3, <1>4
    <3> QED BY <3>1, AppendSupersedingKeeps
  <2> QED BY <2>1, <1>1, <1>2, Zenon
<1>6. Live(shared) \subseteq Live(shared')
  <2>1. \A n \in Nat : 0 .. n - 1 \subseteq 0 .. (n + 1) - 1
    OBVIOUS
  <2>2. RowCount(shared) \in Nat /\ RowCount(shared') = RowCount(shared) + 1
    BY <1>1, <1>5, FieldTypes, Zenon
  <2>3. Ids(shared) \subseteq Ids(shared')
    BY <2>1, <2>2, Zenon DEF Ids
  <2> QED BY <2>3, <1>5, Zenon DEF Live
<1>7. /\ mutation' \in [open : BOOLEAN, sequence : Nat,
                        victims : SUBSET Nat, left : Nat]
      /\ mutation'.open /\ mutation'.victims = mutation.victims
      /\ mutation'.left = mutation.left - 1
  BY <1>1, <1>3
<1>8. minted' + mutation'.left <= MaxRows
  BY <1>3, <1>7, BoundsType
<1>9. TypeOK'
  BY <1>1, <1>4, <1>5, <1>6, <1>7 DEF TypeOK, Row
<1> QED BY <1>5, <1>8, <1>9 DEF TypeInv

\* Store::supersede, the victims' kills.
LEMMA SupersedeCommitKeeps == TypeInv /\ SupersedeCommit => TypeInv'
<1> SUFFICES ASSUME TypeInv, SupersedeCommit PROVE TypeInv'
  OBVIOUS
<1>1. /\ TypeOK /\ WellFormed(shared, Row) /\ Shaped(shared, Row)
      /\ rows = RowCount(shared) /\ rows' = rows /\ minted' = minted
      /\ mutation.victims \subseteq Live(shared) /\ mutation.sequence \in Nat
      /\ shared.diverged /\ mutation' = NoMutation /\ due' = Full(shared)
      /\ shared' = Entomb(shared, mutation.victims, mutation.sequence)
  BY DEF TypeInv, TypeOK, SupersedeCommit, WellFormed
<1>2. mutation.victims \in SUBSET Ids(shared)
  BY <1>1 DEF Live
<1>3. /\ Shaped(shared', Row) /\ shared'.diverged = shared.diverged
      /\ shared'.buffer = shared.buffer /\ RowCount(shared') = RowCount(shared)
  <2> DEFINE t == Entomb(shared, mutation.victims, mutation.sequence)
  <2>1. /\ Shaped(t, Row) /\ t.diverged = shared.diverged
        /\ t.buffer = shared.buffer /\ RowCount(t) = RowCount(shared)
    BY <1>1, <1>2, EntombKeeps
  <2> QED BY <2>1, <1>1, Zenon
<1>4. WellFormed(shared', Row)
  BY <1>1, <1>3, Zenon DEF WellFormed, VirtualIsPlain
<1>5. Full(shared') = Full(shared) /\ due' \in BOOLEAN
  BY <1>1, <1>3 DEF Full
<1>6. /\ NoMutation \in [open : BOOLEAN, sequence : Nat,
                         victims : SUBSET Nat, left : Nat]
      /\ NoMutation.victims = {} /\ ~NoMutation.open
  BY DEF NoMutation
<1>7. TypeOK'
  BY <1>1, <1>3, <1>4, <1>5, <1>6 DEF TypeOK, Full, Row
<1> QED BY <1>1, <1>6, <1>7 DEF TypeInv

\* Store::flush.
LEMMA FlushActionKeeps == TypeInv /\ Flush => TypeInv'
<1> SUFFICES ASSUME TypeInv, Flush PROVE TypeInv'
  OBVIOUS
<1>1. /\ TypeOK /\ WellFormed(shared, Row) /\ Shaped(shared, Row)
      /\ rows = RowCount(shared) /\ rows' = rows /\ minted' = minted
      /\ mutation' = mutation /\ due' = FALSE
      /\ shared' = FlushShared(shared, rows)
  BY DEF TypeInv, TypeOK, Flush, WellFormed
<1>2. /\ WellFormed(shared', Row) /\ shared'.diverged = shared.diverged
      /\ RowCount(shared') = RowCount(shared) /\ Dead(shared') = Dead(shared)
  <2> DEFINE t == FlushShared(shared, rows)
  <2>1. /\ WellFormed(t, Row) /\ t.diverged = shared.diverged
        /\ RowCount(t) = RowCount(shared) /\ Dead(t) = Dead(shared)
    BY <1>1, FlushKeeps
  <2> QED BY <2>1, <1>1, Zenon
<1>3. Live(shared') = Live(shared)
  BY <1>2, Zenon DEF Live, Ids
<1>4. TypeOK'
  BY <1>1, <1>2, <1>3 DEF TypeOK, Row
<1> QED BY <1>1, <1>2, <1>4 DEF TypeInv

\* Store::compact.
LEMMA CompactActionKeeps == TypeInv /\ Compact => TypeInv'
<1> SUFFICES ASSUME TypeInv, Compact PROVE TypeInv'
  OBVIOUS
<1>1. /\ TypeOK /\ WellFormed(shared, Row) /\ rows = RowCount(shared)
      /\ ~mutation.open /\ mutation = NoMutation /\ due = FALSE
      /\ mutation' = mutation /\ due' = due /\ minted' = minted
  BY DEF TypeInv, TypeOK, Compact, Idle
<1>2. PICK order \in MergeOrders(shared, Live(shared)) :
         shared' = Compacted(shared, rows, order) /\ rows' = Len(order)
  BY DEF Compact
<1>3. WellFormed(shared', Row) /\ RowCount(shared') = rows'
  <2> DEFINE t == Compacted(shared, rows, order)
  <2>1. WellFormed(t, Row) /\ RowCount(t) = Len(order)
    BY <1>1, CompactedKeeps
  <2> QED BY <2>1, <1>2, Zenon
<1>4. NoMutation.victims = {} /\ ~NoMutation.open
  BY DEF NoMutation
<1>5. TypeOK'
  BY <1>1, <1>3, <1>4 DEF TypeOK, Row
<1> QED BY <1>1, <1>4, <1>5 DEF TypeInv

LEMMA TypeInvInductive ==
    ASSUME MinReplacements > 0
    PROVE  Spec => []TypeInv
<1>1. Init => TypeInv
  BY TypeInit
<1>2. TypeInv /\ [Next]_vars => TypeInv'
  <2> SUFFICES ASSUME TypeInv, [Next]_vars PROVE TypeInv'
    OBVIOUS
  <2>1. CASE UNCHANGED vars
    BY <2>1 DEF vars, TypeInv, TypeOK, Row
  <2>2. CASE Next
    BY <2>2, AppendOneKeeps, TombstoneKeeps, SupersedeBeginKeeps,
       SupersedeAppendKeeps, SupersedeCommitKeeps, FlushActionKeeps,
       CompactActionKeeps DEF Next
  <2> QED BY <2>1, <2>2
<1> QED BY <1>1, <1>2, PTL DEF Spec

(* The state of every store is well formed between any two critical        *)
(* sections, and the writer's row counter agrees with it: as long as       *)
(* supersessions carry a replacement, no order of appends, mutations,      *)
(* flushes and compactions corrupts what a snapshot is minted from.        *)
THEOREM TypeCorrect ==
    ASSUME MinReplacements > 0
    PROVE  Spec => []TypeOK
<1>1. TypeInv => TypeOK
  BY DEF TypeInv
<1> QED BY <1>1, TypeInvInductive, PTL
----------------------------------------------------------------------------
\* The knowledge axis.

\* Everything known in s was known before the coordinate mark, and nothing
\* died before it was born.
KnownBefore(s, mark) ==
    /\ \A id \in Ids(s) : Born(s, id) < mark
    /\ \A id \in Dead(s) : Born(s, id) < s.tombs[id] /\ s.tombs[id] < mark
    /\ \A v \in s.history : v.born < v.killed /\ v.killed < mark

\* Rows with one ordering key are in the order of their births.
TiesInOrder(s) ==
    \A a, b \in Ids(s) :
        a < b /\ RowAt(s, a).key = RowAt(s, b).key => Born(s, a) <= Born(s, b)

(* The inductive invariant.  An open supersession's coordinate is the      *)
(* watermark until its first replacement and the one before it from then   *)
(* on; in between nothing else may take it.  Its victims were born before. *)
OrderInv ==
    /\ TypeInv
    /\ KnownBefore(shared, Watermark(shared, rows))
    /\ TiesInOrder(shared)
    /\ mutation.open =>
         /\ Watermark(shared, rows) \in mutation.sequence .. mutation.sequence + 1
         /\ mutation.left = 0 => Watermark(shared, rows) = mutation.sequence + 1
         /\ \A id \in mutation.victims : Born(shared, id) < mutation.sequence

----------------------------------------------------------------------------
\* Facts about the operators' views.

\* Kills and retained versions carry coordinates.
LEMMA KillTypes ==
    ASSUME NEW R, NEW s, Shaped(s, R)
    PROVE  /\ \A id \in Dead(s) : id \in Ids(s) /\ s.tombs[id] \in Nat
           /\ \A v \in s.history : v.born \in Nat /\ v.killed \in Nat
<1>1. s.tombs \in [Dead(s) -> Nat] /\ Dead(s) \subseteq Ids(s)
  BY FieldTypes DEF Shaped
<1>2. s.history \in SUBSET [row : R, born : Nat, killed : Nat]
  BY FieldTypes
<1>3. \A v \in s.history : v.born \in Nat /\ v.killed \in Nat
  BY <1>2
<1> QED BY <1>1, <1>3

\* The same rows and kills under the same or a later watermark.
LEMMA SameKnown ==
    ASSUME NEW R, NEW s, Shaped(s, R), NEW t, SameView(s, t),
           RowCount(t) = RowCount(s), t.tombs = s.tombs, t.history = s.history,
           NEW mark \in Nat, KnownBefore(s, mark), TiesInOrder(s)
    PROVE  /\ \A later \in Nat : mark <= later => KnownBefore(t, later)
           /\ TiesInOrder(t)
<1>1. Ids(t) = Ids(s) /\ Dead(t) = Dead(s)
  BY Zenon DEF Ids, Dead
<1>2. \A id \in Ids(s) : RowAt(t, id) = RowAt(s, id) /\ Born(t, id) = Born(s, id)
  BY DEF SameView
<1>3. TiesInOrder(t)
  <2> SUFFICES ASSUME NEW a \in Ids(s), NEW b \in Ids(s), a < b,
                      RowAt(t, a).key = RowAt(t, b).key
               PROVE  Born(t, a) <= Born(t, b)
    BY <1>1 DEF TiesInOrder
  <2> QED BY <1>2 DEF TiesInOrder
<1>4. ASSUME NEW later \in Nat, mark <= later
      PROVE  KnownBefore(t, later)
  <2>1. \A id \in Ids(t) : Born(t, id) < later
    <3> SUFFICES ASSUME NEW id \in Ids(s) PROVE Born(t, id) < later
      BY <1>1
    <3>1. Born(s, id) \in Nat /\ Born(s, id) < mark /\ Born(t, id) = Born(s, id)
      BY <1>2, ViewType DEF KnownBefore
    <3> QED BY <1>4, <3>1
  <2>2. \A id \in Dead(t) : Born(t, id) < t.tombs[id] /\ t.tombs[id] < later
    <3> SUFFICES ASSUME NEW id \in Dead(s)
                 PROVE  Born(t, id) < t.tombs[id] /\ t.tombs[id] < later
      BY <1>1
    <3>1. id \in Ids(s) /\ s.tombs[id] \in Nat
      BY KillTypes
    <3>2. /\ Born(s, id) < s.tombs[id] /\ s.tombs[id] < mark
          /\ Born(t, id) = Born(s, id)
      BY <1>2, <3>1 DEF KnownBefore
    <3> QED BY <1>4, <3>1, <3>2
  <2>3. \A v \in t.history : v.born < v.killed /\ v.killed < later
    <3> SUFFICES ASSUME NEW v \in s.history
                 PROVE  v.born < v.killed /\ v.killed < later
      OBVIOUS
    <3>1. v.killed \in Nat /\ v.born < v.killed /\ v.killed < mark
      BY KillTypes DEF KnownBefore
    <3> QED BY <1>4, <3>1
  <2> QED BY <2>1, <2>2, <2>3 DEF KnownBefore
<1> QED BY <1>3, <1>4

\* One more row, born no earlier than any other.
LEMMA GrownKnown ==
    ASSUME NEW R, NEW s, Shaped(s, R), NEW t, SameView(s, t),
           RowCount(t) = RowCount(s) + 1, t.tombs = s.tombs, t.history = s.history,
           NEW mark \in Nat, KnownBefore(s, mark), TiesInOrder(s),
           NEW birth \in Nat, Born(t, RowCount(s)) = birth,
           mark <= birth + 1,
           NEW later \in Nat, mark <= later, birth < later
    PROVE  KnownBefore(t, later) /\ TiesInOrder(t)
<1> DEFINE last == RowCount(s)
<1>1. last \in Nat
  BY FieldTypes
<1>2. Dead(t) = Dead(s)
  BY Zenon DEF Dead
<1>3. \A id \in Ids(t) : id \in Ids(s) \/ id = last
  BY <1>1 DEF Ids
<1>4. \A id \in Ids(s) :
         /\ RowAt(t, id) = RowAt(s, id) /\ Born(t, id) = Born(s, id)
         /\ Born(s, id) \in Nat /\ Born(s, id) < mark
  BY ViewType DEF SameView, KnownBefore
<1>5. \A id \in Ids(s) : id < last
  BY <1>1 DEF Ids
<1>6. \A id \in Ids(t) : Born(t, id) < later /\ Born(t, id) <= birth
  <2> SUFFICES ASSUME NEW id \in Ids(t)
               PROVE  Born(t, id) < later /\ Born(t, id) <= birth
    OBVIOUS
  <2>1. CASE id \in Ids(s)
    <3>1. Born(t, id) \in Nat /\ Born(t, id) < mark
      BY <1>4, <2>1
    <3> QED BY <3>1
  <2>2. CASE id = last
    BY <2>2
  <2> QED BY <1>3, <2>1, <2>2
<1>7. \A id \in Dead(t) : Born(t, id) < t.tombs[id] /\ t.tombs[id] < later
  <2> SUFFICES ASSUME NEW id \in Dead(s)
               PROVE  Born(t, id) < t.tombs[id] /\ t.tombs[id] < later
    BY <1>2
  <2>1. id \in Ids(s) /\ s.tombs[id] \in Nat
    BY KillTypes
  <2>2. Born(s, id) < s.tombs[id] /\ s.tombs[id] < mark /\ Born(t, id) = Born(s, id)
    BY <1>4, <2>1 DEF KnownBefore
  <2> QED BY <2>1, <2>2
<1>8. \A v \in t.history : v.born < v.killed /\ v.killed < later
  <2> SUFFICES ASSUME NEW v \in s.history
               PROVE  v.born < v.killed /\ v.killed < later
    OBVIOUS
  <2>1. v.killed \in Nat /\ v.born < v.killed /\ v.killed < mark
    BY KillTypes DEF KnownBefore
  <2> QED BY <2>1
<1>9. TiesInOrder(t)
  <2> SUFFICES ASSUME NEW a \in Ids(t), NEW b \in Ids(t), a < b,
                      RowAt(t, a).key = RowAt(t, b).key
               PROVE  Born(t, a) <= Born(t, b)
    BY DEF TiesInOrder
  <2>1. CASE b = last
    BY <1>6, <2>1
  <2>2. CASE b \in Ids(s)
    <3>1. a \in Ids(s)
      <4>1. b < last /\ b \in Int
        BY <1>5, <2>2 DEF Ids
      <4>2. a # last
        BY <1>1, <4>1
      <4> QED BY <1>3, <4>2
    <3> QED BY <1>4, <2>2, <3>1 DEF TiesInOrder
  <2> QED BY <1>3, <2>1, <2>2
<1> QED BY <1>6, <1>7, <1>8, <1>9 DEF KnownBefore

\* Rows die at a coordinate above all their births and below the mark.
LEMMA EntombKnown ==
    ASSUME NEW R, NEW s, Shaped(s, R), NEW ids \in SUBSET Ids(s), NEW stamp \in Nat,
           NEW mark \in Nat, KnownBefore(s, mark), TiesInOrder(s),
           \A id \in ids : Born(s, id) < stamp,
           NEW later \in Nat, mark <= later, stamp < later
    PROVE  LET t == Entomb(s, ids, stamp)
           IN  KnownBefore(t, later) /\ TiesInOrder(t)
<1> DEFINE t == Entomb(s, ids, stamp)
<1>1. /\ SameView(s, t) /\ RowCount(t) = RowCount(s)
      /\ Dead(t) = Dead(s) \cup ids /\ t.history = s.history
      /\ t.tombs = [id \in Dead(s) \cup ids |->
                      IF id \in ids THEN stamp ELSE s.tombs[id]]
  BY EntombView, EntombKeeps
<1> HIDE DEF t
<1>2. Ids(t) = Ids(s)
  BY <1>1, Zenon DEF Ids
<1>3. \A id \in Ids(s) :
         /\ RowAt(t, id) = RowAt(s, id) /\ Born(t, id) = Born(s, id)
         /\ Born(s, id) \in Nat /\ Born(s, id) < mark
  BY <1>1, ViewType DEF SameView, KnownBefore
<1>4. \A id \in Ids(t) : Born(t, id) < later
  BY <1>2, <1>3
<1>5. \A id \in Dead(t) : Born(t, id) < t.tombs[id] /\ t.tombs[id] < later
  <2> SUFFICES ASSUME NEW id \in Dead(s) \cup ids
               PROVE  Born(t, id) < t.tombs[id] /\ t.tombs[id] < later
    BY <1>1
  <2>1. CASE id \in ids
    <3>1. t.tombs[id] = stamp /\ Born(t, id) = Born(s, id) /\ Born(s, id) < stamp
      BY <1>1, <1>3, <2>1
    <3> QED BY <3>1
  <2>2. CASE id \notin ids
    <3>1. id \in Dead(s) /\ id \in Ids(s) /\ s.tombs[id] \in Nat
      BY <2>2, KillTypes
    <3>2. t.tombs[id] = s.tombs[id]
      BY <1>1, <2>2, <3>1
    <3>3. Born(s, id) < s.tombs[id] /\ s.tombs[id] < mark /\ Born(t, id) = Born(s, id)
      BY <1>3, <3>1 DEF KnownBefore
    <3> QED BY <3>1, <3>2, <3>3
  <2> QED BY <2>1, <2>2
<1>6. \A v \in t.history : v.born < v.killed /\ v.killed < later
  <2> SUFFICES ASSUME NEW v \in s.history
               PROVE  v.born < v.killed /\ v.killed < later
    BY <1>1
  <2>1. v.killed \in Nat /\ v.born < v.killed /\ v.killed < mark
    BY KillTypes DEF KnownBefore
  <2> QED BY <2>1
<1>7. TiesInOrder(t)
  <2> SUFFICES ASSUME NEW a \in Ids(s), NEW b \in Ids(s), a < b,
                      RowAt(t, a).key = RowAt(t, b).key
               PROVE  Born(t, a) <= Born(t, b)
    BY <1>2 DEF TiesInOrder
  <2> QED BY <1>3 DEF TiesInOrder
<1> QED BY <1>4, <1>5, <1>6, <1>7 DEF KnownBefore, t

\* A kill alone spends nothing.
LEMMA EntombMark ==
    ASSUME NEW R, NEW s, Shaped(s, R), NEW ids \in SUBSET Ids(s), NEW stamp \in Nat,
           NEW count
    PROVE  Watermark(Entomb(s, ids, stamp), count) = Watermark(s, count)
<1>1. s \in SharedFields(s, R)
  BY DEF Shaped
<1> QED BY <1>1 DEF Entomb, Watermark, SharedFields

\* A merge by (ordering key, row id) keeps ties as they were.
LEMMA CompactedKnown ==
    ASSUME NEW s, WellFormed(s, Row),
           NEW order \in MergeOrders(s, Live(s)),
           NEW mark \in Nat, KnownBefore(s, mark), TiesInOrder(s)
    PROVE  LET t == Compacted(s, RowCount(s), order)
           IN  KnownBefore(t, mark) /\ TiesInOrder(t)
<1> DEFINE t == Compacted(s, RowCount(s), order)
           n == Len(order)
<1>1. Shaped(s, Row)
  BY DEF WellFormed
<1>2. /\ \A id \in Ids(t) : /\ id + 1 \in 1 .. n
                            /\ RowAt(t, id) = RowAt(s, order[id + 1])
                            /\ Born(t, id) = Born(s, order[id + 1])
      /\ Dead(t) = {} /\ t.history = Retained(s)
  BY CompactedView
<1>3. /\ \A i \in 1 .. n : order[i] \in Ids(s)
      /\ \A i, j \in 1 .. n : i < j => Precedes(s, order[i], order[j])
  BY <1>1, MergeOrderIndex
<1> HIDE DEF t, n
<1>4. \A id \in Ids(t) : Born(t, id) < mark
  BY <1>2, <1>3 DEF KnownBefore
<1>5. \A v \in t.history : v.born < v.killed /\ v.killed < mark
  <2> SUFFICES ASSUME NEW v \in Retained(s)
               PROVE  v.born < v.killed /\ v.killed < mark
    BY <1>2
  <2>1. CASE v \in s.history
    BY <2>1 DEF KnownBefore
  <2>2. CASE v \in KilledVersions(s)
    <3>1. PICK id \in Dead(s) :
             v = [row |-> RowAt(s, id), born |-> Born(s, id), killed |-> s.tombs[id]]
      BY <2>2 DEF KilledVersions
    <3>2. Born(s, id) < s.tombs[id] /\ s.tombs[id] < mark
      BY DEF KnownBefore
    <3> QED BY <3>1, <3>2
  <2> QED BY <2>1, <2>2 DEF Retained, DeadVersions
<1>6. TiesInOrder(t)
  <2> SUFFICES ASSUME NEW a \in Ids(t), NEW b \in Ids(t), a < b,
                      RowAt(t, a).key = RowAt(t, b).key
               PROVE  Born(t, a) <= Born(t, b)
    BY DEF TiesInOrder
  <2> DEFINE p == order[a + 1]
             q == order[b + 1]
  <2>1. /\ p \in Ids(s) /\ q \in Ids(s) /\ Precedes(s, p, q)
        /\ RowAt(s, p).key = RowAt(s, q).key
        /\ Born(t, a) = Born(s, p) /\ Born(t, b) = Born(s, q)
    <3>1. a + 1 < b + 1
      BY DEF Ids
    <3>2. a + 1 \in 1 .. n /\ b + 1 \in 1 .. n
      BY <1>2
    <3>3. Precedes(s, p, q)
      BY <1>3, <3>1, <3>2, Zenon
    <3> QED BY <1>2, <1>3, <3>2, <3>3
  <2> HIDE DEF p, q
  <2>2. RowAt(s, p).key \in Int
    <3>1. RowAt(s, p) \in Row
      BY <1>1, <2>1, ViewType, Zenon
    <3> QED BY <3>1, KeysAssumption DEF Row
  <2>3. p < q
    BY <2>1, <2>2 DEF Precedes
  <2> QED BY <2>1, <2>3 DEF TiesInOrder
<1>7. \A id \in Dead(t) : Born(t, id) < t.tombs[id] /\ t.tombs[id] < mark
  BY <1>2
<1> QED BY <1>4, <1>5, <1>6, <1>7, Zenon DEF KnownBefore, t

----------------------------------------------------------------------------
\* The actions.

LEMMA OrderInit == MinReplacements > 0 /\ Init => OrderInv
<1> SUFFICES ASSUME MinReplacements > 0, Init PROVE OrderInv
  OBVIOUS
<1>1. TypeInv
  BY TypeInit
<1>2. shared = EmptyShared /\ rows = 0 /\ mutation = NoMutation
  BY DEF Init
<1>3. /\ Ids(shared) = {} /\ Dead(shared) = {} /\ shared.history = {}
      /\ ~mutation.open
  BY <1>2 DEF Ids, RowCount, Dead, EmptyShared, NoMutation
<1> QED BY <1>1, <1>3 DEF OrderInv, KnownBefore, TiesInOrder

\* Store::append spends the watermark on its row.
LEMMA AppendOneOrders == OrderInv /\ AppendOne => OrderInv'
<1> SUFFICES ASSUME OrderInv, AppendOne PROVE OrderInv'
  OBVIOUS
<1>1. /\ TypeInv /\ WellFormed(shared, Row) /\ Shaped(shared, Row)
      /\ rows = RowCount(shared) /\ rows' = rows + 1
      /\ ~mutation.open /\ mutation' = mutation
      /\ minted \in Nat /\ minted < MaxRows
      /\ KnownBefore(shared, Watermark(shared, rows)) /\ TiesInOrder(shared)
  BY BoundsType DEF OrderInv, TypeInv, TypeOK, AppendOne, Idle, WellFormed
<1>2. PICK key \in Keys : shared' = AppendRow(shared, Fresh(key))
  BY DEF AppendOne
<1>3. Fresh(key) \in Row
  BY <1>1, FreshType
<1>4. TypeInv'
  BY <1>1, AppendOneKeeps
<1>5. RowCount(shared') = RowCount(shared) + 1
  BY <1>1, <1>4 DEF TypeInv, TypeOK
<1>6. /\ SameView(shared, shared')
      /\ Born(shared', RowCount(shared)) = Watermark(shared, rows)
      /\ Watermark(shared', rows') = Watermark(shared, rows) + 1
      /\ shared'.tombs = shared.tombs /\ shared'.history = shared.history
  BY <1>1, <1>2, <1>3, AppendRowView
<1>7. Watermark(shared, rows) \in Nat
  BY <1>1, ViewType
<1>8. KnownBefore(shared', Watermark(shared', rows')) /\ TiesInOrder(shared')
  <2> DEFINE mark == Watermark(shared, rows)
  <2>1. mark \in Nat /\ mark + 1 \in Nat /\ mark <= mark + 1 /\ mark < mark + 1
    BY <1>7
  <2> QED BY <1>1, <1>5, <1>6, <2>1, GrownKnown
<1> QED BY <1>1, <1>4, <1>8 DEF OrderInv

\* Store::tombstone spends the watermark on the kill.
LEMMA TombstoneOrders == OrderInv /\ Tombstone => OrderInv'
<1> SUFFICES ASSUME OrderInv, Tombstone PROVE OrderInv'
  OBVIOUS
<1>1. /\ TypeInv /\ WellFormed(shared, Row) /\ Shaped(shared, Row)
      /\ rows = RowCount(shared) /\ rows' = rows
      /\ ~mutation.open /\ mutation' = mutation
      /\ KnownBefore(shared, Watermark(shared, rows)) /\ TiesInOrder(shared)
  BY DEF OrderInv, TypeInv, TypeOK, Tombstone, Idle, WellFormed
<1>2. PICK ids \in SUBSET Ids(shared) :
         shared' = ConsumeSequence(Entomb(shared, Newly(shared, ids),
                                          Watermark(shared, rows)), rows)
  BY DEF Tombstone
<1> DEFINE mark   == Watermark(shared, rows)
           newly  == Newly(shared, ids)
           buried == Entomb(shared, newly, mark)
<1>3. newly \in SUBSET Ids(shared) /\ mark \in Nat
  BY <1>1, ViewType DEF Newly
<1>4. mark + 1 \in Nat /\ mark <= mark + 1 /\ mark < mark + 1
  BY <1>3
<1>5. \A id \in newly : Born(shared, id) < mark
  BY <1>1, <1>3 DEF KnownBefore
<1>6. TypeInv'
  BY <1>1, TombstoneKeeps
<1>7. /\ Shaped(buried, Row) /\ RowCount(buried) = RowCount(shared)
      /\ Watermark(buried, rows) = mark
  <2> HIDE DEF newly, mark
  <2>1. Shaped(buried, Row) /\ RowCount(buried) = RowCount(shared)
    BY <1>1, <1>3, EntombKeeps
  <2>2. Watermark(buried, rows) = Watermark(shared, rows)
    BY <1>1, <1>3, EntombMark
  <2> QED BY <2>1, <2>2 DEF mark
<1>8. KnownBefore(buried, mark + 1) /\ TiesInOrder(buried)
  <2> HIDE DEF newly
  <2> QED BY <1>1, <1>3, <1>4, <1>5, EntombKnown
<1> HIDE DEF buried
<1>9. /\ SameView(buried, shared')
      /\ Watermark(shared', rows) = Watermark(buried, rows) + 1
      /\ shared'.tombs = buried.tombs /\ shared'.history = buried.history
  BY <1>1, <1>2, <1>7, ConsumeView DEF buried
<1>10. RowCount(shared') = RowCount(buried)
  BY <1>1, <1>6, <1>7 DEF TypeInv, TypeOK
<1>11. KnownBefore(shared', mark + 1) /\ TiesInOrder(shared')
  <2> HIDE DEF mark, newly
  <2> QED BY <1>4, <1>7, <1>8, <1>9, <1>10, SameKnown
<1>12. Watermark(shared', rows') = mark + 1
  BY <1>1, <1>7, <1>9
<1> QED BY <1>1, <1>6, <1>11, <1>12 DEF OrderInv

\* Store::supersede opens at the watermark: its victims were born before.
LEMMA SupersedeBeginOrders ==
    MinReplacements > 0 /\ OrderInv /\ SupersedeBegin => OrderInv'
<1> SUFFICES ASSUME MinReplacements > 0, OrderInv, SupersedeBegin PROVE OrderInv'
  OBVIOUS
<1>1. /\ TypeInv /\ WellFormed(shared, Row)
      /\ rows = RowCount(shared) /\ rows' = rows /\ shared' = shared
      /\ KnownBefore(shared, Watermark(shared, rows)) /\ TiesInOrder(shared)
  BY DEF OrderInv, TypeInv, TypeOK, SupersedeBegin
<1>2. PICK victims \in SUBSET Ids(shared), count \in MinReplacements .. MaxReplacements :
         mutation' = [open     |-> TRUE,
                      sequence |-> Watermark(shared, rows),
                      victims  |-> Newly(shared, victims),
                      left     |-> count]
  BY DEF SupersedeBegin
<1>3. count > 0
  BY BoundsType
<1>4. Watermark(shared, rows) \in Nat
  BY <1>1, ViewType DEF WellFormed
<1>5. \A id \in Newly(shared, victims) : Born(shared, id) < Watermark(shared, rows)
  BY <1>1 DEF KnownBefore, Newly
<1>6. TypeInv'
  BY <1>1, SupersedeBeginKeeps
<1> QED BY <1>1, <1>2, <1>3, <1>4, <1>5, <1>6 DEF OrderInv

\* A replacement is born at the supersession's own coordinate.
LEMMA SupersedeAppendOrders == OrderInv /\ SupersedeAppend => OrderInv'
<1> SUFFICES ASSUME OrderInv, SupersedeAppend PROVE OrderInv'
  OBVIOUS
<1> DEFINE mark     == Watermark(shared, rows)
           sequence == mutation.sequence
<1>1. /\ TypeInv /\ Shaped(shared, Row)
      /\ rows = RowCount(shared) /\ rows' = rows + 1
      /\ mutation.open /\ sequence \in Nat /\ mutation.victims \subseteq Live(shared)
      /\ mutation' = [mutation EXCEPT !.left = @ - 1]
      /\ mutation \in [open : BOOLEAN, sequence : Nat,
                       victims : SUBSET Nat, left : Nat]
      /\ KnownBefore(shared, mark) /\ TiesInOrder(shared)
      /\ mark \in sequence .. sequence + 1
      /\ \A id \in mutation.victims : Born(shared, id) < sequence
  BY DEF OrderInv, TypeInv, TypeOK, SupersedeAppend, WellFormed
<1>2. PICK key \in Keys :
         shared' = AppendSuperseding(shared, Fresh(key), mutation.sequence, rows)
  BY DEF SupersedeAppend
<1>3. Fresh(key) \in Row
  <2>1. /\ mutation.left \in Nat /\ mutation.left > 0
        /\ minted \in Nat /\ minted + mutation.left <= MaxRows
    BY <1>1 DEF TypeInv, TypeOK, SupersedeAppend
  <2> QED BY <2>1, BoundsType, FreshType
<1>4. TypeInv'
  BY <1>1, SupersedeAppendKeeps
<1>5. RowCount(shared') = RowCount(shared) + 1
  BY <1>1, <1>4 DEF TypeInv, TypeOK
<1>6. /\ SameView(shared, shared')
      /\ Born(shared', rows) = sequence
      /\ Watermark(shared', rows + 1)
           = IF mark < sequence + 1 THEN sequence + 1 ELSE mark
      /\ shared'.tombs = shared.tombs /\ shared'.history = shared.history
  BY <1>1, <1>2, <1>3, AppendSupersedingView
<1>7. mark \in Nat
  BY <1>1, ViewType
<1>8. Watermark(shared', rows') = sequence + 1
  BY <1>1, <1>6, <1>7
<1>9. KnownBefore(shared', sequence + 1) /\ TiesInOrder(shared')
  <2>1. mark <= sequence + 1 /\ sequence < sequence + 1 /\ sequence + 1 \in Nat
    BY <1>1, <1>7
  <2>2. Born(shared', RowCount(shared)) = sequence
    BY <1>1, <1>6
  <2> HIDE DEF mark, sequence
  <2> QED BY <1>1, <1>5, <1>6, <1>7, <2>1, <2>2, GrownKnown
<1>10. \A id \in mutation.victims : Born(shared', id) < sequence
  BY <1>1, <1>6 DEF SameView, Live
<1>11. /\ mutation'.sequence = sequence /\ mutation'.victims = mutation.victims
  BY <1>1
<1> QED BY <1>1, <1>4, <1>8, <1>9, <1>10, <1>11 DEF OrderInv

\* The victims die at it, once it has been spent.
LEMMA SupersedeCommitOrders == OrderInv /\ SupersedeCommit => OrderInv'
<1> SUFFICES ASSUME OrderInv, SupersedeCommit PROVE OrderInv'
  OBVIOUS
<1> DEFINE mark == Watermark(shared, rows)
<1>1. /\ TypeInv /\ Shaped(shared, Row)
      /\ rows = RowCount(shared) /\ rows' = rows
      /\ mutation.sequence \in Nat /\ mutation.victims \subseteq Live(shared)
      /\ mutation' = NoMutation
      /\ shared' = Entomb(shared, mutation.victims, mutation.sequence)
      /\ KnownBefore(shared, mark) /\ TiesInOrder(shared)
      /\ mark = mutation.sequence + 1
      /\ \A id \in mutation.victims : Born(shared, id) < mutation.sequence
  BY DEF OrderInv, TypeInv, TypeOK, SupersedeCommit, WellFormed
<1>2. mutation.victims \in SUBSET Ids(shared)
  BY <1>1 DEF Live
<1>3. mark \in Nat /\ mark <= mark /\ mutation.sequence < mark
  BY <1>1
<1>4. Watermark(shared', rows') = mark
  BY <1>1, <1>2, EntombMark
<1>5. KnownBefore(shared', mark) /\ TiesInOrder(shared')
  <2> HIDE DEF mark
  <2> QED BY <1>1, <1>2, <1>3, EntombKnown
<1>6. TypeInv'
  BY <1>1, SupersedeCommitKeeps
<1>7. ~mutation'.open
  BY <1>1 DEF NoMutation
<1> QED BY <1>4, <1>5, <1>6, <1>7 DEF OrderInv

\* A flush moves no row, coordinate or kill.
LEMMA FlushOrders == OrderInv /\ Flush => OrderInv'
<1> SUFFICES ASSUME OrderInv, Flush PROVE OrderInv'
  OBVIOUS
<1> DEFINE mark == Watermark(shared, rows)
<1>1. /\ TypeInv /\ WellFormed(shared, Row) /\ Shaped(shared, Row)
      /\ rows = RowCount(shared) /\ rows' = rows /\ mutation' = mutation
      /\ mutation.victims \subseteq Live(shared)
      /\ shared' = FlushShared(shared, rows)
      /\ KnownBefore(shared, mark) /\ TiesInOrder(shared)
  BY DEF OrderInv, TypeInv, TypeOK, Flush, WellFormed
<1>2. /\ SameView(shared, shared') /\ Watermark(shared', rows') = mark
      /\ shared'.tombs = shared.tombs /\ shared'.history = shared.history
  BY <1>1, FlushView
<1>3. TypeInv'
  BY <1>1, FlushActionKeeps
<1>4. RowCount(shared') = RowCount(shared)
  BY <1>1, <1>3 DEF TypeInv, TypeOK
<1>5. mark \in Nat /\ mark <= mark
  BY <1>1, ViewType
<1>6. KnownBefore(shared', mark) /\ TiesInOrder(shared')
  <2> HIDE DEF mark
  <2> QED BY <1>1, <1>2, <1>4, <1>5, SameKnown
<1>7. \A id \in mutation.victims : Born(shared', id) = Born(shared, id)
  BY <1>1, <1>2 DEF SameView, Live
<1> QED BY <1>1, <1>2, <1>3, <1>6, <1>7 DEF OrderInv

\* A compaction renumbers rows, never coordinates.
LEMMA CompactOrders == OrderInv /\ Compact => OrderInv'
<1> SUFFICES ASSUME OrderInv, Compact PROVE OrderInv'
  OBVIOUS
<1> DEFINE mark == Watermark(shared, rows)
<1>1. /\ TypeInv /\ WellFormed(shared, Row) /\ Shaped(shared, Row)
      /\ rows = RowCount(shared) /\ ~mutation.open /\ mutation' = mutation
      /\ KnownBefore(shared, mark) /\ TiesInOrder(shared)
  BY DEF OrderInv, TypeInv, TypeOK, Compact, Idle, WellFormed
<1>2. PICK order \in MergeOrders(shared, Live(shared)) :
         shared' = Compacted(shared, rows, order) /\ rows' = Len(order)
  BY DEF Compact
<1>3. TypeInv'
  BY <1>1, CompactActionKeeps
<1>4. mark \in Nat
  BY <1>1, ViewType
<1>5. Watermark(shared', rows') = mark
  BY <1>1, <1>2, CompactedView
<1>6. KnownBefore(shared', mark) /\ TiesInOrder(shared')
  <2> HIDE DEF mark
  <2> QED BY <1>1, <1>2, <1>4, CompactedKnown
<1> QED BY <1>1, <1>3, <1>5, <1>6 DEF OrderInv

LEMMA OrderInvInductive ==
    ASSUME MinReplacements > 0
    PROVE  Spec => []OrderInv
<1>1. Init => OrderInv
  BY OrderInit
<1>2. OrderInv /\ [Next]_vars => OrderInv'
  <2> SUFFICES ASSUME OrderInv, [Next]_vars PROVE OrderInv'
    OBVIOUS
  <2>1. CASE UNCHANGED vars
    <3>1. TypeInv'
      BY <2>1 DEF vars, OrderInv, TypeInv, TypeOK, Row
    <3> QED BY <2>1, <3>1 DEF vars, OrderInv, KnownBefore, TiesInOrder
  <2>2. CASE Next
    BY <2>2, AppendOneOrders, TombstoneOrders, SupersedeBeginOrders,
       SupersedeAppendOrders, SupersedeCommitOrders, FlushOrders,
       CompactOrders DEF Next
  <2> QED BY <2>1, <2>2
<1> QED BY <1>1, <1>2, PTL DEF Spec

(* The ingest sequence is a time axis: no two events share a coordinate,   *)
(* every version dies strictly after its birth, and no append, tombstone,  *)
(* flush or compaction, in any order, spends the coordinate of a           *)
(* supersession in the middle of its critical sections.                    *)
THEOREM CoordinatesSpentOnce ==
    ASSUME MinReplacements > 0
    PROVE  Spec => []CoordinatesOrdered
<1>1. OrderInv => CoordinatesOrdered
  BY DEF OrderInv, KnownBefore, CoordinatesOrdered
<1> QED BY <1>1, OrderInvInductive, PTL

(* Rows with equal ordering keys stay in the order they were ingested      *)
(* through flushes and the reordering of every compaction, so that         *)
(* "newest version wins" can be decided by position.                       *)
THEOREM TiesKept ==
    ASSUME MinReplacements > 0
    PROVE  Spec => []TiesKeepIngestOrder
<1>1. OrderInv => TiesKeepIngestOrder
  BY DEF OrderInv, TiesInOrder, TiesKeepIngestOrder
<1> QED BY <1>1, OrderInvInductive, PTL

----------------------------------------------------------------------------
\* Answers of the past.

\* The rows AS OF a cut that the layout, not history, contributes.
InForce(s, cut) ==
    {id \in Ids(s) : Born(s, id) <= cut /\ ~(id \in Dead(s) /\ s.tombs[id] <= cut)}

LEMMA AsOfSame ==
    ASSUME NEW s, NEW t, NEW cut, InForce(t, cut) = InForce(s, cut),
           \A id \in InForce(s, cut) : RowAt(t, id) = RowAt(s, id),
           t.history = s.history
    PROVE  AsOf(t, cut) = AsOf(s, cut)
<1>1. {RowAt(t, id) : id \in InForce(t, cut)} = {RowAt(s, id) : id \in InForce(s, cut)}
  OBVIOUS
<1>2. {v.row : v \in {w \in t.history : w.born <= cut /\ cut < w.killed}}
        = {v.row : v \in {w \in s.history : w.born <= cut /\ cut < w.killed}}
  OBVIOUS
<1> QED BY <1>1, <1>2, Zenon DEF AsOf, InForce

\* The same rows and kills answer alike.
LEMMA SameAnswers ==
    ASSUME NEW s, NEW t, SameView(s, t), RowCount(t) = RowCount(s),
           t.tombs = s.tombs, t.history = s.history, NEW cut
    PROVE  AsOf(t, cut) = AsOf(s, cut)
<1>1. Ids(t) = Ids(s) /\ Dead(t) = Dead(s)
  BY Zenon DEF Ids, Dead
<1>2. InForce(t, cut) = InForce(s, cut)
  BY <1>1 DEF InForce, SameView
<1>3. \A id \in InForce(s, cut) : RowAt(t, id) = RowAt(s, id)
  BY DEF InForce, SameView
<1> QED BY <1>2, <1>3, AsOfSame

\* A row born after the cut does not answer for it.
LEMMA GrownAnswers ==
    ASSUME NEW R, NEW s, Shaped(s, R), NEW t, SameView(s, t),
           RowCount(t) = RowCount(s) + 1, t.tombs = s.tombs, t.history = s.history,
           NEW birth \in Nat, Born(t, RowCount(s)) = birth,
           NEW cut \in Nat, cut < birth
    PROVE  AsOf(t, cut) = AsOf(s, cut)
<1>1. Dead(t) = Dead(s)
  BY Zenon DEF Dead
<1>2. RowCount(s) \in Nat
  BY FieldTypes
<1>3. Ids(t) = Ids(s) \cup {RowCount(s)}
  BY <1>2 DEF Ids
<1>4. ~(Born(t, RowCount(s)) <= cut)
  OBVIOUS
<1>5. InForce(t, cut) = InForce(s, cut)
  BY <1>1, <1>3, <1>4 DEF InForce, SameView
<1>6. \A id \in InForce(s, cut) : RowAt(t, id) = RowAt(s, id)
  BY DEF InForce, SameView
<1> QED BY <1>5, <1>6, AsOfSame

\* Nor does a death after the cut.
LEMMA EntombAnswers ==
    ASSUME NEW R, NEW s, Shaped(s, R), NEW ids \in SUBSET Live(s), NEW stamp \in Nat,
           NEW cut \in Nat, cut < stamp
    PROVE  AsOf(Entomb(s, ids, stamp), cut) = AsOf(s, cut)
<1> DEFINE t == Entomb(s, ids, stamp)
<1>1. ids \in SUBSET Ids(s)
  BY DEF Live
<1>2. /\ SameView(s, t) /\ RowCount(t) = RowCount(s)
      /\ Dead(t) = Dead(s) \cup ids /\ t.history = s.history
      /\ t.tombs = [id \in Dead(s) \cup ids |->
                      IF id \in ids THEN stamp ELSE s.tombs[id]]
  BY <1>1, EntombView, EntombKeeps
<1> HIDE DEF t
<1>3. Ids(t) = Ids(s)
  BY <1>2, Zenon DEF Ids
<1>4. ASSUME NEW id \in Ids(s)
      PROVE  /\ Born(t, id) = Born(s, id)
             /\ id \in Dead(t) /\ t.tombs[id] <= cut
                  <=> id \in Dead(s) /\ s.tombs[id] <= cut
  <2>1. Born(t, id) = Born(s, id)
    BY <1>2 DEF SameView
  <2>2. CASE id \in ids
    <3>1. id \notin Dead(s) /\ t.tombs[id] = stamp
      BY <1>2, <2>2 DEF Live
    <3> QED BY <2>1, <3>1
  <2>3. CASE id \notin ids
    <3>1. id \in Dead(t) <=> id \in Dead(s)
      BY <1>2, <2>3
    <3>2. id \in Dead(s) => t.tombs[id] = s.tombs[id]
      BY <1>2, <2>3
    <3> QED BY <2>1, <3>1, <3>2
  <2> QED BY <2>2, <2>3
<1>5. InForce(t, cut) = InForce(s, cut)
  BY <1>3, <1>4 DEF InForce
<1>6. \A id \in InForce(s, cut) : RowAt(t, id) = RowAt(s, id)
  BY <1>2 DEF InForce, SameView
<1> QED BY <1>2, <1>5, <1>6, AsOfSame DEF t

\* A compaction moves the dead to history with both their coordinates.
LEMMA CompactedAnswers ==
    ASSUME NEW R, NEW s, WellFormed(s, R),
           NEW order \in MergeOrders(s, Live(s)), NEW cut \in Nat
    PROVE  AsOf(Compacted(s, RowCount(s), order), cut) = AsOf(s, cut)
<1> DEFINE t == Compacted(s, RowCount(s), order)
           n == Len(order)
           Cut(h) == {v.row : v \in {w \in h : w.born <= cut /\ cut < w.killed}}
<1>1. Shaped(s, R)
  BY DEF WellFormed
<1>2. /\ \A id \in Ids(t) : /\ id + 1 \in 1 .. n
                            /\ RowAt(t, id) = RowAt(s, order[id + 1])
                            /\ Born(t, id) = Born(s, order[id + 1])
      /\ Dead(t) = {} /\ t.history = Retained(s)
  BY CompactedView
<1>3. /\ \A i \in 1 .. n : order[i] \in Live(s)
      /\ \A id \in Live(s) : \E i \in 1 .. n : order[i] = id
  BY <1>1, MergeOrderIndex
<1>4. n \in Nat /\ RowCount(t) = n
  BY <1>1, MergeOrderType, CompactedKeeps
<1>5. Ids(t) = 0 .. n - 1
  BY <1>4, Zenon DEF Ids
<1> HIDE DEF t, n
<1> DEFINE living == {id \in Live(s) : Born(s, id) <= cut}
           dying  == {id \in Dead(s) : Born(s, id) <= cut /\ cut < s.tombs[id]}
<1>6. {RowAt(t, id) : id \in InForce(t, cut)} = {RowAt(s, id) : id \in living}
  <2>1. ASSUME NEW id \in InForce(t, cut)
        PROVE  \E was \in living : RowAt(t, id) = RowAt(s, was)
    <3>1. id \in Ids(t) /\ Born(t, id) <= cut
      BY DEF InForce
    <3>2. order[id + 1] \in living /\ RowAt(t, id) = RowAt(s, order[id + 1])
      BY <1>2, <1>3, <3>1
    <3> QED BY <3>2
  <2>2. ASSUME NEW was \in living
        PROVE  \E id \in InForce(t, cut) : RowAt(t, id) = RowAt(s, was)
    <3>1. PICK i \in 1 .. n : order[i] = was
      BY <1>3
    <3>2. i - 1 \in Ids(t) /\ (i - 1) + 1 = i
      BY <1>4, <1>5
    <3>3. RowAt(t, i - 1) = RowAt(s, was) /\ Born(t, i - 1) = Born(s, was)
      BY <1>2, <3>1, <3>2
    <3>4. i - 1 \in InForce(t, cut)
      BY <1>2, <3>2, <3>3 DEF InForce
    <3> QED BY <3>3, <3>4
  <2> HIDE DEF living
  <2> QED BY <2>1, <2>2
<1>7. Cut(Retained(s)) = {RowAt(s, id) : id \in dying} \cup Cut(s.history)
  <2>1. ASSUME NEW v \in Retained(s), v.born <= cut, cut < v.killed
        PROVE  v.row \in {RowAt(s, id) : id \in dying} \cup Cut(s.history)
    <3>1. CASE v \in s.history
      BY <2>1, <3>1
    <3>2. CASE v \in KilledVersions(s)
      <4>1. PICK id \in Dead(s) :
               v = [row |-> RowAt(s, id), born |-> Born(s, id), killed |-> s.tombs[id]]
        BY <3>2 DEF KilledVersions
      <4>2. id \in dying /\ v.row = RowAt(s, id)
        BY <2>1, <4>1
      <4> QED BY <4>2
    <3> QED BY <3>1, <3>2 DEF Retained, DeadVersions
  <2>2. ASSUME NEW id \in dying
        PROVE  RowAt(s, id) \in Cut(Retained(s))
    <3> DEFINE v == [row |-> RowAt(s, id), born |-> Born(s, id), killed |-> s.tombs[id]]
    <3>1. v \in Retained(s) /\ v.born <= cut /\ cut < v.killed /\ v.row = RowAt(s, id)
      BY DEF Retained, DeadVersions, KilledVersions
    <3> HIDE DEF v
    <3> QED BY <3>1
  <2>3. Cut(s.history) \subseteq Cut(Retained(s))
    BY DEF Retained, DeadVersions
  <2>4. Cut(Retained(s)) \subseteq {RowAt(s, id) : id \in dying} \cup Cut(s.history)
    BY <2>1
  <2>5. {RowAt(s, id) : id \in dying} \subseteq Cut(Retained(s))
    BY <2>2
  <2> HIDE DEF dying, Cut
  <2> QED BY <2>3, <2>4, <2>5
<1>8. InForce(s, cut) = living \cup dying
  <2> SUFFICES ASSUME NEW id
               PROVE  id \in InForce(s, cut) <=> id \in living \cup dying
    OBVIOUS
  <2>1. CASE id \in Dead(s)
    <3>1. id \in Ids(s) /\ s.tombs[id] \in Nat /\ id \notin Live(s)
      BY <1>1, <2>1, KillTypes DEF Live
    <3> QED BY <2>1, <3>1 DEF InForce
  <2>2. CASE id \notin Dead(s)
    BY <2>2 DEF InForce, Live
  <2> QED BY <2>1, <2>2
<1>9. AsOf(t, cut) = {RowAt(t, id) : id \in InForce(t, cut)} \cup Cut(Retained(s))
  BY <1>2, Zenon DEF AsOf, InForce
<1>10. AsOf(s, cut) = {RowAt(s, id) : id \in InForce(s, cut)} \cup Cut(s.history)
  BY Zenon DEF AsOf, InForce
<1> HIDE DEF living, dying, Cut
<1>11. AsOf(t, cut) = AsOf(s, cut)
  BY <1>6, <1>7, <1>8, <1>9, <1>10
<1> QED BY <1>11 DEF t

\* No critical section changes an answer below the first unsettled coordinate.
LEMMA AnswersStep ==
    OrderInv /\ Next => \A cut \in 0 .. (Unsettled - 1) :
                            AsOf(shared', cut) = AsOf(shared, cut)
<1> SUFFICES ASSUME OrderInv, Next, NEW cut \in 0 .. (Unsettled - 1)
             PROVE  AsOf(shared', cut) = AsOf(shared, cut)
  OBVIOUS
<1> DEFINE mark == Watermark(shared, rows)
<1>1. /\ TypeInv /\ WellFormed(shared, Row) /\ Shaped(shared, Row)
      /\ rows = RowCount(shared)
  BY DEF OrderInv, TypeInv, TypeOK, WellFormed
<1>2. mark \in Nat /\ (mutation.open => mutation.sequence \in Nat)
  BY <1>1, ViewType DEF TypeInv, TypeOK
<1>3. /\ cut \in Nat
      /\ ~mutation.open => cut < mark
      /\ mutation.open => cut < mutation.sequence
  BY <1>2 DEF Unsettled
<1>4. CASE AppendOne
  <2>1. PICK key \in Keys : shared' = AppendRow(shared, Fresh(key))
    BY <1>4 DEF AppendOne
  <2>2. ~mutation.open /\ minted \in Nat /\ minted < MaxRows /\ rows' = rows + 1
    BY <1>1, <1>4, BoundsType DEF AppendOne, Idle, TypeInv, TypeOK
  <2>3. /\ SameView(shared, shared') /\ Born(shared', RowCount(shared)) = mark
        /\ shared'.tombs = shared.tombs /\ shared'.history = shared.history
    BY <1>1, <2>1, <2>2, FreshType, AppendRowView
  <2>4. RowCount(shared') = RowCount(shared) + 1
    BY <1>1, <1>4, <2>2, AppendOneKeeps DEF TypeInv, TypeOK
  <2> HIDE DEF mark
  <2> QED BY <1>1, <1>2, <1>3, <2>2, <2>3, <2>4, GrownAnswers
<1>5. CASE Tombstone
  <2>1. PICK ids \in SUBSET Ids(shared) :
           shared' = ConsumeSequence(Entomb(shared, Newly(shared, ids), mark), rows)
    BY <1>5 DEF Tombstone
  <2>2. ~mutation.open /\ rows' = rows
    BY <1>5 DEF Tombstone, Idle
  <2> DEFINE newly  == Newly(shared, ids)
             buried == Entomb(shared, newly, mark)
  <2>3. newly \in SUBSET Live(shared) /\ newly \in SUBSET Ids(shared)
    BY DEF Newly, Live
  <2> HIDE DEF mark, newly
  <2>4. AsOf(buried, cut) = AsOf(shared, cut)
    BY <1>1, <1>2, <1>3, <2>2, <2>3, EntombAnswers
  <2>5. Shaped(buried, Row) /\ RowCount(buried) = rows
    BY <1>1, <1>2, <2>3, EntombKeeps
  <2> HIDE DEF buried
  <2>6. /\ SameView(buried, shared')
        /\ shared'.tombs = buried.tombs /\ shared'.history = buried.history
    BY <2>1, <2>5, ConsumeView DEF buried, newly
  <2>7. RowCount(shared') = RowCount(buried)
    BY <1>1, <1>5, <2>2, <2>5, TombstoneKeeps DEF TypeInv, TypeOK
  <2> QED BY <2>4, <2>6, <2>7, SameAnswers
<1>6. CASE SupersedeBegin
  BY <1>6 DEF SupersedeBegin
<1>7. CASE SupersedeAppend
  <2>1. PICK key \in Keys :
           shared' = AppendSuperseding(shared, Fresh(key), mutation.sequence, rows)
    BY <1>7 DEF SupersedeAppend
  <2>2. /\ mutation.open /\ rows' = rows + 1 /\ minted \in Nat
        /\ mutation.left \in Nat /\ mutation.left > 0
        /\ minted + mutation.left <= MaxRows
    BY <1>1, <1>7 DEF SupersedeAppend, TypeInv, TypeOK
  <2>3. Fresh(key) \in Row
    BY <2>2, BoundsType, FreshType
  <2>4. /\ SameView(shared, shared')
        /\ Born(shared', RowCount(shared)) = mutation.sequence
        /\ shared'.tombs = shared.tombs /\ shared'.history = shared.history
    BY <1>1, <1>2, <2>1, <2>2, <2>3, AppendSupersedingView
  <2>5. RowCount(shared') = RowCount(shared) + 1
    BY <1>1, <1>7, <2>2, SupersedeAppendKeeps DEF TypeInv, TypeOK
  <2> QED BY <1>1, <1>2, <1>3, <2>2, <2>4, <2>5, GrownAnswers
<1>8. CASE SupersedeCommit
  <2>1. /\ mutation.open /\ mutation.victims \in SUBSET Live(shared)
        /\ shared' = Entomb(shared, mutation.victims, mutation.sequence)
    BY <1>1, <1>8 DEF SupersedeCommit, TypeInv, TypeOK
  <2> QED BY <1>1, <1>2, <1>3, <2>1, EntombAnswers
<1>9. CASE Flush
  <2>1. shared' = FlushShared(shared, rows) /\ rows' = rows
    BY <1>9 DEF Flush
  <2>2. /\ SameView(shared, shared')
        /\ shared'.tombs = shared.tombs /\ shared'.history = shared.history
    BY <1>1, <2>1, FlushView
  <2>3. RowCount(shared') = RowCount(shared)
    BY <1>1, <1>9, <2>1, FlushActionKeeps DEF TypeInv, TypeOK
  <2> QED BY <2>2, <2>3, SameAnswers
<1>10. CASE Compact
  <2>1. PICK order \in MergeOrders(shared, Live(shared)) :
           shared' = Compacted(shared, rows, order)
    BY <1>10 DEF Compact
  <2> QED BY <1>1, <1>3, <2>1, CompactedAnswers
<1> QED BY <1>4, <1>5, <1>6, <1>7, <1>8, <1>9, <1>10 DEF Next

(* What the table answers AS OF a coordinate already spent is fixed        *)
(* forever: a late kill, the replacements of an open supersession and the  *)
(* renumbering of a compaction reach no cut below the coordinate they      *)
(* spend (Store::next_sequence, KnowledgeSnapshot::as_of).                 *)
THEOREM AnswersSettled ==
    ASSUME MinReplacements > 0
    PROVE  Spec => SettledCuts
<1>1. OrderInv /\ [Next]_vars =>
         [\A cut \in 0 .. (Unsettled - 1) : AsOf(shared, cut)' = AsOf(shared, cut)]_vars
  BY AnswersStep
<1> QED BY <1>1, OrderInvInductive, PTL DEF Spec, SettledCuts

----------------------------------------------------------------------------
\* Rows: theorems RowsHeldOnce and LatestIsNewest, and theorem
\* ImplementsKnowledge, that the store's critical sections implement the
\* abstract table Knowledge.

\* The rows 1..n, and no others, are each held in one place of s.
Held(s, n) ==
    /\ \A tag \in 1..n : \/ \E id \in Ids(s) : RowAt(s, id).tag = tag
                         \/ \E v \in s.history : v.row.tag = tag
    /\ \A a, b \in Ids(s) : RowAt(s, a).tag = RowAt(s, b).tag => a = b
    /\ \A id \in Ids(s), v \in s.history : RowAt(s, id).tag # v.row.tag
    /\ \A v, w \in s.history : v.row.tag = w.row.tag => v = w
    /\ \A id \in Ids(s) : RowAt(s, id).tag \in 1..n
    /\ \A v \in s.history : v.row.tag \in 1..n

(* The inductive invariant.  Rows are followed by identity, and a          *)
(* supersession about to commit has a replacement in force that was born   *)
(* at its coordinate: Knowledge has no supersession without a birth.       *)
RowInv ==
    /\ OrderInv
    /\ Held(shared, minted)
    /\ mutation.open /\ mutation.left = 0 =>
         \E id \in Live(shared) : Born(shared, id) = mutation.sequence

----------------------------------------------------------------------------
\* What the operators do to the rows held.

LEMMA SameHeld ==
    ASSUME NEW s, NEW t, SameView(s, t), RowCount(t) = RowCount(s),
           t.history = s.history, NEW n, Held(s, n)
    PROVE  Held(t, n)
<1>1. Ids(t) = Ids(s)
  BY Zenon DEF Ids
<1>2. \A id \in Ids(s) : RowAt(t, id) = RowAt(s, id)
  BY DEF SameView
<1> QED BY <1>1, <1>2 DEF Held

\* One more row, under the next identity.
LEMMA GrownHeld ==
    ASSUME NEW R, NEW s, Shaped(s, R), NEW t, SameView(s, t),
           RowCount(t) = RowCount(s) + 1, t.history = s.history,
           NEW n \in Nat, RowAt(t, RowCount(s)).tag = n + 1, Held(s, n)
    PROVE  Held(t, n + 1)
<1> DEFINE last == RowCount(s)
           Tag(x, id) == RowAt(x, id).tag
<1>1. last \in Nat
  BY FieldTypes
<1>2. Ids(t) = Ids(s) \cup {last} /\ last \notin Ids(s)
  BY <1>1 DEF Ids
<1>3. /\ \A id \in Ids(s) : Tag(t, id) = Tag(s, id) /\ Tag(s, id) \in 1 .. n
      /\ Tag(t, last) = n + 1
  BY DEF SameView, Held
<1>4. /\ \A tag \in 1 .. n : \/ \E id \in Ids(s) : Tag(s, id) = tag
                             \/ \E v \in s.history : v.row.tag = tag
      /\ \A a, b \in Ids(s) : Tag(s, a) = Tag(s, b) => a = b
      /\ \A id \in Ids(s), v \in s.history : Tag(s, id) # v.row.tag
      /\ \A v, w \in s.history : v.row.tag = w.row.tag => v = w
      /\ \A v \in s.history : v.row.tag \in 1 .. n
  BY DEF Held
<1> HIDE DEF last, Tag
<1>5. \A k \in 1 .. n + 1 : k \in 1 .. n \/ k = n + 1
  OBVIOUS
<1>6. n + 1 \notin 1 .. n /\ n + 1 \in 1 .. n + 1 /\ 1 .. n \subseteq 1 .. n + 1
  OBVIOUS
<1>7. \A tag \in 1 .. n + 1 : \/ \E id \in Ids(t) : Tag(t, id) = tag
                              \/ \E v \in s.history : v.row.tag = tag
  BY <1>2, <1>3, <1>4, <1>5
<1>8. \A a, b \in Ids(t) : Tag(t, a) = Tag(t, b) => a = b
  BY <1>2, <1>3, <1>4, <1>6
<1>9. \A id \in Ids(t), v \in s.history : Tag(t, id) # v.row.tag
  BY <1>2, <1>3, <1>4, <1>6
<1>10. /\ \A id \in Ids(t) : Tag(t, id) \in 1 .. n + 1
       /\ \A v \in s.history : v.row.tag \in 1 .. n + 1
  BY <1>2, <1>3, <1>4, <1>6
<1> QED BY <1>4, <1>7, <1>8, <1>9, <1>10 DEF Held, Tag

\* A compaction moves every row once: the living to their new ids, the dead
\* to history.
LEMMA CompactedHeld ==
    ASSUME NEW s, WellFormed(s, Row), NEW order \in MergeOrders(s, Live(s)),
           NEW n, Held(s, n)
    PROVE  Held(Compacted(s, RowCount(s), order), n)
<1> DEFINE t == Compacted(s, RowCount(s), order)
           m == Len(order)
           Tag(x, id) == RowAt(x, id).tag
<1>1. Shaped(s, Row)
  BY DEF WellFormed
<1>2. /\ \A id \in Ids(t) : /\ id + 1 \in 1 .. m
                            /\ Tag(t, id) = Tag(s, order[id + 1])
      /\ t.history = Retained(s)
  BY CompactedView
<1>3. /\ \A i \in 1 .. m : order[i] \in Live(s) /\ order[i] \in Ids(s)
      /\ \A i, j \in 1 .. m : i < j => Precedes(s, order[i], order[j])
      /\ \A id \in Live(s) : \E i \in 1 .. m : order[i] = id
  BY <1>1, MergeOrderIndex
<1>4. m \in Nat /\ RowCount(t) = m
  BY <1>1, MergeOrderType, CompactedKeeps
<1>5. Ids(t) = 0 .. m - 1
  BY <1>4, Zenon DEF Ids
<1>6. \A i, j \in 1 .. m : order[i] = order[j] => i = j
  <2> SUFFICES ASSUME NEW i \in 1 .. m, NEW j \in 1 .. m, order[i] = order[j], i < j
               PROVE  FALSE
    OBVIOUS
  <2> DEFINE p == order[i]
  <2>1. Precedes(s, p, p) /\ p \in Ids(s)
    BY <1>3
  <2>2. RowAt(s, p).key \in Int
    <3>1. RowAt(s, p) \in Row
      BY <1>1, <2>1, ViewType, Zenon
    <3> QED BY <3>1, KeysAssumption DEF Row
  <2>3. p \in Int
    BY <2>1 DEF Ids
  <2> QED BY <2>1, <2>2, <2>3 DEF Precedes
<1> HIDE DEF t, m, Tag
<1>7. /\ \A tag \in 1 .. n : \/ \E id \in Ids(s) : Tag(s, id) = tag
                             \/ \E v \in s.history : v.row.tag = tag
      /\ \A a, b \in Ids(s) : Tag(s, a) = Tag(s, b) => a = b
      /\ \A id \in Ids(s), v \in s.history : Tag(s, id) # v.row.tag
      /\ \A v, w \in s.history : v.row.tag = w.row.tag => v = w
      /\ \A id \in Ids(s) : Tag(s, id) \in 1 .. n
      /\ \A v \in s.history : v.row.tag \in 1 .. n
  BY Zenon DEF Held, Tag
\* A retained version is an old one or a row that is dead in s.
<1>8. ASSUME NEW v \in Retained(s)
      PROVE  \/ v \in s.history
             \/ \E id \in Dead(s) :
                  /\ id \in Ids(s) /\ id \notin Live(s) /\ v.row.tag = Tag(s, id)
                  /\ v = [row |-> RowAt(s, id), born |-> Born(s, id),
                          killed |-> s.tombs[id]]
  <2>1. CASE v \in KilledVersions(s)
    <3>1. PICK id \in Dead(s) : v = [row |-> RowAt(s, id), born |-> Born(s, id),
                                     killed |-> s.tombs[id]]
      BY <2>1 DEF KilledVersions
    <3>2. id \in Ids(s) /\ id \notin Live(s)
      BY <1>1, KillTypes DEF Live
    <3>3. v.row.tag = Tag(s, id)
      BY <3>1 DEF Tag
    <3> QED BY <3>1, <3>2, <3>3
  <2> QED BY <2>1 DEF Retained, DeadVersions
<1>9. ASSUME NEW id \in Dead(s)
      PROVE  \E v \in Retained(s) : v.row.tag = Tag(s, id)
  <2> DEFINE v == [row |-> RowAt(s, id), born |-> Born(s, id), killed |-> s.tombs[id]]
  <2>1. v \in Retained(s)
    BY DEF Retained, DeadVersions, KilledVersions
  <2>2. v.row.tag = Tag(s, id)
    BY DEF Tag
  <2> QED BY <2>1, <2>2
<1>10. s.history \subseteq Retained(s)
  BY DEF Retained, DeadVersions
<1>11. \A tag \in 1 .. n : \/ \E id \in Ids(t) : Tag(t, id) = tag
                           \/ \E v \in t.history : v.row.tag = tag
  <2> SUFFICES ASSUME NEW tag \in 1 .. n
               PROVE  \/ \E id \in Ids(t) : Tag(t, id) = tag
                      \/ \E v \in t.history : v.row.tag = tag
    OBVIOUS
  <2>1. CASE \E v \in s.history : v.row.tag = tag
    BY <1>2, <1>10, <2>1
  <2>2. ASSUME NEW was \in Ids(s), Tag(s, was) = tag, was \in Dead(s)
        PROVE  \E v \in t.history : v.row.tag = tag
    BY <1>2, <1>9, <2>2
  <2>3. ASSUME NEW was \in Ids(s), Tag(s, was) = tag, was \notin Dead(s)
        PROVE  \E id \in Ids(t) : Tag(t, id) = tag
    <3>1. PICK i \in 1 .. m : order[i] = was
      BY <1>3, <2>3 DEF Live
    <3>2. i - 1 \in Ids(t) /\ (i - 1) + 1 = i
      BY <1>4, <1>5
    <3>3. Tag(t, i - 1) = tag
      BY <1>2, <2>3, <3>1, <3>2
    <3> QED BY <3>2, <3>3
  <2> QED BY <1>7, <2>1, <2>2, <2>3
<1>12. \A a, b \in Ids(t) : Tag(t, a) = Tag(t, b) => a = b
  <2> SUFFICES ASSUME NEW a \in Ids(t), NEW b \in Ids(t), Tag(t, a) = Tag(t, b)
               PROVE  a = b
    OBVIOUS
  <2>1. order[a + 1] = order[b + 1]
    BY <1>2, <1>3, <1>7
  <2>2. a + 1 = b + 1
    BY <1>2, <1>6, <2>1
  <2>3. a \in Int /\ b \in Int
    BY <1>4, <1>5
  <2> QED BY <2>2, <2>3
<1>13. \A id \in Ids(t), v \in t.history : Tag(t, id) # v.row.tag
  <2> SUFFICES ASSUME NEW id \in Ids(t), NEW v \in Retained(s)
               PROVE  Tag(t, id) # v.row.tag
    BY <1>2
  <2>1. order[id + 1] \in Live(s) /\ order[id + 1] \in Ids(s)
        /\ Tag(t, id) = Tag(s, order[id + 1])
    BY <1>2, <1>3
  <2> QED BY <1>7, <1>8, <2>1
<1>14. \A v, w \in t.history : v.row.tag = w.row.tag => v = w
  <2> SUFFICES ASSUME NEW v \in Retained(s), NEW w \in Retained(s),
                      v.row.tag = w.row.tag
               PROVE  v = w
    BY <1>2
  <2>1. CASE v \in s.history /\ w \in s.history
    BY <1>7, <2>1
  <2>2. CASE v \in s.history /\ w \notin s.history
    BY <1>7, <1>8, <2>2
  <2>3. CASE v \notin s.history /\ w \in s.history
    BY <1>7, <1>8, <2>3
  <2>4. CASE v \notin s.history /\ w \notin s.history
    BY <1>7, <1>8, <2>4
  <2> QED BY <2>1, <2>2, <2>3, <2>4
<1>15. /\ \A id \in Ids(t) : Tag(t, id) \in 1 .. n
       /\ \A v \in t.history : v.row.tag \in 1 .. n
  <2>1. \A id \in Ids(t) : Tag(t, id) \in 1 .. n
    BY <1>2, <1>3, <1>7
  <2>2. ASSUME NEW v \in Retained(s)
        PROVE  v.row.tag \in 1 .. n
    BY <1>7, <1>8
  <2> QED BY <1>2, <2>1, <2>2
<1>16. Held(t, n)
  BY <1>11, <1>12, <1>13, <1>14, <1>15, Zenon DEF Held, Tag
<1> QED BY <1>16 DEF t

----------------------------------------------------------------------------
\* The actions.

LEMMA RowInit == MinReplacements > 0 /\ Init => RowInv
<1> SUFFICES ASSUME MinReplacements > 0, Init PROVE RowInv
  OBVIOUS
<1>1. OrderInv
  BY OrderInit
<1>2. /\ Ids(shared) = {} /\ shared.history = {} /\ minted = 0 /\ ~mutation.open
  BY DEF Init, Ids, RowCount, EmptyShared, NoMutation
<1>3. Held(shared, 0)
  BY <1>2 DEF Held
<1> QED BY <1>1, <1>2, <1>3 DEF RowInv

\* Store::append mints one row.
LEMMA AppendOneRows == RowInv /\ AppendOne => RowInv'
<1> SUFFICES ASSUME RowInv, AppendOne PROVE RowInv'
  OBVIOUS
<1>1. /\ OrderInv /\ TypeInv /\ WellFormed(shared, Row) /\ Shaped(shared, Row)
      /\ rows = RowCount(shared) /\ rows' = rows + 1
      /\ ~mutation.open /\ mutation' = mutation
      /\ minted \in Nat /\ minted < MaxRows /\ minted' = minted + 1
      /\ Held(shared, minted)
  BY BoundsType
     DEF RowInv, OrderInv, TypeInv, TypeOK, AppendOne, Idle, WellFormed
<1>2. PICK key \in Keys : shared' = AppendRow(shared, Fresh(key))
  BY DEF AppendOne
<1>3. Fresh(key) \in Row /\ Fresh(key).tag = minted + 1
  BY <1>1, FreshType DEF Fresh
<1>4. OrderInv'
  BY <1>1, AppendOneOrders
<1>5. RowCount(shared') = RowCount(shared) + 1
  BY <1>1, <1>4 DEF OrderInv, TypeInv, TypeOK
<1>6. /\ SameView(shared, shared') /\ shared'.history = shared.history
      /\ RowAt(shared', RowCount(shared)) = Fresh(key)
  BY <1>1, <1>2, <1>3, AppendRowView
<1>7. Held(shared', minted + 1)
  BY <1>1, <1>3, <1>5, <1>6, GrownHeld
<1> QED BY <1>1, <1>4, <1>7 DEF RowInv

\* Store::tombstone moves no row.
LEMMA TombstoneRows == RowInv /\ Tombstone => RowInv'
<1> SUFFICES ASSUME RowInv, Tombstone PROVE RowInv'
  OBVIOUS
<1>1. /\ OrderInv /\ Shaped(shared, Row)
      /\ rows = RowCount(shared) /\ rows' = rows /\ minted' = minted
      /\ ~mutation.open /\ mutation' = mutation
      /\ Held(shared, minted)
  BY DEF RowInv, OrderInv, TypeInv, TypeOK, Tombstone, Idle, WellFormed
<1>2. PICK ids \in SUBSET Ids(shared) :
         shared' = ConsumeSequence(Entomb(shared, Newly(shared, ids),
                                          Watermark(shared, rows)), rows)
  BY DEF Tombstone
<1> DEFINE mark   == Watermark(shared, rows)
           newly  == Newly(shared, ids)
           buried == Entomb(shared, newly, mark)
<1>3. newly \in SUBSET Ids(shared) /\ mark \in Nat
  BY <1>1, ViewType DEF Newly
<1>4. OrderInv'
  BY <1>1, TombstoneOrders
<1> HIDE DEF newly, mark
<1>5. /\ Shaped(buried, Row) /\ RowCount(buried) = RowCount(shared)
      /\ SameView(shared, buried) /\ buried.history = shared.history
  <2>1. Shaped(buried, Row) /\ RowCount(buried) = RowCount(shared)
    BY <1>1, <1>3, EntombKeeps
  <2>2. SameView(shared, buried) /\ buried.history = shared.history
    BY <1>1, <1>3, EntombView
  <2> QED BY <2>1, <2>2
<1>6. Held(buried, minted)
  <2> HIDE DEF buried
  <2> QED BY <1>1, <1>5, SameHeld
<1> HIDE DEF buried
<1>7. SameView(buried, shared') /\ shared'.history = buried.history
  BY <1>1, <1>2, <1>5, ConsumeView DEF buried, newly, mark
<1>8. RowCount(shared') = RowCount(buried)
  BY <1>1, <1>4, <1>5 DEF OrderInv, TypeInv, TypeOK
<1>9. Held(shared', minted)
  BY <1>6, <1>7, <1>8, SameHeld
<1> QED BY <1>1, <1>4, <1>9 DEF RowInv

LEMMA SupersedeBeginRows ==
    MinReplacements > 0 /\ RowInv /\ SupersedeBegin => RowInv'
<1> SUFFICES ASSUME MinReplacements > 0, RowInv, SupersedeBegin PROVE RowInv'
  OBVIOUS
<1>1. OrderInv'
  BY SupersedeBeginOrders DEF RowInv
<1>2. shared' = shared /\ minted' = minted
  BY DEF SupersedeBegin
<1>3. PICK count \in MinReplacements .. MaxReplacements : mutation'.left = count
  BY DEF SupersedeBegin
<1>4. mutation'.left # 0
  BY <1>3, BoundsType
<1> QED BY <1>1, <1>2, <1>4 DEF RowInv

\* A replacement is minted, and is in force from now on.
LEMMA SupersedeAppendRows == RowInv /\ SupersedeAppend => RowInv'
<1> SUFFICES ASSUME RowInv, SupersedeAppend PROVE RowInv'
  OBVIOUS
<1>1. /\ OrderInv /\ TypeInv /\ Shaped(shared, Row)
      /\ rows = RowCount(shared) /\ rows' = rows + 1
      /\ mutation.sequence \in Nat
      /\ mutation' = [mutation EXCEPT !.left = @ - 1]
      /\ mutation \in [open : BOOLEAN, sequence : Nat,
                       victims : SUBSET Nat, left : Nat]
      /\ Held(shared, minted) /\ minted \in Nat /\ minted' = minted + 1
  BY BoundsType
     DEF RowInv, OrderInv, TypeInv, TypeOK, SupersedeAppend, WellFormed
<1>2. PICK key \in Keys :
         shared' = AppendSuperseding(shared, Fresh(key), mutation.sequence, rows)
  BY DEF SupersedeAppend
<1>3. Fresh(key) \in Row /\ Fresh(key).tag = minted + 1
  <2>1. /\ mutation.left \in Nat /\ mutation.left > 0
        /\ minted + mutation.left <= MaxRows
    BY <1>1 DEF TypeInv, TypeOK, SupersedeAppend
  <2> QED BY <1>1, <2>1, BoundsType, FreshType DEF Fresh
<1>4. OrderInv'
  BY <1>1, SupersedeAppendOrders
<1>5. RowCount(shared') = RowCount(shared) + 1
  BY <1>1, <1>4 DEF OrderInv, TypeInv, TypeOK
<1>6. /\ SameView(shared, shared')
      /\ RowAt(shared', RowCount(shared)) = Fresh(key)
      /\ Born(shared', RowCount(shared)) = mutation.sequence
      /\ shared'.tombs = shared.tombs /\ shared'.history = shared.history
  BY <1>1, <1>2, <1>3, AppendSupersedingView
<1>7. Held(shared', minted + 1)
  BY <1>1, <1>3, <1>5, <1>6, GrownHeld
<1>8. RowCount(shared) \in Live(shared')
  <2>1. RowCount(shared) \in Nat
    BY <1>1, FieldTypes
  <2>2. Dead(shared') = Dead(shared) /\ Dead(shared) \subseteq Ids(shared)
    BY <1>1, <1>6 DEF Shaped, Dead
  <2> QED BY <1>5, <2>1, <2>2 DEF Live, Ids
<1>9. mutation'.sequence = mutation.sequence
  BY <1>1
<1> QED BY <1>1, <1>4, <1>6, <1>7, <1>8, <1>9 DEF RowInv

\* The victims stay where they are, as dead rows.
LEMMA SupersedeCommitRows == RowInv /\ SupersedeCommit => RowInv'
<1> SUFFICES ASSUME RowInv, SupersedeCommit PROVE RowInv'
  OBVIOUS
<1>1. /\ OrderInv /\ Shaped(shared, Row)
      /\ mutation.sequence \in Nat /\ mutation.victims \in SUBSET Ids(shared)
      /\ mutation' = NoMutation /\ minted' = minted
      /\ shared' = Entomb(shared, mutation.victims, mutation.sequence)
      /\ Held(shared, minted)
  BY DEF RowInv, OrderInv, TypeInv, TypeOK, SupersedeCommit, WellFormed, Live
<1>2. OrderInv'
  BY <1>1, SupersedeCommitOrders
<1>3. /\ RowCount(shared') = RowCount(shared)
      /\ SameView(shared, shared') /\ shared'.history = shared.history
  <2> DEFINE t == Entomb(shared, mutation.victims, mutation.sequence)
  <2>1. RowCount(t) = RowCount(shared)
    BY <1>1, EntombKeeps
  <2>2. SameView(shared, t) /\ t.history = shared.history
    BY <1>1, EntombView
  <2> QED BY <1>1, <2>1, <2>2, Zenon
<1>4. Held(shared', minted)
  BY <1>1, <1>3, SameHeld
<1> QED BY <1>1, <1>2, <1>4 DEF RowInv, NoMutation

\* Nor does a flush lose or repeat a row, an open supersession's included.
LEMMA FlushRows == RowInv /\ Flush => RowInv'
<1> SUFFICES ASSUME RowInv, Flush PROVE RowInv'
  OBVIOUS
<1>1. /\ OrderInv /\ WellFormed(shared, Row)
      /\ rows = RowCount(shared) /\ rows' = rows
      /\ mutation' = mutation /\ minted' = minted
      /\ shared' = FlushShared(shared, rows)
      /\ Held(shared, minted)
  BY DEF RowInv, OrderInv, TypeInv, TypeOK, Flush
<1>2. OrderInv'
  BY <1>1, FlushOrders
<1>3. RowCount(shared') = RowCount(shared)
  BY <1>1, <1>2 DEF OrderInv, TypeInv, TypeOK
<1>4. /\ SameView(shared, shared')
      /\ shared'.tombs = shared.tombs /\ shared'.history = shared.history
  BY <1>1, FlushView
<1>5. Held(shared', minted)
  BY <1>1, <1>3, <1>4, SameHeld
<1>6. Live(shared') = Live(shared)
  BY <1>3, <1>4, Zenon DEF Live, Ids, Dead
<1>7. \A id \in Live(shared) : Born(shared', id) = Born(shared, id)
  BY <1>4 DEF SameView, Live
<1> QED BY <1>1, <1>2, <1>5, <1>6, <1>7 DEF RowInv

LEMMA CompactRows == RowInv /\ Compact => RowInv'
<1> SUFFICES ASSUME RowInv, Compact PROVE RowInv'
  OBVIOUS
<1>1. /\ OrderInv /\ WellFormed(shared, Row) /\ rows = RowCount(shared)
      /\ ~mutation.open /\ mutation' = mutation /\ minted' = minted
      /\ Held(shared, minted)
  BY DEF RowInv, OrderInv, TypeInv, TypeOK, Compact, Idle
<1>2. PICK order \in MergeOrders(shared, Live(shared)) :
         shared' = Compacted(shared, rows, order)
  BY DEF Compact
<1>3. OrderInv'
  BY <1>1, CompactOrders
<1>4. Held(shared', minted)
  BY <1>1, <1>2, CompactedHeld
<1> QED BY <1>1, <1>3, <1>4 DEF RowInv

LEMMA RowInvStep ==
    MinReplacements > 0 /\ RowInv /\ [Next]_vars => RowInv'
<1> SUFFICES ASSUME MinReplacements > 0, RowInv, [Next]_vars PROVE RowInv'
  OBVIOUS
<1>1. CASE UNCHANGED vars
  <2>1. OrderInv'
    BY <1>1 DEF vars, RowInv, OrderInv, TypeInv, TypeOK, Row, KnownBefore, TiesInOrder
  <2> QED BY <1>1, <2>1 DEF vars, RowInv
<1>2. CASE Next
  BY <1>2, AppendOneRows, TombstoneRows, SupersedeBeginRows,
     SupersedeAppendRows, SupersedeCommitRows, FlushRows, CompactRows DEF Next
<1> QED BY <1>1, <1>2

LEMMA RowInvInductive ==
    ASSUME MinReplacements > 0
    PROVE  Spec => []RowInv
<1>1. Init => RowInv
  BY RowInit
<1>2. RowInv /\ [Next]_vars => RowInv'
  BY RowInvStep
<1> QED BY <1>1, <1>2, PTL DEF Spec

(* No order of appends, mutations, flushes and compactions loses a row or  *)
(* holds it twice: not while a flush moves the buffer in the middle of a   *)
(* supersession, and not when a compaction parts the living, which it      *)
(* renumbers, from the dead, which history keeps.                          *)
THEOREM RowsHeldOnce ==
    ASSUME MinReplacements > 0
    PROVE  Spec => []EveryRowHeldOnce
<1>1. RowInv => EveryRowHeldOnce
  BY DEF RowInv, Held, EveryRowHeldOnce
<1> QED BY <1>1, RowInvInductive, PTL

(* Between mutations the table AS OF the last coordinate spent is the      *)
(* latest table: every birth and every kill has a coordinate below the     *)
(* watermark, and history holds nothing still in force                     *)
(* (Store::next_sequence).                                                 *)
THEOREM LatestIsNewest ==
    ASSUME MinReplacements > 0
    PROVE  Spec => []LatestIsLastSpent
<1>1. OrderInv => LatestIsLastSpent
  <2> SUFFICES ASSUME OrderInv
               PROVE  AsOf(shared, Watermark(shared, rows) - 1) = Latest(shared)
    BY DEF LatestIsLastSpent
  <2> DEFINE mark == Watermark(shared, rows)
             last == mark - 1
  <2>1. /\ Shaped(shared, Row) /\ rows = RowCount(shared) /\ KnownBefore(shared, mark)
    BY DEF OrderInv, TypeInv, TypeOK, WellFormed
  <2>2. mark \in Nat
    BY <2>1, ViewType
  <2>3. \A id \in Ids(shared) : Born(shared, id) <= last
    <3> TAKE id \in Ids(shared)
    <3>1. Born(shared, id) \in Nat /\ Born(shared, id) < mark
      BY <2>1, ViewType DEF KnownBefore
    <3> QED BY <2>2, <3>1
  <2>4. \A id \in Dead(shared) : id \in Ids(shared) /\ shared.tombs[id] <= last
    <3> TAKE id \in Dead(shared)
    <3>1. id \in Ids(shared) /\ shared.tombs[id] \in Nat /\ shared.tombs[id] < mark
      BY <2>1, KillTypes DEF KnownBefore
    <3> QED BY <2>2, <3>1
  <2>5. \A v \in shared.history : ~(last < v.killed)
    <3> TAKE v \in shared.history
    <3>1. v.killed \in Nat /\ v.killed < mark
      BY <2>1, KillTypes DEF KnownBefore
    <3> QED BY <2>2, <3>1
  <2> HIDE DEF last
  <2>6. InForce(shared, last) = Live(shared)
    BY <2>3, <2>4 DEF InForce, Live
  <2>7. {w \in shared.history : w.born <= last /\ last < w.killed} = {}
    BY <2>5
  <2>8. AsOf(shared, last) = {RowAt(shared, id) : id \in Live(shared)}
    <3>1. AsOf(shared, last)
            = {RowAt(shared, id) : id \in InForce(shared, last)}
                \cup {v.row : v \in {w \in shared.history :
                                       w.born <= last /\ last < w.killed}}
      BY Zenon DEF AsOf, InForce
    <3> QED BY <2>6, <2>7, <3>1
  <2> QED BY <2>8 DEF Latest, last
<1> QED BY <1>1, OrderInvInductive, PTL

----------------------------------------------------------------------------
\* The abstract table: what its versions are and what changes them.

Version(s, id) == [row |-> RowAt(s, id), born |-> Born(s, id)]

Versions(s, ids) == {Version(s, id) : id \in ids}

\* The state the store shows as Knowledge's alive and dead.
Standing == {v \in AliveVersions(shared) : ~Pending(v)}

LEMMA SameVersions ==
    ASSUME NEW R, NEW s, Shaped(s, R), NEW t, SameView(s, t),
           RowCount(t) = RowCount(s), t.tombs = s.tombs, t.history = s.history
    PROVE  AliveVersions(t) = AliveVersions(s) /\ DeadVersions(t) = DeadVersions(s)
<1>1. Live(t) = Live(s) /\ Dead(t) = Dead(s) /\ Dead(s) \subseteq Ids(s)
  BY Zenon DEF Live, Ids, Dead, Shaped
<1>2. \A id \in Ids(s) : RowAt(t, id) = RowAt(s, id) /\ Born(t, id) = Born(s, id)
  BY DEF SameView
<1>3. AliveVersions(t) = AliveVersions(s)
  BY <1>1, <1>2 DEF AliveVersions, Live
<1>4. KilledVersions(t) = KilledVersions(s)
  BY <1>1, <1>2 DEF KilledVersions
<1> QED BY <1>3, <1>4 DEF DeadVersions

LEMMA GrownVersions ==
    ASSUME NEW R, NEW s, Shaped(s, R), NEW t, SameView(s, t),
           RowCount(t) = RowCount(s) + 1, t.tombs = s.tombs, t.history = s.history
    PROVE  /\ AliveVersions(t) = AliveVersions(s) \cup {Version(t, RowCount(s))}
           /\ DeadVersions(t) = DeadVersions(s)
<1> DEFINE last == RowCount(s)
<1>1. last \in Nat
  BY FieldTypes
<1>2. Ids(t) = Ids(s) \cup {last} /\ last \notin Ids(s)
  BY <1>1 DEF Ids
<1>3. Dead(t) = Dead(s) /\ Dead(s) \subseteq Ids(s)
  BY DEF Dead, Shaped
<1> HIDE DEF last
<1>4. Live(t) = Live(s) \cup {last} /\ Live(s) \subseteq Ids(s)
  BY <1>2, <1>3 DEF Live
<1>5. \A id \in Ids(s) : RowAt(t, id) = RowAt(s, id) /\ Born(t, id) = Born(s, id)
  BY DEF SameView
<1>6. AliveVersions(t) = AliveVersions(s) \cup {Version(t, last)}
  BY <1>4, <1>5 DEF AliveVersions, Version
<1>7. KilledVersions(t) = KilledVersions(s)
  BY <1>3, <1>5 DEF KilledVersions
<1> QED BY <1>6, <1>7 DEF DeadVersions, last

\* A kill moves versions from the living to the dead.  A row held once is
\* one version, so the rows left behind are no versions of the rows killed.
LEMMA EntombVersions ==
    ASSUME NEW R, NEW s, Shaped(s, R), NEW ids \in SUBSET Live(s), NEW stamp \in Nat,
           NEW n, Held(s, n)
    PROVE  LET t == Entomb(s, ids, stamp)
           IN  /\ AliveVersions(t) = AliveVersions(s) \ Versions(s, ids)
               /\ DeadVersions(t)
                    = DeadVersions(s) \cup Table!Killed(Versions(s, ids), stamp)
<1> DEFINE t == Entomb(s, ids, stamp)
<1>1. ids \in SUBSET Ids(s) /\ Live(s) \subseteq Ids(s)
  BY DEF Live
<1>2. /\ SameView(s, t) /\ RowCount(t) = RowCount(s)
      /\ Dead(t) = Dead(s) \cup ids /\ t.history = s.history
      /\ t.tombs = [id \in Dead(s) \cup ids |->
                      IF id \in ids THEN stamp ELSE s.tombs[id]]
  BY <1>1, EntombView, EntombKeeps
<1> HIDE DEF t
<1>3. Live(t) = Live(s) \ ids
  BY <1>2, Zenon DEF Live, Ids
<1>4. \A id \in Ids(s) : RowAt(t, id) = RowAt(s, id) /\ Born(t, id) = Born(s, id)
  BY <1>2 DEF SameView
<1>5. \A a, b \in Ids(s) : Version(s, a) = Version(s, b) => a = b
  BY DEF Version, Held
<1>6. AliveVersions(t) = Versions(s, Live(s) \ ids)
  BY <1>1, <1>3, <1>4 DEF AliveVersions, Version, Versions
<1>7. AliveVersions(s) = Versions(s, Live(s))
  BY DEF AliveVersions, Version, Versions
<1>8. Versions(s, Live(s) \ ids) = Versions(s, Live(s)) \ Versions(s, ids)
  BY <1>1, <1>5 DEF Versions
<1>9. \A id \in Dead(s) : id \in Ids(s) /\ id \notin ids
  BY <1>1, KillTypes DEF Live
<1>10. KilledVersions(t)
         = KilledVersions(s) \cup Table!Killed(Versions(s, ids), stamp)
  <2> DEFINE killed == [id \in Dead(s) \cup ids |->
                          [row |-> RowAt(t, id), born |-> Born(t, id),
                           killed |-> t.tombs[id]]]
  <2>1. KilledVersions(t) = {killed[id] : id \in Dead(s)} \cup {killed[id] : id \in ids}
    BY <1>2 DEF KilledVersions
  <2>2. \A id \in Dead(s) : killed[id] = [row |-> RowAt(s, id), born |-> Born(s, id),
                                          killed |-> s.tombs[id]]
    BY <1>2, <1>4, <1>9
  <2>3. \A id \in ids : killed[id] = [row |-> RowAt(s, id), born |-> Born(s, id),
                                      killed |-> stamp]
    BY <1>1, <1>2, <1>4
  <2> HIDE DEF killed
  <2>4. {killed[id] : id \in Dead(s)} = KilledVersions(s)
    BY <2>2 DEF KilledVersions
  <2>5. {killed[id] : id \in ids} = Table!Killed(Versions(s, ids), stamp)
    <3>1. ASSUME NEW id \in ids
          PROVE  killed[id] \in Table!Killed(Versions(s, ids), stamp)
      <4>1. Version(s, id) \in Versions(s, ids)
        BY DEF Versions
      <4>2. /\ Version(s, id).row = RowAt(s, id) /\ Version(s, id).born = Born(s, id)
            /\ killed[id] = [row |-> RowAt(s, id), born |-> Born(s, id),
                             killed |-> stamp]
        BY <2>3 DEF Version
      <4> QED BY <4>1, <4>2 DEF Table!Killed
    <3>2. ASSUME NEW v \in Versions(s, ids)
          PROVE  \E id \in ids : [row |-> v.row, born |-> v.born, killed |-> stamp]
                                   = killed[id]
      <4>1. PICK id \in ids : v = Version(s, id)
        BY DEF Versions
      <4>2. v.row = RowAt(s, id) /\ v.born = Born(s, id)
        BY <4>1 DEF Version
      <4> QED BY <2>3, <4>2
    <3> QED BY <3>1, <3>2 DEF Table!Killed
  <2> QED BY <2>1, <2>4, <2>5
<1> QED BY <1>2, <1>6, <1>7, <1>8, <1>10 DEF DeadVersions, t

\* A compaction changes no version: history takes over the dead.
LEMMA CompactedVersions ==
    ASSUME NEW R, NEW s, WellFormed(s, R), NEW order \in MergeOrders(s, Live(s))
    PROVE  LET t == Compacted(s, RowCount(s), order)
           IN  AliveVersions(t) = AliveVersions(s) /\ DeadVersions(t) = DeadVersions(s)
<1> DEFINE t == Compacted(s, RowCount(s), order)
           m == Len(order)
<1>1. Shaped(s, R)
  BY DEF WellFormed
<1>2. /\ \A id \in Ids(t) : /\ id + 1 \in 1 .. m
                            /\ RowAt(t, id) = RowAt(s, order[id + 1])
                            /\ Born(t, id) = Born(s, order[id + 1])
      /\ Dead(t) = {} /\ t.history = Retained(s)
  BY CompactedView
<1>3. /\ \A i \in 1 .. m : order[i] \in Live(s)
      /\ \A id \in Live(s) : \E i \in 1 .. m : order[i] = id
  BY <1>1, MergeOrderIndex
<1>4. m \in Nat /\ RowCount(t) = m
  BY <1>1, MergeOrderType, CompactedKeeps
<1>5. Ids(t) = 0 .. m - 1
  BY <1>4, Zenon DEF Ids
<1> HIDE DEF t, m
<1>6. Live(t) = Ids(t)
  BY <1>2 DEF Live
<1>7. ASSUME NEW id \in Ids(t)
      PROVE  \E was \in Live(s) : Version(t, id) = Version(s, was)
  BY <1>2, <1>3 DEF Version
<1>8. ASSUME NEW was \in Live(s)
      PROVE  \E id \in Ids(t) : Version(t, id) = Version(s, was)
  <2>1. PICK i \in 1 .. m : order[i] = was
    BY <1>3
  <2>2. i - 1 \in Ids(t) /\ (i - 1) + 1 = i
    BY <1>4, <1>5
  <2>3. RowAt(t, i - 1) = RowAt(s, was) /\ Born(t, i - 1) = Born(s, was)
    BY <1>2, <2>1, <2>2
  <2> QED BY <2>2, <2>3 DEF Version
<1>9. Versions(t, Ids(t)) = Versions(s, Live(s))
  BY <1>7, <1>8 DEF Versions
<1>10. AliveVersions(t) = AliveVersions(s)
  BY <1>6, <1>9 DEF AliveVersions, Versions, Version
<1>11. KilledVersions(t) = {}
  BY <1>2 DEF KilledVersions
<1>12. DeadVersions(t) = DeadVersions(s)
  BY <1>2, <1>11 DEF DeadVersions, Retained
<1> QED BY <1>10, <1>12 DEF t

\* The rows versions carry.
LEMMA WrittenRows ==
    Table!Written = {v.row : v \in Standing} \cup {v.row : v \in DeadVersions(shared)}
BY DEF Table!Written, Standing

\* A row not held is a row Knowledge never saw; nor is a pending one.
LEMMA Unwritten ==
    ASSUME RowInv, NEW row,
           \A id \in Ids(shared) : row = RowAt(shared, id) =>
               id \in Live(shared) /\ Pending(Version(shared, id)),
           \A v \in shared.history : row # v.row
    PROVE  row \notin Table!Written
<1>1. Shaped(shared, Row) /\ Held(shared, minted)
  BY DEF RowInv, OrderInv, TypeInv, TypeOK, WellFormed
<1>2. ASSUME NEW v \in Standing
      PROVE  v.row # row
  <2>1. PICK id \in Live(shared) : v = Version(shared, id)
    BY DEF Standing, AliveVersions, Version
  <2>2. v.row = RowAt(shared, id) /\ id \in Ids(shared) /\ ~Pending(v)
    BY <2>1 DEF Version, Live, Standing
  <2> QED BY <2>1, <2>2
<1>3. ASSUME NEW v \in KilledVersions(shared)
      PROVE  v.row # row
  <2>1. PICK id \in Dead(shared) : v = [row |-> RowAt(shared, id),
                                        born |-> Born(shared, id),
                                        killed |-> shared.tombs[id]]
    BY DEF KilledVersions
  <2>2. id \in Ids(shared) /\ id \notin Live(shared) /\ v.row = RowAt(shared, id)
    BY <1>1, <2>1, KillTypes DEF Live
  <2> QED BY <2>2
<1> QED BY <1>2, <1>3, WrittenRows DEF DeadVersions

LEMMA StepBasics ==
    ASSUME RowInv
    PROVE  /\ WellFormed(shared, Row) /\ Shaped(shared, Row) /\ OrderInv /\ TypeInv
           /\ rows = RowCount(shared) /\ Held(shared, minted)
           /\ KnownBefore(shared, Watermark(shared, rows))
           /\ Watermark(shared, rows) \in Nat /\ mutation.sequence \in Nat
<1>1. /\ WellFormed(shared, Row) /\ Shaped(shared, Row) /\ OrderInv /\ TypeInv
      /\ rows = RowCount(shared) /\ Held(shared, minted)
      /\ KnownBefore(shared, Watermark(shared, rows)) /\ mutation.sequence \in Nat
  BY DEF RowInv, OrderInv, TypeInv, TypeOK, WellFormed
<1> QED BY <1>1, ViewType

\* Between supersessions every version stands.
LEMMA AllStand ==
    ~mutation.open => /\ Standing = AliveVersions(shared)
                      /\ Unsettled = Watermark(shared, rows)
BY DEF Standing, Pending, Unsettled

LEMMA AbstractInit == Init => Table!Init
<1> SUFFICES ASSUME Init PROVE Table!Init
  OBVIOUS
<1>1. /\ Ids(shared) = {} /\ Dead(shared) = {} /\ shared.history = {}
      /\ ~mutation.open /\ Watermark(shared, rows) = 0
  BY DEF Init, Ids, RowCount, Dead, EmptyShared, NoMutation, Watermark
<1>2. AliveVersions(shared) = {} /\ DeadVersions(shared) = {}
  BY <1>1 DEF AliveVersions, DeadVersions, KilledVersions, Live
<1> QED BY <1>1, <1>2 DEF Table!Init, Unsettled

\* An append is Knowledge's, of the row it mints.
LEMMA AppendOneImplements ==
    RowInv /\ AppendOne => \E row \in Row : Table!Append(row)
<1> SUFFICES ASSUME RowInv, AppendOne PROVE \E row \in Row : Table!Append(row)
  OBVIOUS
<1> DEFINE mark == Watermark(shared, rows)
<1>1. /\ WellFormed(shared, Row) /\ Shaped(shared, Row) /\ rows = RowCount(shared)
      /\ Held(shared, minted) /\ OrderInv
  BY StepBasics
<1>2. /\ ~mutation.open /\ mutation' = mutation /\ rows' = rows + 1
      /\ minted \in Nat /\ minted < MaxRows
  BY BoundsType DEF RowInv, OrderInv, TypeInv, TypeOK, AppendOne, Idle
<1>3. PICK key \in Keys : shared' = AppendRow(shared, Fresh(key))
  BY DEF AppendOne
<1> DEFINE row == Fresh(key)
<1>4. row \in Row /\ row.tag = minted + 1
  BY <1>2, FreshType DEF Fresh
<1> HIDE DEF row, mark
<1>5. /\ SameView(shared, shared')
      /\ RowAt(shared', RowCount(shared)) = row
      /\ Born(shared', RowCount(shared)) = mark
      /\ Watermark(shared', rows') = mark + 1
      /\ shared'.tombs = shared.tombs /\ shared'.history = shared.history
  BY <1>1, <1>2, <1>3, <1>4, AppendRowView DEF row, mark
<1>6. RowCount(shared') = RowCount(shared) + 1
  BY <1>1, <1>2, AppendOneOrders DEF OrderInv, TypeInv, TypeOK
<1>7. /\ AliveVersions(shared')
           = AliveVersions(shared) \cup {[row |-> row, born |-> mark]}
      /\ DeadVersions(shared') = DeadVersions(shared)
  BY <1>1, <1>5, <1>6, GrownVersions DEF Version
<1>8. row \notin Table!Written
  <2>1. /\ \A id \in Ids(shared) : row # RowAt(shared, id)
        /\ \A v \in shared.history : row # v.row
    <3>1. minted + 1 \notin 1 .. minted
      BY <1>2
    <3> QED BY <1>1, <1>4, <3>1 DEF Held
  <2> QED BY <2>1, Unwritten
<1>9. Standing = AliveVersions(shared) /\ Unsettled = mark
  BY <1>2, AllStand DEF mark
<1>10. /\ Standing' = AliveVersions(shared') /\ Unsettled' = mark + 1
  BY <1>2, <1>5 DEF Standing, Pending, Unsettled
<1>11. Table!Append(row)
  <2>1. /\ Standing' = Standing \cup {[row |-> row, born |-> Unsettled]}
        /\ Unsettled' = Unsettled + 1
        /\ DeadVersions(shared)' = DeadVersions(shared)
    BY <1>7, <1>9, <1>10
  <2> QED BY <1>8, <2>1 DEF Table!Append, Standing
<1> QED BY <1>4, <1>11

\* A tombstone is a delete of the versions it newly kills.
LEMMA TombstoneImplements ==
    RowInv /\ Tombstone => \E V \in SUBSET Standing : Table!Delete(V)
<1> SUFFICES ASSUME RowInv, Tombstone PROVE \E V \in SUBSET Standing : Table!Delete(V)
  OBVIOUS
<1> DEFINE mark == Watermark(shared, rows)
<1>1. /\ Shaped(shared, Row) /\ rows = RowCount(shared)
      /\ Held(shared, minted) /\ OrderInv /\ mark \in Nat
  BY StepBasics
<1>2. ~mutation.open /\ mutation' = mutation /\ rows' = rows
  BY DEF Tombstone, Idle
<1>3. PICK ids \in SUBSET Ids(shared) :
         /\ Newly(shared, ids) # {}
         /\ shared' = ConsumeSequence(Entomb(shared, Newly(shared, ids), mark), rows)
  BY DEF Tombstone
<1> DEFINE newly  == Newly(shared, ids)
           buried == Entomb(shared, newly, mark)
           V      == Versions(shared, newly)
<1>4. newly \in SUBSET Live(shared) /\ newly \in SUBSET Ids(shared) /\ newly # {}
  BY <1>3 DEF Newly, Live
<1> HIDE DEF newly, mark
<1>5. /\ Shaped(buried, Row) /\ RowCount(buried) = RowCount(shared)
      /\ AliveVersions(buried) = AliveVersions(shared) \ V
      /\ DeadVersions(buried) = DeadVersions(shared) \cup Table!Killed(V, mark)
  <2>1. Shaped(buried, Row) /\ RowCount(buried) = RowCount(shared)
    BY <1>1, <1>4, EntombKeeps
  <2>2. /\ AliveVersions(buried) = AliveVersions(shared) \ V
        /\ DeadVersions(buried) = DeadVersions(shared) \cup Table!Killed(V, mark)
    BY <1>1, <1>4, EntombVersions
  <2> QED BY <2>1, <2>2
<1>6. Watermark(buried, rows) = mark
  BY <1>1, <1>4, EntombMark DEF mark
<1> HIDE DEF buried
<1>7. /\ SameView(buried, shared')
      /\ Watermark(shared', rows) = Watermark(buried, rows) + 1
      /\ shared'.tombs = buried.tombs /\ shared'.history = buried.history
  BY <1>1, <1>3, <1>5, ConsumeView DEF buried, newly
<1>8. RowCount(shared') = RowCount(buried)
  BY <1>1, <1>2, <1>5, TombstoneOrders DEF OrderInv, TypeInv, TypeOK
<1>9. /\ AliveVersions(shared') = AliveVersions(shared) \ V
      /\ DeadVersions(shared') = DeadVersions(shared) \cup Table!Killed(V, mark)
  BY <1>5, <1>7, <1>8, SameVersions
<1>10. V \subseteq AliveVersions(shared) /\ V # {}
  BY <1>4 DEF Versions, AliveVersions, Version
<1> HIDE DEF V
<1>11. Standing = AliveVersions(shared) /\ Unsettled = mark
  BY <1>2, AllStand DEF mark
<1>12. /\ Standing' = AliveVersions(shared') /\ Unsettled' = mark + 1
  BY <1>2, <1>6, <1>7 DEF Standing, Pending, Unsettled
<1>13. /\ Standing' = Standing \ V
       /\ DeadVersions(shared)' = DeadVersions(shared) \cup Table!Killed(V, Unsettled)
       /\ Unsettled' = Unsettled + 1
  BY <1>9, <1>11, <1>12
<1>14. Table!Delete(V)
  BY <1>10, <1>13 DEF Table!Delete, Standing
<1> QED BY <1>10, <1>11, <1>14

\* The commit of a supersession is Knowledge's supersession: what was
\* pending stands from now on, and the victims die.
LEMMA SupersedeCommitImplements ==
    RowInv /\ SupersedeCommit =>
        \E R \in SUBSET Row, V \in SUBSET Standing : Table!Supersede(R, V)
<1> SUFFICES ASSUME RowInv, SupersedeCommit
             PROVE  \E R \in SUBSET Row, V \in SUBSET Standing : Table!Supersede(R, V)
  OBVIOUS
<1> DEFINE sequence == mutation.sequence
           victims  == mutation.victims
           born     == {id \in Live(shared) : Born(shared, id) = sequence}
           R        == {RowAt(shared, id) : id \in born}
           V        == Versions(shared, victims)
<1>1. /\ Shaped(shared, Row) /\ rows = RowCount(shared)
      /\ Held(shared, minted) /\ OrderInv /\ sequence \in Nat
  BY StepBasics
<1>2. /\ mutation.open /\ mutation.left = 0 /\ mutation' = NoMutation /\ rows' = rows
      /\ victims \in SUBSET Live(shared) /\ victims \in SUBSET Ids(shared)
      /\ \A id \in victims : Born(shared, id) < sequence
      /\ Watermark(shared, rows) = sequence + 1
      /\ shared' = Entomb(shared, victims, sequence)
  BY DEF RowInv, OrderInv, TypeInv, TypeOK, SupersedeCommit, Live
<1>3. born # {} /\ R # {}
  BY <1>2 DEF RowInv
<1>4. R \in SUBSET Row
  BY <1>1, ViewType DEF Live
<1>5. /\ AliveVersions(shared') = AliveVersions(shared) \ V
      /\ DeadVersions(shared') = DeadVersions(shared) \cup Table!Killed(V, sequence)
  BY <1>1, <1>2, EntombVersions
<1>6. Watermark(shared', rows) = sequence + 1
  <2> HIDE DEF victims, sequence
  <2> QED BY <1>1, <1>2, EntombMark
<1>7. R \cap Table!Written = {}
  <2> SUFFICES ASSUME NEW id \in born
               PROVE  RowAt(shared, id) \notin Table!Written
    OBVIOUS
  <2> DEFINE row == RowAt(shared, id)
  <2>1. id \in Ids(shared) /\ id \in Live(shared) /\ Pending(Version(shared, id))
    BY <1>2 DEF Live, Pending, Version
  <2>2. \A v \in shared.history : row # v.row
    BY <1>1, <2>1 DEF Held
  <2>3. \A other \in Ids(shared) : row = RowAt(shared, other) => other = id
    BY <1>1, <2>1 DEF Held
  <2> HIDE DEF row
  <2> QED BY <2>1, <2>2, <2>3, Unwritten DEF row
<1>8. AliveVersions(shared) = Standing \cup {[row |-> row, born |-> sequence] : row \in R}
  <2>1. ASSUME NEW v \in AliveVersions(shared), Pending(v)
        PROVE  v \in {[row |-> row, born |-> sequence] : row \in R}
    <3>1. PICK id \in Live(shared) :
             v = [row |-> RowAt(shared, id), born |-> Born(shared, id)]
      BY DEF AliveVersions
    <3>2. id \in born /\ v = [row |-> RowAt(shared, id), born |-> sequence]
      BY <2>1, <3>1 DEF Pending
    <3> QED BY <3>2
  <2>2. ASSUME NEW row \in R
        PROVE  [row |-> row, born |-> sequence] \in AliveVersions(shared)
    <3>1. PICK id \in born : row = RowAt(shared, id)
      OBVIOUS
    <3>2. id \in Live(shared) /\ Born(shared, id) = sequence
      OBVIOUS
    <3> QED BY <3>1, <3>2 DEF AliveVersions
  <2> HIDE DEF R
  <2> QED BY <2>1, <2>2 DEF Standing
<1>9. \A v \in V : v \in AliveVersions(shared) /\ ~Pending(v) /\ v.born # sequence
  <2> TAKE v \in V
  <2>1. PICK id \in victims : v = Version(shared, id)
    BY DEF Versions
  <2>2. id \in Ids(shared) /\ id \in Live(shared)
        /\ v.born = Born(shared, id) /\ Born(shared, id) < sequence
    BY <1>2, <2>1 DEF Version
  <2>3. v \in AliveVersions(shared)
    BY <2>1, <2>2 DEF AliveVersions, Version
  <2>4. Born(shared, id) \in Nat
    BY <1>1, <2>2, ViewType
  <2> QED BY <1>1, <2>2, <2>3, <2>4 DEF Pending
<1>10. V \subseteq Standing
  BY <1>9 DEF Standing
<1> HIDE DEF R, V, born, victims
<1>11. AliveVersions(shared) \ V
         = (Standing \ V) \cup {[row |-> row, born |-> sequence] : row \in R}
  BY <1>8, <1>9
<1>12. Unsettled = sequence
  BY <1>2 DEF Unsettled
<1>13. ~mutation'.open
  BY <1>2 DEF NoMutation
<1>14. Standing' = AliveVersions(shared') /\ Unsettled' = sequence + 1
  BY <1>2, <1>6, <1>13 DEF Standing, Pending, Unsettled
<1>15. /\ Standing' = (Standing \ V)
                        \cup {[row |-> row, born |-> Unsettled] : row \in R}
       /\ DeadVersions(shared)' = DeadVersions(shared) \cup Table!Killed(V, Unsettled)
       /\ Unsettled' = Unsettled + 1
  BY <1>5, <1>11, <1>12, <1>14
<1>16. Table!Supersede(R, V)
  BY <1>3, <1>7, <1>15 DEF Table!Supersede, Standing
<1> QED BY <1>4, <1>10, <1>16

\* The steps that only move things change nothing Knowledge sees.
Unseen == /\ Standing' = Standing
          /\ DeadVersions(shared)' = DeadVersions(shared)
          /\ Unsettled' = Unsettled

LEMMA SupersedeBeginImplements == RowInv /\ SupersedeBegin => Unseen
<1> SUFFICES ASSUME RowInv, SupersedeBegin PROVE Unseen
  OBVIOUS
<1> DEFINE mark == Watermark(shared, rows)
<1>1. Shaped(shared, Row) /\ KnownBefore(shared, mark) /\ mark \in Nat
  BY StepBasics
<1>2. /\ shared' = shared /\ rows' = rows /\ ~mutation.open
      /\ mutation'.open /\ mutation'.sequence = mark
  BY DEF SupersedeBegin, Idle
<1>3. \A v \in AliveVersions(shared) : v.born # mark
  <2> SUFFICES ASSUME NEW id \in Live(shared)
               PROVE  Born(shared, id) # mark
    BY DEF AliveVersions
  <2>1. id \in Ids(shared)
    BY DEF Live
  <2>2. Born(shared, id) \in Nat /\ Born(shared, id) < mark
    BY <1>1, <2>1, ViewType DEF KnownBefore
  <2> QED BY <1>1, <2>2
<1>4. Standing = AliveVersions(shared) /\ Unsettled = mark
  BY <1>2, AllStand
<1>5. Standing' = AliveVersions(shared)
  BY <1>2, <1>3 DEF Standing, Pending
<1> QED BY <1>2, <1>4, <1>5 DEF Unseen, Unsettled

LEMMA SupersedeAppendImplements == RowInv /\ SupersedeAppend => Unseen
<1> SUFFICES ASSUME RowInv, SupersedeAppend PROVE Unseen
  OBVIOUS
<1>1. /\ Shaped(shared, Row) /\ rows = RowCount(shared) /\ OrderInv
      /\ mutation.sequence \in Nat
  BY StepBasics
<1>2. /\ mutation.open /\ mutation' = [mutation EXCEPT !.left = @ - 1]
      /\ mutation \in [open : BOOLEAN, sequence : Nat,
                       victims : SUBSET Nat, left : Nat]
      /\ minted \in Nat /\ mutation.left > 0
      /\ minted + mutation.left <= MaxRows
  BY BoundsType DEF RowInv, OrderInv, TypeInv, TypeOK, SupersedeAppend
<1>3. PICK key \in Keys :
         shared' = AppendSuperseding(shared, Fresh(key), mutation.sequence, rows)
  BY DEF SupersedeAppend
<1>4. Fresh(key) \in Row
  <2>1. minted < MaxRows
    BY <1>2, BoundsType
  <2> QED BY <1>2, <2>1, FreshType
<1>5. /\ SameView(shared, shared')
      /\ Born(shared', RowCount(shared)) = mutation.sequence
      /\ shared'.tombs = shared.tombs /\ shared'.history = shared.history
  BY <1>1, <1>3, <1>4, AppendSupersedingView
<1>6. RowCount(shared') = RowCount(shared) + 1
  <2>1. rows' = rows + 1
    BY DEF SupersedeAppend
  <2> QED BY <1>1, <2>1, SupersedeAppendOrders DEF OrderInv, TypeInv, TypeOK
<1>7. /\ mutation'.open = mutation.open /\ mutation'.sequence = mutation.sequence
  BY <1>2
<1> DEFINE added == Version(shared', RowCount(shared))
<1>8. /\ AliveVersions(shared') = AliveVersions(shared) \cup {added}
      /\ DeadVersions(shared') = DeadVersions(shared)
  BY <1>1, <1>5, <1>6, GrownVersions
<1>9. Pending(added)
  BY <1>2, <1>5 DEF Pending, Version
<1> HIDE DEF added
<1>10. Standing' = {v \in AliveVersions(shared') : ~Pending(v)}
  BY <1>7 DEF Standing, Pending
<1>11. Standing' = Standing
  BY <1>8, <1>9, <1>10 DEF Standing
<1> QED BY <1>2, <1>7, <1>8, <1>11 DEF Unseen, Unsettled

LEMMA FlushImplements == RowInv /\ Flush => Unseen
<1> SUFFICES ASSUME RowInv, Flush PROVE Unseen
  OBVIOUS
<1>1. /\ WellFormed(shared, Row) /\ Shaped(shared, Row)
      /\ rows = RowCount(shared) /\ OrderInv
  BY StepBasics
<1>2. shared' = FlushShared(shared, rows) /\ rows' = rows /\ mutation' = mutation
  BY DEF Flush
<1>3. /\ SameView(shared, shared')
      /\ Watermark(shared', rows) = Watermark(shared, rows)
      /\ shared'.tombs = shared.tombs /\ shared'.history = shared.history
  BY <1>1, <1>2, FlushView
<1>4. RowCount(shared') = RowCount(shared)
  BY <1>1, <1>2, FlushOrders DEF OrderInv, TypeInv, TypeOK
<1>5. /\ AliveVersions(shared') = AliveVersions(shared)
      /\ DeadVersions(shared') = DeadVersions(shared)
  BY <1>1, <1>3, <1>4, SameVersions
<1> QED BY <1>2, <1>3, <1>5 DEF Unseen, Standing, Pending, Unsettled

LEMMA CompactImplements == RowInv /\ Compact => Unseen
<1> SUFFICES ASSUME RowInv, Compact PROVE Unseen
  OBVIOUS
<1>1. WellFormed(shared, Row) /\ rows = RowCount(shared)
  BY StepBasics
<1>2. PICK order \in MergeOrders(shared, Live(shared)) :
         shared' = Compacted(shared, rows, order) /\ rows' = Len(order)
  BY DEF Compact
<1>3. mutation' = mutation
  BY DEF Compact
<1>4. /\ AliveVersions(shared') = AliveVersions(shared)
      /\ DeadVersions(shared') = DeadVersions(shared)
  BY <1>1, <1>2, CompactedVersions
<1>5. Watermark(shared', rows') = Watermark(shared, rows)
  BY <1>1, <1>2, CompactedView
<1> QED BY <1>3, <1>4, <1>5 DEF Unseen, Standing, Pending, Unsettled

(* The store implements Knowledge.  An append and a tombstone take effect  *)
(* in their critical section, a supersession in the one that kills its     *)
(* victims, each as one ingest event at one coordinate; opening a          *)
(* supersession, adding its replacements, flushing and compacting change   *)
(* nothing the knowledge axis shows (Store::append, tombstone, supersede,  *)
(* flush, compact).                                                        *)
THEOREM ImplementsKnowledge ==
    ASSUME MinReplacements > 0
    PROVE  Spec => RefinesKnowledge
<1>1. Init => Table!Init
  BY AbstractInit
<1>2. RowInv /\ [Next]_vars => [Table!Next]_(Table!vars)
  <2> SUFFICES ASSUME RowInv, [Next]_vars PROVE [Table!Next]_(Table!vars)
    OBVIOUS
  <2>1. CASE AppendOne
    BY <2>1, AppendOneImplements DEF Table!Next
  <2>2. CASE Tombstone
    BY <2>2, TombstoneImplements DEF Table!Next, Standing
  <2>3. CASE SupersedeCommit
    BY <2>3, SupersedeCommitImplements DEF Table!Next, Standing
  <2>4. CASE SupersedeBegin \/ SupersedeAppend \/ Flush \/ Compact
    <3>1. Unseen
      BY <2>4, SupersedeBeginImplements, SupersedeAppendImplements,
         FlushImplements, CompactImplements
    <3> QED BY <3>1 DEF Unseen, Table!vars, Standing
  <2>5. CASE UNCHANGED vars
    BY <2>5 DEF vars, Table!vars, Pending, Unsettled
  <2> QED BY <2>1, <2>2, <2>3, <2>4, <2>5 DEF Next
<1> QED BY <1>1, <1>2, RowInvInductive, PTL DEF Spec, RefinesKnowledge, Table!Spec
=============================================================================
