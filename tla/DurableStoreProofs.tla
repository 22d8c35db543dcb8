------------------------- MODULE DurableStoreProofs -------------------------
(***************************************************************************)
(* The durable store recovers: theorems about DurableStore and             *)
(* ReadOnlyStore, for every number of rows, generations, crashes and       *)
(* faults.                                                                 *)
(***************************************************************************)
EXTENDS ReadOnlyStore, StoreLemmas

\* Rows, without the bound on how many are written.
AnyRow == [key : Keys, tag : Nat]

Flushing == pc \in {"flush", "manifest", "reset"}

Up == pc \notin {"down", "refused"}

Held == [row : AnyRow, born : Nat]

IsDisk(d) ==
    d \in [manifest : Manifest, segments : {d.segments}, deletes : {d.deletes},
          history : {d.history}, wal : Log(AnyRow)]

Sections == [layout : SUBSET Nat, diverged : BOOLEAN, next : Nat, history : Nat]

IsMemory(m) ==
    m \in [shared : {m.shared}, rows : Nat, generation : Nat, deleteLogs : Nat,
          sections : Sections, log : {"none", "open", "detached"},
          walSync : WalLevels]

IsOperation(o) ==
    o \in [ids : SUBSET Nat, sequence : Nat, total : Nat, left : Nat,
          order : {o.order}, due : BOOLEAN]

\* The parts of the variables, each of its type.
Typed ==
    /\ pc \in Phases \ {"refused"}
    /\ then \in {"idle", "delete log", "bracket", "commit log"}
    /\ then # "idle" => Flushing
    /\ minted \in Nat
    /\ IsDisk(disk)
    /\ IsMemory(mem)
    /\ IsOperation(op)

(* What an open will find: objects that fit together, those of the next    *)
(* generation at most beside those of the manifest's, and - as long as the *)
(* manifest names none - no segment but the first.                         *)
ObjectsFit(d) ==
    LET g == d.manifest.generation
    IN  /\ Sound(d, AnyRow)
        /\ DOMAIN d.segments \subseteq (0 .. g + 1) \X Nat
        /\ \E bound \in Nat : DOMAIN d.deletes \subseteq (0 .. g) \X (0 .. bound)
        /\ d.manifest.layout = {} =>
              \A n \in DOMAIN d.segments : n[1] = g => n[2] = 0

(* Between the two halves of an open the manifest names what the listing   *)
(* showed.                                                                 *)
LayoutNamed == pc = "replay" => disk.manifest.layout = Layout(disk)

(* The writer's memory m: a well formed state, and no watermark behind     *)
(* what is known.                                                          *)
StateFits(m) ==
    /\ WellFormed(m.shared, AnyRow) /\ Known(m.shared)
    /\ m.rows = RowCount(m.shared)

(* Its frozen rows are those of the segments the manifest names, the       *)
(* sections it keeps are the manifest's, and the next delete log is not    *)
(* there yet.                                                              *)
Mirrors(d, m) ==
    LET s == m.shared
        g == d.manifest.generation
    IN  /\ d.manifest = ManifestOf(m.generation, m.sections)
        /\ Lays(d.segments, g, d.manifest.layout, s.frozen)
        /\ \A n \in DeleteLogs(d) :
              /\ n[2] < m.deleteLogs
              /\ d.deletes[n].ids \subseteq 0 .. Len(s.frozen) - 1
        /\ d.manifest.diverged => s.diverged
        /\ \A i \in 0 .. d.manifest.history - 1 : d.history[i] \subseteq s.history

\* The victims are in force, and rows of segments when they are logged.
InForce(ids) == ids \subseteq Live(mem.shared)
InSegments(ids) == ids \subseteq 0 .. mem.shared.base - 1

VictimsFit ==
    LET Mutating == {"bracket", "replace", "sync", "commit log"} IN
    /\ pc = "delete log" \/ then = "delete log" => InForce(op.ids) /\ op.ids # {}
    /\ pc \in Mutating \/ then \in {"bracket", "commit log"} => InForce(op.ids)
    /\ pc \in Mutating \/ then = "commit log" => InSegments(op.ids)
    /\ pc \in {"replace", "sync", "commit log"} \/ then = "commit log" =>
          (op.ids # {} => op.sequence > 0)
    /\ pc \in {"sync", "commit log"} \/ then = "commit log" =>
          /\ mem.shared.diverged
          /\ op.sequence < Watermark(mem.shared, mem.rows)
    /\ pc \in {"bracket", "replace"} \/ then = "bracket" => op.left > 0

\* A flush under way.
FlushFits ==
    LET s == mem.shared
        name == <<disk.manifest.generation, s.base>>
    IN  /\ pc \in {"flush", "manifest"} => s.buffer # << >>
        /\ pc = "manifest" => /\ name \in DOMAIN disk.segments
                              /\ disk.segments[name] = BufferSegment
        /\ pc \in {"reset", "delete log"} => s.buffer = << >>

\* A compaction under way: of the next generation there is what it wrote.
Written == 0 .. op.left - HistoryObjects - 1

CompactionFits ==
    LET g == disk.manifest.generation + 1
        name(k) == <<g, SegmentRows * k>>
    IN  pc \in {"compact", "compact manifest"} =>
          /\ op.order \in MergeOrders(mem.shared, Live(mem.shared))
          /\ pc = "compact" => op.left < HistoryObjects + Cardinality(NewBases)
          /\ pc = "compact manifest" => op.left = HistoryObjects + Cardinality(NewBases)
          /\ \A n \in DOMAIN disk.segments : n[1] = g => \E k \in Written : n = name(k)
          /\ \A k \in Written : /\ name(k) \in DOMAIN disk.segments
                                /\ disk.segments[name(k)] = NewSegment(SegmentRows * k)
          /\ RetainsHistory /\ op.left > 0 =>
                /\ disk.manifest.history \in DOMAIN disk.history
                /\ disk.history[disk.manifest.history] = KilledVersions(mem.shared)

StoreInv ==
    /\ Typed
    /\ ObjectsFit(disk)
    /\ LayoutNamed
    /\ Up => StateFits(mem) /\ Mirrors(disk, mem) /\ VictimsFit /\ FlushFits /\ CompactionFits

----------------------------------------------------------------------------
\* Records.

LEMMA DiskParts ==
    ASSUME NEW d, IsDisk(d)
    PROVE  /\ d.manifest \in Manifest /\ d.wal \in Log(AnyRow)
           /\ \A x : /\ [d EXCEPT !.wal = x].wal = x
                     /\ [d EXCEPT !.wal = x].manifest = d.manifest
                     /\ [d EXCEPT !.wal = x].segments = d.segments
                     /\ [d EXCEPT !.wal = x].deletes = d.deletes
                     /\ [d EXCEPT !.wal = x].history = d.history
                     /\ x \in Log(AnyRow) => IsDisk([d EXCEPT !.wal = x])
           /\ \A x : /\ [d EXCEPT !.manifest = x].manifest = x
                     /\ [d EXCEPT !.manifest = x].wal = d.wal
                     /\ [d EXCEPT !.manifest = x].segments = d.segments
                     /\ [d EXCEPT !.manifest = x].deletes = d.deletes
                     /\ [d EXCEPT !.manifest = x].history = d.history
                     /\ x \in Manifest => IsDisk([d EXCEPT !.manifest = x])
           /\ \A x : /\ [d EXCEPT !.segments = x].segments = x
                     /\ [d EXCEPT !.segments = x].wal = d.wal
                     /\ [d EXCEPT !.segments = x].manifest = d.manifest
                     /\ [d EXCEPT !.segments = x].deletes = d.deletes
                     /\ [d EXCEPT !.segments = x].history = d.history
                     /\ IsDisk([d EXCEPT !.segments = x])
           /\ \A x : /\ [d EXCEPT !.deletes = x].deletes = x
                     /\ [d EXCEPT !.deletes = x].wal = d.wal
                     /\ [d EXCEPT !.deletes = x].manifest = d.manifest
                     /\ [d EXCEPT !.deletes = x].segments = d.segments
                     /\ [d EXCEPT !.deletes = x].history = d.history
                     /\ IsDisk([d EXCEPT !.deletes = x])
           /\ \A x : /\ [d EXCEPT !.history = x].history = x
                     /\ [d EXCEPT !.history = x].wal = d.wal
                     /\ [d EXCEPT !.history = x].manifest = d.manifest
                     /\ [d EXCEPT !.history = x].segments = d.segments
                     /\ [d EXCEPT !.history = x].deletes = d.deletes
                     /\ IsDisk([d EXCEPT !.history = x])
<1> DEFINE W == Log(AnyRow)
           M == Manifest
<1>1. d \in [manifest : M, segments : {d.segments}, deletes : {d.deletes},
             history : {d.history}, wal : W]
  BY DEF IsDisk
<1> HIDE DEF W, M
<1>2. d.manifest \in M /\ d.wal \in W
  BY <1>1
<1>3. ASSUME NEW x
      PROVE  /\ [d EXCEPT !.wal = x].wal = x
             /\ [d EXCEPT !.wal = x].manifest = d.manifest
             /\ [d EXCEPT !.wal = x].segments = d.segments
             /\ [d EXCEPT !.wal = x].deletes = d.deletes
             /\ [d EXCEPT !.wal = x].history = d.history
             /\ x \in W => IsDisk([d EXCEPT !.wal = x])
  BY <1>1 DEF IsDisk, W, M
<1>4. ASSUME NEW x
      PROVE  /\ [d EXCEPT !.manifest = x].manifest = x
             /\ [d EXCEPT !.manifest = x].wal = d.wal
             /\ [d EXCEPT !.manifest = x].segments = d.segments
             /\ [d EXCEPT !.manifest = x].deletes = d.deletes
             /\ [d EXCEPT !.manifest = x].history = d.history
             /\ x \in M => IsDisk([d EXCEPT !.manifest = x])
  BY <1>1 DEF IsDisk, W, M
<1>5. ASSUME NEW x
      PROVE  /\ [d EXCEPT !.segments = x].segments = x
             /\ [d EXCEPT !.segments = x].wal = d.wal
             /\ [d EXCEPT !.segments = x].manifest = d.manifest
             /\ [d EXCEPT !.segments = x].deletes = d.deletes
             /\ [d EXCEPT !.segments = x].history = d.history
             /\ IsDisk([d EXCEPT !.segments = x])
  BY <1>1 DEF IsDisk, W, M
<1>6. ASSUME NEW x
      PROVE  /\ [d EXCEPT !.deletes = x].deletes = x
             /\ [d EXCEPT !.deletes = x].wal = d.wal
             /\ [d EXCEPT !.deletes = x].manifest = d.manifest
             /\ [d EXCEPT !.deletes = x].segments = d.segments
             /\ [d EXCEPT !.deletes = x].history = d.history
             /\ IsDisk([d EXCEPT !.deletes = x])
  BY <1>1 DEF IsDisk, W, M
<1>7. ASSUME NEW x
      PROVE  /\ [d EXCEPT !.history = x].history = x
             /\ [d EXCEPT !.history = x].wal = d.wal
             /\ [d EXCEPT !.history = x].manifest = d.manifest
             /\ [d EXCEPT !.history = x].segments = d.segments
             /\ [d EXCEPT !.history = x].deletes = d.deletes
             /\ IsDisk([d EXCEPT !.history = x])
  BY <1>1 DEF IsDisk, W, M
<1> QED BY <1>2, <1>3, <1>4, <1>5, <1>6, <1>7, Zenon DEF W, M

\* What a manifest's constructor makes of sections.
LEMMA ManifestParts ==
    ASSUME NEW g, NEW sections
    PROVE  LET m == ManifestOf(g, sections)
           IN  /\ m.generation = g /\ m.layout = sections.layout
               /\ m.diverged = sections.diverged /\ m.next = sections.next
               /\ m.history = sections.history
               /\ g \in Nat /\ sections \in Sections => m \in Manifest
BY DEF ManifestOf, Manifest, Sections

----------------------------------------------------------------------------
\* Writes that leave the generation the manifest names alone.

(* e holds what d holds of that generation, under the same manifest; what  *)
(* else there is may have come or gone.                                    *)
SameGeneration(d, e) ==
    LET g == d.manifest.generation
    IN  /\ e.manifest = d.manifest
        /\ ObjectsTyped(e, AnyRow)
        /\ DOMAIN e.segments \subseteq (0 .. g + 1) \X Nat
        /\ \A n : n[1] = g =>
              /\ n \in DOMAIN e.segments <=> n \in DOMAIN d.segments
              /\ n \in DOMAIN e.segments => e.segments[n] = d.segments[n]
        /\ DOMAIN e.deletes \subseteq DOMAIN d.deletes
        /\ \A n \in DOMAIN d.deletes :
              n[1] = g => n \in DOMAIN e.deletes /\ e.deletes[n] = d.deletes[n]
        /\ \A i \in 0 .. d.manifest.history - 1 :
              i \in DOMAIN d.history => i \in DOMAIN e.history /\ e.history[i] = d.history[i]

LEMMA SameGenerationFits ==
    ASSUME NEW d, NEW e, ObjectsFit(d), SameGeneration(d, e)
    PROVE  /\ ObjectsFit(e)
           /\ Layout(e) = Layout(d) /\ FrozenRows(e) = FrozenRows(d)
           /\ DeleteLogs(e) = DeleteLogs(d)
           /\ \A m : Mirrors(d, m) => Mirrors(e, m)
<1> DEFINE g == d.manifest.generation
           F == FrozenRows(d)
<1>1. /\ e.manifest = d.manifest /\ e.manifest.generation = g
      /\ ObjectsTyped(e, AnyRow)
      /\ DOMAIN e.segments \subseteq (0 .. g + 1) \X Nat
      /\ DOMAIN e.deletes \subseteq DOMAIN d.deletes
  BY DEF SameGeneration
<1>2. \A n : n[1] = g =>
              /\ n \in DOMAIN e.segments <=> n \in DOMAIN d.segments
              /\ n \in DOMAIN e.segments => e.segments[n] = d.segments[n]
  BY DEF SameGeneration
<1>3. \A n \in DOMAIN d.deletes :
         n[1] = g => n \in DOMAIN e.deletes /\ e.deletes[n] = d.deletes[n]
  BY DEF SameGeneration
<1>4. /\ Sound(d, AnyRow)
      /\ \E bound \in Nat : DOMAIN d.deletes \subseteq (0 .. g) \X (0 .. bound)
      /\ d.manifest.layout = {} =>
            \A n \in DOMAIN d.segments : n[1] = g => n[2] = 0
  BY DEF ObjectsFit
<1>5. Layout(e) = Layout(d)
  <2> DEFINE A == {n \in DOMAIN d.segments : n[1] = g}
             B == {n \in DOMAIN e.segments : n[1] = g}
  <2>1. A = B
    BY <1>2
  <2>2. /\ Layout(d) = IF d.manifest.layout # {} THEN d.manifest.layout ELSE {n[2] : n \in A}
        /\ Layout(e) = IF e.manifest.layout # {} THEN e.manifest.layout ELSE {n[2] : n \in B}
    BY <1>1 DEF Layout
  <2> HIDE DEF A, B
  <2> QED BY <1>1, <2>1, <2>2
<1>6. F \in Seq([row : AnyRow, born : Nat]) /\ Lays(d.segments, g, Layout(d), F)
  BY <1>4, Zenon DEF Sound
<1>7. ASSUME NEW b, <<g, b>> \in DOMAIN d.segments
      PROVE  <<g, b>> \in DOMAIN e.segments /\ e.segments[<<g, b>>] = d.segments[<<g, b>>]
  <2>1. <<g, b>>[1] = g
    OBVIOUS
  <2> DEFINE n == <<g, b>>
  <2>2. n[1] = g /\ n \in DOMAIN d.segments
    BY <1>7, <2>1
  <2> HIDE DEF n
  <2>3. n \in DOMAIN e.segments /\ e.segments[n] = d.segments[n]
    BY <2>2, <1>2
  <2> QED BY <2>3 DEF n
<1>8. \A b \in Layout(d) : <<g, b>> \in DOMAIN d.segments
  BY <1>6, Zenon DEF Lays
<1>9. Lays(e.segments, g, Layout(e), F)
  <2> DEFINE L == Layout(d)
  <2> HIDE DEF F, L, g
  <2>1. \A b \in L : <<g, b>> \in DOMAIN e.segments /\ e.segments[<<g, b>>] = d.segments[<<g, b>>]
    BY <1>7, <1>8 DEF L
  <2>2. Lays(e.segments, g, L, F)
    BY <2>1, <1>6, LaysStill DEF L
  <2> QED BY <2>2, <1>5 DEF L
<1>10. \A b \in Layout(e) : SegmentOf(e, b) = SegmentOf(d, b)
  BY <1>1, <1>5, <1>7, <1>8 DEF SegmentOf
<1>11. DeleteLogs(e) = DeleteLogs(d) /\ \A n \in DeleteLogs(d) : e.deletes[n] = d.deletes[n]
  BY <1>1, <1>3 DEF DeleteLogs
<1>12. \A i \in 0 .. d.manifest.history - 1 :
          /\ i \in DOMAIN e.history /\ e.history[i] = d.history[i]
          /\ \A v \in e.history[i] : v.killed < d.manifest.next
  <2> TAKE i \in 0 .. d.manifest.history - 1
  <2>1. i \in DOMAIN d.history /\ \A v \in d.history[i] : v.killed < d.manifest.next
    BY <1>4 DEF Sound
  <2>2. i \in DOMAIN e.history /\ e.history[i] = d.history[i]
    BY <2>1 DEF SameGeneration
  <2> QED BY <2>1, <2>2
<1>13. Sound(e, AnyRow) /\ FrozenRows(e) = F
  <2>1. \A n \in DeleteLogs(e) : /\ e.deletes[n].ids \subseteq 0 .. Len(F) - 1
                                 /\ e.deletes[n].ids # {} => e.deletes[n].stamp > 0
    BY <1>4, <1>11 DEF Sound
  <2>2. \A b \in Layout(e) :
              ~SegmentOf(e, b).stamped =>
                 \A i \in 1 .. Len(SegmentOf(e, b).rows) :
                    SegmentOf(e, b).rows[i].born = b + i - 1
    BY <1>4, <1>5, <1>10 DEF Sound
  <2>3. e.manifest.history > 0 => e.manifest.diverged
    BY <1>1, <1>4 DEF Sound
  <2>4. \A i \in 0 .. e.manifest.history - 1 :
              i \in DOMAIN e.history /\ \A v \in e.history[i] : v.killed < e.manifest.next
    BY <1>1, <1>12
  <2>5. Lays(e.segments, e.manifest.generation, Layout(e), F)
    BY <1>1, <1>9
  <2> HIDE DEF F
  <2> QED BY <1>1, <1>6, <2>1, <2>2, <2>3, <2>4, <2>5, SoundWith
<1>14. ObjectsFit(e)
  <2>1. \E bound \in Nat : DOMAIN e.deletes \subseteq (0 .. g) \X (0 .. bound)
    BY <1>1, <1>4
  <2>2. d.manifest.layout = {} => \A n \in DOMAIN e.segments : n[1] = g => n[2] = 0
    BY <1>2, <1>4
  <2> QED BY <1>1, <1>13, <2>1, <2>2 DEF ObjectsFit
<1>15. ASSUME NEW m, Mirrors(d, m)
       PROVE  Mirrors(e, m)
  <2> DEFINE L == d.manifest.layout
             P == m.shared.frozen
  <2>1. Lays(d.segments, g, L, P)
    BY <1>15 DEF Mirrors
  <2>2. \A b \in L : <<g, b>> \in DOMAIN d.segments
    BY <2>1, Zenon DEF Lays
  <2>3. Lays(e.segments, g, L, P)
    <3> HIDE DEF L, P, g
    <3>1. \A b \in L : <<g, b>> \in DOMAIN e.segments /\ e.segments[<<g, b>>] = d.segments[<<g, b>>]
      BY <1>7, <2>2
    <3> QED BY <2>1, <3>1, LaysStill
  <2>4. \A n \in DeleteLogs(e) :
              /\ n[2] < m.deleteLogs
              /\ e.deletes[n].ids \subseteq 0 .. Len(m.shared.frozen) - 1
    BY <1>11, <1>15 DEF Mirrors
  <2>5. \A i \in 0 .. d.manifest.history - 1 : e.history[i] \subseteq m.shared.history
    BY <1>12, <1>15 DEF Mirrors
  <2> QED BY <1>1, <1>15, <2>3, <2>4, <2>5 DEF Mirrors
<1> QED BY <1>5, <1>11, <1>13, <1>14, <1>15

LEMMA MirrorParts ==
    ASSUME NEW d, NEW m, ObjectsFit(d), StateFits(m), Mirrors(d, m)
    PROVE  LET g == d.manifest.generation
               s == m.shared
           IN  /\ d.manifest \in Manifest /\ g \in Nat
               /\ s.frozen \in Seq(Held) /\ Len(s.frozen) \in Nat
               /\ s.base = Len(s.frozen)
               /\ Lays(d.segments, g, d.manifest.layout, s.frozen)
               /\ d.manifest.layout # {} => /\ Layout(d) = d.manifest.layout
                                            /\ FrozenRows(d) = s.frozen
               /\ d.manifest.layout = {} => s.frozen = << >>
               /\ \A b \in d.manifest.layout :
                     /\ b \in Nat /\ b < Len(s.frozen)
                     /\ <<g, b>> \in DOMAIN d.segments
                     /\ ~d.segments[<<g, b>>].stamped =>
                           \A i \in 1 .. Len(d.segments[<<g, b>>].rows) :
                              d.segments[<<g, b>>].rows[i].born = b + i - 1
<1> DEFINE g == d.manifest.generation
           L == d.manifest.layout
           P == m.shared.frozen
<1>1. Sound(d, AnyRow) /\ d.manifest \in Manifest /\ g \in Nat
  BY DEF ObjectsFit, Sound, ObjectsTyped, Manifest
<1>2. P \in Seq(Held) /\ Len(P) \in Nat /\ m.shared.base = Len(P)
  BY FieldTypes DEF StateFits, WellFormed, Held
<1>3. Lays(d.segments, g, L, P)
  BY DEF Mirrors
<1>4. L # {} => Layout(d) = L
  BY DEF Layout
<1>5. L # {} => FrozenRows(d) = P
  <2> SUFFICES ASSUME L # {} PROVE FrozenRows(d) = P
    OBVIOUS
  <2>1. Lays(d.segments, d.manifest.generation, Layout(d), P)
    BY <1>3, <1>4
  <2> HIDE DEF P, L, g
  <2> QED BY <2>1, <1>2, LaidOut
<1>6. L = {} => P = << >>
  <2> SUFFICES ASSUME L = {}, Len(P) # 0 PROVE FALSE
    BY <1>2, EmptySeq
  <2>1. 1 \in 1 .. Len(P)
    BY <1>2
  <2>2. \E b \in L : TRUE
    BY <1>3, <2>1, Zenon DEF Lays
  <2> QED BY <2>2
<1>7. ASSUME NEW b \in L
      PROVE  b \in Nat /\ b < Len(P) /\ <<g, b>> \in DOMAIN d.segments
  <2> DEFINE q == Len(d.segments[<<g, b>>].rows)
  <2>1. b \in Nat /\ <<g, b>> \in DOMAIN d.segments /\ q \in Nat \ {0} /\ b + q <= Len(P)
    BY <1>3, Zenon DEF Lays
  <2> HIDE DEF q
  <2> QED BY <1>2, <2>1
<1>8. ASSUME NEW b \in L
      PROVE  ~d.segments[<<g, b>>].stamped =>
               \A i \in 1 .. Len(d.segments[<<g, b>>].rows) :
                  d.segments[<<g, b>>].rows[i].born = b + i - 1
  <2>1. b \in Layout(d) /\ SegmentOf(d, b) = d.segments[<<g, b>>]
    BY <1>4 DEF SegmentOf
  <2>2. ~SegmentOf(d, b).stamped =>
                 \A i \in 1 .. Len(SegmentOf(d, b).rows) :
                    SegmentOf(d, b).rows[i].born = b + i - 1
    BY <1>1, <2>1 DEF Sound
  <2> QED BY <2>1, <2>2
<1> QED BY <1>1, <1>2, <1>3, <1>4, <1>5, <1>6, <1>7, <1>8, Zenon

\* The rows of the buffer, published where the segments end.
Fresh(segment, b) ==
    /\ segment \in Segment(AnyRow) /\ segment.rows # << >>
    /\ ~segment.stamped => \A i \in 1 .. Len(segment.rows) :
                              segment.rows[i].born = b + i - 1

LEMMA PublishFits ==
    ASSUME NEW d, NEW m, ObjectsFit(d), StateFits(m), Mirrors(d, m),
           NEW segment, Fresh(segment, m.shared.base),
           NEW e, e.manifest = d.manifest, e.deletes = d.deletes, e.history = d.history,
           e.segments = Publish(d.segments, <<d.manifest.generation, m.shared.base>>, segment)
    PROVE  ObjectsFit(e) /\ Mirrors(e, m)
<1> DEFINE g == d.manifest.generation
           L == d.manifest.layout
           P == m.shared.frozen
           b == m.shared.base
           name == <<g, b>>
           Q == segment.rows
<1>1. /\ d.manifest \in Manifest /\ g \in Nat
      /\ P \in Seq(Held) /\ Len(P) \in Nat /\ b = Len(P)
      /\ Lays(d.segments, g, L, P)
      /\ L # {} => Layout(d) = L /\ FrozenRows(d) = P
      /\ L = {} => P = << >>
  BY MirrorParts, Zenon
<1>2. \A c \in L : c \in Nat /\ c < Len(P) /\ <<g, c>> \in DOMAIN d.segments
  BY MirrorParts, Zenon
<1>3. Sound(d, AnyRow) /\ DOMAIN d.segments \subseteq (0 .. g + 1) \X Nat
      /\ (L = {} => \A n \in DOMAIN d.segments : n[1] = g => n[2] = 0)
  BY DEF ObjectsFit
<1>4. /\ DOMAIN e.segments = DOMAIN d.segments \cup {name}
      /\ e.segments[name] = segment
      /\ \A n \in DOMAIN d.segments : n # name => e.segments[n] = d.segments[n]
  BY DEF Publish
<1>5. segment \in Segment(AnyRow) /\ Q # << >> /\ Q \in Seq(Held)
  BY DEF Fresh, Segment, Held
<1>6. ObjectsTyped(e, AnyRow)
  <2>1. \A n \in DOMAIN e.segments : e.segments[n] \in Segment(AnyRow)
    BY <1>3, <1>4, <1>5 DEF Sound, ObjectsTyped
  <2> QED BY <1>3, <2>1 DEF Sound, ObjectsTyped
<1>7. \A c \in L : <<g, c>> # name /\ e.segments[<<g, c>>] = d.segments[<<g, c>>]
                   /\ <<g, c>> \in DOMAIN e.segments
  <2> TAKE c \in L
  <2>1. c # b
    BY <1>1, <1>2
  <2> DEFINE n == <<g, c>>
  <2>2. n # name /\ n \in DOMAIN d.segments
    BY <2>1, <1>2
  <2> HIDE DEF n, name
  <2>3. e.segments[n] = d.segments[n] /\ n \in DOMAIN e.segments
    BY <2>2, <1>4
  <2> QED BY <2>2, <2>3 DEF n
<1>8. Lays(e.segments, g, L, P)
  <2> HIDE DEF g, L, P, name
  <2> QED BY <1>1, <1>7, LaysStill
<1>9. Mirrors(e, m)
  <2>1. DeleteLogs(e) = DeleteLogs(d)
    BY DEF DeleteLogs
  <2> QED BY <1>8, <2>1 DEF Mirrors
<1>10. DeleteLogs(e) = DeleteLogs(d) /\ e.manifest.generation = g
  BY DEF DeleteLogs
<1>11. DOMAIN e.segments \subseteq (0 .. g + 1) \X Nat
  <2>1. name \in (0 .. g + 1) \X Nat
    BY <1>1
  <2> QED BY <1>3, <1>4, <2>1
<1>12. L = {} => \A n \in DOMAIN e.segments : n[1] = g => n[2] = 0
  <2> SUFFICES ASSUME L = {}, NEW n \in DOMAIN e.segments, n[1] = g PROVE n[2] = 0
    OBVIOUS
  <2>1. b = 0
    BY <1>1
  <2>2. CASE n = name
    BY <2>1, <2>2
  <2>3. CASE n # name
    BY <2>3, <1>3, <1>4
  <2> QED BY <2>2, <2>3
<1>13. \E bound \in Nat : DOMAIN e.deletes \subseteq (0 .. g) \X (0 .. bound)
  BY DEF ObjectsFit
<1>14. Sound(e, AnyRow)
  <2>1. CASE L # {}
    <3>1. Layout(e) = L
      BY <2>1 DEF Layout
    <3>2. \A n \in DeleteLogs(e) : /\ e.deletes[n].ids \subseteq 0 .. Len(P) - 1
                                   /\ e.deletes[n].ids # {} => e.deletes[n].stamp > 0
      BY <1>1, <1>3, <1>10, <2>1 DEF Sound
    <3>3. \A c \in Layout(e) :
              ~SegmentOf(e, c).stamped =>
                 \A i \in 1 .. Len(SegmentOf(e, c).rows) :
                    SegmentOf(e, c).rows[i].born = c + i - 1
      <4> TAKE c \in Layout(e)
      <4>1. SegmentOf(e, c) = SegmentOf(d, c) /\ c \in Layout(d)
        BY <1>1, <1>7, <3>1, <2>1 DEF SegmentOf
      <4> QED BY <4>1, <1>3 DEF Sound
    <3>4. /\ e.manifest.history > 0 => e.manifest.diverged
          /\ \A i \in 0 .. e.manifest.history - 1 :
              i \in DOMAIN e.history /\ \A v \in e.history[i] : v.killed < e.manifest.next
      BY <1>3 DEF Sound
    <3>5. Lays(e.segments, e.manifest.generation, Layout(e), P)
      BY <1>8, <3>1
    <3>6. P \in Seq([row : AnyRow, born : Nat])
      BY <1>1 DEF Held
    <3> HIDE DEF P, L, g
    <3> QED BY <1>6, <3>2, <3>3, <3>4, <3>5, <3>6, SoundWith
  <2>2. CASE L = {}
    <3>1. P = << >> /\ b = 0 /\ Len(P) = 0
      BY <2>2, <1>1
    <3>2. Layout(e) = {0}
      <4>1. Layout(e) = {n[2] : n \in {x \in DOMAIN e.segments : x[1] = g}}
        BY <2>2 DEF Layout
      <4>2. name \in DOMAIN e.segments /\ name[1] = g /\ name[2] = 0
        BY <1>4, <3>1
      <4> HIDE DEF name
      <4> QED BY <4>1, <4>2, <1>12, <2>2
    <3>3. \A n \in DeleteLogs(e) : e.deletes[n].ids = {}
      <4> TAKE n \in DeleteLogs(e)
      <4>1. d.deletes[n].ids \subseteq 0 .. Len(P) - 1
        BY <1>10 DEF Mirrors
      <4>2. 0 .. Len(P) - 1 = {}
        BY <3>1
      <4> QED BY <4>1, <4>2
    <3>4. SegmentOf(e, 0) = segment
      BY <1>4, <3>1 DEF SegmentOf
    <3>5. Lays(e.segments, g, {0}, Q)
      <4> DEFINE E == << >>
      <4>1. Lays(e.segments, g, {}, E) /\ E \in Seq(Held) /\ Len(E) = 0
        BY LaysNone
      <4>2. <<g, 0>> \in DOMAIN e.segments /\ e.segments[<<g, 0>>].rows = Q
        BY <1>4, <3>1
      <4>3. E \o Q = Q
        BY <1>5, ConcatEmptySeq
      <4>4. {} \cup {0} = {0}
        OBVIOUS
      <4> HIDE DEF E, Q, g
      <4>5. Lays(e.segments, g, {} \cup {0}, E \o Q)
        BY <4>1, <4>2, <1>5, LaysOneMore
      <4> QED BY <4>3, <4>4, <4>5
    <3>6. \A c \in Layout(e) :
              ~SegmentOf(e, c).stamped =>
                 \A i \in 1 .. Len(SegmentOf(e, c).rows) :
                    SegmentOf(e, c).rows[i].born = c + i - 1
      BY <3>1, <3>2, <3>4 DEF Fresh
    <3>7. /\ e.manifest.history > 0 => e.manifest.diverged
          /\ \A i \in 0 .. e.manifest.history - 1 :
              i \in DOMAIN e.history /\ \A v \in e.history[i] : v.killed < e.manifest.next
      BY <1>3 DEF Sound
    <3>8. Lays(e.segments, e.manifest.generation, Layout(e), Q)
      BY <3>2, <3>5
    <3>9. \A n \in DeleteLogs(e) : /\ e.deletes[n].ids \subseteq 0 .. Len(Q) - 1
                                   /\ e.deletes[n].ids # {} => e.deletes[n].stamp > 0
      BY <3>3
    <3>10. Q \in Seq([row : AnyRow, born : Nat])
      BY <1>5 DEF Held
    <3> HIDE DEF P, L, g, Q
    <3> QED BY <1>6, <3>6, <3>7, <3>8, <3>9, <3>10, SoundWith
  <2> QED BY <2>1, <2>2
<1> QED BY <1>9, <1>11, <1>12, <1>13, <1>14 DEF ObjectsFit

\* The manifest names the segment published where the layout ends.
LEMMA NamedFits ==
    ASSUME NEW d, NEW m, ObjectsFit(d), StateFits(m), Mirrors(d, m),
           IsDisk(d), IsMemory(m),
           NEW segment, Fresh(segment, m.shared.base),
           <<d.manifest.generation, m.shared.base>> \in DOMAIN d.segments,
           d.segments[<<d.manifest.generation, m.shared.base>>] = segment,
           NEW e, e.deletes = d.deletes, e.history = d.history, e.segments = d.segments,
           NEW sections \in Sections, sections.layout = m.sections.layout \cup {m.shared.base},
           sections.diverged = m.sections.diverged, sections.next = m.sections.next,
           sections.history = m.sections.history,
           e.manifest = ManifestOf(m.generation, sections),
           NEW k, k.generation = m.generation, k.sections = sections,
           k.deleteLogs = m.deleteLogs,
           k.shared.frozen = m.shared.frozen \o segment.rows,
           k.shared.diverged = m.shared.diverged, k.shared.history = m.shared.history
    PROVE  ObjectsFit(e) /\ Mirrors(e, k)
<1> DEFINE g == d.manifest.generation
           L == d.manifest.layout
           P == m.shared.frozen
           b == m.shared.base
           name == <<g, b>>
           Q == segment.rows
           F == P \o Q
           M == L \cup {b}
<1>1. /\ d.manifest \in Manifest /\ g \in Nat
      /\ P \in Seq(Held) /\ Len(P) \in Nat /\ b = Len(P)
      /\ Lays(d.segments, g, L, P)
      /\ L # {} => Layout(d) = L /\ FrozenRows(d) = P
      /\ L = {} => P = << >>
  BY MirrorParts, Zenon
<1>2. \A c \in L :
         ~d.segments[<<g, c>>].stamped =>
            \A i \in 1 .. Len(d.segments[<<g, c>>].rows) :
               d.segments[<<g, c>>].rows[i].born = c + i - 1
  BY MirrorParts, Zenon
<1>3. Sound(d, AnyRow) /\ DOMAIN d.segments \subseteq (0 .. g + 1) \X Nat
  BY DEF ObjectsFit
<1>4. segment \in Segment(AnyRow) /\ Q # << >> /\ Q \in Seq(Held)
  BY DEF Fresh, Segment, Held
<1>5. /\ m.sections \in Sections /\ m.generation = g
      /\ m.sections.layout = L /\ m.sections.diverged = d.manifest.diverged
      /\ m.sections.next = d.manifest.next /\ m.sections.history = d.manifest.history
  <2>1. m.sections \in Sections
    BY DEF IsMemory
  <2>2. d.manifest = ManifestOf(m.generation, m.sections)
    BY DEF Mirrors
  <2> QED BY <2>1, <2>2, ManifestParts
<1>6. /\ sections \in Sections /\ sections.layout = M
      /\ sections.diverged = d.manifest.diverged
      /\ sections.next = d.manifest.next /\ sections.history = d.manifest.history
  BY <1>5
<1>7. /\ e.manifest.generation = g /\ e.manifest.layout = M
      /\ e.manifest.diverged = d.manifest.diverged
      /\ e.manifest.next = d.manifest.next /\ e.manifest.history = d.manifest.history
      /\ e.manifest \in Manifest
  <2> DEFINE h == d.manifest.generation
             m2 == ManifestOf(h, sections)
  <2>1. e.manifest = m2 /\ h \in Nat
    BY <1>1, <1>5
  <2>2. /\ m2.generation = h /\ m2.layout = sections.layout
        /\ m2.diverged = sections.diverged /\ m2.next = sections.next
        /\ m2.history = sections.history
        /\ h \in Nat /\ sections \in Sections => m2 \in Manifest
    BY ManifestParts
  <2> HIDE DEF m2, M
  <2> QED BY <1>6, <2>1, <2>2
<1>8. Lays(e.segments, g, M, F)
  <2>1. <<g, Len(P)>> \in DOMAIN d.segments /\ d.segments[<<g, Len(P)>>].rows = Q
    BY <1>1
  <2>2. M = L \cup {Len(P)}
    BY <1>1
  <2> HIDE DEF L, P, Q, g, M
  <2>3. Lays(d.segments, g, L \cup {Len(P)}, P \o Q)
    BY <1>1, <1>4, <2>1, LaysOneMore
  <2> QED BY <2>2, <2>3
<1>9. DeleteLogs(e) = DeleteLogs(d)
  BY <1>7 DEF DeleteLogs
<1>10. F \in Seq(Held) /\ Len(F) = Len(P) + Len(Q) /\ Len(Q) \in Nat
  <2> HIDE DEF P, Q
  <2> QED BY <1>1, <1>4, ConcatProperties, LenProperties
<1>11. \A n \in DeleteLogs(e) : /\ e.deletes[n].ids \subseteq 0 .. Len(P) - 1
                                /\ e.deletes[n].ids \subseteq 0 .. Len(F) - 1
                                /\ e.deletes[n].ids # {} => e.deletes[n].stamp > 0
                                /\ n[2] < m.deleteLogs
  <2> TAKE n \in DeleteLogs(e)
  <2>1. /\ e.deletes[n].ids \subseteq 0 .. Len(P) - 1
        /\ n[2] < m.deleteLogs
    BY <1>9 DEF Mirrors
  <2>2. e.deletes[n].ids # {} => e.deletes[n].stamp > 0
    BY <1>3, <1>9 DEF Sound
  <2>3. 0 .. Len(P) - 1 \subseteq 0 .. Len(F) - 1
    <3> HIDE DEF P, F, Q
    <3> QED BY <1>1, <1>10
  <2> QED BY <2>1, <2>2, <2>3
<1>12. Mirrors(e, k)
  <2>1. \A n \in DeleteLogs(e) :
              /\ n[2] < k.deleteLogs
              /\ e.deletes[n].ids \subseteq 0 .. Len(k.shared.frozen) - 1
    BY <1>11
  <2>2. e.manifest.diverged => k.shared.diverged
    BY <1>7 DEF Mirrors
  <2>3. \A i \in 0 .. e.manifest.history - 1 : e.history[i] \subseteq k.shared.history
    BY <1>7 DEF Mirrors
  <2>4. e.manifest = ManifestOf(k.generation, k.sections)
    OBVIOUS
  <2>5. Lays(e.segments, e.manifest.generation, e.manifest.layout, k.shared.frozen)
    BY <1>7, <1>8
  <2> QED BY <2>1, <2>2, <2>3, <2>4, <2>5 DEF Mirrors
<1>13. ObjectsTyped(e, AnyRow)
  BY <1>3, <1>7 DEF Sound, ObjectsTyped
<1>14. Layout(e) = M
  <2>1. M # {}
    OBVIOUS
  <2> QED BY <1>7, <2>1 DEF Layout
<1>15. \A c \in Layout(e) :
              ~SegmentOf(e, c).stamped =>
                 \A i \in 1 .. Len(SegmentOf(e, c).rows) :
                    SegmentOf(e, c).rows[i].born = c + i - 1
  <2> TAKE c \in Layout(e)
  <2>1. SegmentOf(e, c) = d.segments[<<g, c>>]
    BY <1>7 DEF SegmentOf
  <2>2. CASE c \in L
    BY <2>1, <2>2, <1>2
  <2>3. CASE c = b
    <3>1. SegmentOf(e, c) = segment
      BY <2>1, <2>3
    <3>2. ~segment.stamped => \A i \in 1 .. Len(segment.rows) :
                              segment.rows[i].born = b + i - 1
      BY DEF Fresh
    <3> QED BY <3>1, <3>2, <2>3
  <2> QED BY <2>2, <2>3, <1>14
<1>16. Sound(e, AnyRow)
  <2>1. /\ e.manifest.history > 0 => e.manifest.diverged
        /\ \A i \in 0 .. e.manifest.history - 1 :
              i \in DOMAIN e.history /\ \A v \in e.history[i] : v.killed < e.manifest.next
    BY <1>3, <1>7 DEF Sound
  <2>2. Lays(e.segments, e.manifest.generation, Layout(e), F)
    BY <1>7, <1>8, <1>14
  <2>3. F \in Seq([row : AnyRow, born : Nat])
    BY <1>10 DEF Held
  <2>4. \A n \in DeleteLogs(e) : /\ e.deletes[n].ids \subseteq 0 .. Len(F) - 1
                                 /\ e.deletes[n].ids # {} => e.deletes[n].stamp > 0
    BY <1>11
  <2> HIDE DEF F
  <2> QED BY <1>13, <1>15, <2>1, <2>2, <2>3, <2>4, SoundWith
<1>17. \E bound \in Nat : DOMAIN e.deletes \subseteq (0 .. g) \X (0 .. bound)
  BY DEF ObjectsFit
<1>18. M # {}
  OBVIOUS
<1> QED BY <1>3, <1>7, <1>12, <1>16, <1>17, <1>18 DEF ObjectsFit

\* A delete log over rows of the segments, under the next number.
LEMMA DeleteLogFits ==
    ASSUME NEW d, NEW m, ObjectsFit(d), StateFits(m), Mirrors(d, m), m.deleteLogs \in Nat,
           NEW log \in DeleteRecord, log.ids \subseteq 0 .. m.shared.base - 1,
           log.ids # {} => log.stamp > 0,
           NEW e, e.manifest = d.manifest, e.segments = d.segments, e.history = d.history,
           e.deletes = Publish(d.deletes, <<d.manifest.generation, m.deleteLogs>>, log),
           NEW k, k.generation = m.generation, k.sections = m.sections,
           k.deleteLogs = m.deleteLogs + 1,
           k.shared.frozen = m.shared.frozen,
           m.shared.diverged => k.shared.diverged, m.shared.history \subseteq k.shared.history
    PROVE  ObjectsFit(e) /\ Mirrors(e, k)
<1> DEFINE g == d.manifest.generation
           L == d.manifest.layout
           P == m.shared.frozen
           name == <<g, m.deleteLogs>>
           F == FrozenRows(d)
<1>1. /\ d.manifest \in Manifest /\ g \in Nat
      /\ Len(P) \in Nat /\ m.shared.base = Len(P)
      /\ L # {} => FrozenRows(d) = P
      /\ L = {} => P = << >>
  BY MirrorParts, Zenon
<1>2. Sound(d, AnyRow) /\ DOMAIN d.segments \subseteq (0 .. g + 1) \X Nat
      /\ (L = {} => \A n \in DOMAIN d.segments : n[1] = g => n[2] = 0)
  BY DEF ObjectsFit
<1>3. /\ DOMAIN e.deletes = DOMAIN d.deletes \cup {name}
      /\ e.deletes[name] = log
      /\ \A n \in DOMAIN d.deletes : n # name => e.deletes[n] = d.deletes[n]
  BY DEF Publish
<1>4. Layout(e) = Layout(d) /\ \A b : SegmentOf(e, b) = SegmentOf(d, b)
  BY DEF Layout, SegmentOf
<1>5. DeleteLogs(e) = DeleteLogs(d) \cup {name}
  <2>1. name[1] = g
    OBVIOUS
  <2> HIDE DEF name, g
  <2>2. DeleteLogs(e) = {n \in DOMAIN e.deletes : n[1] = g}
        /\ DeleteLogs(d) = {n \in DOMAIN d.deletes : n[1] = g}
    BY DEF DeleteLogs, g
  <2> QED BY <1>3, <2>1, <2>2
<1>6. ObjectsTyped(e, AnyRow)
  <2>1. \A n \in DOMAIN e.deletes : e.deletes[n] \in DeleteRecord
    BY <1>2, <1>3 DEF Sound, ObjectsTyped
  <2> QED BY <1>2, <2>1 DEF Sound, ObjectsTyped
<1>7. F \in Seq([row : AnyRow, born : Nat]) /\ Lays(d.segments, g, Layout(d), F)
      /\ Len(F) \in Nat
  <2>1. F \in Seq([row : AnyRow, born : Nat]) /\ Lays(d.segments, g, Layout(d), F)
    BY <1>2, Zenon DEF Sound
  <2> QED BY <2>1, LenProperties
<1>8. 0 .. Len(P) - 1 \subseteq 0 .. Len(F) - 1
  <2>1. CASE L # {}
    BY <1>1, <2>1
  <2>2. CASE L = {}
    <3>1. Len(P) = 0
      BY <1>1, <2>2
    <3> QED BY <3>1
  <2> QED BY <2>1, <2>2
<1>9. \A n \in DeleteLogs(d) : e.deletes[n] = d.deletes[n] \/ n = name
  BY <1>3, <1>5 DEF DeleteLogs
<1>10. ASSUME NEW n \in DeleteLogs(e)
       PROVE  /\ n[2] < m.deleteLogs + 1
              /\ e.deletes[n].ids \subseteq 0 .. Len(P) - 1
              /\ e.deletes[n].ids # {} => e.deletes[n].stamp > 0
  <2>1. CASE n = name
    <3>1. n[2] = m.deleteLogs
      BY <2>1
    <3> QED BY <1>1, <1>3, <2>1, <3>1
  <2>2. CASE n # name
    <3>1. n \in DeleteLogs(d) /\ e.deletes[n] = d.deletes[n]
      BY <2>2, <1>5, <1>9
    <3>2. n[2] < m.deleteLogs /\ d.deletes[n].ids \subseteq 0 .. Len(P) - 1
      BY <3>1 DEF Mirrors
    <3>3. d.deletes[n].ids # {} => d.deletes[n].stamp > 0
      BY <3>1, <1>2 DEF Sound
    <3>4. n[2] \in Nat
      <4>1. PICK bound \in Nat : DOMAIN d.deletes \subseteq (0 .. g) \X (0 .. bound)
        BY DEF ObjectsFit
      <4>2. n \in (0 .. g) \X (0 .. bound)
        BY <3>1, <4>1 DEF DeleteLogs
      <4> QED BY <4>2
    <3> QED BY <3>1, <3>2, <3>3, <3>4
  <2> QED BY <2>1, <2>2
<1>11. Sound(e, AnyRow)
  <2>1. \A n \in DeleteLogs(e) : /\ e.deletes[n].ids \subseteq 0 .. Len(F) - 1
                                 /\ e.deletes[n].ids # {} => e.deletes[n].stamp > 0
    <3> HIDE DEF F, P
    <3> QED BY <1>8, <1>10
  <2>2. \A b \in Layout(e) :
              ~SegmentOf(e, b).stamped =>
                 \A i \in 1 .. Len(SegmentOf(e, b).rows) :
                    SegmentOf(e, b).rows[i].born = b + i - 1
    BY <1>2, <1>4 DEF Sound
  <2>3. /\ e.manifest.history > 0 => e.manifest.diverged
        /\ \A i \in 0 .. e.manifest.history - 1 :
              i \in DOMAIN e.history /\ \A v \in e.history[i] : v.killed < e.manifest.next
    BY <1>2 DEF Sound
  <2>4. Lays(e.segments, e.manifest.generation, Layout(e), F)
    BY <1>4, <1>7
  <2> HIDE DEF F
  <2> QED BY <1>6, <1>7, <2>1, <2>2, <2>3, <2>4, SoundWith
<1>12. \E bound \in Nat : DOMAIN e.deletes \subseteq (0 .. g) \X (0 .. bound)
  <2>1. PICK bound \in Nat : DOMAIN d.deletes \subseteq (0 .. g) \X (0 .. bound)
    BY DEF ObjectsFit
  <2> DEFINE top == bound + m.deleteLogs
  <2>2. top \in Nat /\ 0 .. bound \subseteq 0 .. top /\ m.deleteLogs \in 0 .. top
    OBVIOUS
  <2>3. name \in (0 .. g) \X (0 .. top)
    BY <2>2, <1>1
  <2> HIDE DEF top, name
  <2>4. DOMAIN e.deletes \subseteq (0 .. g) \X (0 .. top)
    BY <1>3, <2>1, <2>2, <2>3
  <2> QED BY <2>2, <2>4
<1>13. ObjectsFit(e)
  BY <1>2, <1>11, <1>12 DEF ObjectsFit
<1>14. Mirrors(e, k)
  <2>1. \A n \in DeleteLogs(e) :
              /\ n[2] < k.deleteLogs
              /\ e.deletes[n].ids \subseteq 0 .. Len(k.shared.frozen) - 1
    BY <1>10
  <2>2. e.manifest.diverged => k.shared.diverged
    BY DEF Mirrors
  <2>3. \A i \in 0 .. e.manifest.history - 1 : e.history[i] \subseteq k.shared.history
    BY DEF Mirrors
  <2>4. e.manifest = ManifestOf(k.generation, k.sections)
    BY DEF Mirrors
  <2>5. Lays(e.segments, e.manifest.generation, e.manifest.layout, k.shared.frozen)
    BY DEF Mirrors
  <2> QED BY <2>1, <2>2, <2>3, <2>4, <2>5 DEF Mirrors
<1> QED BY <1>13, <1>14

(* Generation h of d is written whole: the rows F in segments of S rows,   *)
(* and nothing else.                                                       *)
WrittenWhole(d, h, N, S, F) ==
    /\ N = {b \in 0 .. Len(F) - 1 : b % S = 0}
    /\ \A b \in N :
          /\ <<h, b>> \in DOMAIN d.segments
          /\ d.segments[<<h, b>>].rows = SubSeq(F, b + 1, Min({b + S, Len(F)}))
          /\ ~d.segments[<<h, b>>].stamped =>
                \A i \in 1 .. Len(d.segments[<<h, b>>].rows) :
                   d.segments[<<h, b>>].rows[i].born = b + i - 1
    /\ \A n \in DOMAIN d.segments : n[1] = h => n[2] \in N

\* Memory k names that generation, and the history there is.
NamesGeneration(d, k, h, N, F) ==
    /\ k.generation = h /\ k.sections \in Sections
    /\ k.sections.layout = N /\ k.shared.frozen = F
    /\ k.sections.diverged => k.shared.diverged
    /\ k.sections.history > 0 => k.sections.diverged
    /\ \A i \in 0 .. k.sections.history - 1 :
          /\ i \in DOMAIN d.history /\ d.history[i] \subseteq k.shared.history
          /\ \A v \in d.history[i] : v.killed < k.sections.next

\* The manifest moves to a generation written whole.
LEMMA NextGenerationFits ==
    ASSUME NEW d, ObjectsFit(d), IsDisk(d),
           NEW S \in Nat \ {0}, NEW F \in Seq(Held), NEW N,
           NEW h, h = d.manifest.generation + 1, WrittenWhole(d, h, N, S, F),
           NEW e, e.deletes = d.deletes, e.history = d.history, e.segments = d.segments,
           NEW k, NamesGeneration(d, k, h, N, F),
           e.manifest = ManifestOf(k.generation, k.sections)
    PROVE  ObjectsFit(e) /\ Mirrors(e, k)
<1> USE DEF WrittenWhole, NamesGeneration
<1> DEFINE g == d.manifest.generation
<1>1. Sound(d, AnyRow) /\ DOMAIN d.segments \subseteq (0 .. g + 1) \X Nat
      /\ d.manifest \in Manifest /\ g \in Nat
  <2>1. Sound(d, AnyRow) /\ DOMAIN d.segments \subseteq (0 .. g + 1) \X Nat
    BY DEF ObjectsFit
  <2>2. d.manifest \in Manifest
    BY DiskParts
  <2> QED BY <2>1, <2>2 DEF Manifest
<1>2. PICK bound \in Nat : DOMAIN d.deletes \subseteq (0 .. g) \X (0 .. bound)
  BY DEF ObjectsFit
<1> HIDE DEF g
<1>3. h \in Nat /\ h = g + 1
  BY <1>1 DEF g
<1>4. /\ e.manifest.generation = h /\ e.manifest.layout = N
      /\ e.manifest.diverged = k.sections.diverged
      /\ e.manifest.next = k.sections.next /\ e.manifest.history = k.sections.history
      /\ e.manifest \in Manifest
  BY <1>3, ManifestParts
<1>5. DeleteLogs(e) = {}
  <2> SUFFICES ASSUME NEW n \in DeleteLogs(e) PROVE FALSE
    OBVIOUS
  <2>1. n \in (0 .. g) \X (0 .. bound) /\ n[1] = h
    BY <1>2, <1>4 DEF DeleteLogs
  <2>2. n[1] \in 0 .. g
    BY <2>1
  <2> QED BY <1>1, <1>3, <2>1, <2>2
<1>6. N # {} => Layout(e) = N
  BY <1>4 DEF Layout
<1>7. N = {} => Layout(e) = {}
  <2> SUFFICES ASSUME N = {} PROVE Layout(e) = {}
    OBVIOUS
  <2>1. {n \in DOMAIN e.segments : n[1] = h} = {}
    OBVIOUS
  <2>2. Layout(e) = {n[2] : n \in {x \in DOMAIN e.segments : x[1] = h}}
    BY <1>4 DEF Layout
  <2> QED BY <2>1, <2>2
<1>8. Layout(e) = N
  BY <1>6, <1>7
<1>9. Lays(e.segments, h, N, F)
  <2> DEFINE X == Held
  <2>1. F \in Seq(X)
    OBVIOUS
  <2> HIDE DEF X
  <2>2. \A b \in N :
           /\ <<h, b>> \in DOMAIN e.segments
           /\ e.segments[<<h, b>>].rows = SubSeq(F, b + 1, Min({b + S, Len(F)}))
    OBVIOUS
  <2> QED BY <2>1, <2>2, LaysChunks
<1>10. Mirrors(e, k)
  <2>1. e.manifest = ManifestOf(k.generation, k.sections)
    OBVIOUS
  <2>2. Lays(e.segments, e.manifest.generation, e.manifest.layout, k.shared.frozen)
    BY <1>4, <1>9
  <2>3. \A i \in 0 .. e.manifest.history - 1 : e.history[i] \subseteq k.shared.history
    BY <1>4
  <2>4. e.manifest.diverged => k.shared.diverged
    BY <1>4
  <2> QED BY <1>5, <2>1, <2>2, <2>3, <2>4 DEF Mirrors
<1>11. ObjectsTyped(e, AnyRow)
  BY <1>1, <1>4 DEF Sound, ObjectsTyped
<1>12. Sound(e, AnyRow)
  <2>1. \A c \in Layout(e) :
              ~SegmentOf(e, c).stamped =>
                 \A i \in 1 .. Len(SegmentOf(e, c).rows) :
                    SegmentOf(e, c).rows[i].born = c + i - 1
    <3> TAKE c \in Layout(e)
    <3>1. c \in N /\ SegmentOf(e, c) = d.segments[<<h, c>>]
      BY <1>4, <1>8 DEF SegmentOf
    <3>2. ~d.segments[<<h, c>>].stamped =>
             \A i \in 1 .. Len(d.segments[<<h, c>>].rows) :
                d.segments[<<h, c>>].rows[i].born = c + i - 1
      BY <3>1
    <3> QED BY <3>1, <3>2
  <2>2. /\ e.manifest.history > 0 => e.manifest.diverged
        /\ \A i \in 0 .. e.manifest.history - 1 :
              i \in DOMAIN e.history /\ \A v \in e.history[i] : v.killed < e.manifest.next
    BY <1>4
  <2>3. Lays(e.segments, e.manifest.generation, Layout(e), F)
    BY <1>4, <1>8, <1>9
  <2>4. F \in Seq([row : AnyRow, born : Nat])
    BY DEF Held
  <2> QED BY <1>5, <1>11, <2>1, <2>2, <2>3, <2>4, SoundWith
<1>13. DOMAIN e.segments \subseteq (0 .. h + 1) \X Nat
  <2>1. 0 .. g + 1 \subseteq 0 .. h + 1
    BY <1>1, <1>3
  <2>2. (0 .. g + 1) \X Nat \subseteq (0 .. h + 1) \X Nat
    BY <2>1
  <2> QED BY <1>1, <2>2
<1>14. DOMAIN e.deletes \subseteq (0 .. h) \X (0 .. bound)
  <2>1. 0 .. g \subseteq 0 .. h
    BY <1>1, <1>3
  <2>2. (0 .. g) \X (0 .. bound) \subseteq (0 .. h) \X (0 .. bound)
    BY <2>1
  <2> QED BY <1>2, <2>2
<1>15. N = {} => \A n \in DOMAIN e.segments : n[1] = h => n[2] = 0
  OBVIOUS
<1>16. ObjectsFit(e)
  BY <1>4, <1>12, <1>13, <1>14, <1>15 DEF ObjectsFit
<1> QED BY <1>10, <1>16

\* An open adopts what it finds, and names in the manifest what it found.
LEMMA OpenFits ==
    ASSUME NEW d, ObjectsFit(d), IsDisk(d),
           NEW sections, sections = [layout |-> Layout(d), diverged |-> d.manifest.diverged,
                                     next |-> d.manifest.next, history |-> d.manifest.history],
           NEW e, e.deletes = d.deletes, e.history = d.history, e.segments = d.segments,
           e.manifest = ManifestOf(d.manifest.generation, sections),
           NEW k, k.generation = d.manifest.generation, k.sections = sections,
           k.shared = Loaded(d), k.deleteLogs = NextDeleteLog(d), k.rows = Extent(d)
    PROVE  /\ ObjectsFit(e) /\ Mirrors(e, k) /\ StateFits(k)
           /\ sections \in Sections /\ NextDeleteLog(d) \in Nat
           /\ e.manifest \in Manifest /\ e.manifest.generation = d.manifest.generation
<1> DEFINE g == d.manifest.generation
           F == FrozenRows(d)
           s == Loaded(d)
<1>1. Sound(d, AnyRow) /\ DOMAIN d.segments \subseteq (0 .. g + 1) \X Nat
      /\ (d.manifest.layout = {} => \A n \in DOMAIN d.segments : n[1] = g => n[2] = 0)
  BY DEF ObjectsFit
<1>2. PICK bound \in Nat : DOMAIN d.deletes \subseteq (0 .. g) \X (0 .. bound)
  BY DEF ObjectsFit
<1>3. d.manifest \in Manifest /\ g \in Nat
  BY DiskParts DEF Manifest
<1>4. F \in Seq([row : AnyRow, born : Nat]) /\ Lays(d.segments, g, Layout(d), F)
  BY <1>1, Zenon DEF Sound
<1>5. Layout(d) \subseteq Nat
  BY <1>4, Zenon DEF Lays
<1>6. sections \in Sections
  BY <1>3, <1>5 DEF Sections, Manifest
<1>7. /\ e.manifest.generation = g /\ e.manifest.layout = Layout(d)
      /\ e.manifest.diverged = d.manifest.diverged
      /\ e.manifest.next = d.manifest.next /\ e.manifest.history = d.manifest.history
      /\ e.manifest \in Manifest
  <2>1. sections.layout = Layout(d) /\ sections.diverged = d.manifest.diverged
        /\ sections.next = d.manifest.next /\ sections.history = d.manifest.history
    OBVIOUS
  <2> QED BY <1>3, <1>6, <2>1, ManifestParts
<1>8. Layout(e) = Layout(d)
  <2>1. CASE Layout(d) # {}
    BY <2>1, <1>7 DEF Layout
  <2>2. CASE Layout(d) = {}
    <3>1. d.manifest.layout = {}
      BY <2>2 DEF Layout
    <3>2. Layout(e) = {n[2] : n \in {x \in DOMAIN e.segments : x[1] = g}}
          /\ Layout(d) = {n[2] : n \in {x \in DOMAIN d.segments : x[1] = g}}
      BY <2>2, <3>1, <1>7 DEF Layout
    <3> QED BY <3>2
  <2> QED BY <2>1, <2>2
<1>9. DeleteLogs(e) = DeleteLogs(d) /\ \A b : SegmentOf(e, b) = SegmentOf(d, b)
  BY <1>7 DEF DeleteLogs, SegmentOf
<1>10. \A n \in DeleteLogs(d) : n[2] \in Nat /\ n[2] < bound + 1
  <2> TAKE n \in DeleteLogs(d)
  <2>1. n \in (0 .. g) \X (0 .. bound)
    BY <1>2 DEF DeleteLogs
  <2>2. n[2] \in 0 .. bound
    BY <2>1
  <2> QED BY <2>2
<1>11. NextDeleteLog(d) \in Nat /\ \A n \in DeleteLogs(d) : n[2] < NextDeleteLog(d)
  <2>1. bound + 1 \in Nat
    OBVIOUS
  <2> QED BY <1>10, <2>1, NextDeleteLogUnused
<1>12. /\ WellFormed(s, AnyRow) /\ Known(s) /\ RowCount(s) = Len(F)
  BY <1>1, LoadedSound
<1>13. s.frozen = F /\ s.diverged = LoadedDiverged(d) /\ s.history = LoadedHistory(d)
  BY LoadedFields, Zenon
<1>14. Extent(d) = Len(F)
  BY <1>1, SoundOpens
<1>15. StateFits(k)
  <2> HIDE DEF s, F
  <2>1. k.shared = s
    BY DEF s
  <2> QED BY <1>12, <1>14, <2>1 DEF StateFits
<1>16. Mirrors(e, k)
  <2>1. e.manifest = ManifestOf(k.generation, k.sections)
    OBVIOUS
  <2>2. Lays(e.segments, e.manifest.generation, e.manifest.layout, k.shared.frozen)
    BY <1>4, <1>7, <1>13
  <2>3. \A n \in DeleteLogs(e) :
              /\ n[2] < k.deleteLogs
              /\ e.deletes[n].ids \subseteq 0 .. Len(k.shared.frozen) - 1
    BY <1>1, <1>9, <1>11, <1>13 DEF Sound
  <2>4. e.manifest.diverged => k.shared.diverged
    BY <1>7, <1>13 DEF LoadedDiverged
  <2>5. \A i \in 0 .. e.manifest.history - 1 : e.history[i] \subseteq k.shared.history
    BY <1>7, <1>13 DEF LoadedHistory
  <2> QED BY <2>1, <2>2, <2>3, <2>4, <2>5 DEF Mirrors
<1>17. ObjectsTyped(e, AnyRow)
  BY <1>1, <1>7 DEF Sound, ObjectsTyped
<1>18. Sound(e, AnyRow)
  <2>1. \A c \in Layout(e) :
              ~SegmentOf(e, c).stamped =>
                 \A i \in 1 .. Len(SegmentOf(e, c).rows) :
                    SegmentOf(e, c).rows[i].born = c + i - 1
    BY <1>1, <1>8, <1>9 DEF Sound
  <2>2. /\ e.manifest.history > 0 => e.manifest.diverged
        /\ \A i \in 0 .. e.manifest.history - 1 :
              i \in DOMAIN e.history /\ \A v \in e.history[i] : v.killed < e.manifest.next
    BY <1>1, <1>7 DEF Sound
  <2>3. Lays(e.segments, e.manifest.generation, Layout(e), F)
    BY <1>4, <1>7, <1>8
  <2>4. \A n \in DeleteLogs(e) : /\ e.deletes[n].ids \subseteq 0 .. Len(F) - 1
                                 /\ e.deletes[n].ids # {} => e.deletes[n].stamp > 0
    BY <1>1, <1>9 DEF Sound
  <2> HIDE DEF F
  <2> QED BY <1>4, <1>17, <2>1, <2>2, <2>3, <2>4, SoundWith
<1>19. ObjectsFit(e)
  <2>1. e.manifest.layout = {} => d.manifest.layout = {}
    BY <1>7 DEF Layout
  <2> QED BY <1>1, <1>2, <1>7, <1>18, <2>1 DEF ObjectsFit
<1> QED BY <1>6, <1>7, <1>11, <1>15, <1>16, <1>19

----------------------------------------------------------------------------
\* What the steps have in common.

\* No write is done although it reports an error.
NoLateFaults == "late" \notin FaultKinds

LEMMA OutcomesAre ==
    ASSUME NoLateFaults
    PROVE  Outcomes \subseteq {"done", "lost"} /\ LogOutcomes \subseteq {"done", "lost", "torn"}
BY FaultKindsAssumption DEF NoLateFaults, Outcomes, LogOutcomes, Failures

\* The log has no part in what an open finds of the objects.
LEMMA LogOnly ==
    ASSUME NEW d, ObjectsFit(d),
           NEW e, e.manifest = d.manifest, e.segments = d.segments,
           e.deletes = d.deletes, e.history = d.history
    PROVE  /\ ObjectsFit(e) /\ Layout(e) = Layout(d)
           /\ \A m : Mirrors(d, m) => Mirrors(e, m)
<1>1. Sound(e, AnyRow) /\ Layout(e) = Layout(d) /\ DeleteLogs(e) = DeleteLogs(d)
  <2>1. Sound(d, AnyRow)
    BY DEF ObjectsFit
  <2> QED BY <2>1, SameObjects
<1>2. ObjectsFit(e)
  BY <1>1 DEF ObjectsFit
<1>3. ASSUME NEW m, Mirrors(d, m)
      PROVE  Mirrors(e, m)
  BY <1>1, <1>3 DEF Mirrors
<1> QED BY <1>1, <1>2, <1>3

LEMMA EntriesAre ==
    /\ \A row \in AnyRow : RowEntry(row) \in Entry(AnyRow)
    /\ \A q, n \in Nat : BracketEntry(q, n) \in Entry(AnyRow)
    /\ TornEntry \in Entry(AnyRow)
<1>1. ASSUME NEW row \in AnyRow
      PROVE  RowEntry(row) \in Entry(AnyRow)
  <2> DEFINE X == AnyRow
  <2>1. row \in X
    OBVIOUS
  <2> HIDE DEF X
  <2> QED BY <2>1 DEF RowEntry, Entry, X
<1>2. ASSUME NEW q \in Nat, NEW n \in Nat
      PROVE  BracketEntry(q, n) \in Entry(AnyRow)
  BY DEF BracketEntry, Entry
<1>3. TornEntry \in Entry(AnyRow)
  BY DEF TornEntry, Entry
<1> QED BY <1>1, <1>2, <1>3

LEMMA LogParts ==
    ASSUME NEW w \in Log(AnyRow)
    PROVE  /\ w.entries \in Seq(Entry(AnyRow)) /\ Len(w.entries) \in Nat /\ w.synced \in Nat
           /\ \A n \in Nat : [w EXCEPT !.synced = n] \in Log(AnyRow)
           /\ \A e \in Seq(Entry(AnyRow)) : \A n \in Nat :
                 [w EXCEPT !.entries = e, !.synced = n] \in Log(AnyRow)
<1> DEFINE X == Seq(Entry(AnyRow))
           W == [present : BOOLEAN, generation : Nat, base : Nat, entries : X, synced : Nat]
<1>1. w \in W
  BY DEF Log
<1>2. Len(w.entries) \in Nat
  BY <1>1, LenProperties
<1> HIDE DEF X
<1>3. w.entries \in X /\ w.synced \in Nat
  BY <1>1
<1>4. \A n \in Nat : [w EXCEPT !.synced = n] \in W
  BY <1>1
<1>5. \A e \in X : \A n \in Nat : [w EXCEPT !.entries = e, !.synced = n] \in W
  BY <1>1
<1> QED BY <1>2, <1>3, <1>4, <1>5 DEF X, Log

LEMMA LoggedTyped ==
    ASSUME NEW w \in Log(AnyRow), NEW entry \in Entry(AnyRow), NEW synced
    PROVE  Logged(w, entry, synced) \in Log(AnyRow)
<1> DEFINE more == Append(w.entries, entry)
           upto == IF synced THEN Len(w.entries) + 1 ELSE w.synced
<1>1. w.entries \in Seq(Entry(AnyRow)) /\ Len(w.entries) \in Nat /\ w.synced \in Nat
  BY LogParts
<1>2. more \in Seq(Entry(AnyRow))
  BY <1>1, AppendProperties
<1>3. upto \in Nat
  BY <1>1
<1>4. Logged(w, entry, synced)
        = IF mem.log # "open" THEN w ELSE [w EXCEPT !.entries = more, !.synced = upto]
  BY DEF Logged
<1> HIDE DEF more, upto
<1>5. \A e \in Seq(Entry(AnyRow)) : \A n \in Nat :
         [w EXCEPT !.entries = e, !.synced = n] \in Log(AnyRow)
  BY LogParts, Zenon
<1>6. [w EXCEPT !.entries = more, !.synced = upto] \in Log(AnyRow)
  BY <1>2, <1>3, <1>5, Zenon
<1> QED BY <1>4, <1>6, Zenon

LEMMA OperationParts ==
    ASSUME NEW o, IsOperation(o)
    PROVE  /\ o.ids \in SUBSET Nat /\ o.sequence \in Nat /\ o.total \in Nat
           /\ o.left \in Nat /\ o.due \in BOOLEAN
           /\ \A q \in Nat : LET p == [o EXCEPT !.sequence = q]
                             IN  /\ IsOperation(p) /\ p.sequence = q
                                 /\ p.ids = o.ids /\ p.total = o.total /\ p.left = o.left
           /\ \A n \in Nat : LET p == [o EXCEPT !.left = n]
                             IN  /\ IsOperation(p) /\ p.left = n /\ p.ids = o.ids
                                 /\ p.sequence = o.sequence /\ p.order = o.order
           /\ \A b \in BOOLEAN : LET p == [o EXCEPT !.due = b]
                                 IN  /\ IsOperation(p) /\ p.ids = o.ids
                                     /\ p.sequence = o.sequence /\ p.left = o.left
BY DEF IsOperation

LEMMA NewOperations ==
    /\ IsOperation(NoOp) /\ IsOperation([NoOp EXCEPT !.due = TRUE])
    /\ \A ids \in SUBSET Nat :
          /\ IsOperation([NoOp EXCEPT !.ids = ids])
          /\ [NoOp EXCEPT !.ids = ids].ids = ids
          /\ \A n \in Nat :
                LET p == [NoOp EXCEPT !.ids = ids, !.total = n, !.left = n]
                IN  IsOperation(p) /\ p.ids = ids /\ p.left = n
    /\ \A order : LET p == [NoOp EXCEPT !.order = order]
                  IN  IsOperation(p) /\ p.order = order /\ p.left = 0
BY DEF IsOperation, NoOp

LEMMA MemoryParts ==
    ASSUME NEW m, IsMemory(m)
    PROVE  /\ m.rows \in Nat /\ m.generation \in Nat /\ m.deleteLogs \in Nat
           /\ m.sections \in Sections /\ m.walSync \in WalLevels
           /\ m.log \in {"none", "open", "detached"}
<1> DEFINE C == Sections
<1>1. m \in [shared : {m.shared}, rows : Nat, generation : Nat, deleteLogs : Nat,
             sections : C, log : {"none", "open", "detached"}, walSync : WalLevels]
  BY DEF IsMemory
<1> HIDE DEF C
<1>2. /\ m.rows \in Nat /\ m.generation \in Nat /\ m.deleteLogs \in Nat
      /\ m.sections \in C /\ m.walSync \in WalLevels
      /\ m.log \in {"none", "open", "detached"}
  BY <1>1
<1> QED BY <1>2 DEF C

\* Memory with another state and perhaps one row more; with another state
\* and another delete log; with another log handle; and with another state
\* and other sections.
WithRow(m, s, n)     == [m EXCEPT !.shared = s, !.rows = n]
WithKills(m, s, n)   == [m EXCEPT !.deleteLogs = n, !.shared = s]
WithLog(m, l)        == [m EXCEPT !.log = l]
WithSections(m, s, c) == [m EXCEPT !.sections = c, !.shared = s]

LEMMA MemoryWithRow ==
    ASSUME NEW m, IsMemory(m), NEW s, NEW n \in Nat
    PROVE  /\ IsMemory(WithRow(m, s, n))
           /\ WithRow(m, s, n).shared = s
           /\ WithRow(m, s, n).rows = n
           /\ WithRow(m, s, n).generation = m.generation
           /\ WithRow(m, s, n).deleteLogs = m.deleteLogs
           /\ WithRow(m, s, n).sections = m.sections
<1> DEFINE C == Sections
<1>1. m \in [shared : {m.shared}, rows : Nat, generation : Nat, deleteLogs : Nat,
             sections : C, log : {"none", "open", "detached"}, walSync : WalLevels]
  BY DEF IsMemory
<1> HIDE DEF C
<1> QED BY <1>1 DEF IsMemory, C, WithRow

LEMMA MemoryWithKills ==
    ASSUME NEW m, IsMemory(m), NEW s, NEW n \in Nat
    PROVE  /\ IsMemory(WithKills(m, s, n))
           /\ WithKills(m, s, n).shared = s
           /\ WithKills(m, s, n).rows = m.rows
           /\ WithKills(m, s, n).generation = m.generation
           /\ WithKills(m, s, n).deleteLogs = n
           /\ WithKills(m, s, n).sections = m.sections
<1> DEFINE C == Sections
<1>1. m \in [shared : {m.shared}, rows : Nat, generation : Nat, deleteLogs : Nat,
             sections : C, log : {"none", "open", "detached"}, walSync : WalLevels]
  BY DEF IsMemory
<1> HIDE DEF C
<1> QED BY <1>1 DEF IsMemory, C, WithKills

LEMMA MemoryWithLog ==
    ASSUME NEW m, IsMemory(m), NEW l \in {"none", "open", "detached"}
    PROVE  /\ IsMemory(WithLog(m, l))
           /\ WithLog(m, l).shared = m.shared
           /\ WithLog(m, l).rows = m.rows
           /\ WithLog(m, l).generation = m.generation
           /\ WithLog(m, l).deleteLogs = m.deleteLogs
           /\ WithLog(m, l).sections = m.sections
<1> DEFINE C == Sections
<1>1. m \in [shared : {m.shared}, rows : Nat, generation : Nat, deleteLogs : Nat,
             sections : C, log : {"none", "open", "detached"}, walSync : WalLevels]
  BY DEF IsMemory
<1> HIDE DEF C
<1> QED BY <1>1 DEF IsMemory, C, WithLog

LEMMA MemoryWithSections ==
    ASSUME NEW m, IsMemory(m), NEW s, NEW c \in Sections
    PROVE  /\ IsMemory(WithSections(m, s, c))
           /\ WithSections(m, s, c).shared = s
           /\ WithSections(m, s, c).rows = m.rows
           /\ WithSections(m, s, c).generation = m.generation
           /\ WithSections(m, s, c).deleteLogs = m.deleteLogs
           /\ WithSections(m, s, c).sections = c
<1> DEFINE C == Sections
<1>1. m \in [shared : {m.shared}, rows : Nat, generation : Nat, deleteLogs : Nat,
             sections : C, log : {"none", "open", "detached"}, walSync : WalLevels]
  BY DEF IsMemory
<1> HIDE DEF C
<1> QED BY <1>1 DEF IsMemory, C, WithSections

\* Where no flush, mutation or compaction is under way.
LEMMA NothingUnderWay ==
    ASSUME pc' \in {"idle", "replay", "compact reset", "cleanup"}, then' = "idle"
    PROVE  VictimsFit' /\ FlushFits' /\ CompactionFits'
BY DEF VictimsFit, FlushFits, CompactionFits

\* A failed write returns to the caller.
LEMMA AbortFits ==
    ASSUME StoreInv, NEW outcome, Abort(outcome),
           IsDisk(disk'), IsMemory(mem'), ObjectsFit(disk'),
           StateFits(mem'), Mirrors(disk', mem')
    PROVE  StoreInv'
<1>1. pc' = "idle" /\ then' = "idle" /\ op' = NoOp /\ minted' = minted
  BY DEF Abort
<1>2. VictimsFit' /\ FlushFits' /\ CompactionFits'
  BY <1>1, NothingUnderWay
<1>3. Typed'
  BY <1>1, NewOperations DEF StoreInv, Typed, Phases
<1>4. LayoutNamed'
  BY <1>1 DEF LayoutNamed
<1> QED BY <1>2, <1>3, <1>4 DEF StoreInv

----------------------------------------------------------------------------
\* The steps: opening and closing.

LEMMA InitFits == Init => StoreInv
<1> SUFFICES ASSUME Init PROVE StoreInv
  OBVIOUS
<1>1. disk = NewDisk /\ pc = "down" /\ then = "idle" /\ op = NoOp /\ minted = 0
  BY DEF Init
<1>2. PICK level \in WalLevels : mem = [NoMemory EXCEPT !.walSync = level]
  BY DEF Init
<1>3. NoLog \in Log(AnyRow)
  BY DEF NoLog, Log
<1>4. disk.manifest \in Manifest /\ disk.manifest.generation = 0
      /\ disk.manifest.layout = {} /\ disk.manifest.history = 0
      /\ DOMAIN disk.segments = {} /\ DOMAIN disk.deletes = {} /\ DOMAIN disk.history = {}
      /\ disk.wal = NoLog
  BY <1>1 DEF NewDisk, Manifest
<1>5. IsDisk(disk)
  <2> DEFINE M == Manifest
             W == Log(AnyRow)
             nolog == NoLog
  <2>1. disk.manifest \in M /\ nolog \in W
    BY <1>3, <1>4
  <2>2. disk = [manifest |-> disk.manifest, segments |-> disk.segments,
                deletes |-> disk.deletes, history |-> disk.history, wal |-> nolog]
    BY <1>1 DEF NewDisk
  <2> HIDE DEF M, W, nolog
  <2>3. disk \in [manifest : M, segments : {disk.segments}, deletes : {disk.deletes},
                  history : {disk.history}, wal : W]
    BY <2>1, <2>2
  <2> QED BY <2>3 DEF IsDisk, M, W
<1>6. IsMemory(mem)
  BY <1>2 DEF IsMemory, NoMemory, Sections
<1>7. Sound(disk, AnyRow)
  <2> DEFINE E == << >>
  <2>1. Layout(disk) = {} /\ DeleteLogs(disk) = {}
    BY <1>4 DEF Layout, DeleteLogs
  <2>2. E \in Seq([row : AnyRow, born : Nat])
    BY EmptySeq
  <2>3. Lays(disk.segments, disk.manifest.generation, Layout(disk), E)
    BY <2>1, LaysNone
  <2>4. ObjectsTyped(disk, AnyRow)
    BY <1>4 DEF ObjectsTyped
  <2>5. /\ disk.manifest.history > 0 => disk.manifest.diverged
        /\ \A i \in 0 .. disk.manifest.history - 1 :
              i \in DOMAIN disk.history
                /\ \A v \in disk.history[i] : v.killed < disk.manifest.next
    BY <1>4
  <2>6. \A b \in Layout(disk) :
              ~SegmentOf(disk, b).stamped =>
                 \A i \in 1 .. Len(SegmentOf(disk, b).rows) :
                    SegmentOf(disk, b).rows[i].born = b + i - 1
    BY <2>1
  <2>7. \A n \in DeleteLogs(disk) : /\ disk.deletes[n].ids \subseteq 0 .. Len(E) - 1
                                    /\ disk.deletes[n].ids # {} => disk.deletes[n].stamp > 0
    BY <2>1
  <2> HIDE DEF E
  <2> QED BY <2>2, <2>3, <2>4, <2>5, <2>6, <2>7, SoundWith
<1>8. ObjectsFit(disk)
  BY <1>4, <1>7 DEF ObjectsFit
<1> QED BY <1>1, <1>5, <1>6, <1>8, NewOperations DEF StoreInv, Typed, LayoutNamed, Up, Phases

LEMMA ForgottenTyped ==
    ASSUME IsMemory(mem)
    PROVE  IsMemory(Forgotten)
<1>1. mem.walSync \in WalLevels
  BY MemoryParts
<1> QED BY <1>1 DEF Forgotten, IsMemory, NoMemory, Sections

LEMMA CloseKeeps ==
    ASSUME StoreInv, Close
    PROVE  StoreInv'
<1> DEFINE w == [disk.wal EXCEPT !.synced = Len(disk.wal.entries)]
<1>1. /\ pc = "idle" /\ pc' = "down" /\ mem' = Forgotten
      /\ then' = then /\ op' = op /\ minted' = minted
      /\ disk' = [disk EXCEPT !.wal = w]
  BY DEF Close
<1>2. Typed /\ ObjectsFit(disk) /\ IsDisk(disk)
  BY DEF StoreInv, Typed
<1>3. w \in Log(AnyRow)
  <2>1. disk.wal \in Log(AnyRow)
    BY <1>2, DiskParts
  <2> QED BY <2>1, LogParts
<1> HIDE DEF w
<1>4. /\ IsDisk(disk') /\ disk'.manifest = disk.manifest /\ disk'.segments = disk.segments
      /\ disk'.deletes = disk.deletes /\ disk'.history = disk.history
  BY <1>1, <1>2, <1>3, DiskParts
<1>5. ObjectsFit(disk')
  BY <1>2, <1>4, LogOnly
<1>6. IsMemory(mem')
  BY <1>1, <1>2, ForgottenTyped DEF Typed
<1>7. Typed'
  BY <1>1, <1>2, <1>4, <1>6 DEF Typed, Flushing, Phases
<1> QED BY <1>1, <1>5, <1>7 DEF StoreInv, LayoutNamed, Up

LEMMA CrashKeeps ==
    ASSUME StoreInv, Crash
    PROVE  StoreInv'
<1>1. PICK kept \in disk.wal.synced .. Len(disk.wal.entries) :
         disk' = [disk EXCEPT !.wal.entries = SubSeq(@, 1, kept), !.wal.synced = kept]
  BY DEF Crash
<1>2. /\ pc' = "down" /\ mem' = Forgotten /\ then' = "idle"
      /\ op' = op /\ minted' = minted
  BY DEF Crash
<1>3. Typed /\ ObjectsFit(disk) /\ IsDisk(disk)
  BY DEF StoreInv, Typed
<1>4. disk.wal \in Log(AnyRow)
  BY <1>3, DiskParts
<1> DEFINE some == SubSeq(disk.wal.entries, 1, kept)
           w == [disk.wal EXCEPT !.entries = some, !.synced = kept]
<1>5. kept \in Nat /\ kept <= Len(disk.wal.entries)
  <2>1. disk.wal.synced \in Nat /\ Len(disk.wal.entries) \in Nat
    BY <1>4, LogParts
  <2> QED BY <2>1
<1>6. some \in Seq(Entry(AnyRow))
  <2> DEFINE X == Entry(AnyRow)
             E == disk.wal.entries
  <2>1. E \in Seq(X) /\ Len(E) \in Nat
    BY <1>4, LogParts
  <2> HIDE DEF X, E
  <2>2. \A i \in 1 .. kept : E[i] \in X
    BY <2>1, <1>5, ElementOfSeq DEF E
  <2>3. SubSeq(E, 1, kept) \in Seq(X)
    BY <2>1, <2>2, <1>5, SubSeqProperties DEF E
  <2> QED BY <2>3 DEF E, X
<1>7. w \in Log(AnyRow)
  BY <1>4, <1>5, <1>6, LogParts, Zenon
<1>8. disk' = [disk EXCEPT !.wal = w]
  BY <1>1
<1> HIDE DEF w
<1>9. /\ IsDisk(disk') /\ disk'.manifest = disk.manifest /\ disk'.segments = disk.segments
      /\ disk'.deletes = disk.deletes /\ disk'.history = disk.history
  BY <1>3, <1>7, <1>8, DiskParts
<1>10. ObjectsFit(disk')
  BY <1>3, <1>9, LogOnly
<1>11. IsMemory(mem')
  BY <1>2, <1>3, ForgottenTyped DEF Typed
<1>12. Typed'
  BY <1>2, <1>3, <1>9, <1>11 DEF Typed, Flushing, Phases
<1> QED BY <1>2, <1>10, <1>12 DEF StoreInv, LayoutNamed, Up

LEMMA OpenLoadKeeps ==
    ASSUME StoreInv, OpenLoad
    PROVE  StoreInv'
<1> DEFINE m == disk.manifest
           sections == [layout |-> Layout(disk), diverged |-> m.diverged,
                        next |-> m.next, history |-> m.history]
           x == ManifestOf(m.generation, sections)
           k == [shared |-> Loaded(disk), rows |-> Extent(disk),
                 generation |-> m.generation, deleteLogs |-> NextDeleteLog(disk),
                 sections |-> sections, log |-> "none", walSync |-> mem.walSync]
<1>1. Typed /\ ObjectsFit(disk) /\ IsDisk(disk) /\ IsMemory(mem)
  BY DEF StoreInv, Typed
<1>2. ~OpenRefused(disk)
  BY <1>1, SoundOpens DEF ObjectsFit
<1>3. /\ pc = "down" /\ pc' = "replay" /\ then' = then /\ op' = op /\ minted' = minted
      /\ disk' = [disk EXCEPT !.manifest = x]
      /\ mem' = k
  BY <1>2 DEF OpenLoad, ghosts
<1>4. /\ disk'.manifest = x /\ disk'.segments = disk.segments
      /\ disk'.deletes = disk.deletes /\ disk'.history = disk.history
      /\ x \in Manifest => IsDisk(disk')
  <2> HIDE DEF x
  <2> QED BY <1>1, <1>3, DiskParts
<1>5. /\ mem'.generation = m.generation /\ mem'.sections = sections
      /\ mem'.shared = Loaded(disk) /\ mem'.deleteLogs = NextDeleteLog(disk)
      /\ mem'.rows = Extent(disk)
  BY <1>3
<1>6. /\ ObjectsFit(disk') /\ Mirrors(disk', mem') /\ StateFits(mem')
      /\ sections \in Sections /\ NextDeleteLog(disk) \in Nat
      /\ disk'.manifest \in Manifest /\ disk'.manifest.generation = m.generation
  <2> HIDE DEF sections
  <2>1. sections = [layout |-> Layout(disk), diverged |-> disk.manifest.diverged,
                    next |-> disk.manifest.next, history |-> disk.manifest.history]
    BY DEF sections
  <2> QED BY <1>1, <1>4, <1>5, <2>1, OpenFits
<1>7. IsDisk(disk')
  BY <1>4, <1>6
<1>8. IsMemory(mem')
  <2>1. Extent(disk) \in Nat
    <3>1. WellFormed(mem'.shared, AnyRow) /\ mem'.rows = RowCount(mem'.shared)
      BY <1>6 DEF StateFits
    <3>2. mem'.rows \in Nat
      BY <3>1, FieldTypes DEF WellFormed
    <3> QED BY <3>2, <1>5
  <2>2. m.generation \in Nat
    BY <1>1, DiskParts DEF Manifest
  <2>3. mem.walSync \in WalLevels
    BY <1>1, MemoryParts
  <2> HIDE DEF sections
  <2> QED BY <1>3, <1>6, <2>1, <2>2, <2>3 DEF IsMemory
<1>9. then' = "idle"
  BY <1>1, <1>3 DEF Typed, Flushing
<1>10. Typed'
  BY <1>1, <1>3, <1>7, <1>8, <1>9 DEF Typed, Phases
<1>11. VictimsFit' /\ FlushFits' /\ CompactionFits'
  BY <1>3, <1>9, NothingUnderWay
<1>12. LayoutNamed'
  <2>1. disk'.manifest.layout = Layout(disk)
    <3> HIDE DEF sections
    <3>1. disk'.manifest.layout = sections.layout
      BY <1>4, ManifestParts
    <3> QED BY <3>1 DEF sections
  <2>2. disk'.manifest.layout # {} => Layout(disk') = disk'.manifest.layout
    BY DEF Layout
  <2>3. disk'.manifest.layout = {} => Layout(disk') = {}
    <3> SUFFICES ASSUME disk'.manifest.layout = {} PROVE Layout(disk') = {}
      OBVIOUS
    <3>1. disk.manifest.layout = {}
      BY <2>1 DEF Layout
    <3>2. Layout(disk) = {n[2] : n \in {y \in DOMAIN disk.segments : y[1] = m.generation}}
      BY <3>1 DEF Layout
    <3>3. Layout(disk') = {n[2] : n \in {y \in DOMAIN disk.segments : y[1] = m.generation}}
      BY <1>4, <1>6 DEF Layout
    <3> QED BY <2>1, <3>2, <3>3
  <2> QED BY <2>2, <2>3 DEF LayoutNamed
<1> QED BY <1>6, <1>10, <1>11, <1>12 DEF StoreInv

LEMMA OpenReplayKeeps ==
    ASSUME StoreInv, OpenReplay
    PROVE  StoreInv'
<1> DEFINE s == Recovered(disk)
           base == Loaded(disk)
           units == ReplayUnits(disk)
<1>1. /\ pc = "replay" /\ pc' = "idle" /\ op' = NoOp /\ then' = then /\ minted' = minted
  BY DEF OpenReplay
<1>2. PICK level \in {mem.walSync} \cup {c[2] : c \in {l \in LevelChanges : l[1] = mem.walSync}} :
         /\ mem' = [mem EXCEPT !.shared = s, !.rows = RowCount(s),
                               !.log = IF level = "Off" THEN "none" ELSE "open",
                               !.walSync = level]
         /\ disk' = [disk EXCEPT !.wal = IF level = "Off" THEN NoLog ELSE RewrittenLog(disk)]
  BY DEF OpenReplay
<1>3. /\ Typed /\ ObjectsFit(disk) /\ IsDisk(disk) /\ IsMemory(mem)
      /\ Mirrors(disk, mem) /\ LayoutNamed
  BY <1>1 DEF StoreInv, Typed, Up
<1>4. Sound(disk, AnyRow)
  BY <1>3 DEF ObjectsFit
<1>5. /\ WellFormed(base, AnyRow) /\ Known(base)
      /\ Reaches(base, disk.manifest.next)
  BY <1>4, LoadedSound, Zenon DEF Reaches
<1>6. units \in Seq(UnitType(AnyRow))
  BY <1>3, DiskParts, ReplayUnitsTyped
<1>7. /\ WellFormed(s, AnyRow) /\ Known(s)
      /\ \E rows \in Seq(AnyRow) : Extends(base, s, rows)
  <2> HIDE DEF base, units
  <2>1. s = Replayed(base, units)
    BY DEF Recovered, base, units
  <2> QED BY <1>5, <1>6, <2>1, ReplayedGrows
<1>8. /\ s.frozen = FrozenRows(disk) /\ s.history = LoadedHistory(disk)
      /\ LoadedDiverged(disk) => s.diverged
  <2>1. PICK rows : Extends(base, s, rows)
    BY <1>7
  <2>2. /\ base.frozen = FrozenRows(disk) /\ base.history = LoadedHistory(disk)
        /\ base.diverged = LoadedDiverged(disk)
    BY LoadedFields, Zenon
  <2> HIDE DEF base, s
  <2> QED BY <2>1, <2>2 DEF Extends
<1>9. level \in WalLevels
  <2>1. mem.walSync \in WalLevels
    BY <1>3, MemoryParts
  <2>2. \A c \in LevelChanges : c[2] \in WalLevels
    BY WalLevelsAssumption
  <2> QED BY <2>1, <2>2
<1>10. RowCount(s) \in Nat
  BY <1>7, FieldTypes DEF WellFormed
<1> HIDE DEF s
<1>11. /\ IsMemory(mem') /\ mem'.shared = s /\ mem'.rows = RowCount(s)
       /\ mem'.generation = mem.generation /\ mem'.sections = mem.sections
       /\ mem'.deleteLogs = mem.deleteLogs
  <2> DEFINE C == Sections
             l == IF level = "Off" THEN "none" ELSE "open"
             n == RowCount(s)
  <2>1. mem \in [shared : {mem.shared}, rows : Nat, generation : Nat, deleteLogs : Nat,
                 sections : C, log : {"none", "open", "detached"}, walSync : WalLevels]
    BY <1>3 DEF IsMemory
  <2>2. l \in {"none", "open", "detached"} /\ n \in Nat
    BY <1>10
  <2>3. mem' = [mem EXCEPT !.shared = s, !.rows = n, !.log = l, !.walSync = level]
    BY <1>2
  <2> HIDE DEF C, l, n
  <2>4. mem' \in [shared : {mem'.shared}, rows : Nat, generation : Nat, deleteLogs : Nat,
                  sections : C, log : {"none", "open", "detached"}, walSync : WalLevels]
    BY <1>9, <2>1, <2>2, <2>3
  <2>5. /\ mem'.shared = s /\ mem'.rows = n
        /\ mem'.generation = mem.generation /\ mem'.sections = mem.sections
        /\ mem'.deleteLogs = mem.deleteLogs
    BY <2>1, <2>3
  <2> QED BY <2>4, <2>5 DEF IsMemory, C, n
<1>12. RewrittenLog(disk) \in Log(AnyRow)
  <2> DEFINE e == Encoded(units)
             X == Seq(Entry(AnyRow))
             g == disk.manifest.generation
             b == Extent(disk)
  <2>1. e \in X /\ Len(e) \in Nat
    <3>1. e \in Seq(Entry(AnyRow))
      BY <1>6, EncodedTyped
    <3> HIDE DEF e
    <3> QED BY <3>1, LenProperties
  <2>2. g \in Nat
    BY <1>3, DiskParts DEF Manifest
  <2>3. b \in Nat
    <3>1. b = Len(FrozenRows(disk)) /\ FrozenRows(disk) \in Seq([row : AnyRow, born : Nat])
      BY <1>4, SoundOpens DEF Sound
    <3> QED BY <3>1, LenProperties
  <2>4. RewrittenLog(disk) = [FreshLog(g, b) EXCEPT !.entries = e, !.synced = Len(e)]
    BY DEF RewrittenLog
  <2> HIDE DEF e, X, g, b
  <2>5. RewrittenLog(disk) \in [present : BOOLEAN, generation : Nat, base : Nat,
                                entries : X, synced : Nat]
    BY <2>1, <2>2, <2>3, <2>4 DEF FreshLog
  <2> QED BY <2>5 DEF X, Log
<1>13. NoLog \in Log(AnyRow)
  BY DEF NoLog, Log
<1>14. /\ IsDisk(disk') /\ disk'.manifest = disk.manifest /\ disk'.segments = disk.segments
       /\ disk'.deletes = disk.deletes /\ disk'.history = disk.history
  <2> DEFINE w == IF level = "Off" THEN NoLog ELSE RewrittenLog(disk)
  <2>1. w \in Log(AnyRow)
    BY <1>12, <1>13
  <2>2. disk' = [disk EXCEPT !.wal = w]
    BY <1>2
  <2> HIDE DEF w
  <2> QED BY <1>3, <2>1, <2>2, DiskParts
<1>15. ObjectsFit(disk')
  BY <1>3, <1>14, LogOnly
<1>16. Mirrors(disk', mem')
  <2>1. Lays(disk.segments, disk.manifest.generation, disk.manifest.layout, FrozenRows(disk))
    BY <1>1, <1>3, <1>4 DEF LayoutNamed, Sound
  <2>2. Mirrors(disk, mem')
    <3>1. \A n \in DeleteLogs(disk) :
              /\ n[2] < mem'.deleteLogs
              /\ disk.deletes[n].ids \subseteq 0 .. Len(mem'.shared.frozen) - 1
      BY <1>3, <1>4, <1>8, <1>11 DEF Mirrors, Sound
    <3>2. disk.manifest.diverged => mem'.shared.diverged
      BY <1>8, <1>11 DEF LoadedDiverged
    <3>3. \A i \in 0 .. disk.manifest.history - 1 : disk.history[i] \subseteq mem'.shared.history
      BY <1>8, <1>11 DEF LoadedHistory
    <3>4. disk.manifest = ManifestOf(mem'.generation, mem'.sections)
      BY <1>3, <1>11 DEF Mirrors
    <3> QED BY <1>8, <1>11, <2>1, <3>1, <3>2, <3>3, <3>4 DEF Mirrors
  <2> QED BY <1>3, <1>14, <2>2, LogOnly
<1>17. StateFits(mem')
  BY <1>7, <1>11 DEF StateFits
<1>18. then' = "idle"
  BY <1>1, <1>3 DEF Typed, Flushing
<1>19. Typed'
  BY <1>1, <1>3, <1>11, <1>14, <1>18, NewOperations DEF Typed, Phases
<1>20. VictimsFit' /\ FlushFits' /\ CompactionFits'
  BY <1>1, <1>18, NothingUnderWay
<1> QED BY <1>1, <1>15, <1>16, <1>17, <1>19, <1>20 DEF StoreInv, LayoutNamed

----------------------------------------------------------------------------
\* The steps: appending and flushing.

LEMMA LogWrite ==
    ASSUME StoreInv, NEW entry \in Entry(AnyRow), NEW synced, NEW outcome,
           Wrote(outcome, [disk EXCEPT !.wal = Logged(@, entry, synced)])
    PROVE  /\ IsDisk(disk') /\ ObjectsFit(disk') /\ Layout(disk') = Layout(disk)
           /\ disk'.manifest = disk.manifest /\ disk'.segments = disk.segments
           /\ disk'.deletes = disk.deletes /\ disk'.history = disk.history
           /\ \A m : Mirrors(disk, m) => Mirrors(disk', m)
<1> DEFINE w == Logged(disk.wal, entry, synced)
<1>1. IsDisk(disk) /\ ObjectsFit(disk)
  BY DEF StoreInv, Typed
<1>2. w \in Log(AnyRow)
  BY <1>1, DiskParts, LoggedTyped
<1>3. disk' = IF outcome = "lost" THEN disk ELSE [disk EXCEPT !.wal = w]
  BY DEF Wrote
<1> HIDE DEF w
<1>4. /\ IsDisk(disk')
      /\ disk'.manifest = disk.manifest /\ disk'.segments = disk.segments
      /\ disk'.deletes = disk.deletes /\ disk'.history = disk.history
  <2>1. CASE outcome = "lost"
    BY <1>1, <1>3, <2>1
  <2>2. CASE outcome # "lost"
    BY <1>1, <1>2, <1>3, <2>2, DiskParts
  <2> QED BY <2>1, <2>2
<1> QED BY <1>1, <1>4, LogOnly

\* The threshold flush, if there is one, finds rows in the buffer.
LEMMA FullFits ==
    ASSUME NEW buffer, FlushIfFull(buffer), then = "idle", buffer = mem'.shared.buffer
    PROVE  /\ pc' \in {"idle", "flush"} /\ then' = "idle" /\ IsOperation(op')
           /\ VictimsFit' /\ FlushFits' /\ CompactionFits'
<1>1. /\ pc' \in {"idle", "flush"} /\ then' = "idle" /\ IsOperation(op')
      /\ pc' = "flush" => buffer # << >>
  BY NewOperations DEF FlushIfFull, FlushThen
<1> QED BY <1>1 DEF VictimsFit, FlushFits, CompactionFits

LEMMA AppendRowKeepsStore ==
    ASSUME StoreInv, NoLateFaults, AppendRowOp
    PROVE  StoreInv'
<1>1. pc = "idle" /\ minted' = minted + 1
  BY DEF AppendRowOp
<1>2. PICK key \in Keys, outcome \in LogOutcomes, synced \in SyncChoices :
          LET row == [key |-> key, tag |-> minted + 1]
              entry == IF outcome = "torn" THEN TornEntry ELSE RowEntry(row)
          IN  /\ Wrote(outcome, [disk EXCEPT !.wal = Logged(@, entry, synced)])
              /\ IF outcome # "done"
                 THEN UNCHANGED <<mem, pc, then, op>>
                 ELSE LET s == AppendRow(mem.shared, row)
                      IN  /\ mem' = [mem EXCEPT !.shared = s, !.rows = @ + 1]
                          /\ FlushIfFull(s.buffer)
  BY Zenon DEF AppendRowOp
<1> DEFINE row == [key |-> key, tag |-> minted + 1]
           entry == IF outcome = "torn" THEN TornEntry ELSE RowEntry(row)
           s == mem.shared
           t == AppendRow(s, row)
<1>3. /\ Typed /\ ObjectsFit(disk) /\ IsDisk(disk) /\ IsMemory(mem) /\ minted \in Nat
      /\ StateFits(mem) /\ Mirrors(disk, mem)
  BY <1>1 DEF StoreInv, Typed, Up
<1>10. minted' \in Nat
  BY <1>1, <1>3
<1>4. then = "idle"
  BY <1>1, <1>3 DEF Typed, Flushing
<1>5. row \in AnyRow /\ entry \in Entry(AnyRow)
  <2>1. row \in AnyRow
    BY <1>3 DEF AnyRow
  <2> QED BY <2>1, EntriesAre
<1> HIDE DEF row, entry
<1>6. Wrote(outcome, [disk EXCEPT !.wal = Logged(@, entry, synced)])
  BY <1>2 DEF row, entry
<1>7. /\ IsDisk(disk') /\ ObjectsFit(disk') /\ Mirrors(disk', mem)
      /\ \A m : Mirrors(disk, m) => Mirrors(disk', m)
  BY <1>3, <1>5, <1>6, LogWrite
<1>8. CASE outcome # "done"
  <2>1. UNCHANGED <<mem, pc, then, op>>
    BY <1>2, <1>8
  <2>2. Typed'
    BY <1>1, <1>3, <1>7, <1>10, <2>1 DEF Typed, Flushing
  <2>3. VictimsFit' /\ FlushFits' /\ CompactionFits'
    BY <1>1, <1>4, <2>1, NothingUnderWay
  <2>4. StateFits(mem') /\ Mirrors(disk', mem')
    BY <1>3, <1>7, <2>1
  <2> QED BY <1>1, <1>7, <2>1, <2>2, <2>3, <2>4 DEF StoreInv, LayoutNamed
<1>9. CASE outcome = "done"
  <2>1. mem' = [mem EXCEPT !.shared = t, !.rows = mem.rows + 1] /\ FlushIfFull(t.buffer)
    BY <1>2, <1>9 DEF row
  <2>2. /\ IsMemory(mem') /\ mem'.shared = t /\ mem'.rows = mem.rows + 1
        /\ mem'.generation = mem.generation /\ mem'.deleteLogs = mem.deleteLogs
        /\ mem'.sections = mem.sections
    <3> DEFINE n == mem.rows + 1
    <3>1. mem.rows \in Nat
      BY <1>3, MemoryParts
    <3>2. n \in Nat
      BY <3>1
    <3>3. mem' = WithRow(mem, t, n)
      BY <2>1 DEF WithRow
    <3> HIDE DEF t, n
    <3>4. /\ IsMemory(mem') /\ mem'.shared = t /\ mem'.rows = n
          /\ mem'.generation = mem.generation /\ mem'.deleteLogs = mem.deleteLogs
          /\ mem'.sections = mem.sections
      BY <1>3, <3>2, <3>3, MemoryWithRow
    <3> QED BY <3>4 DEF n
  <2>3. /\ WellFormed(s, AnyRow) /\ Known(s) /\ mem.rows = RowCount(s)
        /\ Reaches(s, s.next)
    BY <1>3 DEF StateFits, Reaches, Attained
  <2>4. /\ WellFormed(t, AnyRow) /\ Known(t)
        /\ Extends(s, t, << row >>)
        /\ t.diverged = s.diverged /\ RowCount(t) = RowCount(s) + 1
    <3> HIDE DEF s
    <3> QED BY <1>5, <2>3, AppendRowGrows
  <2>5. StateFits(mem')
    BY <2>2, <2>3, <2>4 DEF StateFits
  <2>6. t.frozen = s.frozen /\ t.history = s.history
    BY <2>4 DEF Extends
  <2>7. Mirrors(disk, mem')
    <3> HIDE DEF t
    <3> QED BY <1>3, <2>2, <2>4, <2>6 DEF Mirrors
  <2>8. Mirrors(disk', mem')
    BY <1>7, <2>7
  <2>9. /\ pc' \in {"idle", "flush"} /\ then' = "idle" /\ IsOperation(op')
        /\ VictimsFit' /\ FlushFits' /\ CompactionFits'
    BY <1>4, <2>1, <2>2, FullFits
  <2>10. Typed'
    BY <1>7, <1>10, <2>2, <2>9 DEF Typed, Phases
  <2> QED BY <1>7, <2>5, <2>8, <2>9, <2>10 DEF StoreInv, LayoutNamed
<1> QED BY <1>8, <1>9

LEMMA StartFlushKeeps ==
    ASSUME StoreInv, StartFlush
    PROVE  StoreInv'
<1>1. /\ pc = "idle" /\ mem.shared.buffer # << >>
      /\ pc' = "flush" /\ then' = "idle"
      /\ UNCHANGED <<disk, mem, op, minted>>
  BY DEF StartFlush, FlushThen, ghosts
<1>2. /\ Typed /\ ObjectsFit(disk) /\ StateFits(mem) /\ Mirrors(disk, mem)
  BY <1>1 DEF StoreInv, Up
<1>3. VictimsFit' /\ FlushFits' /\ CompactionFits'
  BY <1>1 DEF VictimsFit, FlushFits, CompactionFits
<1>4. Typed'
  BY <1>1, <1>2 DEF Typed, Phases
<1> QED BY <1>1, <1>2, <1>3, <1>4 DEF StoreInv, LayoutNamed

\* The buffer's segment, where the segments end.
LEMMA BufferFresh ==
    ASSUME StateFits(mem), mem.shared.buffer # << >>
    PROVE  /\ Fresh(BufferSegment, mem.shared.base)
           /\ BufferSegment.rows = [i \in 1 .. Len(mem.shared.buffer) |->
                [row |-> mem.shared.buffer[i], born |-> BufferBirth(mem.shared, i)]]
<1> DEFINE s == mem.shared
           b == s.buffer
           rows == [i \in 1 .. Len(b) |-> [row |-> b[i], born |-> BufferBirth(s, i)]]
           segment == BufferSegment
<1>1. Shaped(s, AnyRow)
  BY DEF StateFits, WellFormed
<1>2. b \in Seq(AnyRow) /\ Len(b) \in Nat /\ s.diverged \in BOOLEAN
  BY <1>1, FieldTypes
<1>3. DOMAIN b = 1 .. Len(b)
  <2> HIDE DEF b
  <2> QED BY <1>2, LenProperties
<1>4. segment.rows = rows /\ segment.stamped = s.diverged
  BY <1>3 DEF BufferSegment
<1>5. rows \in Seq([row : AnyRow, born : Nat]) /\ Len(rows) = Len(b)
  BY <1>1, FrozenBuffer
<1>6. Len(b) # 0
  <2> HIDE DEF b
  <2> QED BY <1>2, EmptySeq DEF b
<1>7. rows # << >>
  <2> HIDE DEF rows
  <2> QED BY <1>2, <1>5, <1>6
<1>8. ASSUME ~s.diverged, NEW i \in 1 .. Len(rows)
      PROVE  rows[i].born = s.base + i - 1
  BY <1>5, <1>8 DEF BufferBirth
<1>9. segment \in Segment(AnyRow)
  <2>1. segment = [rows |-> segment.rows, stamped |-> segment.stamped]
    BY DEF BufferSegment
  <2> HIDE DEF segment, rows
  <2> QED BY <1>2, <1>4, <1>5, <2>1 DEF Segment
<1>10. segment.rows # << >>
  BY <1>4, <1>7
<1>11. ~segment.stamped => \A i \in 1 .. Len(segment.rows) :
                              segment.rows[i].born = s.base + i - 1
  BY <1>4, <1>8
<1> HIDE DEF segment
<1>12. Fresh(segment, s.base)
  BY <1>9, <1>10, <1>11 DEF Fresh
<1> QED BY <1>4, <1>12 DEF segment

LEMMA FlushSegmentKeeps ==
    ASSUME StoreInv, NoLateFaults, FlushSegment
    PROVE  StoreInv'
<1> DEFINE g == disk.manifest.generation
           name == <<mem.generation, mem.shared.base>>
           x == Publish(disk.segments, name, BufferSegment)
<1>1. pc = "flush"
  BY DEF FlushSegment
<1>2. PICK outcome \in Outcomes :
          /\ Wrote(outcome, [disk EXCEPT !.segments = x])
          /\ UNCHANGED mem
          /\ \/ Abort(outcome)
             \/ /\ outcome = "done"
                /\ pc' = "manifest"
                /\ UNCHANGED <<then, op, minted>>
  BY Zenon DEF FlushSegment, ghosts
<1>3. /\ Typed /\ ObjectsFit(disk) /\ IsDisk(disk) /\ IsMemory(mem)
      /\ StateFits(mem) /\ Mirrors(disk, mem) /\ VictimsFit /\ FlushFits
  BY <1>1 DEF StoreInv, Typed, Up
<1>4. mem.generation = g
  <2>1. disk.manifest = ManifestOf(mem.generation, mem.sections)
    BY <1>3 DEF Mirrors
  <2> QED BY <2>1, ManifestParts
<1>5. mem.shared.buffer # << >>
  BY <1>1, <1>3 DEF FlushFits
<1>6. outcome \in {"done", "lost"}
  BY <1>2, OutcomesAre
<1>7. CASE outcome = "lost"
  <2>1. disk' = disk /\ mem' = mem /\ Abort(outcome)
    BY <1>2, <1>7 DEF Wrote
  <2> QED BY <1>3, <2>1, AbortFits
<1>8. CASE outcome = "done"
  <2>1. /\ pc' = "manifest" /\ UNCHANGED <<mem, then, op, minted>>
        /\ disk' = [disk EXCEPT !.segments = x]
    BY <1>2, <1>8 DEF Wrote, Abort
  <2>2. /\ IsDisk(disk') /\ disk'.manifest = disk.manifest /\ disk'.deletes = disk.deletes
        /\ disk'.history = disk.history /\ disk'.segments = x
    <3> HIDE DEF x
    <3> QED BY <1>3, <2>1, DiskParts
  <2>3. disk'.segments = Publish(disk.segments, <<disk.manifest.generation, mem.shared.base>>,
                                 BufferSegment)
    BY <1>4, <2>2
  <2>4. ObjectsFit(disk') /\ Mirrors(disk', mem)
    <3>1. Fresh(BufferSegment, mem.shared.base)
      BY <1>3, <1>5, BufferFresh
    <3> QED BY <1>3, <2>2, <2>3, <3>1, PublishFits
  <2>5. FlushFits'
    <3>1. BufferSegment' = BufferSegment
      BY <2>1 DEF BufferSegment
    <3>2. /\ name \in DOMAIN disk'.segments
          /\ disk'.segments[name] = BufferSegment
      BY <2>2 DEF Publish
    <3>3. name = <<disk'.manifest.generation, mem'.shared.base>>
      BY <1>4, <2>1, <2>2
    <3> QED BY <1>5, <2>1, <3>1, <3>2, <3>3 DEF FlushFits
  <2>6. VictimsFit'
    BY <1>1, <1>3, <2>1 DEF VictimsFit, InForce, InSegments
  <2>7. CompactionFits'
    BY <2>1 DEF CompactionFits
  <2>8. Typed'
    BY <1>1, <1>3, <2>1, <2>2 DEF Typed, Flushing, Phases
  <2>9. StateFits(mem') /\ Mirrors(disk', mem')
    BY <1>3, <2>1, <2>4
  <2> QED BY <2>1, <2>4, <2>5, <2>6, <2>7, <2>8, <2>9 DEF StoreInv, LayoutNamed
<1> QED BY <1>6, <1>7, <1>8

\* A state of the same rows and the same dead has the same live rows.
LEMMA SameLive ==
    ASSUME NEW s, NEW t, RowCount(t) = RowCount(s), Dead(t) = Dead(s)
    PROVE  Live(t) = Live(s)
BY DEF Live, Ids

LEMMA FlushManifestKeeps ==
    ASSUME StoreInv, NoLateFaults, FlushManifest
    PROVE  StoreInv'
<1> DEFINE g == disk.manifest.generation
           s == mem.shared
           t == FlushShared(s, mem.rows)
           sections == [mem.sections EXCEPT !.layout = @ \cup {s.base}]
           x == ManifestOf(mem.generation, sections)
<1>1. pc = "manifest"
  BY DEF FlushManifest
<1>2. PICK outcome \in Outcomes :
          /\ Wrote(outcome, [disk EXCEPT !.manifest = x])
          /\ \/ UNCHANGED mem /\ Abort(outcome)
             \/ /\ outcome = "done"
                /\ mem' = [mem EXCEPT !.sections = sections, !.shared = t]
                /\ pc' = "reset"
                /\ UNCHANGED <<then, op, minted>>
  BY DEF FlushManifest
<1>3. /\ Typed /\ ObjectsFit(disk) /\ IsDisk(disk) /\ IsMemory(mem)
      /\ StateFits(mem) /\ Mirrors(disk, mem) /\ VictimsFit /\ FlushFits
  BY <1>1 DEF StoreInv, Typed, Up
<1>4. mem.generation = g
  <2>1. disk.manifest = ManifestOf(mem.generation, mem.sections)
    BY <1>3 DEF Mirrors
  <2> QED BY <2>1, ManifestParts
<1>5. /\ s.buffer # << >>
      /\ <<g, s.base>> \in DOMAIN disk.segments
      /\ disk.segments[<<g, s.base>>] = BufferSegment
  BY <1>1, <1>3 DEF FlushFits
<1>6. outcome \in {"done", "lost"}
  BY <1>2, OutcomesAre
<1>7. CASE outcome = "lost"
  <2>1. disk' = disk /\ mem' = mem /\ Abort(outcome)
    BY <1>2, <1>7 DEF Wrote
  <2> QED BY <1>3, <2>1, AbortFits
<1>8. CASE outcome = "done"
  <2>1. /\ pc' = "reset" /\ UNCHANGED <<then, op, minted>>
        /\ mem' = [mem EXCEPT !.sections = sections, !.shared = t]
        /\ disk' = [disk EXCEPT !.manifest = x]
    BY <1>2, <1>8 DEF Wrote, Abort
  <2>2. WellFormed(s, AnyRow) /\ Known(s) /\ mem.rows = RowCount(s) /\ Shaped(s, AnyRow)
        /\ s.base = Len(s.frozen) /\ s.base \in Nat
        /\ Len(s.buffer) \in Nat /\ RowCount(s) = Len(s.frozen) + Len(s.buffer)
    <3>1. WellFormed(s, AnyRow) /\ Known(s) /\ mem.rows = RowCount(s)
      BY <1>3 DEF StateFits
    <3>2. Shaped(s, AnyRow)
      BY <3>1 DEF WellFormed
    <3> HIDE DEF s
    <3> QED BY <3>1, <3>2, FieldTypes
  <2>3. /\ WellFormed(t, AnyRow) /\ t.diverged = s.diverged
        /\ RowCount(t) = RowCount(s) /\ Dead(t) = Dead(s)
    BY <2>2, FlushKeeps
  <2>4. /\ SameView(s, t) /\ t.tombs = s.tombs /\ t.history = s.history
        /\ Watermark(t, mem.rows) = Watermark(s, mem.rows)
    BY <2>2, FlushView
  <2>5. /\ t.frozen = s.frozen \o BufferSegment.rows /\ t.buffer = << >>
        /\ t.base = mem.rows
    <3>1. BufferSegment.rows = [i \in 1 .. Len(s.buffer) |->
                [row |-> s.buffer[i], born |-> BufferBirth(s, i)]]
      BY <1>3, <1>5, BufferFresh
    <3>2. s \in SharedFields(s, AnyRow)
      BY <2>2 DEF Shaped
    <3> HIDE DEF s
    <3> QED BY <1>5, <3>1, <3>2 DEF FlushShared, SharedFields, s
  <2>6. mem.sections \in Sections
    BY <1>3, MemoryParts
  <2>7. sections \in Sections
    <3>1. mem.sections \in [layout : SUBSET Nat, diverged : BOOLEAN, next : Nat, history : Nat]
      BY <2>6 DEF Sections
    <3> HIDE DEF s
    <3> QED BY <2>2, <3>1 DEF Sections
  <2>8. /\ IsMemory(mem') /\ mem'.shared = t /\ mem'.rows = mem.rows
        /\ mem'.generation = mem.generation /\ mem'.deleteLogs = mem.deleteLogs
        /\ mem'.sections = sections
    <3>1. mem' = WithSections(mem, t, sections)
      BY <2>1 DEF WithSections
    <3> HIDE DEF t, sections
    <3> QED BY <1>3, <2>7, <3>1, MemoryWithSections
  <2>9. x \in Manifest
    <3>1. mem.generation \in Nat
      BY <1>3, MemoryParts
    <3> HIDE DEF sections
    <3> QED BY <2>7, <3>1, ManifestParts
  <2>10. /\ IsDisk(disk') /\ disk'.manifest = x /\ disk'.deletes = disk.deletes
         /\ disk'.history = disk.history /\ disk'.segments = disk.segments
    <3> HIDE DEF x
    <3> QED BY <1>3, <2>1, <2>9, DiskParts
  <2>11. ObjectsFit(disk') /\ Mirrors(disk', mem')
    <3>1. Fresh(BufferSegment, s.base)
      BY <1>3, <1>5, BufferFresh
    <3>2. /\ <<disk.manifest.generation, mem.shared.base>> \in DOMAIN disk.segments
          /\ disk.segments[<<disk.manifest.generation, mem.shared.base>>] = BufferSegment
      BY <1>5
    <3>3. disk'.manifest = ManifestOf(mem.generation, sections)
      BY <2>10
    <3>5. /\ sections.layout = mem.sections.layout \cup {mem.shared.base}
          /\ sections.diverged = mem.sections.diverged
          /\ sections.next = mem.sections.next /\ sections.history = mem.sections.history
      <4>1. mem.sections \in [layout : SUBSET Nat, diverged : BOOLEAN,
                              next : Nat, history : Nat]
        BY <2>6 DEF Sections
      <4> QED BY <4>1
    <3>4. /\ mem'.shared.frozen = mem.shared.frozen \o BufferSegment.rows
          /\ mem'.shared.diverged = mem.shared.diverged
          /\ mem'.shared.history = mem.shared.history
      BY <2>3, <2>4, <2>5, <2>8
    <3> HIDE DEF sections, t, x
    <3> QED BY <1>3, <2>7, <2>8, <2>10, <3>1, <3>2, <3>3, <3>4, <3>5, NamedFits
  <2>12. StateFits(mem')
    <3>1. Ids(t) = Ids(s)
      BY <2>3 DEF Ids
    <3>2. Known(t)
      <4> HIDE DEF t, s
      <4> QED BY <2>2, <2>3, <2>4, <3>1 DEF Known, SameView
    <3> HIDE DEF t
    <3> QED BY <2>2, <2>3, <2>8, <3>2 DEF StateFits
  <2>13. VictimsFit'
    <3>1. Live(t) = Live(s)
      BY <2>3, SameLive
    <3>2. 0 .. s.base - 1 \subseteq 0 .. t.base - 1
      <4>1. t.base = s.base + Len(s.buffer)
        BY <2>2, <2>5
      <4> DEFINE p == s.base
                 q == Len(s.buffer)
      <4>2. t.base = p + q /\ p \in Nat /\ q \in Nat
        BY <2>2, <4>1
      <4> HIDE DEF p, q, t
      <4>3. 0 .. p - 1 \subseteq 0 .. t.base - 1
        BY <4>2
      <4> QED BY <4>3 DEF p
    <3>3. mem'.shared.diverged = s.diverged
          /\ Watermark(mem'.shared, mem'.rows) = Watermark(s, mem.rows)
      BY <2>3, <2>4, <2>8
    <3>4. InForce(op.ids) => InForce(op.ids)'
      BY <2>1, <2>8, <3>1 DEF InForce
    <3>5. InSegments(op.ids) => InSegments(op.ids)'
      BY <2>1, <2>8, <3>2 DEF InSegments
    <3> HIDE DEF s, t
    <3> QED BY <1>1, <1>3, <2>1, <3>3, <3>4, <3>5 DEF VictimsFit, s
  <2>14. FlushFits'
    BY <2>1, <2>5, <2>8 DEF FlushFits
  <2>15. CompactionFits'
    BY <2>1 DEF CompactionFits
  <2>16. Typed'
    BY <1>1, <1>3, <2>1, <2>8, <2>10 DEF Typed, Flushing, Phases
  <2> QED BY <2>1, <2>11, <2>12, <2>13, <2>14, <2>15, <2>16 DEF StoreInv, LayoutNamed
<1> QED BY <1>6, <1>7, <1>8

\* reset_wal disturbs nothing but the log.
LEMMA ResetFits ==
    ASSUME StoreInv, NoLateFaults, NEW target, ResetWal(target), Up
    PROVE  /\ IsDisk(disk') /\ ObjectsFit(disk') /\ Mirrors(disk', mem')
           /\ IsMemory(mem') /\ StateFits(mem')
           /\ mem'.shared = mem.shared /\ mem'.rows = mem.rows
           /\ \/ StoreInv'
              \/ /\ pc' = target /\ then' = "idle" /\ minted' = minted
                 /\ op' = [op EXCEPT !.due = FALSE]
<1>1. PICK outcome \in (IF mem.log = "none" THEN {"done"} ELSE Outcomes) :
        /\ Wrote(outcome,
                 [disk EXCEPT !.wal =
                    IF mem.log = "none" THEN @ ELSE FreshLog(mem.generation, mem.rows)])
        /\ mem' = [mem EXCEPT !.log = CASE outcome = "late" -> "detached"
                                        [] outcome = "lost" -> @
                                        [] mem.log = "none" -> "none"
                                        [] OTHER -> "open"]
        /\ \/ Abort(outcome)
           \/ /\ outcome = "done"
              /\ pc' = target
              /\ then' = "idle"
              /\ op' = [op EXCEPT !.due = FALSE]
              /\ UNCHANGED minted
  BY DEF ResetWal, ghosts
<1>2. /\ ObjectsFit(disk) /\ IsDisk(disk) /\ IsMemory(mem)
      /\ StateFits(mem) /\ Mirrors(disk, mem)
  BY DEF StoreInv, Typed
<1> DEFINE w == IF mem.log = "none" THEN disk.wal ELSE FreshLog(mem.generation, mem.rows)
           l == CASE outcome = "late" -> "detached"
                  [] outcome = "lost" -> mem.log
                  [] mem.log = "none" -> "none"
                  [] OTHER -> "open"
<1>3. w \in Log(AnyRow)
  <2>1. mem.generation \in Nat /\ mem.rows \in Nat
    BY <1>2, MemoryParts
  <2>2. FreshLog(mem.generation, mem.rows) \in Log(AnyRow)
    BY <2>1 DEF FreshLog, Log
  <2> QED BY <1>2, <2>2, DiskParts
<1>4. l \in {"none", "open", "detached"}
  BY <1>2, MemoryParts
<1>5. /\ disk' = IF outcome = "lost" THEN disk ELSE [disk EXCEPT !.wal = w]
      /\ mem' = WithLog(mem, l)
  BY <1>1 DEF Wrote, WithLog
<1> HIDE DEF w, l
<1>6. /\ IsDisk(disk')
      /\ disk'.manifest = disk.manifest /\ disk'.segments = disk.segments
      /\ disk'.deletes = disk.deletes /\ disk'.history = disk.history
  <2>1. CASE outcome = "lost"
    BY <1>2, <1>5, <2>1
  <2>2. CASE outcome # "lost"
    BY <1>2, <1>3, <1>5, <2>2, DiskParts
  <2> QED BY <2>1, <2>2
<1>7. ObjectsFit(disk') /\ Mirrors(disk', mem)
  BY <1>2, <1>6, LogOnly
<1>8. /\ IsMemory(mem') /\ mem'.shared = mem.shared /\ mem'.rows = mem.rows
      /\ mem'.generation = mem.generation /\ mem'.deleteLogs = mem.deleteLogs
      /\ mem'.sections = mem.sections
  BY <1>2, <1>4, <1>5, MemoryWithLog
<1>9. StateFits(mem') /\ Mirrors(disk', mem')
  BY <1>2, <1>7, <1>8 DEF StateFits, Mirrors
<1>10. Abort(outcome) => StoreInv'
  BY <1>6, <1>7, <1>8, <1>9, AbortFits
<1> QED BY <1>1, <1>6, <1>7, <1>8, <1>9, <1>10

LEMMA FlushResetKeeps ==
    ASSUME StoreInv, NoLateFaults, FlushReset
    PROVE  StoreInv'
<1>1. pc = "reset" /\ ResetWal(then)
  BY DEF FlushReset
<1>2. /\ Typed /\ IsOperation(op) /\ VictimsFit /\ FlushFits /\ StateFits(mem)
  BY <1>1 DEF StoreInv, Typed, Up
<1>3. SUFFICES ASSUME ~StoreInv' PROVE FALSE
  OBVIOUS
<1>4. /\ IsDisk(disk') /\ ObjectsFit(disk') /\ Mirrors(disk', mem')
      /\ IsMemory(mem') /\ StateFits(mem')
      /\ mem'.shared = mem.shared /\ mem'.rows = mem.rows
      /\ pc' = then /\ then' = "idle" /\ minted' = minted
      /\ op' = [op EXCEPT !.due = FALSE]
  BY <1>1, <1>3, ResetFits DEF Up
<1>5. IsOperation(op') /\ op'.ids = op.ids /\ op'.sequence = op.sequence /\ op'.left = op.left
  BY <1>2, <1>4 DEF IsOperation
<1>6. then \in {"idle", "delete log", "bracket", "commit log"}
  BY <1>2 DEF Typed
<1>7. mem.shared.buffer = << >>
  BY <1>1, <1>2 DEF FlushFits
<1>8. Live(mem.shared) \subseteq 0 .. mem.shared.base - 1
  <2>1. /\ RowCount(mem.shared) = Len(mem.shared.frozen) + Len(mem.shared.buffer)
        /\ mem.shared.base = Len(mem.shared.frozen) /\ mem.shared.base \in Nat
    BY <1>2, FieldTypes DEF StateFits, WellFormed
  <2>2. Len(mem.shared.buffer) = 0
    BY <1>7
  <2>3. Ids(mem.shared) = 0 .. mem.shared.base - 1
    BY <2>1, <2>2 DEF Ids
  <2> QED BY <2>3 DEF Live
<1>9. VictimsFit'
  <2>1. InForce(op.ids) => InForce(op.ids)' /\ InSegments(op.ids)'
    BY <1>4, <1>5, <1>8 DEF InForce, InSegments
  <2>2. (mem.shared.diverged /\ op.sequence < Watermark(mem.shared, mem.rows))
           => (mem.shared.diverged /\ op.sequence < Watermark(mem.shared, mem.rows))'
    BY <1>4, <1>5
  <2> QED BY <1>1, <1>2, <1>4, <1>5, <1>6, <2>1, <2>2 DEF VictimsFit
<1>10. FlushFits'
  BY <1>4, <1>6, <1>7 DEF FlushFits
<1>11. CompactionFits'
  BY <1>4, <1>6 DEF CompactionFits
<1>12. Typed'
  BY <1>2, <1>4, <1>5, <1>6 DEF Typed, Phases
<1> QED BY <1>3, <1>4, <1>6, <1>9, <1>10, <1>11, <1>12 DEF StoreInv, LayoutNamed

LEMMA CompactResetKeeps ==
    ASSUME StoreInv, NoLateFaults, CompactReset
    PROVE  StoreInv'
<1>1. pc = "compact reset" /\ ResetWal("cleanup")
  BY DEF CompactReset
<1>2. Typed /\ IsOperation(op)
  BY DEF StoreInv, Typed
<1>3. SUFFICES ASSUME ~StoreInv' PROVE FALSE
  OBVIOUS
<1>4. /\ IsDisk(disk') /\ ObjectsFit(disk') /\ Mirrors(disk', mem')
      /\ IsMemory(mem') /\ StateFits(mem')
      /\ pc' = "cleanup" /\ then' = "idle" /\ minted' = minted
      /\ op' = [op EXCEPT !.due = FALSE]
  BY <1>1, <1>3, ResetFits DEF Up
<1>5. IsOperation(op')
  BY <1>2, <1>4 DEF IsOperation
<1>6. VictimsFit' /\ FlushFits' /\ CompactionFits'
  BY <1>4, NothingUnderWay
<1>7. Typed'
  BY <1>2, <1>4, <1>5 DEF Typed, Phases
<1> QED BY <1>3, <1>4, <1>6, <1>7 DEF StoreInv, LayoutNamed

----------------------------------------------------------------------------
\* The steps: deletes and supersessions.

LEMMA EntombFields ==
    ASSUME NEW R, NEW s, Shaped(s, R), NEW ids, NEW stamp
    PROVE  LET t == Entomb(s, ids, stamp)
           IN  /\ t.frozen = s.frozen /\ t.base = s.base /\ t.diverged = s.diverged
               /\ t.buffer = s.buffer /\ t.history = s.history
<1>1. s \in SharedFields(s, R)
  BY DEF Shaped
<1> QED BY <1>1 DEF SharedFields, Entomb

LEMMA ConsumeFields ==
    ASSUME NEW R, NEW s, Shaped(s, R), NEW rows, rows = RowCount(s)
    PROVE  LET t == ConsumeSequence(s, rows)
           IN  /\ t.frozen = s.frozen /\ t.base = s.base /\ t.diverged
               /\ t.history = s.history
<1> DEFINE d == Diverged(s, rows)
<1>1. /\ Shaped(d, R) /\ d.diverged = TRUE
      /\ d.frozen = s.frozen /\ d.base = s.base /\ d.history = s.history
  BY DivergedKeeps
<1>2. d \in SharedFields(d, R)
  BY <1>1 DEF Shaped
<1>3. ConsumeSequence(s, rows)
        = IF d.buffer = << >>
          THEN [d EXCEPT !.next = @ + 1, !.seqBase = d.next + 1, !.births = << >>]
          ELSE [d EXCEPT !.next = @ + 1, !.births = Materialized(d)]
  BY DEF ConsumeSequence
<1> HIDE DEF d
<1> QED BY <1>1, <1>2, <1>3 DEF SharedFields

\* A row that is there was born before the watermark.
LEMMA SomethingKnown ==
    ASSUME NEW R, NEW s, WellFormed(s, R), Known(s), NEW id \in Live(s)
    PROVE  Watermark(s, RowCount(s)) \in Nat /\ Watermark(s, RowCount(s)) > 0
<1> DEFINE w == Watermark(s, RowCount(s))
<1>1. id \in Ids(s)
  BY DEF Live
<1>2. w \in Nat /\ Born(s, id) \in Nat
  BY <1>1, ViewType DEF WellFormed
<1>3. Born(s, id) < w
  BY <1>1 DEF Known
<1> HIDE DEF w
<1>4. w > 0
  BY <1>2, <1>3
<1> QED BY <1>2, <1>4 DEF w

LEMMA DeleteKnown ==
    ASSUME NEW R, NEW s, WellFormed(s, R), Known(s),
           NEW rows, rows = RowCount(s), NEW ids \in SUBSET Live(s)
    PROVE  LET t == ConsumeSequence(Entomb(s, ids, Watermark(s, rows)), rows)
           IN  /\ WellFormed(t, R) /\ Known(t) /\ RowCount(t) = rows
               /\ t.frozen = s.frozen /\ t.base = s.base
               /\ t.history = s.history /\ t.diverged
<1> DEFINE w == Watermark(s, rows)
           u == Entomb(s, ids, w)
           t == ConsumeSequence(u, rows)
<1>1. Shaped(s, R) /\ w \in Nat /\ ids \in SUBSET Ids(s)
  BY ViewType DEF WellFormed, Live
<1>2. /\ Shaped(u, R) /\ RowCount(u) = rows /\ Dead(u) = Dead(s) \cup ids
  BY <1>1, EntombKeeps
<1>3. /\ SameView(s, u) /\ Watermark(u, rows) = w
      /\ u.tombs = [id \in Dead(s) \cup ids |-> IF id \in ids THEN w ELSE s.tombs[id]]
      /\ u.history = s.history
  BY <1>1, EntombView
<1>4. u.frozen = s.frozen /\ u.base = s.base
  BY <1>1, EntombFields
<1> HIDE DEF u
<1>5. /\ WellFormed(t, R) /\ RowCount(t) = rows /\ Dead(t) = Dead(u)
  BY <1>2, ConsumeKeeps
<1>6. /\ SameView(u, t) /\ Watermark(t, rows) = w + 1
      /\ t.tombs = u.tombs /\ t.history = u.history
  BY <1>2, <1>3, ConsumeView
<1>7. t.frozen = u.frozen /\ t.base = u.base /\ t.diverged
  BY <1>2, ConsumeFields
<1> HIDE DEF t
<1>8. Ids(t) = Ids(s) /\ Ids(u) = Ids(s)
  BY <1>2, <1>5 DEF Ids
<1>9. /\ \A id \in Ids(s) : Born(s, id) < w /\ Born(s, id) \in Nat
      /\ \A id \in Dead(s) : s.tombs[id] < w /\ s.tombs[id] \in Nat
      /\ \A v \in s.history : v.killed < w /\ v.killed \in Nat
  BY <1>1, ViewType, KillCoordinates DEF Known
<1> HIDE DEF w
<1>10. \A id \in Ids(t) : Born(t, id) < w + 1
  <2> TAKE id \in Ids(t)
  <2>1. Born(t, id) = Born(s, id)
    BY <1>3, <1>6, <1>8 DEF SameView
  <2> QED BY <1>1, <1>8, <1>9, <2>1
<1>11. \A id \in Dead(t) : t.tombs[id] < w + 1
  <2> TAKE id \in Dead(t)
  <2>1. id \in Dead(s) \cup ids
    BY <1>2, <1>5
  <2>2. t.tombs[id] = IF id \in ids THEN w ELSE s.tombs[id]
    BY <1>3, <1>6, <2>1
  <2> QED BY <1>1, <1>9, <2>1, <2>2
<1>12. \A v \in t.history : v.killed < w + 1
  BY <1>1, <1>3, <1>6, <1>9
<1>13. Known(t)
  BY <1>5, <1>6, <1>10, <1>11, <1>12 DEF Known
<1> QED BY <1>3, <1>4, <1>5, <1>6, <1>7, <1>13 DEF t, u, w

LEMMA SupersededKnown ==
    ASSUME NEW R, NEW s, WellFormed(s, R), Known(s), s.diverged,
           NEW ids \in SUBSET Live(s), NEW q \in Nat, q < Watermark(s, RowCount(s))
    PROVE  LET t == Entomb(s, ids, q)
           IN  /\ WellFormed(t, R) /\ Known(t) /\ RowCount(t) = RowCount(s)
               /\ t.frozen = s.frozen /\ t.base = s.base /\ t.buffer = s.buffer
               /\ t.history = s.history /\ t.diverged
<1> DEFINE w == Watermark(s, RowCount(s))
           t == Entomb(s, ids, q)
<1>1. Shaped(s, R) /\ w \in Nat /\ ids \in SUBSET Ids(s)
  BY ViewType DEF WellFormed, Live
<1>2. /\ Shaped(t, R) /\ RowCount(t) = RowCount(s) /\ Dead(t) = Dead(s) \cup ids
  BY <1>1, EntombKeeps
<1>3. /\ SameView(s, t) /\ Watermark(t, RowCount(s)) = w
      /\ t.tombs = [id \in Dead(s) \cup ids |-> IF id \in ids THEN q ELSE s.tombs[id]]
      /\ t.history = s.history
  BY <1>1, EntombView
<1>4. t.frozen = s.frozen /\ t.base = s.base /\ t.buffer = s.buffer
      /\ t.diverged = s.diverged
  BY <1>1, EntombFields
<1>5. WellFormed(t, R)
  BY <1>2, <1>4 DEF WellFormed, VirtualIsPlain
<1> HIDE DEF t
<1>6. Ids(t) = Ids(s)
  BY <1>2 DEF Ids
<1>7. /\ \A id \in Ids(s) : Born(s, id) < w
      /\ \A id \in Dead(s) : s.tombs[id] < w
      /\ \A v \in s.history : v.killed < w
  BY DEF Known
<1>8. \A id \in Ids(t) : Born(t, id) < w
  BY <1>3, <1>6, <1>7 DEF SameView
<1>9. \A id \in Dead(t) : t.tombs[id] < w
  <2> TAKE id \in Dead(t)
  <2>1. t.tombs[id] = IF id \in ids THEN q ELSE s.tombs[id]
    BY <1>2, <1>3
  <2> QED BY <1>2, <1>7, <2>1
<1>10. Known(t)
  BY <1>2, <1>3, <1>7, <1>8, <1>9 DEF Known
<1> QED BY <1>2, <1>3, <1>4, <1>5, <1>10 DEF t

LEMMA TombstoneKeeps ==
    ASSUME StoreInv, Tombstone
    PROVE  StoreInv'
<1>1. /\ pc = "idle" /\ FlushThen(mem.shared.buffer, "delete log")
      /\ UNCHANGED <<disk, mem, minted>>
  BY DEF Tombstone, ghosts
<1>2. PICK ids \in SUBSET Live(mem.shared) : ids # {} /\ op' = [NoOp EXCEPT !.ids = ids]
  BY DEF Tombstone
<1>3. /\ Typed /\ ObjectsFit(disk) /\ StateFits(mem) /\ Mirrors(disk, mem)
  BY <1>1 DEF StoreInv, Up
<1>4. ids \in SUBSET Nat
  BY DEF Live, Ids
<1>5. IsOperation(op') /\ op'.ids = ids
  BY <1>2, <1>4, NewOperations
<1>6. \/ mem.shared.buffer = << >> /\ pc' = "delete log" /\ then' = "idle"
      \/ mem.shared.buffer # << >> /\ pc' = "flush" /\ then' = "delete log"
  BY <1>1 DEF FlushThen
<1>7. InForce(op.ids)' /\ op'.ids # {}
  BY <1>1, <1>2, <1>5 DEF InForce
<1>8. VictimsFit'
  BY <1>6, <1>7 DEF VictimsFit
<1>9. FlushFits' /\ CompactionFits'
  BY <1>1, <1>6 DEF FlushFits, CompactionFits
<1>10. Typed'
  BY <1>1, <1>3, <1>5, <1>6 DEF Typed, Flushing, Phases
<1> QED BY <1>1, <1>3, <1>6, <1>8, <1>9, <1>10 DEF StoreInv, LayoutNamed

\* A delete log is written or it is not; what follows is left open.
LEMMA DeleteLogWrite ==
    ASSUME StoreInv, Up, NEW outcome \in {"done", "lost"}, NEW stamp \in Nat,
           NEW superseding \in BOOLEAN, Wrote(outcome, DeleteLog(stamp, superseding)),
           InForce(op.ids), InSegments(op.ids), op.ids # {} => stamp > 0
    PROVE  /\ IsDisk(disk')
           /\ outcome = "lost" => disk' = disk
           /\ outcome = "done" =>
                \A k : /\ k.generation = mem.generation /\ k.sections = mem.sections
                       /\ k.deleteLogs = mem.deleteLogs + 1
                       /\ k.shared.frozen = mem.shared.frozen
                       /\ mem.shared.diverged => k.shared.diverged
                       /\ mem.shared.history \subseteq k.shared.history
                       => ObjectsFit(disk') /\ Mirrors(disk', k)
<1> DEFINE log == [ids |-> op.ids, stamp |-> stamp, superseding |-> superseding]
           x == Publish(disk.deletes, <<mem.generation, mem.deleteLogs>>, log)
<1>1. /\ ObjectsFit(disk) /\ IsDisk(disk) /\ IsMemory(mem) /\ IsOperation(op)
      /\ StateFits(mem) /\ Mirrors(disk, mem)
  BY DEF StoreInv, Typed
<1>2. mem.deleteLogs \in Nat
  BY <1>1, MemoryParts
<1>3. mem.generation = disk.manifest.generation
  <2>1. disk.manifest = ManifestOf(mem.generation, mem.sections)
    BY <1>1 DEF Mirrors
  <2> QED BY <2>1, ManifestParts
<1>4. /\ log \in DeleteRecord /\ log.ids \subseteq 0 .. mem.shared.base - 1
      /\ log.ids # {} => log.stamp > 0
  <2>1. op.ids \in SUBSET Nat
    BY <1>1, OperationParts
  <2> QED BY <2>1 DEF DeleteRecord, InSegments
<1>5. disk' = IF outcome = "lost" THEN disk ELSE [disk EXCEPT !.deletes = x]
  BY DEF Wrote, DeleteLog
<1>6. x = Publish(disk.deletes, <<disk.manifest.generation, mem.deleteLogs>>, log)
  BY <1>3
<1> HIDE DEF log, x
<1>7. outcome = "done" => /\ disk'.manifest = disk.manifest /\ disk'.segments = disk.segments
                          /\ disk'.history = disk.history /\ disk'.deletes = x
                          /\ IsDisk(disk')
  BY <1>1, <1>5, DiskParts
<1>8. ASSUME outcome = "done",
             NEW k, k.generation = mem.generation, k.sections = mem.sections,
             k.deleteLogs = mem.deleteLogs + 1, k.shared.frozen = mem.shared.frozen,
             mem.shared.diverged => k.shared.diverged,
             mem.shared.history \subseteq k.shared.history
      PROVE  ObjectsFit(disk') /\ Mirrors(disk', k)
  BY <1>1, <1>2, <1>4, <1>6, <1>7, <1>8, DeleteLogFits
<1> QED BY <1>1, <1>5, <1>7, <1>8

LEMMA WriteDeleteLogKeeps ==
    ASSUME StoreInv, NoLateFaults, WriteDeleteLog
    PROVE  StoreInv'
<1> DEFINE s == mem.shared
           w == Watermark(s, mem.rows)
           t == ConsumeSequence(Entomb(s, op.ids, w), mem.rows)
           n == mem.deleteLogs + 1
<1>1. pc = "delete log"
  BY DEF WriteDeleteLog
<1>2. PICK outcome \in Outcomes :
          /\ Wrote(outcome, DeleteLog(w, FALSE))
          /\ \/ UNCHANGED mem /\ Abort(outcome)
             \/ /\ outcome = "done"
                /\ mem' = [mem EXCEPT !.deleteLogs = @ + 1, !.shared = t]
                /\ pc' = "idle"
                /\ op' = NoOp
                /\ UNCHANGED <<then, minted>>
  BY DEF WriteDeleteLog
<1>3. /\ Typed /\ ObjectsFit(disk) /\ IsDisk(disk) /\ IsMemory(mem)
      /\ StateFits(mem) /\ Mirrors(disk, mem) /\ VictimsFit /\ FlushFits
  BY <1>1 DEF StoreInv, Typed, Up
<1>4. InForce(op.ids) /\ op.ids # {} /\ s.buffer = << >>
  BY <1>1, <1>3 DEF VictimsFit, FlushFits
<1>5. WellFormed(s, AnyRow) /\ Known(s) /\ mem.rows = RowCount(s)
  BY <1>3 DEF StateFits
<1>6. InSegments(op.ids)
  <2>1. /\ RowCount(s) = Len(s.frozen) + Len(s.buffer)
        /\ s.base = Len(s.frozen) /\ s.base \in Nat
    <3> HIDE DEF s
    <3> QED BY <1>5, FieldTypes DEF WellFormed
  <2>2. Len(s.buffer) = 0
    BY <1>4
  <2>3. Ids(s) = 0 .. s.base - 1
    BY <2>1, <2>2 DEF Ids
  <2> QED BY <1>4, <2>3 DEF InForce, InSegments, Live
<1>7. w \in Nat /\ w > 0
  <2>1. PICK id : id \in Live(s)
    BY <1>4 DEF InForce
  <2> QED BY <1>5, <2>1, SomethingKnown
<1>8. outcome \in {"done", "lost"}
  BY <1>2, OutcomesAre
<1>9. /\ IsDisk(disk')
      /\ outcome = "lost" => disk' = disk
      /\ outcome = "done" =>
           \A k : /\ k.generation = mem.generation /\ k.sections = mem.sections
                  /\ k.deleteLogs = mem.deleteLogs + 1
                  /\ k.shared.frozen = mem.shared.frozen
                  /\ mem.shared.diverged => k.shared.diverged
                  /\ mem.shared.history \subseteq k.shared.history
                  => ObjectsFit(disk') /\ Mirrors(disk', k)
  <2>1. Up /\ FALSE \in BOOLEAN
    BY <1>1 DEF Up
  <2>2. Wrote(outcome, DeleteLog(w, FALSE))
    BY <1>2
  <2> HIDE DEF w
  <2> QED BY <1>4, <1>6, <1>7, <1>8, <2>1, <2>2, DeleteLogWrite
<1>10. CASE outcome = "lost"
  <2>1. disk' = disk /\ mem' = mem /\ Abort(outcome)
    BY <1>2, <1>9, <1>10
  <2> QED BY <1>3, <2>1, AbortFits
<1>11. CASE outcome = "done"
  <2>1. /\ mem' = WithKills(mem, t, n)
        /\ pc' = "idle" /\ op' = NoOp /\ then' = then /\ minted' = minted
    BY <1>2, <1>11 DEF Abort, WithKills
  <2>2. /\ WellFormed(t, AnyRow) /\ Known(t) /\ RowCount(t) = mem.rows
        /\ t.frozen = s.frozen /\ t.history = s.history /\ t.diverged
    <3>1. op.ids \in SUBSET Live(s)
      BY <1>4 DEF InForce
    <3> HIDE DEF s
    <3> QED BY <1>5, <3>1, DeleteKnown
  <2>3. n \in Nat
    BY <1>3, MemoryParts
  <2> HIDE DEF t
  <2>4. /\ IsMemory(mem') /\ mem'.shared = t /\ mem'.rows = mem.rows
        /\ mem'.generation = mem.generation /\ mem'.deleteLogs = n
        /\ mem'.sections = mem.sections
    <3> HIDE DEF n
    <3> QED BY <1>3, <2>1, <2>3, MemoryWithKills
  <2>5. StateFits(mem')
    BY <2>2, <2>4 DEF StateFits
  <2>6. ObjectsFit(disk') /\ Mirrors(disk', mem')
    BY <1>9, <1>11, <2>2, <2>4
  <2>7. then' = "idle"
    BY <1>1, <1>3, <2>1 DEF Typed, Flushing
  <2>8. VictimsFit' /\ FlushFits' /\ CompactionFits'
    BY <2>1, <2>7, NothingUnderWay
  <2>9. Typed'
    BY <1>3, <1>9, <2>1, <2>4, <2>7, NewOperations DEF Typed, Phases
  <2> QED BY <2>1, <2>5, <2>6, <2>8, <2>9 DEF StoreInv, LayoutNamed
<1> QED BY <1>8, <1>10, <1>11

LEMMA SupersedeKeeps ==
    ASSUME StoreInv, Supersede
    PROVE  StoreInv'
<1> DEFINE s == mem.shared
<1>1. pc = "idle" /\ UNCHANGED <<disk, mem, minted>>
  BY DEF Supersede, ghosts
<1>2. PICK newly \in SUBSET Live(s), count \in 1 .. MaxReplacements :
          /\ op' = [NoOp EXCEPT !.ids = newly, !.total = count, !.left = count]
          /\ IF \E id \in newly : id >= s.base
             THEN FlushThen(s.buffer, "bracket")
             ELSE pc' = "bracket" /\ then' = "idle"
  BY DEF Supersede
<1>3. /\ Typed /\ ObjectsFit(disk) /\ StateFits(mem) /\ Mirrors(disk, mem)
  BY <1>1 DEF StoreInv, Up
<1>4. newly \in SUBSET Nat /\ count \in Nat /\ count > 0
  BY BoundsAssumption DEF Live, Ids
<1>5. IsOperation(op') /\ op'.ids = newly /\ op'.left = count
  BY <1>2, <1>4 DEF IsOperation, NoOp
<1>6. /\ RowCount(s) = Len(s.frozen) + Len(s.buffer)
      /\ s.base = Len(s.frozen) /\ s.base \in Nat
  <2> HIDE DEF s
  <2>1. WellFormed(s, AnyRow)
    BY <1>3 DEF StateFits, s
  <2> QED BY <2>1, FieldTypes DEF WellFormed
<1>7. CASE \E id \in newly : id >= s.base
  <2>1. PICK id \in newly : id >= s.base
    BY <1>7
  <2>2. s.buffer # << >>
    <3> SUFFICES ASSUME s.buffer = << >> PROVE FALSE
      OBVIOUS
    <3>1. Len(s.buffer) = 0
      OBVIOUS
    <3>2. id \in 0 .. s.base - 1
      BY <1>6, <3>1 DEF Live, Ids
    <3> HIDE DEF s
    <3> QED BY <1>6, <2>1, <3>2
  <2>3. pc' = "flush" /\ then' = "bracket"
    BY <1>2, <1>7, <2>2 DEF FlushThen
  <2>4. InForce(op.ids)'
    BY <1>1, <1>5 DEF InForce
  <2>5. VictimsFit'
    BY <1>4, <1>5, <2>3, <2>4 DEF VictimsFit
  <2>6. FlushFits' /\ CompactionFits'
    BY <1>1, <2>2, <2>3 DEF FlushFits, CompactionFits
  <2>7. Typed'
    BY <1>1, <1>3, <1>5, <2>3 DEF Typed, Flushing, Phases
  <2> QED BY <1>1, <1>3, <2>3, <2>5, <2>6, <2>7 DEF StoreInv, LayoutNamed
<1>8. CASE ~\E id \in newly : id >= s.base
  <2>1. pc' = "bracket" /\ then' = "idle"
    BY <1>2, <1>8
  <2>2. InForce(op.ids)'
    BY <1>1, <1>5 DEF InForce
  <2>3. newly \subseteq 0 .. s.base - 1
    BY <1>4, <1>6, <1>8
  <2>4. InSegments(op.ids)'
    BY <1>1, <1>5, <2>3 DEF InSegments
  <2>5. VictimsFit'
    BY <1>4, <1>5, <2>1, <2>2, <2>4 DEF VictimsFit
  <2>6. FlushFits' /\ CompactionFits'
    BY <2>1 DEF FlushFits, CompactionFits
  <2>7. Typed'
    BY <1>1, <1>3, <1>5, <2>1 DEF Typed, Flushing, Phases
  <2> QED BY <1>1, <1>3, <2>1, <2>5, <2>6, <2>7 DEF StoreInv, LayoutNamed
<1> QED BY <1>7, <1>8

LEMMA OpenBracketKeeps ==
    ASSUME StoreInv, NoLateFaults, OpenBracket
    PROVE  StoreInv'
<1> DEFINE s == mem.shared
           w == Watermark(s, mem.rows)
<1>1. pc = "bracket"
  BY DEF OpenBracket
<1>2. PICK outcome \in LogOutcomes :
          LET entry == IF outcome = "torn" THEN TornEntry ELSE BracketEntry(w, op.total)
          IN  /\ Wrote(outcome, [disk EXCEPT !.wal = Logged(@, entry, FALSE)])
              /\ UNCHANGED mem
              /\ \/ Abort(outcome)
                 \/ /\ outcome = "done"
                    /\ op' = [op EXCEPT !.sequence = w]
                    /\ pc' = "replace"
                    /\ UNCHANGED <<then, minted>>
  BY DEF OpenBracket, ghosts
<1> DEFINE entry == IF outcome = "torn" THEN TornEntry ELSE BracketEntry(w, op.total)
<1>3. /\ Typed /\ ObjectsFit(disk) /\ IsDisk(disk) /\ IsMemory(mem) /\ IsOperation(op)
      /\ StateFits(mem) /\ Mirrors(disk, mem) /\ VictimsFit
  BY <1>1 DEF StoreInv, Typed, Up
<1>4. WellFormed(s, AnyRow) /\ Known(s) /\ mem.rows = RowCount(s)
  BY <1>3 DEF StateFits
<1>5. w \in Nat /\ op.total \in Nat /\ op.left \in Nat
  BY <1>3, <1>4, ViewType, OperationParts DEF WellFormed
<1>6. entry \in Entry(AnyRow)
  <2> HIDE DEF w
  <2> QED BY <1>5, EntriesAre
<1> HIDE DEF entry
<1>7. Wrote(outcome, [disk EXCEPT !.wal = Logged(@, entry, FALSE)])
  BY <1>2 DEF entry
<1>8. /\ IsDisk(disk') /\ ObjectsFit(disk') /\ Mirrors(disk', mem)
  BY <1>3, <1>6, <1>7, LogWrite
<1>9. CASE Abort(outcome)
  <2>1. mem' = mem
    BY <1>2
  <2> QED BY <1>3, <1>8, <1>9, <2>1, AbortFits
<1>10. CASE ~Abort(outcome)
  <2>1. /\ op' = [op EXCEPT !.sequence = w] /\ pc' = "replace"
        /\ UNCHANGED <<mem, then, minted>>
    BY <1>2, <1>10
  <2>2. /\ IsOperation(op') /\ op'.sequence = w /\ op'.ids = op.ids /\ op'.left = op.left
    <3> HIDE DEF w
    <3> QED BY <1>3, <1>5, <2>1 DEF IsOperation
  <2>3. InForce(op.ids) /\ InSegments(op.ids) /\ op.left > 0
    BY <1>1, <1>3 DEF VictimsFit
  <2>4. op.ids # {} => w > 0
    <3> SUFFICES ASSUME NEW id \in op.ids PROVE w > 0
      OBVIOUS
    <3>1. id \in Live(s)
      BY <2>3 DEF InForce
    <3> QED BY <1>4, <3>1, SomethingKnown
  <2>5. then' = "idle"
    BY <1>1, <1>3, <2>1 DEF Typed, Flushing
  <2>6. InForce(op.ids)' /\ InSegments(op.ids)'
    BY <2>1, <2>2, <2>3 DEF InForce, InSegments
  <2>7. VictimsFit'
    <3> HIDE DEF w
    <3> QED BY <2>1, <2>2, <2>3, <2>4, <2>5, <2>6 DEF VictimsFit
  <2>8. FlushFits' /\ CompactionFits'
    BY <2>1 DEF FlushFits, CompactionFits
  <2>9. Typed'
    BY <1>3, <1>8, <2>1, <2>2, <2>5 DEF Typed, Phases
  <2>10. StateFits(mem') /\ Mirrors(disk', mem')
    BY <1>3, <1>8, <2>1
  <2> QED BY <1>8, <2>1, <2>7, <2>8, <2>9, <2>10 DEF StoreInv, LayoutNamed
<1> QED BY <1>9, <1>10

LEMMA AppendReplacementKeeps ==
    ASSUME StoreInv, NoLateFaults, AppendReplacement
    PROVE  StoreInv'
<1> DEFINE s == mem.shared
<1>1. pc = "replace"
  BY DEF AppendReplacement
<1>2. PICK key \in Keys, outcome \in LogOutcomes, synced \in SyncChoices :
          LET row == [key |-> key, tag |-> minted + 1]
              entry == IF outcome = "torn" THEN TornEntry ELSE RowEntry(row)
          IN  /\ Wrote(outcome, [disk EXCEPT !.wal = Logged(@, entry, synced)])
              /\ \/ UNCHANGED mem /\ Abort(outcome)
                 \/ /\ outcome = "done"
                    /\ minted' = minted + 1
                    /\ mem' = [mem EXCEPT
                                 !.shared = AppendSuperseding(@, row, op.sequence, mem.rows),
                                 !.rows = @ + 1]
                    /\ op' = [op EXCEPT !.left = @ - 1]
                    /\ pc' = IF op.left = 1 THEN "sync" ELSE pc
                    /\ then' = then
  BY DEF AppendReplacement
<1> DEFINE row == [key |-> key, tag |-> minted + 1]
           entry == IF outcome = "torn" THEN TornEntry ELSE RowEntry(row)
           t == AppendSuperseding(s, row, op.sequence, mem.rows)
<1>3. /\ Typed /\ ObjectsFit(disk) /\ IsDisk(disk) /\ IsMemory(mem) /\ IsOperation(op)
      /\ StateFits(mem) /\ Mirrors(disk, mem) /\ VictimsFit /\ minted \in Nat
  BY <1>1 DEF StoreInv, Typed, Up
<1>4. WellFormed(s, AnyRow) /\ Known(s) /\ mem.rows = RowCount(s)
  BY <1>3 DEF StateFits
<1>5. op.sequence \in Nat /\ op.left \in Nat
  BY <1>3, OperationParts
<1>6. row \in AnyRow /\ entry \in Entry(AnyRow) /\ minted + 1 \in Nat
  <2>1. row \in AnyRow /\ minted + 1 \in Nat
    BY <1>3 DEF AnyRow
  <2> QED BY <2>1, EntriesAre
<1> HIDE DEF row, entry
<1>7. Wrote(outcome, [disk EXCEPT !.wal = Logged(@, entry, synced)])
  BY <1>2 DEF row, entry
<1>8. /\ IsDisk(disk') /\ ObjectsFit(disk') /\ Mirrors(disk', mem)
      /\ \A m : Mirrors(disk, m) => Mirrors(disk', m)
  BY <1>3, <1>6, <1>7, LogWrite
<1>9. CASE Abort(outcome)
  <2>1. mem' = mem
    BY <1>2, <1>9 DEF Abort
  <2> QED BY <1>3, <1>8, <1>9, <2>1, AbortFits
<1>10. CASE ~Abort(outcome)
  <2>1. /\ minted' = minted + 1
        /\ mem' = [mem EXCEPT !.shared = t, !.rows = mem.rows + 1]
        /\ op' = [op EXCEPT !.left = op.left - 1]
        /\ pc' = IF op.left = 1 THEN "sync" ELSE pc
        /\ then' = then
    BY <1>2, <1>10 DEF row
  <2>2. /\ WellFormed(t, AnyRow) /\ Known(t) /\ Extends(s, t, << row >>)
        /\ t.diverged /\ RowCount(t) = RowCount(s) + 1
        /\ op.sequence < Watermark(t, RowCount(t))
    <3> DEFINE q == op.sequence
               w == Watermark(s, RowCount(s))
    <3>1. Reaches(s, s.next)
      BY DEF Reaches, Attained
    <3>2. t = AppendSuperseding(s, row, q, RowCount(s))
      BY <1>4
    <3>3. q \in Nat /\ w \in Nat
      BY <1>4, <1>5, ViewType DEF WellFormed
    <3> HIDE DEF s, t, q
    <3>4. /\ WellFormed(t, AnyRow) /\ Known(t) /\ Extends(s, t, << row >>)
          /\ t.diverged /\ RowCount(t) = RowCount(s) + 1
          /\ Watermark(t, RowCount(t)) = IF w < q + 1 THEN q + 1 ELSE w
      BY <1>4, <1>6, <3>1, <3>2, <3>3, AppendSupersedingGrows
    <3> HIDE DEF w
    <3>5. q < IF w < q + 1 THEN q + 1 ELSE w
      BY <3>3
    <3> QED BY <3>4, <3>5 DEF q
  <2> HIDE DEF t
  <2>3. /\ IsMemory(mem') /\ mem'.shared = t /\ mem'.rows = mem.rows + 1
        /\ mem'.generation = mem.generation /\ mem'.deleteLogs = mem.deleteLogs
        /\ mem'.sections = mem.sections
    <3> DEFINE n == mem.rows + 1
    <3>1. mem.rows \in Nat
      BY <1>3, MemoryParts
    <3>2. n \in Nat
      BY <3>1
    <3>3. mem' = WithRow(mem, t, n)
      BY <2>1 DEF WithRow
    <3> HIDE DEF n
    <3>4. /\ IsMemory(mem') /\ mem'.shared = t /\ mem'.rows = n
          /\ mem'.generation = mem.generation /\ mem'.deleteLogs = mem.deleteLogs
          /\ mem'.sections = mem.sections
      BY <1>3, <3>2, <3>3, MemoryWithRow
    <3> QED BY <3>4 DEF n
  <2>4. StateFits(mem')
    BY <1>4, <2>2, <2>3 DEF StateFits
  <2>5. /\ t.frozen = s.frozen /\ t.history = s.history /\ t.base = s.base
        /\ t.tombs = s.tombs
    BY <2>2 DEF Extends
  <2>6. Mirrors(disk, mem')
    BY <1>3, <2>2, <2>3, <2>5 DEF Mirrors
  <2>7. Mirrors(disk', mem')
    BY <1>8, <2>6
  <2>8. InForce(op.ids) /\ InSegments(op.ids) /\ op.left > 0
        /\ (op.ids # {} => op.sequence > 0)
    BY <1>1, <1>3 DEF VictimsFit
  <2>9. /\ IsOperation(op') /\ op'.left = op.left - 1 /\ op'.ids = op.ids
        /\ op'.sequence = op.sequence
    <3>1. op.left - 1 \in Nat
      BY <1>5, <2>8
    <3> QED BY <1>3, <2>1, <3>1 DEF IsOperation
  <2>10. then' = "idle"
    BY <1>1, <1>3, <2>1 DEF Typed, Flushing
  <2>11. pc' \in {"replace", "sync"} /\ (pc' = "replace" => op'.left > 0)
    BY <1>1, <1>5, <2>1, <2>8, <2>9
  <2>12. InForce(op.ids)' /\ InSegments(op.ids)'
    <3>1. Live(s) \subseteq Live(t)
      <4>1. Shaped(s, AnyRow)
        BY <1>4 DEF WellFormed
      <4>2. Ids(t) = Ids(s) \cup {RowCount(s)}
        BY <2>2, <4>1, GrownIds
      <4> QED BY <2>5, <4>2 DEF Live, Dead
    <3> QED BY <2>3, <2>5, <2>8, <2>9, <3>1 DEF InForce, InSegments
  <2>13. (mem.shared.diverged /\ op.sequence < Watermark(mem.shared, mem.rows))'
    BY <1>4, <2>2, <2>3, <2>9
  <2>14. VictimsFit'
    BY <2>8, <2>9, <2>10, <2>11, <2>12, <2>13 DEF VictimsFit
  <2>15. FlushFits' /\ CompactionFits'
    BY <2>11 DEF FlushFits, CompactionFits
  <2>16. Typed'
    BY <1>3, <1>6, <1>8, <2>1, <2>3, <2>9, <2>10, <2>11 DEF Typed, Phases
  <2> QED BY <1>8, <2>4, <2>7, <2>11, <2>14, <2>15, <2>16 DEF StoreInv, LayoutNamed
<1> QED BY <1>9, <1>10

LEMMA SyncReplacementsKeeps ==
    ASSUME StoreInv, NoLateFaults, SyncReplacements
    PROVE  StoreInv'
<1>1. pc = "sync"
  BY DEF SyncReplacements
<1>2. /\ Typed /\ ObjectsFit(disk) /\ IsDisk(disk) /\ IsMemory(mem) /\ IsOperation(op)
      /\ StateFits(mem) /\ Mirrors(disk, mem) /\ VictimsFit
  BY <1>1 DEF StoreInv, Typed, Up
<1>3. then = "idle"
  BY <1>1, <1>2 DEF Typed, Flushing
<1>4. CASE mem.log = "none"
  <2>1. /\ FlushThen(mem.shared.buffer, "commit log")
        /\ UNCHANGED <<disk, mem, op, minted>>
    BY <1>4 DEF SyncReplacements, ghosts
  <2>2. \/ pc' = "commit log" /\ then' = "idle"
        \/ pc' = "flush" /\ then' = "commit log" /\ mem.shared.buffer # << >>
    BY <2>1 DEF FlushThen
  <2>3. VictimsFit'
    BY <1>1, <1>2, <2>1, <2>2 DEF VictimsFit, InForce, InSegments
  <2>4. FlushFits' /\ CompactionFits'
    BY <2>1, <2>2 DEF FlushFits, CompactionFits
  <2>5. Typed'
    BY <1>2, <2>1, <2>2 DEF Typed, Flushing, Phases
  <2> QED BY <1>2, <2>1, <2>2, <2>3, <2>4, <2>5 DEF StoreInv, LayoutNamed
<1>5. CASE mem.log # "none"
  <2> DEFINE w == [disk.wal EXCEPT !.synced = Len(disk.wal.entries)]
  <2>1. PICK outcome \in Outcomes :
              /\ Wrote(outcome, IF mem.log = "open" THEN SyncedLog ELSE disk)
              /\ UNCHANGED mem
              /\ \/ Abort(outcome)
                 \/ /\ outcome = "done"
                    /\ pc' = "commit log"
                    /\ UNCHANGED <<then, op, minted>>
    BY <1>5 DEF SyncReplacements
  <2>2. w \in Log(AnyRow)
    <3>1. disk.wal \in Log(AnyRow)
      BY <1>2, DiskParts
    <3> QED BY <3>1, LogParts
  <2>3. disk' = disk \/ disk' = [disk EXCEPT !.wal = w]
    BY <2>1 DEF Wrote, SyncedLog
  <2> HIDE DEF w
  <2>4. /\ IsDisk(disk') /\ disk'.manifest = disk.manifest /\ disk'.segments = disk.segments
        /\ disk'.deletes = disk.deletes /\ disk'.history = disk.history
    <3>1. CASE disk' = disk
      BY <1>2, <3>1
    <3>2. CASE disk' = [disk EXCEPT !.wal = w]
      BY <1>2, <2>2, <3>2, DiskParts
    <3> QED BY <2>3, <3>1, <3>2
  <2>5. ObjectsFit(disk') /\ Mirrors(disk', mem')
    BY <1>2, <2>1, <2>4, LogOnly
  <2>6. CASE Abort(outcome)
    BY <1>2, <2>1, <2>4, <2>5, <2>6, AbortFits
  <2>7. CASE ~Abort(outcome)
    <3>1. pc' = "commit log" /\ UNCHANGED <<mem, then, op, minted>>
      BY <2>1, <2>7
    <3>2. VictimsFit'
      BY <1>1, <1>2, <1>3, <3>1 DEF VictimsFit, InForce, InSegments
    <3>3. FlushFits' /\ CompactionFits'
      BY <3>1 DEF FlushFits, CompactionFits
    <3>4. Typed'
      BY <1>2, <1>3, <2>4, <3>1 DEF Typed, Phases
    <3> QED BY <1>2, <2>5, <3>1, <3>2, <3>3, <3>4 DEF StoreInv, LayoutNamed
  <2> QED BY <2>6, <2>7
<1> QED BY <1>4, <1>5

LEMMA CommitSupersessionKeeps ==
    ASSUME StoreInv, NoLateFaults, CommitSupersession
    PROVE  StoreInv'
<1> DEFINE s == mem.shared
           q == op.sequence
           t == Entomb(s, op.ids, q)
           n == mem.deleteLogs + 1
<1>1. pc = "commit log"
  BY DEF CommitSupersession
<1>2. PICK outcome \in Outcomes :
          /\ Wrote(outcome, DeleteLog(q, TRUE))
          /\ \/ UNCHANGED mem /\ Abort(outcome)
             \/ /\ outcome = "done"
                /\ mem' = [mem EXCEPT !.deleteLogs = @ + 1, !.shared = t]
                /\ FlushIfFull(mem.shared.buffer)
                /\ minted' = minted
  BY DEF CommitSupersession
<1>3. /\ Typed /\ ObjectsFit(disk) /\ IsDisk(disk) /\ IsMemory(mem) /\ IsOperation(op)
      /\ StateFits(mem) /\ Mirrors(disk, mem) /\ VictimsFit /\ minted \in Nat
  BY <1>1 DEF StoreInv, Typed, Up
<1>4. /\ InForce(op.ids) /\ InSegments(op.ids) /\ (op.ids # {} => q > 0)
      /\ s.diverged /\ q < Watermark(s, mem.rows)
  BY <1>1, <1>3 DEF VictimsFit
<1>5. WellFormed(s, AnyRow) /\ Known(s) /\ mem.rows = RowCount(s)
  BY <1>3 DEF StateFits
<1>6. q \in Nat
  BY <1>3, OperationParts
<1>7. outcome \in {"done", "lost"}
  BY <1>2, OutcomesAre
<1>8. /\ IsDisk(disk')
      /\ outcome = "lost" => disk' = disk
      /\ outcome = "done" =>
           \A k : /\ k.generation = mem.generation /\ k.sections = mem.sections
                  /\ k.deleteLogs = mem.deleteLogs + 1
                  /\ k.shared.frozen = mem.shared.frozen
                  /\ mem.shared.diverged => k.shared.diverged
                  /\ mem.shared.history \subseteq k.shared.history
                  => ObjectsFit(disk') /\ Mirrors(disk', k)
  <2>1. Up /\ TRUE \in BOOLEAN
    BY <1>1 DEF Up
  <2>2. Wrote(outcome, DeleteLog(q, TRUE))
    BY <1>2
  <2> HIDE DEF q
  <2> QED BY <1>4, <1>6, <1>7, <2>1, <2>2, DeleteLogWrite
<1>9. CASE outcome = "lost"
  <2>1. disk' = disk /\ mem' = mem /\ Abort(outcome)
    BY <1>2, <1>8, <1>9
  <2> QED BY <1>3, <2>1, AbortFits
<1>10. CASE outcome = "done"
  <2>1. mem' = WithKills(mem, t, n) /\ FlushIfFull(s.buffer) /\ minted' = minted
    BY <1>2, <1>10 DEF Abort, WithKills
  <2>2. /\ WellFormed(t, AnyRow) /\ Known(t) /\ RowCount(t) = RowCount(s)
        /\ t.frozen = s.frozen /\ t.buffer = s.buffer
        /\ t.history = s.history /\ t.diverged
    <3>1. op.ids \in SUBSET Live(s)
      BY <1>4 DEF InForce
    <3>2. q < Watermark(s, RowCount(s))
      BY <1>4, <1>5
    <3> HIDE DEF s, q
    <3> QED BY <1>4, <1>5, <1>6, <3>1, <3>2, SupersededKnown
  <2>3. n \in Nat
    BY <1>3, MemoryParts
  <2> HIDE DEF t
  <2>4. /\ IsMemory(mem') /\ mem'.shared = t /\ mem'.rows = mem.rows
        /\ mem'.generation = mem.generation /\ mem'.deleteLogs = n
        /\ mem'.sections = mem.sections
    <3> HIDE DEF n
    <3> QED BY <1>3, <2>1, <2>3, MemoryWithKills
  <2>5. StateFits(mem')
    BY <1>5, <2>2, <2>4 DEF StateFits
  <2>6. ObjectsFit(disk') /\ Mirrors(disk', mem')
    BY <1>8, <1>10, <2>2, <2>4
  <2>7. then = "idle"
    BY <1>1, <1>3 DEF Typed, Flushing
  <2>8. /\ pc' \in {"idle", "flush"} /\ then' = "idle" /\ IsOperation(op')
        /\ VictimsFit' /\ FlushFits' /\ CompactionFits'
    BY <2>1, <2>2, <2>4, <2>7, FullFits
  <2>9. Typed'
    BY <1>3, <1>8, <2>1, <2>4, <2>8 DEF Typed, Phases
  <2> QED BY <2>5, <2>6, <2>8, <2>9 DEF StoreInv, LayoutNamed
<1> QED BY <1>7, <1>9, <1>10

----------------------------------------------------------------------------
\* Compaction.

\* The first q multiples of n.
Multiples(n, q) == {n * k : k \in 0 .. q - 1}

(* The bases of the next generation are the multiples of SegmentRows, as   *)
(* many as the writer counts.                                              *)
LEMMA BasesCounted ==
    ASSUME NEW n \in Nat, NEW S \in Nat \ {0}, NEW N, N = {b \in 0 .. n - 1 : b % S = 0}
    PROVE  LET q == Cardinality(N)
           IN  q \in Nat /\ (q = 0 <=> n = 0) /\ N = Multiples(S, q)
<1> DEFINE T == {k \in Nat : n <= S * k}
<1>1. n \in T
  OBVIOUS
<1>2. PICK q \in T : \A k \in T : q <= k
  <2> HIDE DEF T
  <2>1. T \in SUBSET Nat /\ T # {}
    BY <1>1 DEF T
  <2> QED BY <2>1, Least
<1>3. q \in Nat /\ n <= S * q
  OBVIOUS
<1>4. \A k \in 0 .. q - 1 : S * k \in N
  <2> TAKE k \in 0 .. q - 1
  <2>1. k \in Nat /\ k \notin T
    BY <1>2, <1>3
  <2>2. S * k \in Nat /\ (S * k) % S = 0
    BY <2>1, MultipleMod
  <2>3. S * k < n
    BY <2>1, <2>2
  <2> DEFINE b == S * k
  <2> HIDE DEF b
  <2>4. b \in Nat /\ b % S = 0 /\ b < n
    BY <2>2, <2>3 DEF b
  <2>5. b \in 0 .. n - 1
    BY <2>4
  <2>6. b \in N
    BY <2>4, <2>5
  <2> QED BY <2>6 DEF b
<1>5. \A b \in N : \E k \in 0 .. q - 1 : b = S * k
  <2> TAKE b \in N
  <2>1. b \in Nat /\ b < n /\ b % S = 0
    OBVIOUS
  <2> DEFINE k == b \div S
  <2>2. k \in Nat /\ b = S * k
    BY <2>1, Multiple
  <2> HIDE DEF k
  <2>3. S * k < S * q
    <3> DEFINE x == S * q
    <3>1. x \in Nat /\ n <= x
      BY <1>3
    <3> HIDE DEF x
    <3>2. b < x
      BY <2>1, <3>1
    <3> QED BY <2>2, <3>2 DEF x
  <2>4. k + 1 <= q
    BY <1>3, <2>2, <2>3, MultiplesApart
  <2>5. k \in 0 .. q - 1
    BY <1>3, <2>2, <2>4
  <2> QED BY <2>2, <2>5
<1>6. Cardinality(N) = q
  <2> DEFINE f == [i \in 1 .. q |-> S * (i - 1)]
  <2>1. \A i \in 1 .. q : i - 1 \in 0 .. q - 1
    BY <1>3
  <2>2. f \in [1 .. q -> N]
    BY <1>4, <2>1
  <2>3. \A i, j \in 1 .. q : f[i] = f[j] => i = j
    <3> SUFFICES ASSUME NEW i \in 1 .. q, NEW j \in 1 .. q, f[i] = f[j]
                 PROVE  i = j
      OBVIOUS
    <3>1. S * (i - 1) = S * (j - 1)
      OBVIOUS
    <3>2. i \in Nat /\ j \in Nat
      BY <1>3
    <3> HIDE DEF f
    <3> QED BY <3>1, <3>2
  <2>4. \A b \in N : \E i \in 1 .. q : f[i] = b
    <3> TAKE b \in N
    <3>1. PICK k \in 0 .. q - 1 : b = S * k
      BY <1>5
    <3>2. k + 1 \in 1 .. q /\ (k + 1) - 1 = k
      BY <1>3
    <3>3. f[k + 1] = S * ((k + 1) - 1)
      BY <3>2
    <3> QED BY <3>1, <3>2, <3>3
  <2> HIDE DEF f
  <2>5. f \in Bijection(1 .. q, N)
    BY <2>2, <2>3, <2>4 DEF Bijection, Injection, Surjection, IsInjective
  <2>6. ExistsBijection(1 .. q, N)
    BY <2>5 DEF ExistsBijection
  <2>7. IsFiniteSet(1 .. q) /\ Cardinality(1 .. q) = q
    BY <1>3, FS_Interval
  <2> QED BY <2>6, <2>7, FS_Bijection
<1>7. q = 0 <=> n = 0
  <2>1. n = 0 => N = {}
    OBVIOUS
  <2>2. n # 0 => 0 \in N
    BY DivMod
  <2>3. q = 0 => N = {}
    BY <1>5
  <2>4. q # 0 => N # {}
    <3>1. q # 0 => 0 \in 0 .. q - 1
      BY <1>3
    <3> QED BY <3>1, <1>4
  <2> QED BY <2>1, <2>2, <2>3, <2>4
<1>8. N = Multiples(S, q)
  <2> HIDE DEF T
  <2> QED BY <1>4, <1>5 DEF Multiples
<1> QED BY <1>3, <1>6, <1>7, <1>8

(* The next generation in memory: well formed, no coordinate changed, the  *)
(* kills in history, and the rows its segments take.                       *)
LEMMA NextFits ==
    ASSUME StateFits(mem), op.order \in MergeOrders(mem.shared, Live(mem.shared))
    PROVE  LET s == mem.shared
               t == NextShared
               mark == Watermark(s, mem.rows)
           IN  /\ WellFormed(t, AnyRow) /\ Known(t)
               /\ RowCount(t) = Len(op.order) /\ Len(t.frozen) = Len(op.order)
               /\ Len(op.order) \in Nat
               /\ t.frozen \in Seq(Held)
               /\ t.diverged = Diverging(s, op.order)
               /\ t.diverged => t.next = mark
               /\ t.history = Retained(s)
               /\ mark \in Nat
               /\ \A v \in Retained(s) : v.killed < mark
<1> DEFINE s == mem.shared
           order == op.order
           t == NextShared
           rows == mem.rows
           mark == Watermark(s, rows)
<1>1. WellFormed(s, AnyRow) /\ Known(s) /\ rows = RowCount(s)
  BY DEF StateFits
<1>2. order \in MergeOrders(s, Live(s))
  OBVIOUS
<1>3. t = Compacted(s, rows, order)
  BY DEF NextShared
<1>4. Shaped(s, AnyRow)
  BY <1>1 DEF WellFormed
<1>5. /\ t.buffer = << >> /\ t.diverged = Diverging(s, order)
      /\ t.next = IF Diverging(s, order) THEN mark ELSE 0
      /\ Len(t.frozen) = Len(order)
  <2>1. Len(order) \in Nat
    BY <1>2, <1>4, MergeOrderType
  <2> HIDE DEF s, order, rows, mark, t
  <2>2. /\ t.buffer = << >> /\ t.diverged = Diverging(s, order)
        /\ t.next = IF Diverging(s, order) THEN mark ELSE 0
    BY <1>3 DEF Compacted, mark
  <2>3. Len(t.frozen) = Len(order)
    <3>1. t.frozen = [i \in 1 .. Len(order) |->
                        [row  |-> RowAt(s, order[i]),
                         born |-> IF Diverging(s, order) THEN Born(s, order[i]) ELSE i - 1]]
      BY <1>3 DEF Compacted
    <3> QED BY <2>1, <3>1
  <2> QED BY <2>2, <2>3
<1> HIDE DEF s, order, t, rows
<1>6. WellFormed(t, AnyRow) /\ RowCount(t) = Len(order)
  BY <1>1, <1>2, <1>3, CompactedKeeps
<1>7. /\ \A id \in Ids(t) :
            /\ id + 1 \in 1 .. Len(order)
            /\ RowAt(t, id) = RowAt(s, order[id + 1])
            /\ Born(t, id) = Born(s, order[id + 1])
      /\ Watermark(t, Len(order)) = mark
      /\ Dead(t) = {} /\ t.history = Retained(s)
  BY <1>1, <1>2, <1>3, CompactedView
<1>8. Len(order) \in Nat /\ mark \in Nat /\ t.frozen \in Seq(Held)
  <2>1. Shaped(t, AnyRow)
    BY <1>6 DEF WellFormed
  <2>2. t.frozen \in Seq(Held)
    BY <2>1, FieldTypes DEF Held
  <2> QED BY <1>1, <1>2, <1>4, <2>2, MergeOrderType, ViewType
<1>9. \A v \in Retained(s) : v.killed < mark
  <2> TAKE v \in Retained(s)
  <2>1. CASE v \in s.history
    BY <1>1, <2>1 DEF Known
  <2>2. CASE v \in KilledVersions(s)
    BY <1>1, <2>2 DEF Known, KilledVersions
  <2> QED BY <2>1, <2>2 DEF Retained, DeadVersions
<1> HIDE DEF mark
<1>10. Known(t)
  <2>1. \A id \in Ids(t) : Born(t, id) < mark
    <3> TAKE id \in Ids(t)
    <3>1. id + 1 \in 1 .. Len(order) /\ Born(t, id) = Born(s, order[id + 1])
      BY <1>7
    <3>2. order[id + 1] \in Ids(s)
      BY <1>2, <1>4, <3>1, MergeOrderIndex
    <3> QED BY <1>1, <3>1, <3>2 DEF Known, mark
  <2> QED BY <1>6, <1>7, <1>9, <2>1 DEF Known
<1> QED BY <1>5, <1>6, <1>7, <1>8, <1>9, <1>10 DEF s, order, t, rows, mark

LEMMA NewSegmentFits ==
    ASSUME StateFits(mem), op.order \in MergeOrders(mem.shared, Live(mem.shared)),
           NEW b \in NewBases
    PROVE  LET t == NextShared
               segment == NewSegment(b)
           IN  /\ b \in Nat
               /\ segment \in Segment(AnyRow)
               /\ segment.rows = SubSeq(t.frozen, b + 1, Min({b + SegmentRows, Len(t.frozen)}))
               /\ ~segment.stamped =>
                     \A i \in 1 .. Len(segment.rows) : segment.rows[i].born = b + i - 1
<1> DEFINE F == NextShared.frozen
           n == Len(op.order)
           m == Min({b + SegmentRows, n})
           R == SubSeq(F, b + 1, m)
           diverged == NextShared.diverged
<1>1. /\ WellFormed(NextShared, AnyRow) /\ Len(F) = n /\ n \in Nat /\ F \in Seq(Held)
  BY NextFits
<1>2. diverged \in BOOLEAN
  BY <1>1, FieldTypes DEF WellFormed
<1>3. NewSegment(b) = [rows |-> R, stamped |-> diverged]
  BY DEF NewSegment
<1>4. b \in Nat /\ b < n /\ SegmentRows \in Nat
  BY <1>1, SegmentRowsAssumption DEF NewBases
<1> HIDE DEF F, n, diverged
<1>5. m \in Nat /\ m <= n /\ b < n
  <2>1. m \in {b + SegmentRows, n} /\ \A x \in {b + SegmentRows, n} : m <= x
    <3>1. {b + SegmentRows, n} \in SUBSET Nat /\ {b + SegmentRows, n} # {}
      BY <1>1, <1>4
    <3> QED BY <3>1, MinOf
  <2> QED BY <1>1, <1>4, <2>1
<1> HIDE DEF m
<1>6. R \in Seq(Held) /\ Len(R) = IF b + 1 <= m THEN m - (b + 1) + 1 ELSE 0
  BY <1>1, <1>4, <1>5
<1>7. \A i \in 1 .. Len(R) : b + i \in 1 .. n /\ R[i] = F[b + i]
  <2> TAKE i \in 1 .. Len(R)
  <2>1. b + 1 <= m /\ Len(R) = m - b
    BY <1>4, <1>5, <1>6
  <2>2. i \in 1 .. m - b /\ b + i \in 1 .. n
    BY <1>1, <1>4, <1>5, <2>1
  <2>3. R[i] = F[(b + 1) + i - 1]
    BY <1>1, <1>4, <1>5, <2>1, <2>2
  <2>4. (b + 1) + i - 1 = b + i
    BY <1>4, <2>2
  <2> QED BY <2>2, <2>3, <2>4
<1>8. ~diverged => \A i \in 1 .. n : F[i].born = i - 1
  <2>1. DOMAIN F = 1 .. n
    BY <1>1
  <2> QED BY <1>1, <2>1 DEF WellFormed, VirtualIsPlain, F, diverged
<1> HIDE DEF R
<1>9. ~diverged => \A i \in 1 .. Len(R) : R[i].born = b + i - 1
  <2> SUFFICES ASSUME ~diverged, NEW i \in 1 .. Len(R) PROVE R[i].born = b + i - 1
    OBVIOUS
  <2>1. b + i \in 1 .. n /\ R[i] = F[b + i]
    BY <1>7
  <2>2. F[b + i].born = (b + i) - 1
    BY <1>8, <2>1
  <2>3. (b + i) - 1 = b + i - 1
    BY <1>4, <1>6
  <2> QED BY <2>1, <2>2, <2>3
<1>10. NewSegment(b) \in Segment(AnyRow)
  BY <1>2, <1>3, <1>6 DEF Segment, Held
<1>11. NewSegment(b).rows = R /\ NewSegment(b).stamped = diverged
  BY <1>3
<1>12. R = SubSeq(F, b + 1, Min({b + SegmentRows, Len(F)}))
  BY <1>1 DEF R, m
<1> QED BY <1>4, <1>9, <1>10, <1>11, <1>12 DEF F, diverged

LEMMA OrderLength ==
    ASSUME NEW R, NEW t, Shaped(t, R), NEW order \in MergeOrders(t, Live(t))
    PROVE  Len(order) \in Nat /\ (Len(order) = 0 <=> Live(t) = {})
<1>1. Len(order) \in Nat
  BY MergeOrderType
<1>2. /\ \A i \in 1 .. Len(order) : order[i] \in Live(t)
      /\ \A id \in Live(t) : \E i \in 1 .. Len(order) : order[i] = id
  BY MergeOrderIndex
<1>3. Len(order) # 0 => 1 \in 1 .. Len(order)
  BY <1>1
<1>4. Len(order) = 0 => 1 .. Len(order) = {}
  BY <1>1
<1> QED BY <1>1, <1>2, <1>3, <1>4

LEMMA CompactionOperation ==
    ASSUME StateFits(mem), op.order \in MergeOrders(mem.shared, Live(mem.shared))
    PROVE  LET q == Cardinality(NewBases)
           IN  /\ q \in Nat /\ HistoryObjects \in {0, 1}
               /\ NewBases = Multiples(SegmentRows, q)
<1> DEFINE n == Len(op.order)
           N == NewBases
<1>1. n \in Nat
  BY NextFits
<1>2. N = {b \in 0 .. n - 1 : b % SegmentRows = 0} /\ SegmentRows \in Nat \ {0}
  BY SegmentRowsAssumption DEF NewBases
<1> HIDE DEF n, N
<1>3. Cardinality(N) \in Nat /\ N = Multiples(SegmentRows, Cardinality(N))
  BY <1>1, <1>2, BasesCounted
<1>4. HistoryObjects \in {0, 1}
  BY DEF HistoryObjects
<1> QED BY <1>3, <1>4 DEF N

LEMMA StartCompactKeeps ==
    ASSUME StoreInv, StartCompact
    PROVE  StoreInv'
<1> DEFINE s == mem.shared
           g == disk.manifest.generation
           segments == Without(disk.segments, {n \in DOMAIN disk.segments : n[1] = mem.generation + 1})
           deletes == Without(disk.deletes, {n \in DOMAIN disk.deletes : n[1] = mem.generation + 1})
           history == Without(disk.history, {i \in DOMAIN disk.history : i >= mem.sections.history})
           d1 == [disk EXCEPT !.segments = segments]
           d2 == [d1 EXCEPT !.deletes = deletes]
           d3 == [d2 EXCEPT !.history = history]
<1>1. pc = "idle" /\ disk' = PreCleaned /\ UNCHANGED <<mem, then, minted>>
  BY DEF StartCompact, ghosts
<1>2. PICK order \in MergeOrders(s, Live(s)) : op' = [NoOp EXCEPT !.order = order]
  BY DEF StartCompact
<1>3. /\ Typed /\ ObjectsFit(disk) /\ IsDisk(disk) /\ IsMemory(mem)
      /\ StateFits(mem) /\ Mirrors(disk, mem) /\ then = "idle"
  BY <1>1 DEF StoreInv, Typed, Up, Flushing
<1>4. /\ mem.generation = g /\ mem.sections.history = disk.manifest.history /\ g \in Nat
      /\ disk.manifest.history \in Nat
  <2>1. disk.manifest = ManifestOf(mem.generation, mem.sections)
    BY <1>3 DEF Mirrors
  <2>2. disk.manifest \in Manifest
    BY <1>3, DiskParts
  <2> QED BY <2>1, <2>2, ManifestParts DEF Manifest
<1>5. disk' = d3
  <2>1. disk' = [disk EXCEPT !.segments = segments, !.deletes = deletes, !.history = history]
    BY <1>1 DEF PreCleaned
  <2> HIDE DEF segments, deletes, history
  <2> QED BY <2>1
<1>6. /\ IsDisk(disk') /\ disk'.manifest = disk.manifest
      /\ disk'.segments = segments /\ disk'.deletes = deletes /\ disk'.history = history
  <2> HIDE DEF segments, deletes, history
  <2>1. /\ IsDisk(d1) /\ d1.manifest = disk.manifest /\ d1.segments = segments
        /\ d1.history = disk.history
    BY <1>3, DiskParts
  <2> HIDE DEF d1
  <2>2. /\ IsDisk(d2) /\ d2.manifest = disk.manifest /\ d2.segments = segments
        /\ d2.deletes = deletes
    BY <2>1, DiskParts
  <2> HIDE DEF d2
  <2>3. /\ IsDisk(d3) /\ d3.manifest = disk.manifest /\ d3.segments = segments
        /\ d3.deletes = deletes /\ d3.history = history
    BY <2>2, DiskParts
  <2> QED BY <1>5, <2>3
<1>7. /\ ObjectsTyped(disk, AnyRow)
      /\ DOMAIN disk.segments \subseteq (0 .. g + 1) \X Nat
  BY <1>3 DEF ObjectsFit, Sound
<1>8. SameGeneration(disk, disk')
  <2> DEFINE e == disk'
  <2>1. /\ e.manifest = disk.manifest
        /\ \A n \in DOMAIN e.segments : n \in DOMAIN disk.segments /\ e.segments[n] = disk.segments[n]
        /\ \A n \in DOMAIN e.deletes : n \in DOMAIN disk.deletes /\ e.deletes[n] = disk.deletes[n]
        /\ \A n \in DOMAIN e.history : n \in DOMAIN disk.history /\ e.history[n] = disk.history[n]
    BY <1>6 DEF Without
  <2>2. ObjectsTyped(e, AnyRow)
    BY <1>7, <2>1 DEF ObjectsTyped
  <2>3. \A n : n[1] = g => (n \in DOMAIN e.segments <=> n \in DOMAIN disk.segments)
    BY <1>4, <1>6 DEF Without
  <2>4. \A n \in DOMAIN disk.deletes : n[1] = g => n \in DOMAIN e.deletes
    BY <1>4, <1>6 DEF Without
  <2>5. \A i \in 0 .. disk.manifest.history - 1 : i \in DOMAIN disk.history => i \in DOMAIN e.history
    BY <1>4, <1>6 DEF Without
  <2> HIDE DEF e
  <2> QED BY <1>7, <2>1, <2>2, <2>3, <2>4, <2>5 DEF SameGeneration, e
<1>9. ObjectsFit(disk') /\ Mirrors(disk', mem')
  BY <1>1, <1>3, <1>8, SameGenerationFits
<1>10. StateFits(mem')
  BY <1>1, <1>3
<1>11. IsOperation(op') /\ op'.order = order /\ op'.left = 0
  BY <1>2, NewOperations
<1>12. (op.order \in MergeOrders(mem.shared, Live(mem.shared)))'
  BY <1>1, <1>11
<1>13. /\ Cardinality(NewBases') \in Nat /\ HistoryObjects' \in {0, 1}
       /\ Cardinality(NewBases') = 0 <=> Live(s) = {}
  <2> DEFINE n == Len(order)
             N == NewBases'
  <2>1. n \in Nat /\ (n = 0 <=> Live(s) = {})
    BY <1>2, <1>3, OrderLength DEF StateFits, WellFormed
  <2>2. N = {b \in 0 .. n - 1 : b % SegmentRows = 0} /\ SegmentRows \in Nat \ {0}
    BY <1>11, SegmentRowsAssumption DEF NewBases
  <2> HIDE DEF n, N
  <2>3. Cardinality(N) \in Nat /\ (Cardinality(N) = 0 <=> n = 0)
    BY <2>1, <2>2, BasesCounted
  <2>4. HistoryObjects' \in {0, 1}
    BY DEF HistoryObjects
  <2> QED BY <2>1, <2>3, <2>4 DEF N
<1>14. pc' = IF Live(s) = {} /\ ~RetainsHistory THEN "compact manifest" ELSE "compact"
  BY DEF StartCompact
<1>15. CompactionFits'
  <2>1. HistoryObjects' = HistoryObjects
    BY <1>1 DEF HistoryObjects, RetainsHistory
  <2>2. HistoryObjects = 0 <=> ~RetainsHistory
    BY DEF HistoryObjects
  <2>3. Written' = {}
    <3>1. Written' = 0 .. op'.left - HistoryObjects' - 1
      BY DEF Written
    <3> DEFINE h == HistoryObjects'
    <3>2. h \in {0, 1} /\ Written' = 0 .. op'.left - h - 1
      BY <1>13, <3>1
    <3> HIDE DEF h
    <3> QED BY <1>11, <3>2
  <2>4. \A n \in DOMAIN disk'.segments : n[1] # disk'.manifest.generation + 1
    BY <1>4, <1>6 DEF Without
  <2>5. pc' = "compact" => op'.left < HistoryObjects' + Cardinality(NewBases')
    BY <1>11, <1>13, <1>14, <2>1, <2>2
  <2>6. pc' = "compact manifest" => op'.left = HistoryObjects' + Cardinality(NewBases')
    <3>1. pc' = "compact manifest" => HistoryObjects' = 0 /\ Cardinality(NewBases') = 0
      BY <1>13, <1>14, <2>1, <2>2
    <3> DEFINE h == HistoryObjects'
               q == Cardinality(NewBases')
    <3>2. pc' = "compact manifest" => h = 0 /\ q = 0
      BY <3>1
    <3> HIDE DEF h, q
    <3>3. h = 0 /\ q = 0 => h + q = 0
      OBVIOUS
    <3>4. pc' = "compact manifest" => op'.left = h + q
      BY <1>11, <3>2, <3>3, Zenon
    <3> QED BY <3>4 DEF h, q
  <2>7. ~(op'.left > 0)
    BY <1>11
  <2> QED BY <1>12, <2>3, <2>4, <2>5, <2>6, <2>7 DEF CompactionFits
<1>16. pc' \in {"compact", "compact manifest"} /\ then' = "idle"
  BY <1>1, <1>3, <1>14
<1>17. VictimsFit' /\ FlushFits'
  BY <1>16 DEF VictimsFit, FlushFits
<1>18. Typed'
  BY <1>1, <1>3, <1>6, <1>11, <1>16 DEF Typed, Phases
<1> QED BY <1>9, <1>10, <1>15, <1>16, <1>17, <1>18 DEF StoreInv, LayoutNamed

LEMMA WriteNextGenerationKeeps ==
    ASSUME StoreInv, NoLateFaults, WriteNextGeneration
    PROVE  StoreInv'
<1> DEFINE s == mem.shared
           g == disk.manifest.generation
           H == HistoryObjects
           q == Cardinality(NewBases)
           name(k) == <<g + 1, SegmentRows * k>>
<1>1. pc = "compact"
  BY DEF WriteNextGeneration
<1>2. PICK outcome \in Outcomes :
          /\ Wrote(outcome, NextObject)
          /\ UNCHANGED mem
          /\ \/ Abort(outcome)
             \/ /\ outcome = "done"
                /\ op' = [op EXCEPT !.left = @ + 1]
                /\ pc' = IF op.left + 1 = H + q THEN "compact manifest" ELSE pc
                /\ UNCHANGED <<then, minted>>
  BY DEF WriteNextGeneration, ghosts
<1>3. /\ Typed /\ ObjectsFit(disk) /\ IsDisk(disk) /\ IsMemory(mem) /\ IsOperation(op)
      /\ StateFits(mem) /\ Mirrors(disk, mem) /\ CompactionFits /\ then = "idle"
  BY <1>1 DEF StoreInv, Typed, Up, Flushing
<1>4. /\ op.order \in MergeOrders(s, Live(s)) /\ op.left < H + q
      /\ \A n \in DOMAIN disk.segments : n[1] = g + 1 => \E k \in Written : n = name(k)
      /\ \A k \in Written : /\ name(k) \in DOMAIN disk.segments
                            /\ disk.segments[name(k)] = NewSegment(SegmentRows * k)
      /\ RetainsHistory /\ op.left > 0 =>
            /\ disk.manifest.history \in DOMAIN disk.history
            /\ disk.history[disk.manifest.history] = KilledVersions(s)
  BY <1>1, <1>3 DEF CompactionFits
<1>5. q \in Nat /\ H \in {0, 1} /\ NewBases = Multiples(SegmentRows, q)
  BY <1>3, <1>4, CompactionOperation
<1>6. op.left \in Nat
  BY <1>3, OperationParts
<1>7. outcome \in {"done", "lost"}
  BY <1>2, OutcomesAre
<1>8. mem.generation = g /\ mem.sections.history = disk.manifest.history /\ g \in Nat
  <2>1. disk.manifest = ManifestOf(mem.generation, mem.sections)
    BY <1>3 DEF Mirrors
  <2>2. disk.manifest \in Manifest
    BY <1>3, DiskParts
  <2> QED BY <2>1, <2>2, ManifestParts DEF Manifest
<1>9. CASE outcome = "lost"
  <2>1. disk' = disk /\ mem' = mem /\ Abort(outcome)
    BY <1>2, <1>9 DEF Wrote
  <2> QED BY <1>3, <2>1, AbortFits
<1>10. CASE outcome = "done"
  <2> DEFINE e == disk'
  <2>1. /\ e = NextObject /\ mem' = mem /\ op' = [op EXCEPT !.left = op.left + 1]
        /\ pc' = IF op.left + 1 = H + q THEN "compact manifest" ELSE pc
        /\ then' = then /\ minted' = minted
    BY <1>2, <1>10 DEF Abort, Wrote
  <2>2. /\ IsOperation(op') /\ op'.left = op.left + 1 /\ op'.order = op.order
    <3>1. op.left + 1 \in Nat
      BY <1>6
    <3> QED BY <1>3, <2>1, <3>1, OperationParts
  <2>3. /\ HistoryObjects' = H /\ NewBases' = NewBases
        /\ \A b : (NewSegment(b))' = NewSegment(b)
        /\ (RetainsHistory)' = RetainsHistory
    <3>1. /\ (RetainsHistory)' = RetainsHistory
          /\ HistoryObjects' = H
      BY <2>1 DEF HistoryObjects, RetainsHistory
    <3>2. NewBases' = NewBases
      BY <2>2 DEF NewBases
    <3>3. ASSUME NEW b PROVE (NewSegment(b))' = NewSegment(b)
      <4>1. NextShared' = NextShared
        BY <2>1, <2>2 DEF NextShared
      <4> QED BY <2>2, <4>1 DEF NewSegment
    <3> QED BY <3>1, <3>2, <3>3
  <2>4. /\ ObjectsTyped(disk, AnyRow)
        /\ DOMAIN disk.segments \subseteq (0 .. g + 1) \X Nat
    BY <1>3 DEF ObjectsFit, Sound
  <2>5. pc' \in {"compact", "compact manifest"} /\ then' = "idle"
        /\ (pc' = "compact" => op'.left < H + q)
        /\ (pc' = "compact manifest" => op'.left = H + q)
    <3> DEFINE l == op.left
    <3>1. l \in Nat /\ l < H + q /\ q \in Nat /\ H \in {0, 1} /\ op'.left = l + 1
      BY <1>4, <1>5, <1>6, <2>2
    <3>2. pc' = IF l + 1 = H + q THEN "compact manifest" ELSE "compact"
      BY <1>1, <2>1
    <3> HIDE DEF H, q, l
    <3>3. l + 1 # H + q => l + 1 < H + q
      BY <3>1
    <3>4. then' = "idle"
      BY <1>3, <2>1
    <3>5. CASE l + 1 = H + q
      BY <3>1, <3>2, <3>4, <3>5
    <3>6. CASE l + 1 # H + q
      BY <3>1, <3>2, <3>3, <3>4, <3>6
    <3> QED BY <3>5, <3>6
  <2>6. VictimsFit' /\ FlushFits'
    BY <2>5 DEF VictimsFit, FlushFits
  <2>7. /\ Written' = 0 .. op.left - H
        /\ Written = 0 .. op.left - H - 1
    <3>1. Written' = 0 .. op'.left - H - 1 /\ Written = 0 .. op.left - H - 1
      BY <2>3 DEF Written
    <3> HIDE DEF H
    <3>2. op'.left - H - 1 = op.left - H
      BY <1>5, <1>6, <2>2
    <3> QED BY <3>1, <3>2
  <2>8. ASSUME IsDisk(e), SameGeneration(disk, e), CompactionFits'
        PROVE  StoreInv'
    <3>1. ObjectsFit(disk') /\ Mirrors(disk', mem')
      BY <1>3, <2>1, <2>8, SameGenerationFits
    <3>2. StateFits(mem')
      BY <1>3, <2>1
    <3>3. Typed'
      BY <1>3, <2>1, <2>2, <2>5, <2>8 DEF Typed, Phases
    <3> QED BY <2>5, <2>6, <2>8, <3>1, <3>2, <3>3 DEF StoreInv, LayoutNamed
  <2>9. CASE op.left < H
    <3> DEFINE i == mem.sections.history
               K == KilledVersions(s)
               history == Publish(disk.history, i, K)
    <3>1. H = 1 /\ op.left = 0 /\ RetainsHistory
      <4>1. H = 1 /\ op.left = 0
        <5> HIDE DEF H
        <5> QED BY <1>5, <1>6, <2>9
      <4> QED BY <4>1 DEF HistoryObjects
    <3>2. e = [disk EXCEPT !.history = history]
      BY <2>1, <2>9 DEF NextObject
    <3>3. /\ IsDisk(e) /\ e.manifest = disk.manifest /\ e.segments = disk.segments
          /\ e.deletes = disk.deletes /\ e.history = history
      <4> HIDE DEF history
      <4> QED BY <1>3, <3>2, DiskParts
    <3>4. K \in SUBSET [row : AnyRow, born : Nat, killed : Nat]
      <4>1. Retained(s) \in SUBSET [row : AnyRow, born : Nat, killed : Nat]
        BY <1>3, RetainedType DEF StateFits, WellFormed
      <4> QED BY <4>1 DEF Retained, DeadVersions
    <3>5. /\ DOMAIN e.history = DOMAIN disk.history \cup {i} /\ e.history[i] = K
          /\ \A j \in DOMAIN disk.history : j # i => e.history[j] = disk.history[j]
      <4> HIDE DEF i, K
      <4> QED BY <3>3 DEF Publish
    <3> HIDE DEF K, e
    <3>6. SameGeneration(disk, e)
      <4>1. ObjectsTyped(e, AnyRow)
        BY <2>4, <3>3, <3>4, <3>5 DEF ObjectsTyped
      <4>2. \A j \in 0 .. disk.manifest.history - 1 :
                j \in DOMAIN disk.history => j \in DOMAIN e.history /\ e.history[j] = disk.history[j]
        <5>1. i \in Nat
          BY <1>3, MemoryParts DEF Sections
        <5>2. \A j \in 0 .. disk.manifest.history - 1 : j # i
          BY <1>8, <5>1
        <5> QED BY <3>5, <5>2
      <4> QED BY <2>4, <3>3, <4>1, <4>2 DEF SameGeneration
    <3>7. Written' = {} /\ Written = {}
      <4> HIDE DEF H
      <4> QED BY <2>7, <3>1
    <3>8. CompactionFits'
      <4>1. op'.order \in MergeOrders(mem'.shared, Live(mem'.shared))
        BY <1>4, <2>1, <2>2
      <4>2. \A n \in DOMAIN e.segments : n[1] = e.manifest.generation + 1 => FALSE
        BY <1>4, <3>3, <3>7
      <4>3. /\ e.manifest.history \in DOMAIN e.history
            /\ e.history[e.manifest.history] = KilledVersions(mem'.shared)
        BY <1>8, <2>1, <3>3, <3>5 DEF K
      <4>4. /\ pc' = "compact" => op'.left < HistoryObjects' + Cardinality(NewBases')
            /\ pc' = "compact manifest" => op'.left = HistoryObjects' + Cardinality(NewBases')
        BY <2>3, <2>5
      <4> QED BY <3>7, <4>1, <4>2, <4>3, <4>4, Zenon DEF CompactionFits, e
    <3> QED BY <2>8, <3>3, <3>6, <3>8
  <2>10. CASE ~(op.left < H)
    <3> DEFINE k == op.left - H
               b == SegmentRows * k
               N == NewSegment(b)
               segments == Publish(disk.segments, <<mem.generation + 1, b>>, N)
    <3>1. k \in Nat /\ k \in 0 .. q - 1
      <4> HIDE DEF H, q
      <4> QED BY <1>4, <1>5, <1>6, <2>10
    <3>2. b \in NewBases
      <4> HIDE DEF k, q
      <4> QED BY <1>5, <3>1 DEF Multiples
    <3>3. N \in Segment(AnyRow) /\ b \in Nat
      <4> HIDE DEF b
      <4> QED BY <1>3, <1>4, <3>2, NewSegmentFits
    <3>4. e = [disk EXCEPT !.segments = segments]
      BY <2>1, <2>10 DEF NextObject
    <3>5. /\ IsDisk(e) /\ e.manifest = disk.manifest /\ e.segments = segments
          /\ e.deletes = disk.deletes /\ e.history = disk.history
      <4> HIDE DEF segments
      <4> QED BY <1>3, <3>4, DiskParts
    <3>6. /\ DOMAIN e.segments = DOMAIN disk.segments \cup {name(k)}
          /\ e.segments[name(k)] = N
          /\ \A n \in DOMAIN disk.segments : n # name(k) => e.segments[n] = disk.segments[n]
      <4>1. segments = Publish(disk.segments, name(k), N)
        BY <1>8
      <4> HIDE DEF segments, name, N, k
      <4> QED BY <3>5, <4>1 DEF Publish
    <3>7. Written' = Written \cup {k} /\ Written \subseteq Nat
      <4>1. Written' = 0 .. k /\ Written = 0 .. k - 1
        BY <2>7
      <4> HIDE DEF k
      <4> QED BY <3>1, <4>1
    <3>8. name(k)[1] = g + 1 /\ name(k) \in (0 .. g + 1) \X Nat
      <4>1. name(k) = <<g + 1, b>>
        OBVIOUS
      <4> HIDE DEF b, name
      <4> QED BY <1>8, <3>3, <4>1
    <3> HIDE DEF N, e, k
    <3>9. SameGeneration(disk, e)
      <4>1. ObjectsTyped(e, AnyRow)
        BY <2>4, <3>3, <3>5, <3>6 DEF ObjectsTyped
      <4>2. DOMAIN e.segments \subseteq (0 .. g + 1) \X Nat
        BY <2>4, <3>6, <3>8
      <4>3. \A n : n[1] = g =>
                /\ n \in DOMAIN e.segments <=> n \in DOMAIN disk.segments
                /\ n \in DOMAIN e.segments => e.segments[n] = disk.segments[n]
        <5>1. \A n : n[1] = g => n # name(k)
          BY <1>8, <3>8
        <5> HIDE DEF name
        <5> QED BY <3>6, <5>1
      <4> QED BY <3>5, <4>1, <4>2, <4>3 DEF SameGeneration
    <3>10. CompactionFits'
      <4>1. op'.order \in MergeOrders(mem'.shared, Live(mem'.shared))
        BY <1>4, <2>1, <2>2
      <4> DEFINE W == Written'
                 nameOf(j) == <<e.manifest.generation + 1, SegmentRows * j>>
      <4>2. \A j : nameOf(j) = name(j)
        BY <3>5
      <4>3. W = Written \cup {k}
        BY <3>7
      <4> HIDE DEF W, nameOf
      <4>4. \A n \in DOMAIN e.segments : n[1] = g + 1 => \E j \in W : n = name(j)
        <5> HIDE DEF name
        <5> QED BY <1>4, <3>6, <4>3
      <4>5. \A j \in W : name(j) \in DOMAIN e.segments /\ e.segments[name(j)] = NewSegment(SegmentRows * j)
        <5> TAKE j \in W
        <5>1. CASE name(j) = name(k)
          <6>1. SegmentRows * j = b
            BY <5>1 DEF k
          <6>2. NewSegment(SegmentRows * j) = N
            BY <6>1 DEF N
          <6> HIDE DEF name
          <6> QED BY <3>6, <5>1, <6>2
        <5>2. CASE name(j) # name(k)
          <6>1. j \in Written
            BY <4>3, <5>2
          <6> HIDE DEF name
          <6> QED BY <1>4, <3>6, <5>2, <6>1
        <5> QED BY <5>1, <5>2
      <4>6. /\ pc' = "compact" => op'.left < HistoryObjects' + Cardinality(NewBases')
            /\ pc' = "compact manifest" => op'.left = HistoryObjects' + Cardinality(NewBases')
        BY <2>3, <2>5
      <4>7. RetainsHistory' /\ op'.left > 0 =>
              /\ e.manifest.history \in DOMAIN e.history
              /\ e.history[e.manifest.history] = KilledVersions(mem'.shared)
        <5> SUFFICES ASSUME RetainsHistory
                     PROVE  /\ e.manifest.history \in DOMAIN e.history
                            /\ e.history[e.manifest.history] = KilledVersions(mem'.shared)
          BY <2>3
        <5>1. H = 1
          BY DEF HistoryObjects
        <5>2. op.left > 0
          <6> HIDE DEF H
          <6> QED BY <1>6, <2>10, <5>1
        <5> QED BY <1>4, <2>1, <3>5, <5>2
      <4>8. \A n \in DOMAIN e.segments : n[1] = e.manifest.generation + 1 => \E j \in W : n = nameOf(j)
        <5> HIDE DEF name
        <5> QED BY <3>5, <4>2, <4>4
      <4>9. \A j \in W : /\ nameOf(j) \in DOMAIN e.segments
                         /\ e.segments[nameOf(j)] = (NewSegment(SegmentRows * j))'
        <5> HIDE DEF name
        <5> QED BY <2>3, <4>2, <4>5
      <4> QED BY <4>1, <4>6, <4>7, <4>8, <4>9, Zenon DEF CompactionFits, e, W, nameOf
    <3> QED BY <2>8, <3>5, <3>9, <3>10
  <2> QED BY <2>9, <2>10
<1> QED BY <1>7, <1>9, <1>10

WithGeneration(m, g, c, s, n) ==
    [m EXCEPT !.generation = g, !.sections = c, !.shared = s, !.rows = n, !.deleteLogs = 0]

LEMMA MemoryWithGeneration ==
    ASSUME NEW m, IsMemory(m), NEW g \in Nat, NEW c \in Sections, NEW s, NEW n \in Nat
    PROVE  LET k == WithGeneration(m, g, c, s, n)
           IN  /\ IsMemory(k) /\ k.shared = s /\ k.rows = n
               /\ k.generation = g /\ k.sections = c
<1> DEFINE C == Sections
           W == WalLevels
<1>1. m \in [shared : {m.shared}, rows : Nat, generation : Nat, deleteLogs : Nat,
             sections : C, log : {"none", "open", "detached"}, walSync : W]
  BY DEF IsMemory
<1>2. c \in C
  OBVIOUS
<1> DEFINE k == WithGeneration(m, g, c, s, n)
<1> HIDE DEF C, W
<1>3. /\ k.shared = s /\ k.rows = n /\ k.generation = g /\ k.sections = c
  BY <1>1 DEF WithGeneration
<1>4. k \in [shared : {k.shared}, rows : Nat, generation : Nat, deleteLogs : Nat,
             sections : C, log : {"none", "open", "detached"}, walSync : W]
  BY <1>1, <1>2 DEF WithGeneration
<1> QED BY <1>3, <1>4 DEF IsMemory, C, W

LEMMA CommitCompactionKeeps ==
    ASSUME StoreInv, NoLateFaults, CommitCompaction
    PROVE  StoreInv'
<1> DEFINE s == mem.shared
           t == NextShared
           g == disk.manifest.generation
           H == HistoryObjects
           q == Cardinality(NewBases)
           was == mem.sections
           mark == Watermark(s, mem.rows)
           sections == [layout   |-> NewBases,
                        diverged |-> t.diverged \/ was.diverged,
                        next     |-> IF t.diverged THEN t.next ELSE was.next,
                        history  |-> was.history + H]
           after == ManifestOf(mem.generation + 1, sections)
           n == Len(op.order)
           N == NewBases
           F == t.frozen
<1>1. pc = "compact manifest"
  BY DEF CommitCompaction
<1>2. PICK outcome \in Outcomes :
          /\ Wrote(outcome, [disk EXCEPT !.manifest = after])
          /\ \/ UNCHANGED mem /\ Abort(outcome)
             \/ /\ outcome = "done"
                /\ mem' = [mem EXCEPT !.generation = @ + 1, !.sections = sections,
                                      !.shared = t, !.rows = Len(op.order),
                                      !.deleteLogs = 0]
                /\ pc' = "compact reset"
                /\ UNCHANGED <<then, op, minted>>
  BY DEF CommitCompaction
<1>3. /\ Typed /\ ObjectsFit(disk) /\ IsDisk(disk) /\ IsMemory(mem) /\ IsOperation(op)
      /\ StateFits(mem) /\ Mirrors(disk, mem) /\ CompactionFits /\ then = "idle"
      /\ minted \in Nat
  BY <1>1 DEF StoreInv, Typed, Up, Flushing
<1>4. /\ op.order \in MergeOrders(s, Live(s)) /\ op.left = H + q
      /\ \A x \in DOMAIN disk.segments :
            x[1] = g + 1 => \E k \in Written : x = <<g + 1, SegmentRows * k>>
      /\ \A k \in Written :
            /\ <<g + 1, SegmentRows * k>> \in DOMAIN disk.segments
            /\ disk.segments[<<g + 1, SegmentRows * k>>] = NewSegment(SegmentRows * k)
      /\ RetainsHistory /\ op.left > 0 =>
            /\ disk.manifest.history \in DOMAIN disk.history
            /\ disk.history[disk.manifest.history] = KilledVersions(s)
  BY <1>1, <1>3 DEF CompactionFits
<1>5. q \in Nat /\ H \in {0, 1} /\ N = Multiples(SegmentRows, q)
  BY <1>3, <1>4, CompactionOperation
<1>6. /\ WellFormed(t, AnyRow) /\ Known(t) /\ RowCount(t) = n /\ Len(F) = n /\ n \in Nat
      /\ F \in Seq(Held) /\ t.diverged = Diverging(s, op.order)
      /\ (t.diverged => t.next = mark) /\ t.history = Retained(s) /\ mark \in Nat
      /\ \A v \in Retained(s) : v.killed < mark
  BY <1>3, <1>4, NextFits
<1>7. outcome \in {"done", "lost"}
  BY <1>2, OutcomesAre
<1>8. /\ mem.generation = g /\ g \in Nat /\ was.history = disk.manifest.history
      /\ was.diverged = disk.manifest.diverged /\ was.history \in Nat
      /\ was \in Sections
  <2>1. disk.manifest = ManifestOf(mem.generation, was)
    BY <1>3 DEF Mirrors
  <2>2. disk.manifest \in Manifest
    BY <1>3, DiskParts
  <2>3. was \in Sections
    BY <1>3, MemoryParts
  <2> QED BY <2>1, <2>2, <2>3, ManifestParts DEF Manifest, Sections
<1>9. CASE outcome = "lost"
  <2>1. disk' = disk /\ mem' = mem /\ Abort(outcome)
    BY <1>2, <1>9 DEF Wrote
  <2> QED BY <1>3, <2>1, AbortFits
<1>10. CASE outcome = "done"
  <2>1. /\ disk' = [disk EXCEPT !.manifest = after]
        /\ mem' = [mem EXCEPT !.generation = g + 1, !.sections = sections,
                              !.shared = t, !.rows = n, !.deleteLogs = 0]
        /\ pc' = "compact reset"
        /\ UNCHANGED <<then, op, minted>>
    BY <1>2, <1>8, <1>10 DEF Abort, Wrote
  <2>2. /\ t.diverged \in BOOLEAN /\ t.next \in Nat
    BY <1>6, FieldTypes DEF WellFormed
  <2>3. /\ sections \in Sections /\ sections.layout = N
        /\ sections.diverged = (t.diverged \/ was.diverged)
        /\ sections.next = IF t.diverged THEN t.next ELSE was.next
        /\ sections.history = was.history + H
    <3>1. N \in SUBSET Nat
      BY <1>6 DEF NewBases
    <3>2. was.history + H \in Nat
      <4> HIDE DEF H
      <4> QED BY <1>5, <1>8
    <3>3. (IF t.diverged THEN t.next ELSE was.next) \in Nat
      BY <1>8, <2>2 DEF Sections
    <3>4. (t.diverged \/ was.diverged) \in BOOLEAN
      OBVIOUS
    <3> HIDE DEF t, was, H, N
    <3> QED BY <3>1, <3>2, <3>3, <3>4 DEF Sections, N
  <2> HIDE DEF sections
  <2>4. /\ IsMemory(mem') /\ mem'.generation = g + 1 /\ mem'.sections = sections
        /\ mem'.shared = t /\ mem'.rows = n
    <3> DEFINE h == g + 1
    <3>1. h \in Nat /\ n \in Nat /\ sections \in Sections
      BY <1>6, <1>8, <2>3
    <3>2. mem' = WithGeneration(mem, h, sections, t, n)
      BY <2>1 DEF WithGeneration
    <3> HIDE DEF t, n, g, h
    <3>3. /\ IsMemory(mem') /\ mem'.generation = h /\ mem'.sections = sections
          /\ mem'.shared = t /\ mem'.rows = n
      BY <1>3, <3>1, <3>2, MemoryWithGeneration
    <3> QED BY <3>3 DEF h
  <2>5. after \in Manifest
    <3>1. mem.generation + 1 \in Nat
      BY <1>8
    <3> QED BY <2>3, <3>1, ManifestParts
  <2>6. /\ IsDisk(disk') /\ disk'.manifest = after /\ disk'.segments = disk.segments
        /\ disk'.deletes = disk.deletes /\ disk'.history = disk.history
    <3>1. disk' = [disk EXCEPT !.manifest = after]
      BY <2>1
    <3> HIDE DEF after
    <3> QED BY <1>3, <3>1, <2>5, DiskParts
  <2>7. Written = 0 .. q - 1
    <3>1. Written = 0 .. op.left - H - 1
      BY DEF Written
    <3> HIDE DEF H, q
    <3>2. op.left - H - 1 = q - 1
      BY <1>4, <1>5
    <3> QED BY <3>1, <3>2
  <2>8. \A x \in DOMAIN disk.segments : x[1] = g + 1 => x[2] \in N
    <3> SUFFICES ASSUME NEW x \in DOMAIN disk.segments, x[1] = g + 1 PROVE x[2] \in N
      OBVIOUS
    <3>1. PICK k \in 0 .. q - 1 : x = <<g + 1, SegmentRows * k>>
      BY <1>4, <2>7
    <3>2. x[2] = SegmentRows * k
      BY <3>1
    <3> HIDE DEF q, N
    <3> QED BY <1>5, <3>2 DEF Multiples
  <2>9. \A b \in N : /\ <<g + 1, b>> \in DOMAIN disk.segments
                     /\ disk.segments[<<g + 1, b>>] = NewSegment(b)
    <3> TAKE b \in N
    <3>1. PICK k \in 0 .. q - 1 : b = SegmentRows * k
      <4> HIDE DEF N, q
      <4> QED BY <1>5 DEF Multiples
    <3> QED BY <1>4, <2>7, <3>1
  <2>10. \A b \in N :
           /\ <<g + 1, b>> \in DOMAIN disk.segments
           /\ disk.segments[<<g + 1, b>>].rows = SubSeq(F, b + 1, Min({b + SegmentRows, Len(F)}))
           /\ ~disk.segments[<<g + 1, b>>].stamped =>
                 \A i \in 1 .. Len(disk.segments[<<g + 1, b>>].rows) :
                    disk.segments[<<g + 1, b>>].rows[i].born = b + i - 1
    <3> TAKE b \in N
    <3> DEFINE segment == NewSegment(b)
    <3>1. /\ segment.rows = SubSeq(F, b + 1, Min({b + SegmentRows, Len(F)}))
          /\ ~segment.stamped =>
                \A i \in 1 .. Len(segment.rows) : segment.rows[i].born = b + i - 1
      BY <1>3, <1>4, NewSegmentFits
    <3>2. <<g + 1, b>> \in DOMAIN disk.segments /\ disk.segments[<<g + 1, b>>] = segment
      BY <2>9
    <3> HIDE DEF segment, F, N
    <3> QED BY <3>1, <3>2
  <2>11. s.diverged => t.diverged
    BY <1>6 DEF Diverging
  <2>12. sections.diverged => t.diverged
    <3>1. was.diverged => s.diverged
      BY <1>3, <1>8 DEF Mirrors
    <3> QED BY <2>3, <2>11, <3>1
  <2>13. sections.history > 0 => t.diverged
    <3>1. CASE was.history > 0
      <4>1. disk.manifest.diverged
        BY <1>3, <1>8, <3>1 DEF ObjectsFit, Sound
      <4> QED BY <1>3, <2>11, <4>1 DEF Mirrors
    <3>2. CASE H = 1
      <4>1. Dead(s) # {}
        BY <3>2 DEF HistoryObjects, RetainsHistory
      <4> QED BY <1>6, <4>1 DEF Diverging
    <3>3. CASE was.history = 0 /\ H = 0
      <4> HIDE DEF H, was
      <4> QED BY <2>3, <3>3
    <3> HIDE DEF H, was
    <3> QED BY <1>5, <1>8, <3>1, <3>2, <3>3
  <2>14. sections.history > 0 => sections.diverged
    BY <2>3, <2>13
  <2>15. \A i \in 0 .. sections.history - 1 :
           /\ i \in DOMAIN disk.history /\ disk.history[i] \subseteq t.history
           /\ \A v \in disk.history[i] : v.killed < sections.next
    <3> TAKE i \in 0 .. sections.history - 1
    <3>1. i \in DOMAIN disk.history /\ disk.history[i] \subseteq Retained(s)
      <4>1. CASE i < was.history
        <5>1. i \in 0 .. disk.manifest.history - 1
          BY <1>8, <2>3, <4>1
        <5>2. i \in DOMAIN disk.history
          BY <1>3, <5>1 DEF ObjectsFit, Sound
        <5>3. disk.history[i] \subseteq s.history
          BY <1>3, <5>1 DEF Mirrors
        <5> QED BY <5>2, <5>3 DEF Retained, DeadVersions
      <4>2. CASE ~(i < was.history)
        <5>1. H = 1 /\ i = was.history
          <6>1. i < was.history + H
            <7> HIDE DEF H, was
            <7> QED BY <1>5, <1>8, <2>3
          <6> HIDE DEF H, was
          <6> QED BY <1>5, <1>8, <4>2, <6>1
        <5>2. RetainsHistory
          BY <5>1 DEF HistoryObjects
        <5>3. op.left > 0
          <6> HIDE DEF H, q
          <6> QED BY <1>4, <1>5, <5>1
        <5>4. i \in DOMAIN disk.history /\ disk.history[i] = KilledVersions(s)
          BY <1>4, <1>8, <5>1, <5>2, <5>3
        <5> QED BY <5>4 DEF Retained, DeadVersions
      <4> QED BY <4>1, <4>2
    <3>2. sections.history > 0
      <4> DEFINE h == sections.history
      <4>1. h \in Nat
        BY <2>3 DEF Sections
      <4>2. i \in 0 .. h - 1
        OBVIOUS
      <4> HIDE DEF h
      <4>3. h > 0
        BY <4>1, <4>2
      <4> QED BY <4>3 DEF h
    <3>3. sections.next = mark
      BY <1>6, <2>3, <2>13, <3>2
    <3> HIDE DEF t, mark, s
    <3> QED BY <1>6, <3>1, <3>3
  <2>16. ObjectsFit(disk') /\ Mirrors(disk', mem')
    <3> DEFINE h == g + 1
    <3>1. N = {b \in 0 .. Len(F) - 1 : b % SegmentRows = 0}
      BY <1>6 DEF NewBases
    <3>2. SegmentRows \in Nat \ {0}
      BY SegmentRowsAssumption
    <3>3. /\ mem'.generation = h /\ mem'.sections \in Sections
          /\ disk'.manifest = ManifestOf(mem'.generation, mem'.sections)
          /\ mem'.sections.layout = N /\ mem'.shared.frozen = F
          /\ (mem'.sections.diverged => mem'.shared.diverged)
          /\ (mem'.sections.history > 0 => mem'.sections.diverged)
          /\ \A i \in 0 .. mem'.sections.history - 1 :
                /\ i \in DOMAIN disk.history /\ disk.history[i] \subseteq mem'.shared.history
                /\ \A v \in disk.history[i] : v.killed < mem'.sections.next
      BY <1>8, <2>3, <2>4, <2>6, <2>12, <2>14, <2>15
    <3> DEFINE e == disk'
               k == mem'
    <3>4. h = disk.manifest.generation + 1
      OBVIOUS
    <3>5. \A b \in N :
             /\ <<h, b>> \in DOMAIN disk.segments
             /\ disk.segments[<<h, b>>].rows = SubSeq(F, b + 1, Min({b + SegmentRows, Len(F)}))
             /\ ~disk.segments[<<h, b>>].stamped =>
                   \A i \in 1 .. Len(disk.segments[<<h, b>>].rows) :
                      disk.segments[<<h, b>>].rows[i].born = b + i - 1
      BY <2>10
    <3>6. \A x \in DOMAIN disk.segments : x[1] = h => x[2] \in N
      BY <2>8
    <3>8. e.deletes = disk.deletes /\ e.history = disk.history /\ e.segments = disk.segments
      BY <2>6
    <3>9. /\ k.generation = h /\ k.sections \in Sections
          /\ e.manifest = ManifestOf(k.generation, k.sections)
          /\ k.sections.layout = N /\ k.shared.frozen = F
          /\ (k.sections.diverged => k.shared.diverged)
          /\ (k.sections.history > 0 => k.sections.diverged)
          /\ \A i \in 0 .. k.sections.history - 1 :
                /\ i \in DOMAIN disk.history /\ disk.history[i] \subseteq k.shared.history
                /\ \A v \in disk.history[i] : v.killed < k.sections.next
      BY <3>3
    <3>10. F \in Seq(Held) /\ ObjectsFit(disk) /\ IsDisk(disk)
      BY <1>3, <1>6
    <3> HIDE DEF F, N, h, e, k
    <3>11. WrittenWhole(disk, h, N, SegmentRows, F)
      BY <3>1, <3>5, <3>6 DEF WrittenWhole
    <3>12. NamesGeneration(disk, k, h, N, F)
      BY <3>9 DEF NamesGeneration
    <3>13. e.manifest = ManifestOf(k.generation, k.sections)
      BY <3>9
    <3>7. ObjectsFit(e) /\ Mirrors(e, k)
      BY <3>2, <3>4, <3>8, <3>10, <3>11, <3>12, <3>13, NextGenerationFits
    <3> QED BY <3>7 DEF e, k
  <2>17. StateFits(mem')
    BY <1>6, <2>4 DEF StateFits
  <2>18. then' = "idle" /\ op' = op /\ minted' = minted
    BY <1>3, <2>1
  <2>19. VictimsFit' /\ FlushFits' /\ CompactionFits'
    BY <2>1, <2>18, NothingUnderWay
  <2>20. Typed'
    BY <1>3, <2>1, <2>4, <2>6, <2>18 DEF Typed, Phases
  <2> QED BY <2>1, <2>16, <2>17, <2>19, <2>20 DEF StoreInv, LayoutNamed
<1> QED BY <1>7, <1>9, <1>10

LEMMA CleanupKeeps ==
    ASSUME StoreInv, Cleanup
    PROVE  StoreInv'
<1> DEFINE g == disk.manifest.generation
<1>1. pc = "cleanup"
  BY DEF Cleanup
<1>2. /\ Typed /\ ObjectsFit(disk) /\ IsDisk(disk) /\ IsMemory(mem)
      /\ StateFits(mem) /\ Mirrors(disk, mem) /\ then = "idle" /\ minted \in Nat
  BY <1>1 DEF StoreInv, Typed, Up, Flushing
<1>3. /\ pc' = "idle" /\ op' = NoOp /\ UNCHANGED <<mem, then, minted>>
  BY DEF Cleanup, ghosts
<1>4. PICK stale \in SUBSET {n \in DOMAIN disk.segments : n[1] # mem.generation},
           logs  \in SUBSET {n \in DOMAIN disk.deletes : n[1] # mem.generation} :
         disk' = [disk EXCEPT !.segments = Without(@, stale), !.deletes = Without(@, logs)]
  BY DEF Cleanup
<1>5. mem.generation = g
  BY <1>2, ManifestParts DEF Mirrors
<1> DEFINE segments == Without(disk.segments, stale)
           deletes == Without(disk.deletes, logs)
           d1 == [disk EXCEPT !.segments = segments]
           d2 == [d1 EXCEPT !.deletes = deletes]
<1>6. disk' = d2
  <2> HIDE DEF segments, deletes
  <2> QED BY <1>4 DEF segments, deletes
<1>7. /\ IsDisk(disk') /\ disk'.manifest = disk.manifest
      /\ disk'.segments = segments /\ disk'.deletes = deletes /\ disk'.history = disk.history
  <2> HIDE DEF segments, deletes
  <2>1. /\ IsDisk(d1) /\ d1.manifest = disk.manifest /\ d1.segments = segments
        /\ d1.history = disk.history
    BY <1>2, DiskParts
  <2> HIDE DEF d1
  <2>2. /\ IsDisk(d2) /\ d2.manifest = disk.manifest /\ d2.segments = segments
        /\ d2.deletes = deletes /\ d2.history = disk.history
    BY <2>1, DiskParts
  <2> QED BY <1>6, <2>2
<1>8. SameGeneration(disk, disk')
  <2> DEFINE e == disk'
  <2>1. /\ e.manifest = disk.manifest /\ e.history = disk.history
        /\ \A n \in DOMAIN e.segments : n \in DOMAIN disk.segments /\ e.segments[n] = disk.segments[n]
        /\ \A n \in DOMAIN e.deletes : n \in DOMAIN disk.deletes /\ e.deletes[n] = disk.deletes[n]
    BY <1>7 DEF Without
  <2>2. /\ ObjectsTyped(disk, AnyRow)
        /\ DOMAIN disk.segments \subseteq (0 .. g + 1) \X Nat
    BY <1>2 DEF ObjectsFit, Sound
  <2>3. ObjectsTyped(e, AnyRow)
    BY <2>1, <2>2 DEF ObjectsTyped
  <2>4. \A n : n[1] = g => (n \in DOMAIN e.segments <=> n \in DOMAIN disk.segments)
    BY <1>5, <1>7 DEF Without
  <2>5. \A n \in DOMAIN disk.deletes : n[1] = g => n \in DOMAIN e.deletes
    BY <1>5, <1>7 DEF Without
  <2> HIDE DEF e
  <2> QED BY <2>1, <2>2, <2>3, <2>4, <2>5 DEF SameGeneration, e
<1>9. ObjectsFit(disk') /\ Mirrors(disk', mem') /\ StateFits(mem')
  BY <1>2, <1>3, <1>8, SameGenerationFits
<1>10. VictimsFit' /\ FlushFits' /\ CompactionFits'
  BY <1>2, <1>3, NothingUnderWay
<1>11. Typed'
  BY <1>2, <1>3, <1>7, NewOperations DEF Typed, Phases
<1> QED BY <1>3, <1>9, <1>10, <1>11 DEF StoreInv, LayoutNamed

----------------------------------------------------------------------------
\* Every step.

LEMMA StutterKeeps ==
    ASSUME StoreInv, UNCHANGED vars
    PROVE  StoreInv'
<1>1. UNCHANGED <<disk, mem, pc, then, op, minted>>
  BY DEF vars
<1>2. Typed' /\ ObjectsFit(disk') /\ LayoutNamed' /\ (Up' = Up)
  BY <1>1 DEF StoreInv, Typed, Flushing, LayoutNamed, Up
<1>3. ASSUME Up
      PROVE  StateFits(mem') /\ Mirrors(disk', mem')
  BY <1>1, <1>3 DEF StoreInv
<1>4. ASSUME Up PROVE VictimsFit'
  BY <1>1, <1>4 DEF StoreInv, VictimsFit, InForce, InSegments
<1>5. ASSUME Up PROVE FlushFits'
  BY <1>1, <1>5 DEF StoreInv, FlushFits, BufferSegment
<1>6. ASSUME Up PROVE CompactionFits'
  <2>1. Written' = Written /\ NewBases' = NewBases /\ HistoryObjects' = HistoryObjects
        /\ RetainsHistory' = RetainsHistory
    BY <1>1 DEF Written, NewBases, HistoryObjects, RetainsHistory
  <2>2. \A b : (NewSegment(b))' = NewSegment(b)
    BY <1>1 DEF NewSegment, NextShared
  <2> QED BY <1>1, <1>6, <2>1, <2>2 DEF StoreInv, CompactionFits
<1> QED BY <1>2, <1>3, <1>4, <1>5, <1>6 DEF StoreInv

LEMMA StoreInductive ==
    ASSUME StoreInv, NoLateFaults, [Next]_vars
    PROVE  StoreInv'
<1>1. CASE Close
  BY <1>1, CloseKeeps
<1>2. CASE Crash
  BY <1>2, CrashKeeps
<1>3. CASE OpenLoad
  BY <1>3, OpenLoadKeeps
<1>4. CASE OpenReplay
  BY <1>4, OpenReplayKeeps
<1>5. CASE AppendRowOp
  BY <1>5, AppendRowKeepsStore
<1>6. CASE StartFlush
  BY <1>6, StartFlushKeeps
<1>7. CASE FlushSegment
  BY <1>7, FlushSegmentKeeps
<1>8. CASE FlushManifest
  BY <1>8, FlushManifestKeeps
<1>9. CASE FlushReset
  BY <1>9, FlushResetKeeps
<1>10. CASE Tombstone
  BY <1>10, TombstoneKeeps
<1>11. CASE WriteDeleteLog
  BY <1>11, WriteDeleteLogKeeps
<1>12. CASE Supersede
  BY <1>12, SupersedeKeeps
<1>13. CASE OpenBracket
  BY <1>13, OpenBracketKeeps
<1>14. CASE AppendReplacement
  BY <1>14, AppendReplacementKeeps
<1>15. CASE SyncReplacements
  BY <1>15, SyncReplacementsKeeps
<1>16. CASE CommitSupersession
  BY <1>16, CommitSupersessionKeeps
<1>17. CASE StartCompact
  BY <1>17, StartCompactKeeps
<1>18. CASE WriteNextGeneration
  BY <1>18, WriteNextGenerationKeeps
<1>19. CASE CommitCompaction
  BY <1>19, CommitCompactionKeeps
<1>20. CASE CompactReset
  BY <1>20, CompactResetKeeps
<1>21. CASE Cleanup
  BY <1>21, CleanupKeeps
<1>22. CASE UNCHANGED vars
  BY <1>22, StutterKeeps
<1> QED BY <1>1, <1>2, <1>3, <1>4, <1>5, <1>6, <1>7, <1>8, <1>9, <1>10, <1>11, <1>12,
           <1>13, <1>14, <1>15, <1>16, <1>17, <1>18, <1>19, <1>20, <1>21, <1>22, Zenon
        DEF Next

(* What the backend holds between any two writes fits together, and memory *)
(* agrees with it, in every state the store reaches.                       *)
THEOREM StoreStaysFit ==
    ASSUME NoLateFaults
    PROVE  Spec => []StoreInv
<1>1. Init => StoreInv
  BY InitFits
<1>2. StoreInv /\ [Next]_vars => StoreInv'
  BY StoreInductive
<1> QED BY <1>1, <1>2, PTL DEF Spec

\* A crash keeps the objects, and sound ones open.
LEMMA FitReopens ==
    ASSUME StoreInv
    PROVE  AlwaysReopens
<1>1. pc # "refused" /\ Sound(disk, AnyRow)
  BY DEF StoreInv, Typed, ObjectsFit
<1>2. ASSUME NEW d \in AfterCrash
      PROVE  ~OpenRefused(d)
  <2>1. PICK kept \in disk.wal.synced .. Len(disk.wal.entries) :
           d = [disk EXCEPT !.wal.entries = SubSeq(@, 1, kept), !.wal.synced = kept]
    BY DEF AfterCrash
  <2>2. /\ d.manifest = disk.manifest /\ d.segments = disk.segments
        /\ d.deletes = disk.deletes /\ d.history = disk.history
    <3>1. IsDisk(disk)
      BY DEF StoreInv, Typed
    <3> QED BY <2>1, <3>1 DEF IsDisk
  <2>3. ~OpenRefused(disk)
    BY <1>1, SoundOpens
  <2> QED BY <2>2, <2>3, SameObjects
<1> QED BY <1>1, <1>2 DEF AlwaysReopens

(* A crash between any two writes of an operation, an open or a compaction *)
(* leaves objects the next open accepts: no named segment is missing, none *)
(* leaves a gap, no tombstone names a row that was never made durable.     *)
THEOREM StoreAlwaysReopens ==
    ASSUME NoLateFaults
    PROVE  Spec => []AlwaysReopens
<1>1. StoreInv => AlwaysReopens
  BY FitReopens
<1> QED BY <1>1, StoreStaysFit, PTL

----------------------------------------------------------------------------
\* The reader.

IsSeen(d) ==
    d \in [manifest : {d.manifest}, segments : {d.segments}, deletes : {d.deletes},
          history : {d.history}, wal : {d.wal}]

IsReader(r) == r \in [at : {r.at}, left : {r.left}, seen : {r.seen}, view : {r.view}]

\* The reader's variable, and the store beside it.
ReaderInv == StoreInv /\ IsReader(reader) /\ IsSeen(reader.seen)

LEMMA SeenParts ==
    ASSUME NEW d, IsSeen(d)
    PROVE  /\ \A m : IsSeen([d EXCEPT !.manifest = m])
           /\ \A s, l, h : IsSeen([d EXCEPT !.segments = s, !.deletes = l, !.history = h])
           /\ \A m, s, l :
                LET e == [d EXCEPT !.manifest = m, !.segments = s, !.deletes = l]
                IN  e.manifest = m /\ e.segments = s /\ e.deletes = l
BY DEF IsSeen

ReaderWith(r, a, l, d) == [r EXCEPT !.at = a, !.left = l, !.seen = d]

LEMMA ReaderParts ==
    ASSUME NEW r, IsReader(r), NEW a, NEW l, NEW d
    PROVE  IsReader(ReaderWith(r, a, l, d)) /\ ReaderWith(r, a, l, d).seen = d
BY DEF IsReader, ReaderWith

LEMMA ReaderStarts == ReaderInit => ReaderInv
<1> SUFFICES ASSUME ReaderInit PROVE ReaderInv
  OBVIOUS
<1>1. StoreInv
  BY InitFits DEF ReaderInit
<1>2. IsSeen(NewDisk)
  BY DEF IsSeen, NewDisk
<1>3. reader = [at |-> "idle", left |-> 0, seen |-> NewDisk, view |-> NoView]
  BY DEF ReaderInit
<1>4. IsReader(reader) /\ reader.seen = NewDisk
  BY <1>3 DEF IsReader
<1> QED BY <1>1, <1>2, <1>4 DEF ReaderInv

LEMMA ReaderKeeps ==
    ASSUME ReaderInv, NoLateFaults, [ReaderNext]_readerVars
    PROVE  ReaderInv'
<1>1. StoreInv /\ IsReader(reader) /\ IsSeen(reader.seen)
  BY DEF ReaderInv
<1>2. IsSeen(NewDisk)
  BY DEF IsSeen, NewDisk
<1>3. CASE Write
  <2>1. StoreInv' /\ reader' = reader
    BY <1>1, <1>3, StoreInductive DEF Write
  <2> QED BY <1>1, <2>1 DEF ReaderInv
<1>4. CASE UNCHANGED readerVars
  <2>1. reader' = reader /\ UNCHANGED vars
    BY <1>4 DEF readerVars
  <2>2. StoreInv'
    BY <1>1, <2>1, StutterKeeps
  <2> QED BY <1>1, <2>1, <2>2 DEF ReaderInv
<1>5. ASSUME UNCHANGED vars, IsReader(reader'), IsSeen(reader'.seen)
      PROVE  ReaderInv'
  BY <1>1, <1>5, StutterKeeps DEF ReaderInv
<1>6. CASE BeginLoad
  <2>1. reader' = [reader EXCEPT !.at = "manifest", !.left = Attempts] /\ UNCHANGED vars
    BY <1>6 DEF BeginLoad
  <2>2. IsReader(reader') /\ reader'.seen = reader.seen
    BY <1>1, <2>1 DEF IsReader
  <2> QED BY <1>1, <1>5, <2>1, <2>2
<1>7. CASE ReadManifest
  <2> DEFINE seen == [reader.seen EXCEPT !.manifest = disk.manifest]
  <2>1. reader' = [reader EXCEPT !.at = "list", !.seen = seen] /\ UNCHANGED vars
    BY <1>7 DEF ReadManifest
  <2>2. IsSeen(seen)
    BY <1>1, SeenParts
  <2> HIDE DEF seen
  <2>3. reader' = ReaderWith(reader, "list", reader.left, seen)
    BY <1>1, <2>1 DEF IsReader, ReaderWith
  <2>4. IsReader(reader') /\ reader'.seen = seen
    BY <1>1, <2>3, ReaderParts
  <2> QED BY <1>5, <2>1, <2>2, <2>4
<1>8. CASE ListObjects
  <2> DEFINE manifest == reader.seen.manifest
             s == ListedSegments(disk.segments, manifest)
             l == Listed(disk.deletes, manifest)
             h == [i \in 0 .. manifest.history - 1 |-> disk.history[i]]
             seen == [reader.seen EXCEPT !.segments = s, !.deletes = l, !.history = h]
  <2>1. reader' = [reader EXCEPT !.at = "logs", !.seen.segments = s, !.seen.deletes = l,
                                 !.seen.history = h]
        /\ UNCHANGED vars
    BY <1>8 DEF ListObjects
  <2> HIDE DEF s, l, h
  <2>2. IsSeen(seen)
    BY <1>1, SeenParts
  <2>3. reader' = ReaderWith(reader, "logs", reader.left, seen)
    BY <1>1, <2>1 DEF IsReader, IsSeen, ReaderWith
  <2> HIDE DEF seen
  <2>4. IsReader(reader') /\ reader'.seen = seen
    BY <1>1, <2>3, ReaderParts
  <2> QED BY <1>5, <2>1, <2>2, <2>4
<1>9. CASE FinishLoad
  <2>1. UNCHANGED vars
    BY <1>9 DEF FinishLoad
  <2> DEFINE view == ViewOf(Settled(reader.seen))
  <2>2. \/ reader' = Retried
        \/ reader' = Failed
        \/ reader' = [at |-> "idle", left |-> 0, seen |-> NewDisk, view |-> view]
    BY <1>9 DEF FinishLoad
  <2> HIDE DEF view
  <2>3. CASE reader' = Failed
    <3>1. reader' = ReaderWith(reader, "idle", 0, NewDisk)
      BY <2>3 DEF Failed, ReaderWith
    <3>2. IsReader(reader') /\ reader'.seen = NewDisk
      BY <1>1, <3>1, ReaderParts
    <3> QED BY <1>2, <1>5, <2>1, <3>2
  <2>4. CASE reader' = Retried
    <3>1. CASE reader.left > 1
      <4>1. reader' = [reader EXCEPT !.at = "manifest", !.left = reader.left - 1,
                                     !.seen = NewDisk]
        BY <2>4, <3>1 DEF Retried
      <4>2. reader' = ReaderWith(reader, "manifest", reader.left - 1, NewDisk)
        BY <4>1 DEF ReaderWith
      <4>3. IsReader(reader') /\ reader'.seen = NewDisk
        BY <1>1, <4>2, ReaderParts
      <4> QED BY <1>2, <1>5, <2>1, <4>3
    <3>2. CASE ~(reader.left > 1)
      <4>1. reader' = Failed
        BY <2>4, <3>2 DEF Retried
      <4> QED BY <2>3, <4>1
    <3> QED BY <3>1, <3>2
  <2>5. CASE reader' = [at |-> "idle", left |-> 0, seen |-> NewDisk, view |-> view]
    <3>1. IsReader(reader') /\ reader'.seen = NewDisk
      BY <2>5 DEF IsReader
    <3> QED BY <1>2, <1>5, <2>1, <3>1
  <2> QED BY <2>2, <2>3, <2>4, <2>5
<1> QED BY <1>3, <1>4, <1>6, <1>7, <1>8, <1>9 DEF ReaderNext

(* The writer's invariant holds beside a reader process too, which only    *)
(* reads what is there.                                                    *)
THEOREM ReaderStaysFit ==
    ASSUME NoLateFaults
    PROVE  ReaderSpec => []ReaderInv
<1>1. ReaderInv /\ [ReaderNext]_readerVars => ReaderInv'
  BY ReaderKeeps
<1> QED BY <1>1, ReaderStarts, PTL DEF ReaderSpec

(* A listing of sound objects shows a layout that is there, and no kill    *)
(* ahead of its rows.                                                      *)
LEMMA FitLoads ==
    ASSUME ReaderInv
    PROVE  LoadsWhenQuiet
<1> DEFINE c == AtOnce
           g == disk.manifest.generation
           F == FrozenRows(disk)
           L == Layout(disk)
<1>1. /\ c.manifest = disk.manifest
      /\ c.segments = ListedSegments(disk.segments, disk.manifest)
      /\ c.deletes = Listed(disk.deletes, disk.manifest)
  <2> DEFINE d == reader.seen
             m == disk.manifest
             s == ListedSegments(disk.segments, m)
             l == Listed(disk.deletes, m)
  <2>1. IsSeen(d)
    BY DEF ReaderInv
  <2>2. c = [d EXCEPT !.manifest = m, !.segments = s, !.deletes = l]
    BY DEF AtOnce
  <2> HIDE DEF c, d, m, s, l
  <2>3. c.manifest = m /\ c.segments = s /\ c.deletes = l
    BY <2>1, <2>2 DEF IsSeen
  <2> QED BY <2>3 DEF m, s, l
<1>2. Sound(disk, AnyRow)
  BY DEF ReaderInv, StoreInv, ObjectsFit
<1> HIDE DEF c
<1>3. F \in Seq(Held) /\ Lays(disk.segments, g, L, F)
  BY <1>2, Zenon DEF Sound, Held
<1>4. \A n : n \in DOMAIN c.segments <=>
               /\ n \in DOMAIN disk.segments /\ n[1] = g
               /\ disk.manifest.layout # {} => n[2] \in disk.manifest.layout
  BY <1>1 DEF ListedSegments, Listed, Without
<1>5. \A n \in DOMAIN c.segments : c.segments[n] = disk.segments[n]
  BY <1>1 DEF ListedSegments, Listed, Without
<1>6. Layout(c) = L
  <2>1. CASE disk.manifest.layout # {}
    BY <1>1, <2>1 DEF Layout
  <2>2. CASE disk.manifest.layout = {}
    <3> DEFINE A == {n \in DOMAIN disk.segments : n[1] = g}
               B == {n \in DOMAIN c.segments : n[1] = g}
    <3>1. A = B
      BY <1>4, <2>2
    <3>2. Layout(disk) = {n[2] : n \in A} /\ Layout(c) = {n[2] : n \in B}
      BY <1>1, <2>2 DEF Layout
    <3> HIDE DEF A, B
    <3> QED BY <3>1, <3>2
  <2> QED BY <2>1, <2>2
<1>7. ASSUME NEW b \in L
      PROVE  <<g, b>> \in DOMAIN c.segments /\ c.segments[<<g, b>>] = disk.segments[<<g, b>>]
  <2> DEFINE n == <<g, b>>
  <2>1. n \in DOMAIN disk.segments
    BY <1>3 DEF Lays
  <2>2. n[1] = g /\ n[2] = b
    OBVIOUS
  <2>3. disk.manifest.layout # {} => b \in disk.manifest.layout
    BY DEF Layout
  <2> HIDE DEF n
  <2>4. n \in DOMAIN c.segments /\ c.segments[n] = disk.segments[n]
    BY <1>4, <1>5, <2>1, <2>2, <2>3
  <2> QED BY <2>4 DEF n
<1>8. Lays(c.segments, g, L, F)
  <2> HIDE DEF F, L, g
  <2> QED BY <1>3, <1>7, LaysStill
<1>9. Extent(c) = Len(F) /\ LayoutPresent(c) /\ Contiguous(c)
  <2> DEFINE X == Held
  <2>1. F \in Seq(X) /\ Lays(c.segments, c.manifest.generation, Layout(c), F)
    BY <1>1, <1>3, <1>6, <1>8
  <2> HIDE DEF F, X
  <2> QED BY <2>1, LaidOut
<1>10. ~AheadOfRows(c)
  <2> DEFINE e == Settled(c)
  <2> SUFFICES ASSUME NEW id \in DOMAIN Tombstones(e) PROVE ~(id >= Extent(c))
    BY DEF AheadOfRows
  <2>1. /\ \A n \in DOMAIN e.deletes : n \in DOMAIN c.deletes /\ e.deletes[n] = c.deletes[n]
    <3>1. e = [c EXCEPT !.deletes = [n \in {m \in DOMAIN c.deletes : Visible(c, c.deletes[m])}
                                       |-> c.deletes[n]]]
      BY DEF Settled
    <3>2. c \in [manifest : {c.manifest}, segments : {c.segments}, deletes : {c.deletes},
                 history : {c.history}, wal : {c.wal}]
      BY DEF ReaderInv, IsSeen, AtOnce, c
    <3> QED BY <3>1, <3>2
  <2>2. \A n \in DOMAIN c.deletes : /\ n \in DOMAIN disk.deletes /\ n[1] = g
                                    /\ c.deletes[n] = disk.deletes[n]
    BY <1>1 DEF Listed, Without
  <2>3. PICK n \in DeleteLogs(e) : id \in e.deletes[n].ids
    BY DEF Tombstones
  <2>4. n \in DOMAIN e.deletes
    BY <2>3 DEF DeleteLogs
  <2>5. n \in DeleteLogs(disk) /\ e.deletes[n] = disk.deletes[n]
    BY <2>1, <2>2, <2>4 DEF DeleteLogs
  <2>6. id \in 0 .. Len(F) - 1
    BY <1>2, <2>3, <2>5 DEF Sound
  <2>7. Len(F) \in Nat
    BY <1>3
  <2> HIDE DEF F
  <2> QED BY <1>9, <2>6, <2>7
<1> QED BY <1>9, <1>10 DEF LoadsWhenQuiet, c

(* Wherever the writer stops or crashes, a load it does not disturb finds  *)
(* every object of the layout and no kill ahead of its row.                *)
THEOREM ReaderLoadsWhenQuiet ==
    ASSUME NoLateFaults
    PROVE  ReaderSpec => []LoadsWhenQuiet
<1>1. ReaderInv => LoadsWhenQuiet
  BY FitLoads
<1> QED BY <1>1, ReaderStaysFit, PTL

----------------------------------------------------------------------------
\* What the readers of the writer's process see.

\* Every write is done.
NoFaults == FaultKinds = {}

LEMMA AllDone ==
    ASSUME NoFaults
    PROVE  Outcomes = {"done"} /\ LogOutcomes = {"done"} /\ NoLateFaults
BY DEF NoFaults, Outcomes, LogOutcomes, Failures, NoLateFaults

Serving == pc \notin {"down", "replay", "refused"}

(* What the guards of SharedStore ask of the operation under way: a        *)
(* bracket that is opened fits the bounds and names a victim, a flush      *)
(* inside one comes after its replacements and only where no log is kept.  *)
ServeInv ==
    Serving =>
        /\ op.due => Flushing /\ then = "idle"
        /\ pc \in {"sync", "commit log"} \/ then = "commit log" => op.left = 0
        /\ pc = "bracket" \/ then = "bracket" =>
              /\ op.ids # {} \/ Dead(mem.shared) # {}
              /\ op.left \in 1 .. MaxReplacements
              /\ minted + op.left <= MaxRows
        /\ mem.log = "none" \/ then = "commit log" => "Off" \in WalLevels

\* The operation an action starts, or goes on with.
LEMMA OperationFields ==
    ASSUME NEW o, IsOperation(o)
    PROVE  /\ \A q : LET p == [o EXCEPT !.sequence = q]
                     IN  /\ p.sequence = q /\ p.due = o.due
                         /\ p.ids = o.ids /\ p.left = o.left
           /\ \A n : LET p == [o EXCEPT !.left = n]
                     IN  /\ p.left = n /\ p.due = o.due
                         /\ p.ids = o.ids /\ p.sequence = o.sequence
           /\ \A b : LET p == [o EXCEPT !.due = b]
                     IN  /\ p.due = b /\ p.left = o.left
                         /\ p.ids = o.ids /\ p.sequence = o.sequence
BY DEF IsOperation

LEMMA MemoryLevels ==
    ASSUME NEW m, IsMemory(m), NEW s, NEW n
    PROVE  /\ WithRow(m, s, n).log = m.log /\ WithKills(m, s, n).log = m.log
           /\ WithLog(m, n).log = n /\ WithSections(m, s, n).log = m.log
<1> DEFINE C == Sections
<1>1. m \in [shared : {m.shared}, rows : Nat, generation : Nat, deleteLogs : Nat,
             sections : C, log : {"none", "open", "detached"}, walSync : WalLevels]
  BY DEF IsMemory
<1> HIDE DEF C
<1> QED BY <1>1 DEF WithRow, WithKills, WithLog, WithSections

(* SharedStore's operators on a state are those the store applies. *)
LEMMA SameOperators ==
    ASSUME NEW s, NEW rows, NEW row, NEW ids, NEW stamp, NEW order
    PROVE  /\ Readers!Ids(s) = Ids(s) /\ Readers!Live(s) = Live(s)
           /\ Readers!Newly(s, ids) = Newly(s, ids)
           /\ Readers!Watermark(s, rows) = Watermark(s, rows)
           /\ Readers!AppendRow(s, row) = AppendRow(s, row)
           /\ Readers!AppendSuperseding(s, row, stamp, rows)
                = AppendSuperseding(s, row, stamp, rows)
           /\ Readers!ConsumeSequence(s, rows) = ConsumeSequence(s, rows)
           /\ Readers!Entomb(s, ids, stamp) = Entomb(s, ids, stamp)
           /\ Readers!FlushShared(s, rows) = FlushShared(s, rows)
           /\ Readers!MergeOrders(s, ids) = MergeOrders(s, ids)
           /\ Readers!Compacted(s, rows, order) = Compacted(s, rows, order)
<1>1. /\ Readers!Ids(s) = Ids(s) /\ Readers!Live(s) = Live(s)
      /\ Readers!Newly(s, ids) = Newly(s, ids)
      /\ Readers!Watermark(s, rows) = Watermark(s, rows)
  BY DEF Readers!Ids, Ids, Readers!Live, Live, Readers!Newly, Newly, Readers!Dead, Dead,
         Readers!RowCount, RowCount, Readers!Watermark, Watermark
<1>2. Readers!AppendRow(s, row) = AppendRow(s, row)
  BY DEF Readers!AppendRow, AppendRow
<1>3. Readers!AppendSuperseding(s, row, stamp, rows) = AppendSuperseding(s, row, stamp, rows)
  BY DEF Readers!AppendSuperseding, AppendSuperseding, Readers!Diverged, Diverged,
         Readers!Materialized, Materialized
<1>4. Readers!ConsumeSequence(s, rows) = ConsumeSequence(s, rows)
  BY DEF Readers!ConsumeSequence, ConsumeSequence, Readers!Diverged, Diverged,
         Readers!Materialized, Materialized
<1>5. Readers!Entomb(s, ids, stamp) = Entomb(s, ids, stamp)
  BY DEF Readers!Entomb, Entomb, Readers!Dead, Dead
<1>6. Readers!FlushShared(s, rows) = FlushShared(s, rows)
  BY DEF Readers!FlushShared, FlushShared, Readers!BufferBirth, BufferBirth
<1>7. Readers!MergeOrders(s, ids) = MergeOrders(s, ids)
  <2>1. Readers!Cardinality(ids) = Cardinality(ids)
    BY DEF Readers!Cardinality, Cardinality
  <2>2. \A a, b : Readers!Precedes(s, a, b) <=> Precedes(s, a, b)
    BY DEF Readers!Precedes, Precedes, Readers!RowAt, RowAt
  <2> QED BY <2>1, <2>2 DEF Readers!MergeOrders, MergeOrders
<1>8. Readers!Compacted(s, rows, order) = Compacted(s, rows, order)
  BY DEF Readers!Compacted, Compacted, Readers!Diverging, Diverging, Readers!Dead, Dead,
         Readers!Watermark, Watermark, Readers!RowAt, RowAt, Readers!Born, Born,
         Readers!BufferBirth, BufferBirth, Readers!Retained, Retained,
         Readers!DeadVersions, DeadVersions, Readers!KilledVersions, KilledVersions
<1> QED BY <1>1, <1>2, <1>3, <1>4, <1>5, <1>6, <1>7, <1>8, Zenon

DueNow == op.due /\ pc \in {"flush", "manifest"}

(* Nothing a reader sees has changed. *)
LEMMA ReadersStutter ==
    ASSUME IsOperation(op), IsOperation(op'),
           mem'.shared = mem.shared, mem'.rows = mem.rows, minted' = minted,
           InBracket' <=> InBracket,
           InBracket => /\ op'.sequence = op.sequence /\ op'.ids = op.ids
                        /\ op'.left = op.left,
           DueNow' <=> DueNow
    PROVE  UNCHANGED Readers!vars
<1>1. op.due \in BOOLEAN /\ op'.due \in BOOLEAN
  BY OperationParts
<1>2. InBracket \in BOOLEAN /\ InBracket' \in BOOLEAN
  BY DEF InBracket
<1>3. InBracket' = InBracket
  BY <1>2
<1>4. (op.due /\ pc \in {"flush", "manifest"})' = (op.due /\ pc \in {"flush", "manifest"})
  BY <1>1 DEF DueNow
<1>5. [open |-> InBracket, sequence |-> IF InBracket THEN op.sequence ELSE 0,
       victims |-> IF InBracket THEN op.ids ELSE {},
       left |-> IF InBracket THEN op.left ELSE 0]'
      = [open |-> InBracket, sequence |-> IF InBracket THEN op.sequence ELSE 0,
       victims |-> IF InBracket THEN op.ids ELSE {},
       left |-> IF InBracket THEN op.left ELSE 0]
  BY <1>3
<1> QED BY <1>4, <1>5 DEF Readers!vars

\* Where no supersession is open and no flush due.
LEMMA ReadersIdle ==
    ASSUME ~InBracket, ~DueNow
    PROVE  Readers!Idle
BY DEF Readers!Idle, DueNow

(* The steps of an append, of a kill, and of a compaction. *)
\* The supersession the readers' view of the writer is in.
Ongoing == [open     |-> InBracket,
            sequence |-> IF InBracket THEN op.sequence ELSE 0,
            victims  |-> IF InBracket THEN op.ids ELSE {},
            left     |-> IF InBracket THEN op.left ELSE 0]

LEMMA NoneOngoing ==
    /\ ~InBracket => Ongoing = Readers!NoMutation
    /\ ~InBracket' => Ongoing' = Readers!NoMutation
BY DEF Ongoing, Readers!NoMutation, InBracket

LEMMA ReadersAppend ==
    ASSUME ~InBracket, ~DueNow, ~InBracket', minted < MaxRows, NEW key \in Keys,
           mem'.shared = AppendRow(mem.shared, [key |-> key, tag |-> minted + 1]),
           mem'.rows = mem.rows + 1, minted' = minted + 1,
           IsOperation(op'), DueNow' <=> Len(mem'.shared.buffer) >= SegmentRows
    PROVE  Readers!AppendOne
<1>1. op'.due \in BOOLEAN
  BY OperationParts
<1>2. (op.due /\ pc \in {"flush", "manifest"})' = (Len(mem'.shared.buffer) >= SegmentRows)
  BY <1>1 DEF DueNow
<1>3. Readers!Idle
  BY ReadersIdle
<1>4. mem'.shared = Readers!AppendRow(mem.shared, Readers!Fresh(key))
  BY SameOperators DEF Readers!Fresh
<1>5. Ongoing' = Ongoing
  BY NoneOngoing
<1>6. UNCHANGED [open |-> InBracket, sequence |-> IF InBracket THEN op.sequence ELSE 0,
                 victims |-> IF InBracket THEN op.ids ELSE {},
                 left |-> IF InBracket THEN op.left ELSE 0]
  BY <1>5 DEF Ongoing
<1>7. \E k \in Keys : mem'.shared = Readers!AppendRow(mem.shared, Readers!Fresh(k))
  BY <1>4
<1> QED BY <1>2, <1>3, <1>6, <1>7 DEF Readers!AppendOne, Readers!Full

LEMMA ReadersKill ==
    ASSUME ~InBracket, ~DueNow, ~InBracket', ~DueNow', IsOperation(op), IsOperation(op'),
           NEW ids \in SUBSET Live(mem.shared), ids # {},
           mem'.shared = ConsumeSequence(
                            Entomb(mem.shared, ids, Watermark(mem.shared, mem.rows)), mem.rows),
           mem'.rows = mem.rows, minted' = minted
    PROVE  Readers!Tombstone
<1>1. op.due \in BOOLEAN /\ op'.due \in BOOLEAN
  BY OperationParts
<1>2. UNCHANGED (op.due /\ pc \in {"flush", "manifest"})
  BY <1>1 DEF DueNow
<1>3. Readers!Idle
  BY ReadersIdle
<1>4. UNCHANGED [open |-> InBracket, sequence |-> IF InBracket THEN op.sequence ELSE 0,
                 victims |-> IF InBracket THEN op.ids ELSE {},
                 left |-> IF InBracket THEN op.left ELSE 0]
  BY NoneOngoing DEF Ongoing
<1>5. ids \in SUBSET Readers!Ids(mem.shared)
  BY SameOperators DEF Live
<1>6. Readers!Newly(mem.shared, ids) = ids
  <2>1. Newly(mem.shared, ids) = ids
    BY DEF Newly, Live
  <2> QED BY <2>1, SameOperators
<1>7. mem'.shared = Readers!ConsumeSequence(
                       Readers!Entomb(mem.shared, ids, Readers!Watermark(mem.shared, mem.rows)),
                       mem.rows)
  BY SameOperators
<1>8. \E victims \in SUBSET Readers!Ids(mem.shared) :
          LET newly == Readers!Newly(mem.shared, victims)
          IN  /\ newly # {}
              /\ mem'.shared = Readers!ConsumeSequence(
                       Readers!Entomb(mem.shared, newly, Readers!Watermark(mem.shared, mem.rows)),
                       mem.rows)
  BY <1>5, <1>6, <1>7
<1> QED BY <1>2, <1>3, <1>4, <1>8 DEF Readers!Tombstone

LEMMA ReadersCompact ==
    ASSUME ~InBracket, ~DueNow, ~InBracket', ~DueNow', IsOperation(op), IsOperation(op'),
           NEW order \in MergeOrders(mem.shared, Live(mem.shared)),
           mem'.shared = Compacted(mem.shared, mem.rows, order),
           mem'.rows = Len(order), minted' = minted
    PROVE  Readers!Compact
<1>1. op.due \in BOOLEAN /\ op'.due \in BOOLEAN
  BY OperationParts
<1>2. UNCHANGED (op.due /\ pc \in {"flush", "manifest"})
  BY <1>1 DEF DueNow
<1>3. Readers!Idle
  BY ReadersIdle
<1>4. UNCHANGED [open |-> InBracket, sequence |-> IF InBracket THEN op.sequence ELSE 0,
                 victims |-> IF InBracket THEN op.ids ELSE {},
                 left |-> IF InBracket THEN op.left ELSE 0]
  BY NoneOngoing DEF Ongoing
<1>5. order \in Readers!MergeOrders(mem.shared, Readers!Live(mem.shared))
  BY SameOperators
<1>6. mem'.shared = Readers!Compacted(mem.shared, mem.rows, order)
  BY SameOperators
<1>7. \E o \in Readers!MergeOrders(mem.shared, Readers!Live(mem.shared)) :
         mem'.shared = Readers!Compacted(mem.shared, mem.rows, o) /\ mem'.rows = Len(o)
  BY <1>5, <1>6
<1> QED BY <1>2, <1>3, <1>4, <1>7 DEF Readers!Compact

(* A flush, at the end of an operation or between replacements and commit. *)
LEMMA ReadersFlush ==
    ASSUME IsOperation(op'), op' = op, InBracket' <=> InBracket,
           InBracket => op.left = 0 /\ "Off" \in WalLevels,
           mem.shared.buffer # << >>,
           mem'.shared = FlushShared(mem.shared, mem.rows),
           mem'.rows = mem.rows, minted' = minted, ~DueNow'
    PROVE  Readers!Flush
<1>1. op'.due \in BOOLEAN
  BY OperationParts
<1>2. (op.due /\ pc \in {"flush", "manifest"})' = FALSE
  BY <1>1 DEF DueNow
<1>3. UNCHANGED InBracket
  BY DEF InBracket
<1>4. UNCHANGED [open |-> InBracket, sequence |-> IF InBracket THEN op.sequence ELSE 0,
                 victims |-> IF InBracket THEN op.ids ELSE {},
                 left |-> IF InBracket THEN op.left ELSE 0]
  BY <1>3
<1>5. \/ ~Ongoing.open
      \/ "Off" \in WalLevels /\ Ongoing.left = 0
  BY DEF Ongoing
<1>6. mem'.shared = Readers!FlushShared(mem.shared, mem.rows)
  BY SameOperators
<1> QED BY <1>2, <1>4, <1>5, <1>6 DEF Readers!Flush, Ongoing

(* The steps of a supersession. *)
LEMMA ReadersBegin ==
    ASSUME ~InBracket, ~DueNow, InBracket', ~DueNow', IsOperation(op), IsOperation(op'),
           NEW ids \in SUBSET Live(mem.shared), ids # {} \/ Dead(mem.shared) # {},
           Dead(mem.shared) \subseteq Ids(mem.shared),
           NEW count \in 1 .. MaxReplacements, minted + count <= MaxRows,
           op'.ids = ids, op'.left = count,
           op'.sequence = Watermark(mem.shared, mem.rows),
           mem'.shared = mem.shared, mem'.rows = mem.rows, minted' = minted
    PROVE  Readers!SupersedeBegin
<1>1. op.due \in BOOLEAN /\ op'.due \in BOOLEAN
  BY OperationParts
<1>2. UNCHANGED (op.due /\ pc \in {"flush", "manifest"})
  BY <1>1 DEF DueNow
<1>3. Readers!Idle
  BY ReadersIdle
<1>4. PICK victims \in SUBSET Ids(mem.shared) : victims # {} /\ Newly(mem.shared, victims) = ids
  <2>1. CASE ids # {}
    <3>1. ids \in SUBSET Ids(mem.shared) /\ Newly(mem.shared, ids) = ids
      BY DEF Newly, Live
    <3> QED BY <2>1, <3>1
  <2>2. CASE ids = {}
    <3>1. Newly(mem.shared, Dead(mem.shared)) = ids
      BY <2>2 DEF Newly
    <3> QED BY <2>2, <3>1
  <2> QED BY <2>1, <2>2
<1>5. (IF InBracket THEN op.left ELSE 0)' = count
  OBVIOUS
<1>6. [open |-> InBracket, sequence |-> IF InBracket THEN op.sequence ELSE 0,
       victims |-> IF InBracket THEN op.ids ELSE {},
       left |-> IF InBracket THEN op.left ELSE 0]'
      = [open |-> TRUE, sequence |-> Readers!Watermark(mem.shared, mem.rows),
         victims |-> Readers!Newly(mem.shared, victims), left |-> count]
  <2>1. InBracket' = TRUE
    BY DEF InBracket
  <2> QED BY <1>4, <2>1, SameOperators
<1>7. victims \in SUBSET Readers!Ids(mem.shared) /\ count # 0
  BY SameOperators
<1>8. \E v \in SUBSET Readers!Ids(mem.shared), n \in 1 .. MaxReplacements :
          /\ v # {}
          /\ n = 0 => Readers!Newly(mem.shared, v) # {}
          /\ minted + n <= MaxRows
          /\ [open |-> InBracket, sequence |-> IF InBracket THEN op.sequence ELSE 0,
              victims |-> IF InBracket THEN op.ids ELSE {},
              left |-> IF InBracket THEN op.left ELSE 0]'
             = [open |-> TRUE, sequence |-> Readers!Watermark(mem.shared, mem.rows),
                victims |-> Readers!Newly(mem.shared, v), left |-> n]
  BY <1>4, <1>6, <1>7
<1> QED BY <1>2, <1>3, <1>8 DEF Readers!SupersedeBegin

LEMMA OneLess ==
    ASSUME NEW e, NEW open, NEW q, NEW v, NEW n, NEW m,
           e = [open |-> open, sequence |-> q, victims |-> v, left |-> n]
    PROVE  [e EXCEPT !.left = m] = [open |-> open, sequence |-> q, victims |-> v, left |-> m]
OBVIOUS

LEMMA ReadersReplace ==
    ASSUME InBracket, InBracket', ~DueNow, ~DueNow', IsOperation(op), IsOperation(op'),
           op.left > 0, op'.left = op.left - 1, op'.ids = op.ids, op'.sequence = op.sequence,
           NEW key \in Keys,
           mem'.shared = AppendSuperseding(mem.shared, [key |-> key, tag |-> minted + 1],
                                           op.sequence, mem.rows),
           mem'.rows = mem.rows + 1, minted' = minted + 1
    PROVE  Readers!SupersedeAppend
<1>1. op.due \in BOOLEAN /\ op'.due \in BOOLEAN
  BY OperationParts
<1>2. UNCHANGED (op.due /\ pc \in {"flush", "manifest"})
  BY <1>1 DEF DueNow
<1>3. InBracket = TRUE /\ InBracket' = InBracket
  BY DEF InBracket
<1> DEFINE f == Ongoing'
           e == Ongoing
           b == InBracket
           n == op.left - 1
<1>4. /\ e = [open |-> b, sequence |-> op.sequence, victims |-> op.ids, left |-> op.left]
      /\ f = [open |-> b, sequence |-> op.sequence, victims |-> op.ids, left |-> n]
  BY <1>3 DEF Ongoing
<1>5. /\ Ongoing.open /\ Ongoing.left > 0 /\ Ongoing.sequence = op.sequence
      /\ Ongoing' = [Ongoing EXCEPT !.left = Ongoing.left - 1]
  <2>1. b /\ n = op.left - 1
    OBVIOUS
  <2> HIDE DEF e, f, b, n
  <2>2. e.open = b /\ e.left = op.left /\ e.sequence = op.sequence
    BY <1>4
  <2>3. [e EXCEPT !.left = n]
          = [open |-> b, sequence |-> op.sequence, victims |-> op.ids, left |-> n]
    BY <1>4, OneLess
  <2>4. f = [e EXCEPT !.left = n]
    BY <1>4, <2>3
  <2> QED BY <2>1, <2>2, <2>4 DEF e, f
<1> HIDE DEF e, f, b, n
<1>6. mem'.shared = Readers!AppendSuperseding(mem.shared, Readers!Fresh(key),
                                              Ongoing.sequence, mem.rows)
  BY <1>5, SameOperators DEF Readers!Fresh
<1>7. \E k \in Keys : mem'.shared = Readers!AppendSuperseding(mem.shared, Readers!Fresh(k),
                                                              Ongoing.sequence, mem.rows)
  BY <1>6
<1> QED BY <1>2, <1>5, <1>7 DEF Readers!SupersedeAppend, Ongoing

LEMMA ReadersCommit ==
    ASSUME InBracket, ~InBracket', IsOperation(op'), op.left = 0,
           mem'.shared = Entomb(mem.shared, op.ids, op.sequence),
           mem'.rows = mem.rows, minted' = minted,
           DueNow' <=> Len(mem.shared.buffer) >= SegmentRows
    PROVE  Readers!SupersedeCommit
<1>1. op'.due \in BOOLEAN
  BY OperationParts
<1>2. (op.due /\ pc \in {"flush", "manifest"})' = (Len(mem.shared.buffer) >= SegmentRows)
  BY <1>1 DEF DueNow
<1>3. InBracket = TRUE
  BY DEF InBracket
<1>4. Ongoing = [open |-> TRUE, sequence |-> op.sequence, victims |-> op.ids, left |-> 0]
  BY <1>3 DEF Ongoing
<1>5. Ongoing.open /\ Ongoing.left = 0
  BY <1>4
<1>6. mem'.shared = Readers!Entomb(mem.shared, Ongoing.victims, Ongoing.sequence)
  BY <1>4, SameOperators
<1>7. Ongoing' = Readers!NoMutation
  BY NoneOngoing
<1> QED BY <1>2, <1>5, <1>6, <1>7 DEF Readers!SupersedeCommit, Ongoing, Readers!Full

Served ==
    pc \notin {"down", "replay"} /\ pc' # "down"
        => Readers!Next \/ UNCHANGED Readers!vars

\* What is known before a step and after it.
Before ==
    /\ IsMemory(mem) /\ IsOperation(op) /\ IsMemory(mem') /\ IsOperation(op')
    /\ then # "idle" => Flushing
    /\ Serving => StateFits(mem) /\ VictimsFit /\ FlushFits /\ CompactionFits

LEMMA KnownBefore ==
    ASSUME StoreInv, StoreInv'
    PROVE  Before
BY DEF StoreInv, Typed, Up, Serving, Before

\* A write outside every operation and the open: no reader is served yet.
LEMMA OpenServes ==
    ASSUME Before, Close \/ Crash \/ OpenLoad \/ OpenReplay
    PROVE  ServeInv' /\ Served
<1>1. CASE Close \/ Crash \/ OpenLoad
  BY <1>1 DEF Close, Crash, OpenLoad, ServeInv, Serving, Served
<1>2. CASE OpenReplay
  <2>1. PICK level \in {mem.walSync} \cup {c[2] : c \in {d \in LevelChanges : d[1] = mem.walSync}} :
           mem' = [mem EXCEPT !.shared = Recovered(disk), !.rows = RowCount(Recovered(disk)),
                              !.log = IF level = "Off" THEN "none" ELSE "open",
                              !.walSync = level]
    BY <1>2, Zenon DEF OpenReplay
  <2>2. level \in WalLevels
    BY WalLevelsAssumption, MemoryParts DEF Before
  <2>3. mem'.log = "none" => level = "Off"
    <3> DEFINE C == Sections
               l == IF level = "Off" THEN "none" ELSE "open"
    <3>1. mem \in [shared : {mem.shared}, rows : Nat, generation : Nat, deleteLogs : Nat,
             sections : C, log : {"none", "open", "detached"}, walSync : WalLevels]
      BY DEF Before, IsMemory
    <3>2. mem' = [mem EXCEPT !.shared = Recovered(disk), !.rows = RowCount(Recovered(disk)),
                              !.log = l, !.walSync = level]
      BY <2>1
    <3> HIDE DEF C, l
    <3>3. mem'.log = l
      BY <3>1, <3>2
    <3> QED BY <3>3 DEF l
  <2>4. pc = "replay" /\ pc' = "idle" /\ op' = NoOp /\ then' = then
    BY <1>2 DEF OpenReplay
  <2>5. then' = "idle" /\ ~op'.due
    BY <2>4 DEF Before, Flushing, NoOp
  <2> QED BY <2>2, <2>3, <2>4, <2>5 DEF ServeInv, Served
<1> QED BY <1>1, <1>2

\* An append, or the end of a supersession, and the flush it ends with.
LEMMA FullServes ==
    ASSUME NEW buffer, FlushIfFull(buffer)
    PROVE  /\ pc' \in {"idle", "flush"} /\ then' = "idle"
           /\ pc' = "flush" <=> Len(buffer) >= SegmentRows
           /\ op'.due <=> pc' = "flush"
<1>1. CASE Len(buffer) >= SegmentRows
  <2>1. buffer # << >>
    BY <1>1, SegmentRowsAssumption
  <2> QED BY <1>1, <2>1 DEF FlushIfFull, FlushThen, NoOp
<1>2. CASE ~(Len(buffer) >= SegmentRows)
  BY <1>2 DEF FlushIfFull, NoOp
<1> QED BY <1>1, <1>2

LEMMA AppendServes ==
    ASSUME Before, ServeInv, NoFaults, AppendRowOp
    PROVE  ServeInv' /\ Served
<1>1. pc = "idle" /\ minted < MaxRows /\ minted' = minted + 1
  BY DEF AppendRowOp
<1>2. PICK key \in Keys, outcome \in LogOutcomes :
          IF outcome # "done" THEN TRUE
          ELSE LET s == AppendRow(mem.shared, [key |-> key, tag |-> minted + 1])
               IN  /\ mem' = [mem EXCEPT !.shared = s, !.rows = @ + 1]
                   /\ FlushIfFull(s.buffer)
  BY Zenon DEF AppendRowOp
<1> DEFINE s == AppendRow(mem.shared, [key |-> key, tag |-> minted + 1])
           n == mem.rows + 1
<1>3. mem' = WithRow(mem, s, n) /\ FlushIfFull(s.buffer)
  BY <1>2, AllDone DEF WithRow
<1>4. n \in Nat
  BY MemoryParts DEF Before
<1>5. StateFits(mem) /\ then = "idle"
  BY <1>1 DEF Before, Serving, Flushing
<1> HIDE DEF s
<1>7. mem'.shared = s /\ mem'.rows = n /\ mem'.log = mem.log
  <2> HIDE DEF n
  <2> QED BY <1>3, <1>4, MemoryWithRow, MemoryLevels DEF Before
<1>8. /\ pc' \in {"idle", "flush"} /\ then' = "idle"
      /\ pc' = "flush" <=> Len(s.buffer) >= SegmentRows
      /\ op'.due <=> pc' = "flush"
  BY <1>3, FullServes
<1>9. Readers!AppendOne
  <2>1. ~InBracket /\ ~DueNow /\ ~InBracket'
    BY <1>1, <1>5, <1>8 DEF InBracket, DueNow
  <2>2. DueNow' <=> Len(mem'.shared.buffer) >= SegmentRows
    BY <1>7, <1>8 DEF DueNow
  <2> QED BY <1>1, <1>7, <2>1, <2>2, ReadersAppend DEF Before, s
<1>10. ServeInv'
  BY <1>1, <1>7, <1>8 DEF ServeInv, Serving, Flushing
<1> QED BY <1>9, <1>10 DEF Served, Readers!Next

LEMMA NewFields ==
    ASSUME NEW ids, NEW n, NEW order
    PROVE  /\ ~[NoOp EXCEPT !.ids = ids].due
           /\ ~[NoOp EXCEPT !.order = order].due
           /\ LET p == [NoOp EXCEPT !.ids = ids, !.total = n, !.left = n]
              IN  ~p.due /\ p.left = n /\ p.ids = ids
BY DEF NoOp

LEMMA StartFlushServes ==
    ASSUME Before, ServeInv, StartFlush
    PROVE  ServeInv' /\ Served
<1>1. /\ pc = "idle" /\ pc' = "flush" /\ then' = "idle" /\ op' = op
      /\ mem' = mem /\ minted' = minted
  BY DEF StartFlush, FlushThen, ghosts
<1>2. then = "idle" /\ Serving
  BY <1>1 DEF Before, Flushing, Serving
<1>3. ~op.due
  BY <1>1, <1>2 DEF ServeInv, Flushing
<1>4. ServeInv'
  BY <1>1, <1>2, <1>3 DEF ServeInv, Serving
<1>5. UNCHANGED Readers!vars
  BY <1>1, <1>2, <1>3, ReadersStutter DEF Before, InBracket, DueNow
<1> QED BY <1>4, <1>5 DEF Served

LEMMA FlushSegmentServes ==
    ASSUME Before, ServeInv, NoFaults, FlushSegment
    PROVE  ServeInv' /\ Served
<1>1. /\ pc = "flush" /\ pc' = "manifest" /\ then' = then /\ op' = op
      /\ mem' = mem /\ minted' = minted
  BY AllDone DEF FlushSegment, Abort, ghosts
<1>2. ServeInv'
  BY <1>1 DEF ServeInv, Serving, Flushing
<1>3. UNCHANGED Readers!vars
  BY <1>1, ReadersStutter DEF Before, InBracket, DueNow
<1> QED BY <1>2, <1>3 DEF Served

LEMMA FlushManifestServes ==
    ASSUME Before, ServeInv, NoFaults, FlushManifest
    PROVE  ServeInv' /\ Served
<1> DEFINE c == [mem.sections EXCEPT !.layout = @ \cup {mem.shared.base}]
           s == FlushShared(mem.shared, mem.rows)
<1>1. /\ pc = "manifest" /\ pc' = "reset" /\ then' = then /\ op' = op
      /\ mem' = WithSections(mem, s, c) /\ minted' = minted
  BY AllDone DEF FlushManifest, Abort, WithSections
<1>2. Serving
  BY <1>1 DEF Serving
<1>3. c \in Sections
  <2>1. mem.sections \in Sections /\ mem.shared.base \in Nat
    BY <1>2, MemoryParts, FieldTypes DEF Before, StateFits, WellFormed
  <2> QED BY <2>1 DEF Sections
<1>4. Dead(s) = Dead(mem.shared)
  <2>1. WellFormed(mem.shared, AnyRow) /\ mem.rows = RowCount(mem.shared)
    BY <1>2 DEF Before, StateFits
  <2> QED BY <2>1, FlushKeeps
<1> HIDE DEF s, c
<1>5. mem'.shared = s /\ mem'.rows = mem.rows /\ mem'.log = mem.log
  BY <1>1, <1>3, MemoryWithSections, MemoryLevels DEF Before
<1>6. ServeInv'
  BY <1>1, <1>4, <1>5 DEF ServeInv, Serving, Flushing
<1>7. Readers!Flush
  <2>1. mem.shared.buffer # << >>
    BY <1>1, <1>2 DEF Before, FlushFits
  <2>2. InBracket => op.left = 0 /\ "Off" \in WalLevels
    BY <1>1, <1>2 DEF InBracket, ServeInv
  <2>3. ~DueNow' /\ (InBracket' <=> InBracket)
    BY <1>1 DEF DueNow, InBracket
  <2> QED BY <1>1, <1>5, <2>1, <2>2, <2>3, ReadersFlush DEF Before, s
<1> QED BY <1>6, <1>7 DEF Served, Readers!Next

LEMMA ResetServes ==
    ASSUME Before, ServeInv, NoFaults, NEW target, ResetWal(target)
    PROVE  /\ pc' = target /\ then' = "idle" /\ ~op'.due
           /\ op'.ids = op.ids /\ op'.left = op.left /\ op'.sequence = op.sequence
           /\ mem'.shared = mem.shared /\ mem'.rows = mem.rows /\ minted' = minted
           /\ mem'.log = "none" => mem.log = "none"
<1> DEFINE l == IF mem.log = "none" THEN "none" ELSE "open"
<1>1. /\ pc' = target /\ then' = "idle" /\ op' = [op EXCEPT !.due = FALSE]
      /\ mem' = WithLog(mem, l) /\ minted' = minted
  BY AllDone DEF ResetWal, Abort, ghosts, WithLog
<1>2. l \in {"none", "open", "detached"}
  OBVIOUS
<1>3. mem'.log = "none" => mem.log = "none"
  BY <1>1, MemoryLevels DEF Before
<1> HIDE DEF l
<1>4. /\ mem'.shared = mem.shared /\ mem'.rows = mem.rows
  BY <1>1, <1>2, MemoryWithLog DEF Before
<1> QED BY <1>1, <1>3, <1>4, OperationFields DEF Before

LEMMA FlushResetServes ==
    ASSUME Before, ServeInv, NoFaults, FlushReset, then \in {"idle", "delete log", "bracket", "commit log"}
    PROVE  ServeInv' /\ Served
<1>1. /\ pc = "reset" /\ pc' = then /\ then' = "idle" /\ ~op'.due
      /\ op'.ids = op.ids /\ op'.left = op.left /\ op'.sequence = op.sequence
      /\ mem'.shared = mem.shared /\ mem'.rows = mem.rows /\ minted' = minted
      /\ mem'.log = "none" => mem.log = "none"
  BY ResetServes DEF FlushReset
<1>2. ServeInv'
  BY <1>1 DEF ServeInv, Serving, Dead
<1>3. UNCHANGED Readers!vars
  BY <1>1, ReadersStutter DEF Before, InBracket, DueNow
<1> QED BY <1>2, <1>3 DEF Served

LEMMA CompactResetServes ==
    ASSUME Before, ServeInv, NoFaults, CompactReset
    PROVE  ServeInv' /\ Served
<1>1. /\ pc = "compact reset" /\ pc' = "cleanup" /\ then' = "idle" /\ ~op'.due
      /\ op'.ids = op.ids /\ op'.left = op.left /\ op'.sequence = op.sequence
      /\ mem'.shared = mem.shared /\ mem'.rows = mem.rows /\ minted' = minted
      /\ mem'.log = "none" => mem.log = "none"
  BY ResetServes DEF CompactReset
<1>2. ServeInv'
  BY <1>1 DEF ServeInv, Serving, Dead
<1>3. UNCHANGED Readers!vars
  BY <1>1, ReadersStutter DEF Before, InBracket, DueNow
<1> QED BY <1>2, <1>3 DEF Served

LEMMA TombstoneServes ==
    ASSUME Before, ServeInv, Tombstone
    PROVE  ServeInv' /\ Served
<1>1. /\ pc = "idle" /\ mem' = mem /\ minted' = minted /\ ~op'.due
      /\ \/ pc' = "delete log" /\ then' = "idle"
         \/ pc' = "flush" /\ then' = "delete log"
  <2>1. PICK ids : op' = [NoOp EXCEPT !.ids = ids]
    BY DEF Tombstone
  <2>2. ~op'.due
    BY <2>1, NewFields
  <2> QED BY <2>2 DEF Tombstone, FlushThen, ghosts
<1>2. then = "idle" /\ Serving
  BY <1>1 DEF Before, Flushing, Serving
<1>3. ServeInv'
  BY <1>1, <1>2 DEF ServeInv, Serving, Flushing
<1>4. UNCHANGED Readers!vars
  BY <1>1, <1>2, ReadersStutter DEF Before, InBracket, DueNow
<1> QED BY <1>3, <1>4 DEF Served

LEMMA SupersedeServes ==
    ASSUME Before, ServeInv, Supersede
    PROVE  ServeInv' /\ Served
<1>1. PICK newly \in SUBSET Live(mem.shared), count \in 1 .. MaxReplacements :
         /\ newly # {} \/ Dead(mem.shared) # {}
         /\ minted + count <= MaxRows
         /\ op' = [NoOp EXCEPT !.ids = newly, !.total = count, !.left = count]
         /\ \/ pc' = "bracket" /\ then' = "idle"
            \/ pc' = "flush" /\ then' = "bracket"
  BY DEF Supersede, FlushThen
<1>2. pc = "idle" /\ mem' = mem /\ minted' = minted
  BY DEF Supersede, ghosts
<1>3. op'.ids = newly /\ op'.left = count /\ ~op'.due
  BY <1>1, NewFields
<1>4. then = "idle" /\ Serving
  BY <1>2 DEF Before, Flushing, Serving
<1>5. ServeInv'
  BY <1>1, <1>2, <1>3, <1>4 DEF ServeInv, Serving, Flushing
<1>6. UNCHANGED Readers!vars
  BY <1>1, <1>2, <1>3, <1>4, ReadersStutter DEF Before, InBracket, DueNow
<1> QED BY <1>5, <1>6 DEF Served

LEMMA MemoryNextGeneration ==
    ASSUME NEW m, IsMemory(m), NEW g, NEW c, NEW s, NEW n
    PROVE  LET k == WithGeneration(m, g, c, s, n)
           IN  k.shared = s /\ k.rows = n /\ k.log = m.log
<1> DEFINE C == Sections
           W == WalLevels
<1>1. m \in [shared : {m.shared}, rows : Nat, generation : Nat, deleteLogs : Nat,
             sections : C, log : {"none", "open", "detached"}, walSync : W]
  BY DEF IsMemory
<1> HIDE DEF C, W
<1> QED BY <1>1 DEF WithGeneration

LEMMA DeleteLogServes ==
    ASSUME Before, ServeInv, NoFaults, WriteDeleteLog
    PROVE  ServeInv' /\ Served
<1> DEFINE s == ConsumeSequence(Entomb(mem.shared, op.ids, Watermark(mem.shared, mem.rows)),
                                mem.rows)
           n == mem.deleteLogs + 1
<1>1. /\ pc = "delete log" /\ pc' = "idle" /\ then' = then /\ op' = NoOp
      /\ mem' = WithKills(mem, s, n) /\ minted' = minted
  BY AllDone DEF WriteDeleteLog, Abort, WithKills
<1>2. then = "idle" /\ Serving /\ ~op'.due
  BY <1>1 DEF Before, Flushing, Serving, NoOp
<1>3. n \in Nat
  BY MemoryParts DEF Before
<1> HIDE DEF s
<1>4. mem'.shared = s /\ mem'.rows = mem.rows /\ mem'.log = mem.log
  <2> HIDE DEF n
  <2>1. mem' = WithKills(mem, s, n) /\ IsMemory(mem)
    BY <1>1 DEF Before
  <2>2. mem'.shared = s /\ mem'.rows = mem.rows
    BY <1>3, <2>1, MemoryWithKills
  <2>3. mem'.log = mem.log
    BY <2>1, MemoryLevels
  <2> QED BY <2>2, <2>3
<1>5. ServeInv'
  BY <1>1, <1>2, <1>4 DEF ServeInv, Serving
<1>6. op.ids \in SUBSET Live(mem.shared) /\ op.ids # {}
  BY <1>1, <1>2 DEF Before, VictimsFit, InForce
<1>7. ~InBracket /\ ~DueNow /\ ~InBracket' /\ ~DueNow'
  BY <1>1, <1>2 DEF InBracket, DueNow
<1>8. Readers!Tombstone
  BY <1>1, <1>4, <1>6, <1>7, ReadersKill DEF Before, s
<1> QED BY <1>5, <1>8 DEF Served, Readers!Next

LEMMA BracketServes ==
    ASSUME Before, ServeInv, NoFaults, OpenBracket
    PROVE  ServeInv' /\ Served
<1> DEFINE w == Watermark(mem.shared, mem.rows)
<1>1. /\ pc = "bracket" /\ pc' = "replace" /\ then' = then
      /\ op' = [op EXCEPT !.sequence = w]
      /\ mem' = mem /\ minted' = minted
  BY AllDone DEF OpenBracket, Abort, ghosts
<1>2. then = "idle" /\ Serving
  BY <1>1 DEF Before, Flushing, Serving
<1>3. /\ op'.sequence = w /\ op'.ids = op.ids /\ op'.left = op.left /\ op'.due = op.due
  <2> HIDE DEF w
  <2> QED BY <1>1, OperationFields DEF Before
<1>4. ~op.due
  BY <1>1, <1>2 DEF ServeInv, Flushing
<1>5. ServeInv'
  BY <1>1, <1>2, <1>3, <1>4 DEF ServeInv, Serving
<1>6. /\ op.ids \in SUBSET Live(mem.shared)
      /\ op.ids # {} \/ Dead(mem.shared) # {}
      /\ op.left \in 1 .. MaxReplacements /\ minted + op.left <= MaxRows
  BY <1>1, <1>2 DEF Before, VictimsFit, InForce, ServeInv
<1>7. Dead(mem.shared) \subseteq Ids(mem.shared)
  BY <1>2 DEF Before, StateFits, WellFormed, Shaped
<1>8. ~InBracket /\ ~DueNow /\ InBracket' /\ ~DueNow'
  BY <1>1, <1>2 DEF InBracket, DueNow
<1>9. Readers!SupersedeBegin
  BY <1>1, <1>3, <1>6, <1>7, <1>8, ReadersBegin DEF Before
<1> QED BY <1>5, <1>9 DEF Served, Readers!Next

LEMMA ReplacementServes ==
    ASSUME Before, ServeInv, NoFaults, AppendReplacement
    PROVE  ServeInv' /\ Served
<1>1. PICK key \in Keys :
         /\ minted' = minted + 1
         /\ mem' = [mem EXCEPT
                      !.shared = AppendSuperseding(@, [key |-> key, tag |-> minted + 1],
                                                   op.sequence, mem.rows),
                      !.rows = @ + 1]
         /\ op' = [op EXCEPT !.left = @ - 1]
         /\ pc' = IF op.left = 1 THEN "sync" ELSE pc
         /\ then' = then
  BY AllDone DEF AppendReplacement, Abort
<1> DEFINE s == AppendSuperseding(mem.shared, [key |-> key, tag |-> minted + 1],
                                  op.sequence, mem.rows)
           n == mem.rows + 1
           k == op.left - 1
<1>2. /\ mem' = WithRow(mem, s, n) /\ op' = [op EXCEPT !.left = k]
  BY <1>1 DEF WithRow
<1>3. pc = "replace"
  BY DEF AppendReplacement
<1>4. then = "idle" /\ Serving
  BY <1>3 DEF Before, Flushing, Serving
<1>5. n \in Nat
  BY MemoryParts DEF Before
<1> HIDE DEF s
<1>6. mem'.shared = s /\ mem'.rows = n /\ mem'.log = mem.log
  <2> HIDE DEF n
  <2> QED BY <1>2, <1>5, MemoryWithRow, MemoryLevels DEF Before
<1>7. /\ op'.left = k /\ op'.due = op.due
      /\ op'.ids = op.ids /\ op'.sequence = op.sequence
  <2> HIDE DEF k
  <2> QED BY <1>2, OperationFields DEF Before
<1>8. ~op.due /\ op.left > 0
  BY <1>3, <1>4 DEF ServeInv, Flushing, Before, VictimsFit
<1>9. ServeInv'
  BY <1>1, <1>3, <1>4, <1>6, <1>7, <1>8 DEF ServeInv, Serving
<1>10. InBracket /\ InBracket' /\ ~DueNow /\ ~DueNow'
  BY <1>1, <1>3 DEF InBracket, DueNow
<1>11. Readers!SupersedeAppend
  BY <1>1, <1>6, <1>7, <1>8, <1>10, ReadersReplace DEF Before, s
<1> QED BY <1>9, <1>11 DEF Served, Readers!Next

LEMMA SyncServes ==
    ASSUME Before, ServeInv, NoFaults, SyncReplacements
    PROVE  ServeInv' /\ Served
<1>1. /\ pc = "sync" /\ op' = op /\ mem' = mem /\ minted' = minted
      /\ \/ pc' = "commit log" /\ then' \in {then, "idle"}
         \/ pc' = "flush" /\ then' = "commit log" /\ mem.log = "none"
  BY AllDone DEF SyncReplacements, FlushThen, Abort, ghosts
<1>2. then = "idle" /\ Serving
  BY <1>1 DEF Before, Flushing, Serving
<1>3. ~op.due /\ op.left = 0
  BY <1>1, <1>2 DEF ServeInv, Flushing
<1>4. ServeInv'
  BY <1>1, <1>2, <1>3 DEF ServeInv, Serving
<1>5. UNCHANGED Readers!vars
  BY <1>1, <1>2, <1>3, ReadersStutter DEF Before, InBracket, DueNow
<1> QED BY <1>4, <1>5 DEF Served

LEMMA CommitServes ==
    ASSUME Before, ServeInv, NoFaults, CommitSupersession
    PROVE  ServeInv' /\ Served
<1> DEFINE s == Entomb(mem.shared, op.ids, op.sequence)
           n == mem.deleteLogs + 1
           buffer == mem.shared.buffer
<1>1. /\ pc = "commit log" /\ mem' = WithKills(mem, s, n) /\ minted' = minted
      /\ FlushIfFull(buffer)
  BY AllDone DEF CommitSupersession, Abort, WithKills
<1>2. then = "idle" /\ Serving
  BY <1>1 DEF Before, Flushing, Serving
<1>3. n \in Nat
  BY MemoryParts DEF Before
<1> HIDE DEF s
<1>4. mem'.shared = s /\ mem'.rows = mem.rows /\ mem'.log = mem.log
  <2> HIDE DEF n
  <2>1. mem' = WithKills(mem, s, n) /\ IsMemory(mem)
    BY <1>1 DEF Before
  <2>2. mem'.shared = s /\ mem'.rows = mem.rows
    BY <1>3, <2>1, MemoryWithKills
  <2>3. mem'.log = mem.log
    BY <2>1, MemoryLevels
  <2> QED BY <2>2, <2>3
<1>5. /\ pc' \in {"idle", "flush"} /\ then' = "idle"
      /\ pc' = "flush" <=> Len(buffer) >= SegmentRows
      /\ op'.due <=> pc' = "flush"
  BY <1>1, FullServes
<1>6. ServeInv'
  BY <1>1, <1>2, <1>4, <1>5 DEF ServeInv, Serving, Flushing
<1>7. op.left = 0
  BY <1>1, <1>2 DEF ServeInv
<1>8. InBracket /\ ~InBracket' /\ (DueNow' <=> Len(buffer) >= SegmentRows)
  BY <1>1, <1>5 DEF InBracket, DueNow
<1>9. Readers!SupersedeCommit
  BY <1>1, <1>4, <1>7, <1>8, ReadersCommit DEF Before, s
<1> QED BY <1>6, <1>9 DEF Served, Readers!Next

LEMMA StartCompactServes ==
    ASSUME Before, ServeInv, StartCompact
    PROVE  ServeInv' /\ Served
<1>1. /\ pc = "idle" /\ pc' \in {"compact", "compact manifest"} /\ then' = then
      /\ mem' = mem /\ minted' = minted /\ ~op'.due
  <2>1. PICK order : op' = [NoOp EXCEPT !.order = order]
    BY DEF StartCompact
  <2>2. ~op'.due
    BY <2>1, NewFields
  <2> QED BY <2>2 DEF StartCompact, ghosts
<1>2. then = "idle" /\ Serving
  BY <1>1 DEF Before, Flushing, Serving
<1>3. ServeInv'
  BY <1>1, <1>2 DEF ServeInv, Serving
<1>4. UNCHANGED Readers!vars
  BY <1>1, <1>2, ReadersStutter DEF Before, InBracket, DueNow
<1> QED BY <1>3, <1>4 DEF Served

LEMMA NextGenerationServes ==
    ASSUME Before, ServeInv, NoFaults, WriteNextGeneration
    PROVE  ServeInv' /\ Served
<1>1. /\ pc = "compact" /\ pc' \in {"compact", "compact manifest"} /\ then' = then
      /\ mem' = mem /\ minted' = minted /\ op' = [op EXCEPT !.left = @ + 1]
  BY AllDone DEF WriteNextGeneration, Abort, ghosts
<1>2. then = "idle" /\ Serving
  BY <1>1 DEF Before, Flushing, Serving
<1>3. ~op.due
  BY <1>1, <1>2 DEF ServeInv, Flushing
<1>4. op'.due = op.due
  <2> DEFINE n == op.left + 1
  <2>1. op' = [op EXCEPT !.left = n] /\ IsOperation(op)
    BY <1>1 DEF Before
  <2> HIDE DEF n
  <2> QED BY <2>1, OperationFields
<1>5. ServeInv'
  BY <1>1, <1>2, <1>3, <1>4 DEF ServeInv, Serving
<1>6. UNCHANGED Readers!vars
  BY <1>1, <1>2, <1>3, <1>4, ReadersStutter DEF Before, InBracket, DueNow
<1> QED BY <1>5, <1>6 DEF Served

LEMMA CommitCompactionServes ==
    ASSUME Before, ServeInv, NoFaults, CommitCompaction
    PROVE  ServeInv' /\ Served
<1> DEFINE g == mem.generation + 1
           s == NextShared
           n == Len(op.order)
<1>1. /\ pc = "compact manifest" /\ pc' = "compact reset" /\ then' = then /\ op' = op
      /\ minted' = minted
      /\ \E c : mem' = WithGeneration(mem, g, c, s, n)
  BY AllDone DEF CommitCompaction, Abort, WithGeneration
<1>2. then = "idle" /\ Serving
  BY <1>1 DEF Before, Flushing, Serving
<1>3. ~op.due
  BY <1>1, <1>2 DEF ServeInv, Flushing
<1>4. op.order \in MergeOrders(mem.shared, Live(mem.shared))
  BY <1>1, <1>2 DEF Before, CompactionFits
<1> HIDE DEF s, g, n
<1>5. mem'.shared = s /\ mem'.rows = n /\ mem'.log = mem.log
  <2>1. PICK c : mem' = WithGeneration(mem, g, c, s, n)
    BY <1>1
  <2>2. IsMemory(mem)
    BY DEF Before
  <2> QED BY <2>1, <2>2, MemoryNextGeneration
<1>6. ServeInv'
  BY <1>1, <1>2, <1>3, <1>5 DEF ServeInv, Serving
<1>7. ~InBracket /\ ~DueNow /\ ~InBracket' /\ ~DueNow'
  BY <1>1, <1>2 DEF InBracket, DueNow
<1>8. Readers!Compact
  BY <1>1, <1>4, <1>5, <1>7, ReadersCompact DEF Before, s, n, NextShared
<1> QED BY <1>6, <1>8 DEF Served, Readers!Next

LEMMA CleanupServes ==
    ASSUME Before, ServeInv, Cleanup
    PROVE  ServeInv' /\ Served
<1>1. /\ pc = "cleanup" /\ pc' = "idle" /\ then' = then /\ op' = NoOp
      /\ mem' = mem /\ minted' = minted
  BY DEF Cleanup, ghosts
<1>2. then = "idle" /\ Serving /\ ~op'.due
  BY <1>1 DEF Before, Flushing, Serving, NoOp
<1>3. ServeInv'
  BY <1>1, <1>2 DEF ServeInv, Serving
<1>4. UNCHANGED Readers!vars
  BY <1>1, <1>2, ReadersStutter DEF Before, InBracket, DueNow
<1> QED BY <1>3, <1>4 DEF Served

LEMMA StutterServes ==
    ASSUME Before, ServeInv, UNCHANGED vars
    PROVE  ServeInv' /\ Served
<1>1. /\ pc' = pc /\ then' = then /\ op' = op /\ mem' = mem /\ minted' = minted
  BY DEF vars
<1>2. ServeInv'
  BY <1>1 DEF ServeInv, Serving, Flushing
<1>3. UNCHANGED Readers!vars
  BY <1>1, ReadersStutter DEF Before, InBracket, DueNow
<1> QED BY <1>2, <1>3 DEF Served

LEMMA ServeInductive ==
    ASSUME StoreInv, StoreInv', ServeInv, NoFaults, [Next]_vars
    PROVE  ServeInv' /\ Served
<1> USE KnownBefore
<1>1. CASE Close \/ Crash \/ OpenLoad \/ OpenReplay
  BY <1>1, OpenServes
<1>2. CASE AppendRowOp
  BY <1>2, AppendServes
<1>3. CASE StartFlush
  BY <1>3, StartFlushServes
<1>4. CASE FlushSegment
  BY <1>4, FlushSegmentServes
<1>5. CASE FlushManifest
  BY <1>5, FlushManifestServes
<1>6. CASE FlushReset
  BY <1>6, FlushResetServes DEF StoreInv, Typed
<1>7. CASE Tombstone
  BY <1>7, TombstoneServes
<1>8. CASE WriteDeleteLog
  BY <1>8, DeleteLogServes
<1>9. CASE Supersede
  BY <1>9, SupersedeServes
<1>10. CASE OpenBracket
  BY <1>10, BracketServes
<1>11. CASE AppendReplacement
  BY <1>11, ReplacementServes
<1>12. CASE SyncReplacements
  BY <1>12, SyncServes
<1>13. CASE CommitSupersession
  BY <1>13, CommitServes
<1>14. CASE StartCompact
  BY <1>14, StartCompactServes
<1>15. CASE WriteNextGeneration
  BY <1>15, NextGenerationServes
<1>16. CASE CommitCompaction
  BY <1>16, CommitCompactionServes
<1>17. CASE CompactReset
  BY <1>17, CompactResetServes
<1>18. CASE Cleanup
  BY <1>18, CleanupServes
<1>19. CASE UNCHANGED vars
  BY <1>19, StutterServes
<1> QED BY <1>1, <1>2, <1>3, <1>4, <1>5, <1>6, <1>7, <1>8, <1>9, <1>10, <1>11, <1>12,
           <1>13, <1>14, <1>15, <1>16, <1>17, <1>18, <1>19, Zenon DEF Next

(* The mirror in memory, for every number of keys, rows, replacements,     *)
(* generations and crashes and every WAL level, where no write fails:      *)
(* what the readers of the writer's process see moves as SharedStore says  *)
(* (Store's critical sections) or not at all.                              *)
THEOREM ServesReaders ==
    ASSUME NoFaults
    PROVE  Spec => ServesSharedStore
<1>1. Spec => []StoreInv
  BY StoreStaysFit, AllDone
<1>2. Init => ServeInv
  BY DEF Init, ServeInv, Serving
<1>3. StoreInv /\ StoreInv' /\ ServeInv /\ [Next]_vars => ServeInv'
  BY ServeInductive
<1>4. StoreInv /\ StoreInv' /\ ServeInv /\ [Next]_vars
        => [pc \notin {"down", "replay"} /\ pc' # "down"
              => Readers!Next \/ UNCHANGED Readers!vars]_<<mem, pc>>
  BY ServeInductive DEF Served
<1> QED BY <1>1, <1>2, <1>3, <1>4, PTL DEF Spec, ServesSharedStore
=============================================================================
