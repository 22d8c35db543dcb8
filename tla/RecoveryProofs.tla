--------------------------- MODULE RecoveryProofs ---------------------------
(***************************************************************************)
(* What a crash leaves is what was promised: theorems about DurableStore   *)
(* for every number of rows, generations and crashes and every WAL level,  *)
(* up to the first write that fails: StoreRecoversPrefix,                  *)
(* StoreDeleteLogsCommitLast and, last, StoreMutationsWhole.               *)
(*                                                                         *)
(* The invariant (Recoverable) says where every promised row is while the  *)
(* store serves, in segments or in the synced part of the log, behind      *)
(* which only records of rows on their own or of the supersession under    *)
(* way may be lost; and what the open of a closed store's disk will find.  *)
(* The lemmas come in that order: the rows owed at a coordinate, the log   *)
(* beside the writer's memory, the log cut short, what an open makes of    *)
(* it, and then one lemma for each action.                                 *)
(***************************************************************************)
EXTENDS DurableStoreProofs

----------------------------------------------------------------------------
\* What a crash owes its caller.

\* The rows of the acknowledged table t as it stood before coordinate cut.
Owed(t, cut) ==
    Rows({v \in t.alive : v.born < cut}
           \cup {[row |-> v.row, born |-> v.born] :
                   v \in {w \in t.dead : w.born < cut /\ cut <= w.killed}})

(* The events from coordinate done on are the last appends: up to each of  *)
(* them t's rows are the first live ones of s, whose last n0 rows t does   *)
(* not know of, and every kill came before.                                *)
SettledAt(s, n0, t, done) ==
    /\ n0 \in Nat /\ t.next \in Nat /\ done \in 0 .. t.next
    /\ n0 + (t.next - done) <= RowCount(s)
    /\ \A cut \in done .. t.next :
          Rows({v \in t.alive : v.born < cut})
            = FirstRows(s, RowCount(s) - n0 - (t.next - cut))
    /\ \A v \in t.dead : v.killed \in Nat /\ v.killed < done

LEMMA SettledOwed ==
    ASSUME NEW s, NEW n0, NEW t, NEW done, SettledAt(s, n0, t, done),
           NEW cut \in done .. t.next
    PROVE  Owed(t, cut) = FirstRows(s, RowCount(s) - n0 - (t.next - cut))
<1>1. {w \in t.dead : w.born < cut /\ cut <= w.killed} = {}
  <2> SUFFICES ASSUME NEW w \in t.dead, cut <= w.killed PROVE FALSE
    OBVIOUS
  <2> QED  BY DEF SettledAt
<1>2. {v \in t.alive : v.born < cut}
         \cup {[row |-> v.row, born |-> v.born] :
                 v \in {w \in t.dead : w.born < cut /\ cut <= w.killed}}
      = {v \in t.alive : v.born < cut}
  BY <1>1
<1>3. Owed(t, cut) = Rows({v \in t.alive : v.born < cut})
  BY <1>2 DEF Owed
<1> QED  BY <1>3 DEF SettledAt

LEMMA FirstRowsSame ==
    ASSUME NEW s, NEW t, RowCount(s) \in Nat, RowCount(t) \in Nat,
           RowCount(s) <= RowCount(t), Dead(t) = Dead(s), SameView(s, t),
           NEW m \in Int, m <= RowCount(s)
    PROVE  FirstRows(t, m) = FirstRows(s, m)
<1>1. \A id : id \in Live(t) /\ id < m <=> id \in Live(s) /\ id < m
  BY DEF Live, Ids
<1>2. \A id : id \in Live(s) /\ id < m => RowAt(t, id) = RowAt(s, id)
  BY DEF Live, SameView
<1>3. {id \in Live(t) : id < m} = {id \in Live(s) : id < m}
  BY <1>1
<1>4. \A id \in {i \in Live(s) : i < m} : RowAt(t, id) = RowAt(s, id)
  BY <1>2
<1> QED  BY <1>3, <1>4, Zenon DEF FirstRows

LEMMA FirstRowsMore ==
    ASSUME NEW s, NEW m \in Int, NEW n \in Int, m <= n, RowCount(s) \in Nat
    PROVE  FirstRows(s, m) \subseteq FirstRows(s, n)
<1>1. {id \in Live(s) : id < m} \subseteq {id \in Live(s) : id < n}
  BY DEF Live, Ids
<1> QED  BY <1>1, Zenon DEF FirstRows

\* A state of at least the same rows, none of them moved.
LEMMA SettledFurther ==
    ASSUME NEW s, NEW n0, NEW t, NEW done, SettledAt(s, n0, t, done),
           NEW r, RowCount(s) \in Nat, RowCount(r) \in Nat, RowCount(s) <= RowCount(r),
           Dead(r) = Dead(s), SameView(s, r)
    PROVE  SettledAt(r, n0 + (RowCount(r) - RowCount(s)), t, done)
<1> DEFINE n == n0 + (RowCount(r) - RowCount(s))
<1>1. /\ n0 \in Nat /\ t.next \in Nat /\ done \in 0 .. t.next
      /\ n0 + (t.next - done) <= RowCount(s)
      /\ \A v \in t.dead : v.killed \in Nat /\ v.killed < done
  BY DEF SettledAt
<1>2. n \in Nat /\ n + (t.next - done) <= RowCount(r)
  BY <1>1
<1>3. ASSUME NEW cut \in done .. t.next
      PROVE  Rows({v \in t.alive : v.born < cut})
               = FirstRows(r, RowCount(r) - n - (t.next - cut))
  <2> DEFINE m == RowCount(s) - n0 - (t.next - cut)
  <2>1. m \in Int /\ m <= RowCount(s) /\ RowCount(r) - n - (t.next - cut) = m
    BY <1>1
  <2>2. Rows({v \in t.alive : v.born < cut}) = FirstRows(s, m)
    BY DEF SettledAt
  <2> HIDE DEF m
  <2>3. FirstRows(r, m) = FirstRows(s, m)
    BY <2>1, FirstRowsSame
  <2> QED  BY <2>1, <2>2, <2>3
<1> HIDE DEF n
<1>4. SettledAt(r, n, t, done)
  BY <1>1, <1>2, <1>3 DEF SettledAt
<1> QED  BY <1>4 DEF n

LEMMA SettledPromise ==
    ASSUME NEW s, NEW n0, NEW t, NEW done, SettledAt(s, n0, t, done),
           RowCount(s) \in Nat
    PROVE  SettledAt(s, n0, t, t.next)
<1>1. /\ n0 \in Nat /\ t.next \in Nat /\ done \in 0 .. t.next
      /\ n0 + (t.next - done) <= RowCount(s)
      /\ \A v \in t.dead : v.killed \in Nat /\ v.killed < done
  BY DEF SettledAt
<1>2. \A cut \in t.next .. t.next : cut \in done .. t.next
  BY <1>1
<1>3. n0 + (t.next - t.next) <= RowCount(s) /\ t.next \in 0 .. t.next
  BY <1>1
<1>4. \A v \in t.dead : v.killed \in Nat /\ v.killed < t.next
  BY <1>1
<1> QED  BY <1>1, <1>2, <1>3, <1>4 DEF SettledAt
\* A state is told as it is: every version below the watermark.
LEMMA ToldParts ==
    ASSUME NEW R, NEW s, WellFormed(s, R), Known(s)
    PROVE  LET t == Told(s)
           IN  /\ t.alive = AliveVersions(s) /\ t.dead = DeadVersions(s)
               /\ t.next = Watermark(s, RowCount(s)) /\ t.next \in Nat
               /\ RowCount(s) \in Nat
               /\ \A v \in t.dead : v.killed \in Nat /\ v.killed < t.next
<1> DEFINE w == Watermark(s, RowCount(s))
<1>1. Shaped(s, R)
  BY DEF WellFormed
<1>2. w \in Nat /\ RowCount(s) \in Nat
  BY <1>1, ViewType, FieldTypes
<1>3. /\ Told(s).alive = AliveVersions(s) /\ Told(s).dead = DeadVersions(s)
      /\ Told(s).next = w
  BY DEF Told
<1>4. \A id \in Dead(s) : s.tombs[id] \in Nat /\ s.tombs[id] < w
  BY <1>1, KillCoordinates DEF Known
<1>5. \A v \in s.history : v.killed \in Nat /\ v.killed < w
  BY <1>1, KillCoordinates DEF Known
<1> HIDE DEF w
<1>6. \A v \in KilledVersions(s) : v.killed \in Nat /\ v.killed < w
  BY <1>4 DEF KilledVersions
<1>7. \A v \in DeadVersions(s) : v.killed \in Nat /\ v.killed < w
  BY <1>5, <1>6 DEF DeadVersions
<1> QED  BY <1>2, <1>3, <1>7 DEF w

\* The rows in force that were born before cut, where those are all.
LEMMA RowsInForce ==
    ASSUME NEW s, NEW m \in Int, NEW cut,
           \A id \in Live(s) : id < m <=> Born(s, id) < cut
    PROVE  Rows({v \in AliveVersions(s) : v.born < cut}) = FirstRows(s, m)
<1> DEFINE V(id) == [row |-> RowAt(s, id), born |-> Born(s, id)]
<1>1. \A id : V(id).row = RowAt(s, id) /\ V(id).born = Born(s, id)
  OBVIOUS
<1>2. AliveVersions(s) = {V(id) : id \in Live(s)}
  BY DEF AliveVersions
<1> HIDE DEF V
<1>3. {v \in AliveVersions(s) : v.born < cut} = {V(id) : id \in {i \in Live(s) : i < m}}
  BY <1>1, <1>2
<1>4. Rows({V(id) : id \in {i \in Live(s) : i < m}})
        = {RowAt(s, id) : id \in {i \in Live(s) : i < m}}
  BY <1>1 DEF Rows
<1> QED  BY <1>3, <1>4 DEF FirstRows

LEMMA SettledNow ==
    ASSUME NEW R, NEW s, WellFormed(s, R), Known(s)
    PROVE  SettledAt(s, 0, Told(s), Told(s).next)
<1> DEFINE t == Told(s)
<1>1. /\ t.alive = AliveVersions(s) /\ t.next \in Nat /\ RowCount(s) \in Nat
      /\ t.next = Watermark(s, RowCount(s))
      /\ \A v \in t.dead : v.killed \in Nat /\ v.killed < t.next
  BY ToldParts
<1>2. \A id \in Live(s) : id < RowCount(s) <=> Born(s, id) < t.next
  BY <1>1 DEF Live, Ids, Known
<1> HIDE DEF t
<1>3. ASSUME NEW cut \in t.next .. t.next
      PROVE  Rows({v \in t.alive : v.born < cut})
               = FirstRows(s, RowCount(s) - 0 - (t.next - cut))
  <2>1. cut = t.next /\ RowCount(s) - 0 - (t.next - cut) = RowCount(s) /\ RowCount(s) \in Int
    BY <1>1
  <2>2. Rows({v \in AliveVersions(s) : v.born < cut}) = FirstRows(s, RowCount(s))
    BY <1>2, <2>1, RowsInForce
  <2> QED  BY <1>1, <2>1, <2>2
<1>4. t.next \in 0 .. t.next /\ 0 + (t.next - t.next) <= RowCount(s) /\ 0 \in Nat
  BY <1>1
<1>5. SettledAt(s, 0, t, t.next)
  BY <1>1, <1>3, <1>4 DEF SettledAt
<1> QED  BY <1>5 DEF t

\* An append is told, and nothing else moves.
LEMMA AppendTold ==
    ASSUME NEW R, NEW s, WellFormed(s, R), Known(s), NEW row \in R
    PROVE  LET r == AppendRow(s, row)
           IN  /\ WellFormed(r, R) /\ Known(r) /\ SameView(s, r) /\ Dead(r) = Dead(s)
               /\ RowCount(s) \in Nat /\ RowCount(r) = RowCount(s) + 1
               /\ Told(r).next = Told(s).next + 1
               /\ Told(r).dead = Told(s).dead
               /\ \A cut \in Nat : cut <= Told(s).next =>
                    {v \in Told(r).alive : v.born < cut} = {v \in Told(s).alive : v.born < cut}
<1> DEFINE r == AppendRow(s, row)
           n == RowCount(s)
           w == Watermark(s, n)
<1>1. Shaped(s, R) /\ 0 \in Nat
  BY DEF WellFormed
<1>2. n \in Nat /\ w \in Nat
  BY <1>1, FieldTypes, ViewType
<1>3. /\ SameView(s, r) /\ RowAt(r, n) = row /\ Born(r, n) = w
      /\ Watermark(r, n + 1) = w + 1
      /\ r.tombs = s.tombs /\ r.history = s.history
  BY AppendRowView
<1>4. WellFormed(r, R) /\ RowCount(r) = n + 1 /\ Dead(r) = Dead(s)
  BY AppendRowKeeps
<1>5. Known(r)
  <2>1. Reaches(s, s.next)
    BY DEF Reaches, Attained
  <2> QED  BY <2>1, AppendRowGrows
<1>6. Told(r).next = Told(s).next + 1
  BY <1>3, <1>4 DEF Told
<1> HIDE DEF r
<1>7. \A id \in Dead(s) : id \in Ids(s)
  BY <1>1 DEF Shaped
<1>8. Told(r).dead = Told(s).dead
  <2>1. \A id \in Dead(s) : RowAt(r, id) = RowAt(s, id) /\ Born(r, id) = Born(s, id)
    BY <1>3, <1>7 DEF SameView
  <2>2. KilledVersions(r) = KilledVersions(s)
    BY <1>3, <1>4, <2>1 DEF KilledVersions
  <2> QED  BY <1>3, <2>2 DEF Told, DeadVersions
<1>9. n \notin Dead(s) /\ Live(r) = Live(s) \cup {n} /\ Live(s) \subseteq Ids(s)
  <2>1. n \notin Ids(s) /\ Ids(r) = Ids(s) \cup {n}
    BY <1>2, <1>4 DEF Ids
  <2> QED  BY <1>4, <1>7, <2>1 DEF Live
<1>10. \A id \in Live(s) : RowAt(r, id) = RowAt(s, id) /\ Born(r, id) = Born(s, id)
  BY <1>3, <1>9 DEF SameView
<1>11. AliveVersions(r) = AliveVersions(s) \cup {[row |-> row, born |-> w]}
  BY <1>3, <1>9, <1>10 DEF AliveVersions
<1>12. Told(s).next = w /\ Told(s).alive = AliveVersions(s) /\ Told(r).alive = AliveVersions(r)
  BY DEF Told
<1> HIDE DEF w
<1>13. ASSUME NEW cut \in Nat, cut <= w
       PROVE  {v \in AliveVersions(r) : v.born < cut} = {v \in AliveVersions(s) : v.born < cut}
  <2> DEFINE x == [row |-> row, born |-> w]
  <2>1. ~(x.born < cut)
    BY <1>2, <1>13
  <2> HIDE DEF x
  <2> QED  BY <1>11, <2>1 DEF x
<1> QED  BY <1>2, <1>3, <1>4, <1>5, <1>6, <1>8, <1>12, <1>13 DEF r
\* The event of an append may be lost until it is synced.
LEMMA SettledAppend ==
    ASSUME NEW R, NEW s, WellFormed(s, R), Known(s), NEW row \in R,
           NEW done, SettledAt(s, 0, Told(s), done)
    PROVE  LET r == AppendRow(s, row)
           IN  SettledAt(r, 0, Told(r), done) /\ SettledAt(r, 0, Told(r), Told(r).next)
<1> DEFINE r == AppendRow(s, row)
           t == Told(s)
           u == Told(r)
<1>1. /\ WellFormed(r, R) /\ Known(r) /\ SameView(s, r) /\ Dead(r) = Dead(s)
      /\ RowCount(s) \in Nat /\ RowCount(r) = RowCount(s) + 1
      /\ u.next = t.next + 1 /\ u.dead = t.dead
      /\ \A cut \in Nat : cut <= t.next =>
           {v \in u.alive : v.born < cut} = {v \in t.alive : v.born < cut}
  BY AppendTold
<1>2. SettledAt(r, 0, u, u.next)
  BY <1>1, SettledNow
<1> HIDE DEF r, t, u
<1>3. SettledAt(s, 0, t, done)
  BY DEF t
<1>4. /\ t.next \in Nat /\ done \in 0 .. t.next /\ t.next - done <= RowCount(s)
      /\ \A v \in t.dead : v.killed \in Nat /\ v.killed < done
  BY <1>1, <1>3 DEF SettledAt
<1>5. ASSUME NEW cut \in done .. u.next
      PROVE  Rows({v \in u.alive : v.born < cut})
               = FirstRows(r, RowCount(r) - 0 - (u.next - cut))
  <2>1. CASE cut = u.next
    <3>1. cut \in u.next .. u.next
      BY <1>1, <1>4, <2>1
    <3> QED  BY <1>2, <3>1 DEF SettledAt
  <2>2. CASE cut # u.next
    <3> DEFINE m == RowCount(s) - 0 - (t.next - cut)
    <3>1. /\ cut \in Nat /\ cut <= t.next /\ cut \in done .. t.next
          /\ m \in Int /\ m <= RowCount(s)
          /\ RowCount(r) - 0 - (u.next - cut) = m
      BY <1>1, <1>4, <2>2
    <3>2. Rows({v \in t.alive : v.born < cut}) = FirstRows(s, m)
      BY <1>3, <3>1 DEF SettledAt
    <3>3. {v \in u.alive : v.born < cut} = {v \in t.alive : v.born < cut}
      BY <1>1, <3>1
    <3> HIDE DEF m
    <3>4. FirstRows(r, m) = FirstRows(s, m)
      BY <1>1, <3>1, FirstRowsSame
    <3> QED  BY <3>1, <3>2, <3>3, <3>4
  <2> QED  BY <2>1, <2>2
<1>6. /\ 0 \in Nat /\ u.next \in Nat /\ done \in 0 .. u.next
      /\ 0 + (u.next - done) <= RowCount(r)
  BY <1>1, <1>4
<1>7. SettledAt(r, 0, u, done)
  BY <1>1, <1>4, <1>5, <1>6 DEF SettledAt
<1> QED  BY <1>2, <1>7 DEF r, u

\* A state whose view and kills are the same is told the same.
LEMMA SameTold ==
    ASSUME NEW s, NEW t, RowCount(t) = RowCount(s), SameView(s, t),
           t.tombs = s.tombs, t.history = s.history, Dead(s) \subseteq Ids(s),
           Watermark(t, RowCount(t)) = Watermark(s, RowCount(s))
    PROVE  Told(t) = Told(s)
<1>1. Dead(t) = Dead(s) /\ Live(t) = Live(s) /\ Live(s) \subseteq Ids(s)
  BY DEF Dead, Live, Ids
<1>2. \A id \in Ids(s) : RowAt(t, id) = RowAt(s, id) /\ Born(t, id) = Born(s, id)
  BY DEF SameView
<1>3. AliveVersions(t) = AliveVersions(s)
  BY <1>1, <1>2 DEF AliveVersions
<1>4. KilledVersions(t) = KilledVersions(s)
  BY <1>1, <1>2 DEF KilledVersions
<1> QED  BY <1>3, <1>4 DEF Told, DeadVersions

\* A compaction keeps every version with its coordinates.
LEMMA CompactedTold ==
    ASSUME NEW R, NEW s, WellFormed(s, R), NEW rows, rows = RowCount(s),
           NEW order \in MergeOrders(s, Live(s))
    PROVE  Told(Compacted(s, rows, order)) = Told(s)
<1> DEFINE t == Compacted(s, rows, order)
           V(u, id) == [row |-> RowAt(u, id), born |-> Born(u, id)]
<1>1. /\ \A id \in Ids(t) : /\ id + 1 \in 1 .. Len(order)
                           /\ V(t, id) = V(s, order[id + 1])
      /\ Watermark(t, Len(order)) = Watermark(s, rows)
      /\ Dead(t) = {} /\ t.history = Retained(s)
  BY CompactedView
<1>2. RowCount(t) = Len(order)
  BY CompactedKeeps
<1>3. /\ \A i \in 1 .. Len(order) : order[i] \in Live(s)
      /\ \A id \in Live(s) : \E i \in 1 .. Len(order) : order[i] = id
      /\ Len(order) \in Nat
  BY MergeOrderIndex, MergeOrderType DEF WellFormed
<1>4. Live(t) = Ids(t) /\ Ids(t) = 0 .. Len(order) - 1
  BY <1>1, <1>2 DEF Live, Ids
<1>5. /\ AliveVersions(t) = {V(t, id) : id \in Live(t)}
      /\ AliveVersions(s) = {V(s, id) : id \in Live(s)}
  BY DEF AliveVersions
<1>6. KilledVersions(t) = {}
  BY <1>1 DEF KilledVersions
<1>7. DeadVersions(t) = DeadVersions(s)
  BY <1>1, <1>6 DEF DeadVersions, Retained
<1> HIDE DEF t, V
<1>8. \A id \in Ids(t) : order[id + 1] \in Live(s) /\ V(t, id) = V(s, order[id + 1])
  BY <1>1, <1>3
<1>9. \A id \in Live(s) : \E k \in Ids(t) : V(s, id) = V(t, k)
  <2> SUFFICES ASSUME NEW id \in Live(s) PROVE \E k \in Ids(t) : V(s, id) = V(t, k)
    OBVIOUS
  <2>1. PICK i \in 1 .. Len(order) : order[i] = id
    BY <1>3
  <2>2. i - 1 \in Ids(t) /\ (i - 1) + 1 = i
    BY <1>3, <1>4
  <2>3. V(t, i - 1) = V(s, order[(i - 1) + 1])
    BY <1>8, <2>2
  <2> QED  BY <2>1, <2>2, <2>3
<1>10. {V(t, id) : id \in Live(t)} = {V(s, id) : id \in Live(s)}
  BY <1>4, <1>8, <1>9
<1>11. Told(t) = Told(s)
  BY <1>1, <1>2, <1>5, <1>7, <1>10 DEF Told
<1> QED  BY <1>11 DEF t
----------------------------------------------------------------------------
\* The log beside the writer's memory.

\* The disk a crash leaves that keeps k records.
CutDisk(d, k) == [d EXCEPT !.wal.entries = SubSeq(@, 1, k), !.wal.synced = k]

LEMMA PrefixTyped ==
    ASSUME NEW X, NEW e \in Seq(X), NEW k \in Nat, k <= Len(e)
    PROVE  /\ SubSeq(e, 1, k) \in Seq(X) /\ Len(SubSeq(e, 1, k)) = k
           /\ SubSeq(e, 1, Len(e)) = e
<1>1. \A i \in 1 .. Len(e) : e[i] \in X
  BY ElementOfSeq
<1>2. \A n \in Nat : n <= Len(e) => /\ SubSeq(e, 1, n) \in Seq(X) /\ Len(SubSeq(e, 1, n)) = n
                                    /\ \A i \in 1 .. n : SubSeq(e, 1, n)[i] = e[i]
  BY <1>1, SubSeqProperties
<1>3. Len(e) \in Nat
  OBVIOUS
<1>4. SubSeq(e, 1, Len(e)) = e
  <2> DEFINE f == SubSeq(e, 1, Len(e))
  <2>1. f \in Seq(X) /\ Len(f) = Len(e) /\ \A i \in 1 .. Len(e) : f[i] = e[i]
    BY <1>2, <1>3
  <2> HIDE DEF f
  <2>2. f = e
    BY <2>1, SeqEqual
  <2> QED  BY <2>2 DEF f
<1> QED  BY <1>2, <1>4

LEMMA CutParts ==
    ASSUME NEW d, IsDisk(d), NEW k \in Nat, k <= Len(d.wal.entries)
    PROVE  LET e == CutDisk(d, k)
           IN  /\ IsDisk(e) /\ e.manifest = d.manifest /\ e.segments = d.segments
               /\ e.deletes = d.deletes /\ e.history = d.history
               /\ e.wal.entries = SubSeq(d.wal.entries, 1, k) /\ e.wal.synced = k
               /\ e.wal.present = d.wal.present /\ e.wal.generation = d.wal.generation
               /\ e.wal.base = d.wal.base /\ e.wal \in Log(AnyRow)
<1> DEFINE some == SubSeq(d.wal.entries, 1, k)
           w == [d.wal EXCEPT !.entries = some, !.synced = k]
<1>1. d.wal \in Log(AnyRow)
  BY DiskParts
<1>2. some \in Seq(Entry(AnyRow))
  <2> DEFINE X == Entry(AnyRow)
  <2>1. d.wal.entries \in Seq(X)
    BY <1>1, LogParts
  <2> HIDE DEF X
  <2>2. some \in Seq(X)
    BY <2>1, PrefixTyped
  <2> QED  BY <2>2 DEF X
<1> HIDE DEF some
<1>3. w \in Log(AnyRow)
  BY <1>1, <1>2, LogParts, Zenon
<1>4. /\ w.entries = some /\ w.synced = k /\ w.present = d.wal.present
      /\ w.generation = d.wal.generation /\ w.base = d.wal.base
  BY <1>1 DEF Log
<1>5. CutDisk(d, k) = [d EXCEPT !.wal = w]
  BY DEF CutDisk, some
<1> HIDE DEF w
<1>6. LET e == [d EXCEPT !.wal = w]
      IN  /\ IsDisk(e) /\ e.manifest = d.manifest /\ e.segments = d.segments
          /\ e.deletes = d.deletes /\ e.history = d.history /\ e.wal = w
  BY <1>3, DiskParts
<1> QED  BY <1>3, <1>4, <1>5, <1>6 DEF some

FrozenAt(s, q) == \E i \in 1 .. Len(s.frozen) : s.frozen[i].born = q

\* The records of the supersession under way, whose rows so far are Q.
OpenTail(o, open, Q) ==
    IF open THEN << BracketEntry(o.sequence, o.total) >> \o [k \in 1 .. Len(Q) |-> RowEntry(Q[k])]
    ELSE << >>

(* The log holds the units V, whose rows with Q are the buffer's, and the  *)
(* supersession that is open; all but the last p units, rows on their own, *)
(* are synced.  The committed coordinates are births of frozen rows, or    *)
(* carried by a bracket of V.                                              *)
LogIs(d, s, o, open, p, V, Q) ==
    LET C == CommittedSupersessions(d)
    IN  /\ V \in Seq(WholeUnits(AnyRow, C)) /\ Q \in Seq(AnyRow)
        /\ d.wal.present /\ d.wal.generation = d.manifest.generation
        /\ d.wal.base = Len(s.frozen)
        /\ s.buffer = Carried(V) \o Q
        /\ Len(Q) = (IF open THEN o.total - o.left ELSE 0)
        /\ d.wal.entries = Encoded(V) \o OpenTail(o, open, Q)
        /\ d.wal.synced <= Len(d.wal.entries)
        /\ p \in 0 .. Len(V) /\ TailPlain(V, p)
        /\ Len(Encoded(V)) <= d.wal.synced + p
        /\ \A i \in 1 .. Len(V) : V[i].bracket => Seen(s, V[i].sequence)
        /\ \A q \in C : \/ FrozenAt(s, q)
                        \/ \E i \in 1 .. Len(V) : V[i].bracket /\ V[i].sequence = q

\* The open supersession has not committed, and not more rows than it announced.
OpenFit(d, o, open) ==
    open => /\ o.sequence \notin CommittedSupersessions(d)
            /\ o.total > 0 /\ o.left \in 0 .. o.total

LEMMA TailFits ==
    ASSUME NEW o, o.sequence \in Nat, o.total \in Nat, NEW open \in BOOLEAN, NEW C,
           NEW Q \in Seq(AnyRow), open => o.sequence \notin C /\ Len(Q) <= o.total
    PROVE  LET T == OpenTail(o, open, Q)
           IN  /\ T \in Seq(Entry(AnyRow)) /\ Undecided(T, C) /\ Untorn(T)
               /\ Len(T) = IF open THEN Len(Q) + 1 ELSE 0
<1>1. CASE ~open
  <2>1. OpenTail(o, open, Q) = << >>
    BY <1>1 DEF OpenTail
  <2> QED  BY <1>1, <2>1 DEF Undecided, Untorn
<1>2. CASE open
  <2> DEFINE X == Entry(AnyRow)
             b == BracketEntry(o.sequence, o.total)
             f == [k \in 1 .. Len(Q) |-> RowEntry(Q[k])]
             T == << b >> \o f
  <2>1. OpenTail(o, open, Q) = T
    BY <1>2 DEF OpenTail
  <2>2. b \in X /\ b.kind = "bracket" /\ b.sequence = o.sequence /\ b.count = o.total
    BY EntriesAre DEF BracketEntry
  <2>3. Len(Q) \in Nat /\ \A k \in 1 .. Len(Q) : Q[k] \in AnyRow
    BY ElementOfSeq
  <2>4. \A k \in 1 .. Len(Q) : RowEntry(Q[k]) \in X
    BY <2>3, EntriesAre
  <2>5. f \in [1 .. Len(Q) -> X]
    BY <2>4
  <2>6. f \in Seq(X) /\ Len(f) = Len(Q)
    <3> HIDE DEF f, X
    <3> QED  BY <2>3, <2>5, FunctionIsSeq
  <2>7. \A k \in 1 .. Len(Q) : f[k].kind = "row"
    BY DEF RowEntry
  <2> HIDE DEF f, X, b
  <2>8. T \in Seq(X) /\ Len(T) = Len(Q) + 1 /\ T[1] = b
        /\ \A k \in 2 .. Len(T) : T[k] = f[k - 1]
    BY <2>2, <2>6
  <2> HIDE DEF T
  <2>10. Undecided(T, C)
    BY <1>2, <2>2, <2>3, <2>8 DEF Undecided
  <2>11. Untorn(T)
    <3> SUFFICES ASSUME NEW i \in 1 .. Len(T) PROVE T[i].kind # "torn"
      BY DEF Untorn
    <3>1. CASE i = 1
      BY <2>2, <2>8, <3>1
    <3>2. CASE i # 1
      <4>1. i \in 2 .. Len(T) /\ i - 1 \in 1 .. Len(Q)
        BY <2>3, <2>8, <3>2
      <4> QED  BY <2>7, <2>8, <4>1
    <3> QED  BY <3>1, <3>2
  <2> QED  BY <1>2, <2>1, <2>8, <2>10, <2>11 DEF X
<1> QED  BY <1>1, <1>2
(* The first k records of that log: the units W, which lack the last rows  *)
(* of V and none of its brackets, and records T nothing is made of.        *)
CutIs(e, C, V, k, p, W, T, Y) ==
    /\ W \in Seq(WholeUnits(AnyRow, C)) /\ T \in Seq(Entry(AnyRow)) /\ Y \in Seq(AnyRow)
    /\ SubSeq(e, 1, k) = Encoded(W) \o T /\ Undecided(T, C) /\ Untorn(T)
    /\ Carried(V) = Carried(W) \o Y
    /\ Len(Y) <= p /\ (k = Len(e) => Y = << >>)
    /\ \A i \in 1 .. Len(V) : V[i].bracket => \E j \in 1 .. Len(W) : W[j] = V[i]

LEMMA PrefixOfTwo ==
    ASSUME NEW X, NEW a \in Seq(X), NEW b \in Seq(X), NEW k \in Nat, k <= Len(a \o b)
    PROVE  /\ k <= Len(a) => SubSeq(a \o b, 1, k) = SubSeq(a, 1, k)
           /\ k >= Len(a) => SubSeq(a \o b, 1, k) = a \o SubSeq(b, 1, k - Len(a))
<1> DEFINE c == a \o b
<1>1. /\ c \in Seq(X) /\ Len(c) = Len(a) + Len(b) /\ Len(a) \in Nat /\ Len(b) \in Nat
      /\ \A i \in 1 .. Len(a) : c[i] = a[i]
      /\ \A i \in Len(a) + 1 .. Len(a) + Len(b) : c[i] = b[i - Len(a)]
  BY ConcatProperties
<1> HIDE DEF c
<1>2. SubSeq(c, 1, k) \in Seq(X) /\ Len(SubSeq(c, 1, k)) = k
      /\ \A i \in 1 .. k : SubSeq(c, 1, k)[i] = c[i]
  <2>1. \A i \in 1 .. k : c[i] \in X
    BY <1>1, ElementOfSeq DEF c
  <2>2. k <= Len(c)
    BY DEF c
  <2> QED  BY <1>1, <2>1, <2>2, SubSeqProperties, PrefixTyped
<1>3. ASSUME k <= Len(a) PROVE SubSeq(c, 1, k) = SubSeq(a, 1, k)
  <2>1. SubSeq(a, 1, k) \in Seq(X) /\ Len(SubSeq(a, 1, k)) = k
        /\ \A i \in 1 .. k : SubSeq(a, 1, k)[i] = a[i]
    BY <1>1, <1>3
  <2>2. \A i \in 1 .. k : SubSeq(c, 1, k)[i] = SubSeq(a, 1, k)[i]
    BY <1>1, <1>2, <1>3, <2>1
  <2> DEFINE x == SubSeq(c, 1, k)
             y == SubSeq(a, 1, k)
  <2>3. x \in Seq(X) /\ y \in Seq(X) /\ Len(x) = Len(y) /\ \A i \in 1 .. Len(x) : x[i] = y[i]
    BY <1>2, <2>1, <2>2
  <2> HIDE DEF x, y
  <2>4. x = y
    BY <2>3, SeqEqual
  <2> QED  BY <2>4 DEF x, y
<1>4. ASSUME k >= Len(a) PROVE SubSeq(c, 1, k) = a \o SubSeq(b, 1, k - Len(a))
  <2> DEFINE n == k - Len(a)
             z == SubSeq(b, 1, n)
             x == SubSeq(c, 1, k)
             y == a \o z
  <2>1. n \in Nat /\ n <= Len(b) /\ k = Len(a) + n
    BY <1>1, <1>4 DEF c
  <2> HIDE DEF n
  <2>2. z \in Seq(X) /\ Len(z) = n /\ \A i \in 1 .. n : z[i] = b[i]
    BY <1>1, <2>1
  <2> HIDE DEF z
  <2>3. /\ y \in Seq(X) /\ Len(y) = Len(a) + n
        /\ \A i \in 1 .. Len(a) : y[i] = a[i]
        /\ \A i \in Len(a) + 1 .. Len(a) + n : y[i] = z[i - Len(a)]
    <3>1. z \in Seq(X) /\ a \in Seq(X)
      BY <2>2
    <3>2. /\ y \in Seq(X) /\ Len(y) = Len(a) + Len(z)
          /\ \A i \in 1 .. Len(a) : y[i] = a[i]
          /\ \A i \in Len(a) + 1 .. Len(a) + Len(z) : y[i] = z[i - Len(a)]
      BY <3>1, ConcatProperties
    <3> QED  BY <2>2, <3>2
  <2> HIDE DEF y
  <2>4. x \in Seq(X) /\ Len(x) = k /\ \A i \in 1 .. k : x[i] = c[i]
    BY <1>2
  <2> HIDE DEF x
  <2>5. ASSUME NEW i \in 1 .. k PROVE x[i] = y[i]
    <3>1. CASE i \in 1 .. Len(a)
      BY <1>1, <2>3, <2>4, <3>1
    <3>2. CASE i \notin 1 .. Len(a)
      <4>1. /\ i \in Len(a) + 1 .. Len(a) + n /\ i \in Len(a) + 1 .. Len(a) + Len(b)
            /\ i - Len(a) \in 1 .. n
        BY <1>1, <2>1, <3>2
      <4> QED  BY <1>1, <2>2, <2>3, <2>4, <4>1
    <3> QED  BY <3>1, <3>2
  <2>6. x = y
    BY <1>1, <2>1, <2>3, <2>4, <2>5, SeqEqual
  <2> QED  BY <2>6 DEF x, y, z, n
<1> QED  BY <1>3, <1>4 DEF c

LEMMA LogCut ==
    ASSUME NEW d, NEW s, NEW o, IsOperation(o), NEW open \in BOOLEAN, NEW p, NEW V, NEW Q,
           LogIs(d, s, o, open, p, V, Q), OpenFit(d, o, open), IsDisk(d),
           NEW k \in d.wal.synced .. Len(d.wal.entries)
    PROVE  \E W, T, Y : CutIs(d.wal.entries, CommittedSupersessions(d), V, k, p, W, T, Y)
<1> DEFINE C == CommittedSupersessions(d)
           X == Entry(AnyRow)
           e == d.wal.entries
           E == Encoded(V)
           O == OpenTail(o, open, Q)
<1>1. /\ V \in Seq(WholeUnits(AnyRow, C)) /\ Q \in Seq(AnyRow)
      /\ e = E \o O /\ p \in 0 .. Len(V) /\ TailPlain(V, p)
      /\ Len(E) <= d.wal.synced + p
      /\ Len(Q) = (IF open THEN o.total - o.left ELSE 0)
  BY DEF LogIs
<1>2. O \in Seq(X) /\ Undecided(O, C) /\ Untorn(O)
  <2>1. o.sequence \in Nat /\ o.total \in Nat /\ o.left \in Nat
    BY OperationParts
  <2>2. open => o.sequence \notin C /\ Len(Q) <= o.total
    BY <1>1, <2>1 DEF OpenFit
  <2> HIDE DEF C
  <2> QED  BY <1>1, <2>1, <2>2, TailFits
<1>3. E \in Seq(X) /\ Len(V) <= Len(E)
  BY <1>1, EncodedWhole, Zenon DEF C
<1>4. d.wal.synced \in Nat /\ Len(e) \in Nat
  BY DiskParts, LogParts
<1> HIDE DEF C, X, E, O, e
<1>5. Len(E) \in Nat /\ Len(V) \in Nat /\ Len(e) = Len(E) + Len(O) /\ Len(O) \in Nat
  BY <1>1, <1>2, <1>3
<1>6. k \in Nat /\ k <= Len(e) /\ d.wal.synced <= k
  BY <1>4 DEF e
<1>7. CASE k >= Len(E)
  <2> DEFINE T == SubSeq(O, 1, k - Len(E))
  <2>1. k - Len(E) \in 0 .. Len(O)
    BY <1>5, <1>6, <1>7
  <2>2. Undecided(T, C) /\ T \in Seq(X)
    BY <1>2, <2>1, UndecidedPrefix DEF X
  <2>3. Untorn(T)
    BY <1>2, <1>5, <2>1 DEF Untorn
  <2>4. SubSeq(e, 1, k) = E \o T
    BY <1>1, <1>2, <1>3, <1>6, <1>7, PrefixOfTwo
  <2>5. Carried(V) = Carried(V) \o << >>
    <3>1. Carried(V) \in Seq(AnyRow)
      BY <1>1, CountsCarried
    <3> QED  BY <3>1, ConcatEmptySeq
  <2>6. << >> \in Seq(AnyRow) /\ Len(<< >>) <= p
    BY <1>1
  <2> HIDE DEF T
  <2>7. CutIs(e, C, V, k, p, V, T, << >>)
    BY <1>1, <2>2, <2>3, <2>4, <2>5, <2>6 DEF CutIs, X, E
  <2> QED  BY <2>7 DEF e, C
<1>8. CASE k < Len(E)
  <2>1. Len(E) - p <= k /\ k <= Len(E) /\ p \in 0 .. Len(V)
    BY <1>1, <1>4, <1>5, <1>6, <1>8
  <2>2. CutsAt(V, k, AnyRow, C)
    BY <1>1, <1>6, <2>1, PlainCut DEF E
  <2>3. PICK W \in Seq(WholeUnits(AnyRow, C)), Y \in Seq(AnyRow) :
          /\ SubSeq(E, 1, k) = Encoded(W)
          /\ Carried(V) = Carried(W) \o Y
          /\ Len(Y) = Len(E) - k
          /\ \A i \in 1 .. Len(V) : V[i].bracket => \E j \in 1 .. Len(W) : W[j] = V[i]
    BY <2>2 DEF CutsAt, E
  <2>4. SubSeq(e, 1, k) = SubSeq(E, 1, k)
    BY <1>1, <1>2, <1>3, <1>6, <2>1, PrefixOfTwo
  <2>5. Encoded(W) \in Seq(X)
    BY <2>3, EncodedWhole, Zenon DEF X
  <2>6. SubSeq(e, 1, k) = Encoded(W) \o << >>
    BY <2>3, <2>4, <2>5, ConcatEmptySeq
  <2>7. << >> \in Seq(X) /\ Undecided(<< >>, C) /\ Untorn(<< >>)
    BY DEF Undecided, Untorn
  <2>8. Len(Y) <= p /\ k # Len(e)
    BY <1>1, <1>5, <1>8, <2>1, <2>3
  <2>9. CutIs(e, C, V, k, p, W, << >>, Y)
    BY <2>3, <2>6, <2>7, <2>8 DEF CutIs, X
  <2> QED  BY <2>9 DEF e, C
<1> QED  BY <1>5, <1>6, <1>7, <1>8
----------------------------------------------------------------------------
\* What an open makes of the disk a crash leaves.

\* The segments hold the frozen rows of s; or the first segment is there and
\* listed, though the manifest does not name it yet.
ReadsBack(d, s) == Extent(d) = Len(s.frozen) /\ FrozenRows(d) = s.frozen

ReadsAhead(d, s) ==
    /\ s.frozen = << >> /\ Extent(d) = Len(s.buffer)
    /\ FrozenRows(d) = [i \in 1 .. Len(s.buffer) |->
                          [row |-> s.buffer[i], born |-> BufferBirth(s, i)]]

\* The recovered rows are those owed at some coordinate from done on, or
\* where a supersession may be torn, at least those.
Recovers(d, t, done, torn) ==
    \E cut \in done .. t.next :
        LET found == Latest(Recovered(d))
        IN  IF torn THEN Owed(t, cut) \subseteq found ELSE found = Owed(t, cut)

LEMMA RowsBack ==
    ASSUME NEW d, Sound(d, AnyRow), d.wal \in Log(AnyRow),
           NEW s, WellFormed(s, AnyRow), DOMAIN Tombstones(d) = Dead(s),
           FrozenRows(d) = s.frozen,
           NEW Y \in Seq(AnyRow), s.buffer = Carried(ReplayUnits(d)) \o Y
    PROVE  /\ Latest(Recovered(d)) = FirstRows(s, RowCount(s) - Len(Y))
           /\ RowCount(s) \in Nat /\ Len(Y) <= RowCount(s)
<1> DEFINE r == Recovered(d)
           B == Carried(ReplayUnits(d))
           F == s.frozen
<1>1. /\ F \in Seq([row : AnyRow, born : Nat]) /\ B \in Seq(AnyRow)
      /\ RowCount(r) = Len(F) + Len(B)
      /\ Dead(r) = Dead(s)
      /\ \A id \in 0 .. Len(F) + Len(B) - 1 :
            RowAt(r, id) = IF id < Len(F) THEN F[id + 1].row ELSE B[id - Len(F) + 1]
  BY RecoveredRows
<1>2. Len(F) \in Nat /\ Len(B) \in Nat /\ Len(Y) \in Nat
  BY <1>1
<1> DEFINE A == s.buffer
<1>3. A = B \o Y /\ s.frozen = F
  OBVIOUS
<1>4. /\ RowCount(s) = Len(F) + Len(A)
      /\ \A id : RowAt(s, id) = IF id < Len(F) THEN F[id + 1].row ELSE A[id - Len(F) + 1]
  BY DEF RowCount, RowAt
<1> HIDE DEF r, B, F, A
<1>5. /\ Len(A) = Len(B) + Len(Y) /\ \A i \in 1 .. Len(B) : A[i] = B[i]
      /\ RowCount(s) = Len(F) + Len(B) + Len(Y)
  BY <1>1, <1>2, <1>3, <1>4, ConcatProperties
<1>6. ASSUME NEW id \in 0 .. RowCount(r) - 1 PROVE RowAt(r, id) = RowAt(s, id)
  <2>1. CASE id < Len(F)
    <3>1. RowAt(s, id) = F[id + 1].row
      BY <1>4, <2>1
    <3>2. id \in 0 .. Len(F) + Len(B) - 1
      BY <1>1
    <3>3. RowAt(r, id) = F[id + 1].row
      BY <1>1, <2>1, <3>2
    <3> QED  BY <3>1, <3>3
  <2>2. CASE ~(id < Len(F))
    <3>1. id - Len(F) + 1 \in 1 .. Len(B) /\ id \in 0 .. Len(F) + Len(B) - 1
      BY <1>1, <1>2, <2>2
    <3> DEFINE k == id - Len(F) + 1
    <3>2. RowAt(r, id) = B[k]
      BY <1>1, <2>2, <3>1
    <3>3. RowAt(s, id) = A[k]
      BY <1>4, <2>2
    <3> HIDE DEF k
    <3>4. k \in 1 .. Len(B)
      BY <3>1 DEF k
    <3> QED  BY <1>5, <3>2, <3>3, <3>4
  <2> QED  BY <2>1, <2>2
<1>7. Latest(r) = FirstRows(s, RowCount(r))
  <2>1. RowCount(r) \in Nat /\ RowCount(s) \in Nat /\ RowCount(r) <= RowCount(s)
    BY <1>1, <1>2, <1>5
  <2> QED  BY <1>1, <1>6, <2>1, LatestAre
<1>8. RowCount(r) = RowCount(s) - Len(Y) /\ RowCount(s) \in Nat /\ Len(Y) <= RowCount(s)
  BY <1>1, <1>2, <1>5
<1> QED  BY <1>7, <1>8 DEF r

LEMMA RowsAhead ==
    ASSUME NEW d, Sound(d, AnyRow), d.wal \in Log(AnyRow),
           NEW s, WellFormed(s, AnyRow), DOMAIN Tombstones(d) = Dead(s),
           ReadsAhead(d, s), ReplayUnits(d) = << >>
    PROVE  /\ Latest(Recovered(d)) = FirstRows(s, RowCount(s))
           /\ RowCount(s) \in Nat
<1> DEFINE r == Recovered(d)
           F == FrozenRows(d)
           n == Len(s.buffer)
<1>1. Carried(ReplayUnits(d)) = << >>
  BY CarriedNone
<1>2. /\ F \in Seq([row : AnyRow, born : Nat])
      /\ RowCount(r) = Len(F) + Len(<< >>)
      /\ Dead(r) = Dead(s)
      /\ \A id \in 0 .. Len(F) + Len(<< >>) - 1 :
            RowAt(r, id) = IF id < Len(F) THEN F[id + 1].row ELSE << >>[id - Len(F) + 1]
  BY <1>1, RecoveredRows
<1>3. n \in Nat /\ Len(F) = n /\ \A i \in 1 .. n : F[i].row = s.buffer[i]
  <2>1. n \in Nat
    BY FieldTypes DEF WellFormed
  <2>2. F = [i \in 1 .. n |-> [row |-> s.buffer[i], born |-> BufferBirth(s, i)]]
    BY DEF ReadsAhead
  <2> HIDE DEF F, n
  <2>3. DOMAIN F = 1 .. n /\ \A i \in 1 .. n : F[i].row = s.buffer[i]
    BY <2>2 DEF n
  <2> QED  BY <1>2, <2>1, <2>3, LenProperties
<1>4. /\ Len(<< >>) = 0 /\ RowCount(s) = n
      /\ \A id : RowAt(s, id) = IF id < 0 THEN << >>[id + 1].row ELSE s.buffer[id - 0 + 1]
  <2>1. s.frozen = << >> /\ Len(<< >>) = 0
    BY DEF ReadsAhead
  <2>2. \A id : RowAt(s, id) = IF id < 0 THEN << >>[id + 1].row ELSE s.buffer[id - 0 + 1]
    BY <2>1 DEF RowAt
  <2>3. RowCount(s) = 0 + n
    BY <2>1 DEF RowCount
  <2> QED  BY <1>3, <2>1, <2>2, <2>3
<1> DEFINE A == s.buffer
<1>5. RowCount(r) = n
  <2> HIDE DEF r, F, n
  <2> QED  BY <1>2, <1>3, <1>4
<1> HIDE DEF r, F, n, A
<1>6. ASSUME NEW id \in 0 .. n - 1 PROVE RowAt(r, id) = RowAt(s, id)
  <2>1. id \in Int /\ id < Len(F) /\ id + 1 \in 1 .. n /\ ~(id < 0) /\ id - 0 + 1 = id + 1
        /\ id \in 0 .. Len(F) + 0 - 1
    BY <1>3
  <2>2. RowAt(r, id) = F[id + 1].row
    BY <1>2, <1>4, <2>1
  <2>3. RowAt(s, id) = A[id + 1]
    BY <1>4, <2>1 DEF A
  <2>4. F[id + 1].row = A[id + 1]
    BY <1>3, <2>1 DEF A
  <2> QED  BY <2>2, <2>3, <2>4
<1>7. Latest(r) = FirstRows(s, RowCount(r))
  BY <1>2, <1>3, <1>4, <1>5, <1>6, LatestAre
<1> QED  BY <1>3, <1>4, <1>5, <1>7 DEF r
\* The evidence that the supersession at coordinate q is whole: a row of a
\* segment, a unit that replays, the bracket among the synced records.
FrozenFinds(d, q) == \E i \in 1 .. Len(FrozenRows(d)) : FrozenRows(d)[i].born = q

UnitFinds(V, q) == \E i \in 1 .. Len(V) : V[i].bracket /\ V[i].sequence = q

(* What the open of disk d finds: units that are whole, rows or a unit for *)
(* every supersession that committed, the records of it synced; and the    *)
(* rows owed.                                                              *)
Finds(d, t, done, torn) ==
    /\ ReplayUnits(d) \in Seq(WholeUnits(AnyRow, CommittedSupersessions(d)))
    /\ \A q \in CommittedSupersessions(d) :
          /\ FrozenFinds(d, q) \/ UnitFinds(ReplayUnits(d), q)
          /\ FrozenFinds(d, q) \/ BracketWithin(d.wal.entries, q, d.wal.synced)
    /\ Recovers(d, t, done, torn)

LEMMA SeenInBuffer ==
    ASSUME NEW d, NEW s, WellFormed(s, AnyRow), ReadsAhead(d, s), NEW q, Seen(s, q)
    PROVE  FrozenFinds(d, q)
<1> DEFINE n == Len(s.buffer)
<1>1. PICK id \in Ids(s) : Born(s, id) = q
  BY DEF Seen
<1>2. s.frozen = << >> /\ Len(s.frozen) = 0 /\ n \in Nat
  BY FieldTypes DEF ReadsAhead, WellFormed
<1>3. id \in 0 .. 0 + n - 1
  BY <1>1, <1>2 DEF Ids, RowCount
<1>4. id + 1 \in 1 .. n /\ ~(id < 0) /\ id - 0 + 1 = id + 1
  BY <1>2, <1>3
<1>5. Born(s, id) = BufferBirth(s, id + 1)
  <2>1. Born(s, id) = BufferBirth(s, id - 0 + 1)
    BY <1>2, <1>4 DEF Born
  <2> QED  BY <1>4, <2>1
<1> DEFINE F == FrozenRows(d)
<1>6. F = [i \in 1 .. n |-> [row |-> s.buffer[i], born |-> BufferBirth(s, i)]]
  BY DEF ReadsAhead
<1> HIDE DEF F, n
<1>7. DOMAIN F = 1 .. n /\ F[id + 1].born = q
  BY <1>1, <1>4, <1>5, <1>6
<1>8. Len(F) = n
  <2> DEFINE g(i) == [row |-> s.buffer[i], born |-> BufferBirth(s, i)]
  <2>1. F = [i \in 1 .. n |-> g(i)]
    BY <1>6
  <2> HIDE DEF g
  <2>2. F \in [1 .. n -> {g(i) : i \in 1 .. n}]
    BY <2>1
  <2> QED  BY <1>2, <2>2, FunctionIsSeq
<1>9. \E i \in 1 .. Len(F) : F[i].born = q
  BY <1>4, <1>7, <1>8
<1> QED  BY <1>9 DEF FrozenFinds, F

\* Where a replay brings back all the rows of s but the last Y.
LEMMA RecoversBut ==
    ASSUME NEW e, Sound(e, AnyRow), e.wal \in Log(AnyRow),
           NEW s, WellFormed(s, AnyRow), DOMAIN Tombstones(e) = Dead(s),
           FrozenRows(e) = s.frozen,
           NEW Z \in Seq(AnyRow), s.buffer = Carried(ReplayUnits(e)) \o Z,
           NEW n0, NEW t, NEW done, SettledAt(s, n0, t, done),
           NEW n \in Nat, n <= t.next - done, Len(Z) = n0 + n
    PROVE  /\ Recovers(e, t, done, FALSE)
           /\ n = 0 => Recovers(e, t, t.next, FALSE)
<1>1. Latest(Recovered(e)) = FirstRows(s, RowCount(s) - Len(Z)) /\ RowCount(s) \in Nat
  BY RowsBack
<1>2. n0 \in Nat /\ t.next \in Nat /\ done \in 0 .. t.next
  BY DEF SettledAt
<1> DEFINE cut == t.next - n
<1>3. cut \in done .. t.next /\ RowCount(s) - n0 - (t.next - cut) = RowCount(s) - Len(Z)
  BY <1>1, <1>2
<1>4. n = 0 => cut \in t.next .. t.next
  BY <1>2
<1> HIDE DEF cut
<1>5. Latest(Recovered(e)) = Owed(t, cut)
  BY <1>1, <1>3, SettledOwed
<1> QED  BY <1>3, <1>4, <1>5 DEF Recovers

LEMMA RecoversAll ==
    ASSUME NEW e, Sound(e, AnyRow), e.wal \in Log(AnyRow),
           NEW s, WellFormed(s, AnyRow), DOMAIN Tombstones(e) = Dead(s),
           ReadsAhead(e, s), ReplayUnits(e) = << >>,
           NEW n0, NEW t, NEW done, SettledAt(s, n0, t, done)
    PROVE  /\ n0 = 0 => Recovers(e, t, t.next, FALSE) /\ Recovers(e, t, done, FALSE)
           /\ Recovers(e, t, done, TRUE)
<1>1. Latest(Recovered(e)) = FirstRows(s, RowCount(s)) /\ RowCount(s) \in Nat
  BY RowsAhead
<1>2. n0 \in Nat /\ t.next \in Nat /\ done \in 0 .. t.next
  BY DEF SettledAt
<1>3. t.next \in done .. t.next /\ t.next \in t.next .. t.next
      /\ RowCount(s) - n0 - (t.next - t.next) = RowCount(s) - n0
  BY <1>1, <1>2
<1>4. Owed(t, t.next) = FirstRows(s, RowCount(s) - n0)
  BY <1>3, SettledOwed
<1>5. FirstRows(s, RowCount(s) - n0) \subseteq FirstRows(s, RowCount(s))
  BY <1>1, <1>2, FirstRowsMore
<1>6. n0 = 0 => RowCount(s) - n0 = RowCount(s)
  BY <1>1
<1> QED  BY <1>1, <1>3, <1>4, <1>5, <1>6 DEF Recovers

\* Some rows fewer than are there may be owed.
LEMMA RecoversTorn ==
    ASSUME NEW e, NEW t, NEW done, Recovers(e, t, done, FALSE)
    PROVE  Recovers(e, t, done, TRUE)
BY DEF Recovers
LEMMA WithinPrefix ==
    ASSUME NEW X, NEW e \in Seq(X), NEW k \in Nat, k <= Len(e), NEW q,
           BracketWithin(SubSeq(e, 1, k), q, k)
    PROVE  BracketWithin(e, q, k)
<1> DEFINE f == SubSeq(e, 1, k)
<1>1. \A i \in 1 .. k : f[i] = e[i]
  OBVIOUS
<1> HIDE DEF f
<1>2. BracketWithin(f, q, k)
  BY DEF f
<1> QED  BY <1>1, <1>2 DEF BracketWithin

\* A log that is cut, and what still finds the supersessions in it.
LEMMA CutFinds ==
    ASSUME NEW e, NEW C, NEW V, NEW k \in Nat, NEW p, NEW W, NEW T, NEW Y,
           CutIs(e, C, V, k, p, W, T, Y), e \in Seq(Entry(AnyRow)), k <= Len(e),
           NEW q, UnitFinds(V, q)
    PROVE  UnitFinds(W, q) /\ BracketWithin(SubSeq(e, 1, k), q, k) /\ BracketWithin(e, q, k)
<1> DEFINE X == Entry(AnyRow)
           E == Encoded(W)
<1>1. /\ W \in Seq(WholeUnits(AnyRow, C)) /\ T \in Seq(X)
      /\ SubSeq(e, 1, k) = E \o T
      /\ \A i \in 1 .. Len(V) : V[i].bracket => \E j \in 1 .. Len(W) : W[j] = V[i]
  BY DEF CutIs
<1>2. PICK i \in 1 .. Len(V) : V[i].bracket /\ V[i].sequence = q
  BY DEF UnitFinds
<1>3. PICK j \in 1 .. Len(W) : W[j] = V[i]
  BY <1>1, <1>2
<1>4. W[j].bracket /\ W[j].sequence = q
  BY <1>2, <1>3
<1>5. E \in Seq(X) /\ BracketWithin(E, q, Len(E))
  BY <1>1, <1>3, <1>4, EncodedWhole
<1>6. Len(E \o T) = k
  BY <1>1, PrefixTyped
<1> HIDE DEF E
<1>7. BracketWithin(E \o T, q, Len(E \o T))
  <2>1. Len(E) \in 0 .. Len(E)
    BY <1>5
  <2> QED  BY <1>1, <1>5, <2>1, WithinMore DEF X
<1>8. BracketWithin(SubSeq(e, 1, k), q, k)
  BY <1>1, <1>6, <1>7
<1>9. BracketWithin(e, q, k)
  BY <1>8, WithinPrefix
<1> QED  BY <1>3, <1>4, <1>8, <1>9 DEF UnitFinds

LEMMA AssociatedRows ==
    ASSUME NEW X, NEW a \in Seq(X), NEW b \in Seq(X), NEW c \in Seq(X)
    PROVE  /\ (a \o b) \o c = a \o (b \o c) /\ b \o c \in Seq(X)
           /\ Len(b \o c) = Len(b) + Len(c) /\ Len(a \o b) = Len(a) + Len(b)
           /\ Len(a) \in Nat /\ Len(b) \in Nat /\ Len(c) \in Nat
           /\ a \o << >> = a
OBVIOUS

(* A crash beside a log that is kept: the rows owed come back, and the     *)
(* evidence of every supersession that committed.                          *)
LEMMA CrashKeepsLog ==
    ASSUME NEW d, IsDisk(d), Sound(d, AnyRow),
           NEW s, WellFormed(s, AnyRow), DOMAIN Tombstones(d) = Dead(s),
           NEW o, IsOperation(o), NEW open \in BOOLEAN, OpenFit(d, o, open),
           NEW t, NEW done, NEW V, NEW Q, LogIs(d, s, o, open, t.next - done, V, Q),
           SettledAt(s, Len(Q), t, done),
           ReadsBack(d, s) \/ (ReadsAhead(d, s) /\ ~open),
           NEW k \in d.wal.synced .. Len(d.wal.entries)
    PROVE  /\ Finds(CutDisk(d, k), t, done, FALSE)
           /\ k = Len(d.wal.entries) => Recovers(CutDisk(d, k), t, t.next, FALSE)
           /\ \A q \in CommittedSupersessions(d) :
                 FrozenFinds(d, q) \/ BracketWithin(d.wal.entries, q, d.wal.synced)
<1> DEFINE C == CommittedSupersessions(d)
           e == CutDisk(d, k)
           p == t.next - done
<1>1. /\ V \in Seq(WholeUnits(AnyRow, C)) /\ Q \in Seq(AnyRow)
      /\ d.wal.present /\ d.wal.generation = d.manifest.generation
      /\ d.wal.base = Len(s.frozen)
      /\ s.buffer = Carried(V) \o Q
      /\ Len(Q) = (IF open THEN o.total - o.left ELSE 0)
      /\ d.wal.synced <= Len(d.wal.entries)
      /\ \A i \in 1 .. Len(V) : V[i].bracket => Seen(s, V[i].sequence)
      /\ \A q \in C : FrozenAt(s, q) \/ UnitFinds(V, q)
  BY DEF LogIs, UnitFinds
<1>2. d.wal.synced \in Nat /\ d.wal.entries \in Seq(Entry(AnyRow)) /\ Len(d.wal.entries) \in Nat
  BY DiskParts, LogParts
<1>3. k \in Nat /\ k <= Len(d.wal.entries)
  BY <1>2
<1>4. /\ IsDisk(e) /\ e.manifest = d.manifest /\ e.segments = d.segments
      /\ e.deletes = d.deletes /\ e.history = d.history
      /\ e.wal.entries = SubSeq(d.wal.entries, 1, k) /\ e.wal.synced = k
      /\ e.wal.present = d.wal.present /\ e.wal.generation = d.wal.generation
      /\ e.wal.base = d.wal.base /\ e.wal \in Log(AnyRow)
  BY <1>3, CutParts
<1> HIDE DEF e
<1>5. /\ Extent(e) = Extent(d) /\ FrozenRows(e) = FrozenRows(d)
      /\ Tombstones(e) = Tombstones(d) /\ CommittedSupersessions(e) = C
      /\ Sound(e, AnyRow)
  BY <1>4, SameObjects
<1>6. PICK W, T, Y : CutIs(d.wal.entries, C, V, k, p, W, T, Y)
  BY LogCut DEF C, p
<1>7. /\ W \in Seq(WholeUnits(AnyRow, C)) /\ T \in Seq(Entry(AnyRow)) /\ Y \in Seq(AnyRow)
      /\ e.wal.entries = Encoded(W) \o T /\ Undecided(T, C) /\ Untorn(T)
      /\ Carried(V) = Carried(W) \o Y /\ Carried(W) \in Seq(AnyRow)
      /\ Len(Y) <= p /\ (k = Len(d.wal.entries) => Y = << >>)
  BY <1>4, <1>6, CountsCarried DEF CutIs
<1>8. Len(s.frozen) \in Nat /\ Len(s.buffer) \in Nat
  BY FieldTypes DEF WellFormed
<1>9. Extent(e) \in Nat /\ e.wal.base \in Nat
  BY <1>1, <1>4, <1>5, <1>8 DEF ReadsBack, ReadsAhead
<1>10. /\ Extent(e) = e.wal.base => ReplayUnits(e) = W
       /\ Extent(e) - e.wal.base >= Len(Carried(W)) => ReplayUnits(e) = << >>
  BY <1>1, <1>4, <1>5, <1>7, <1>9, ReplaysWhole
<1>11. \A q \in C : UnitFinds(V, q) => /\ UnitFinds(W, q)
                                       /\ BracketWithin(e.wal.entries, q, e.wal.synced)
  BY <1>2, <1>3, <1>4, <1>6, CutFinds
<1>12. \A q \in C : UnitFinds(V, q) => BracketWithin(d.wal.entries, q, d.wal.synced)
  <2>1. d.wal.synced \in d.wal.synced .. Len(d.wal.entries)
    BY <1>1, <1>2
  <2>2. PICK W0, T0, Y0 : CutIs(d.wal.entries, C, V, d.wal.synced, p, W0, T0, Y0)
    BY <2>1, LogCut DEF C, p
  <2> HIDE DEF C, p
  <2>3. ASSUME NEW q \in C, UnitFinds(V, q)
        PROVE  BracketWithin(d.wal.entries, q, d.wal.synced)
    <3>1. d.wal.synced \in Nat /\ d.wal.synced <= Len(d.wal.entries)
          /\ d.wal.entries \in Seq(Entry(AnyRow))
      BY <1>1, <1>2
    <3> DEFINE n == d.wal.synced
               E == d.wal.entries
    <3>2. CutIs(E, C, V, n, p, W0, T0, Y0) /\ n \in Nat /\ n <= Len(E)
          /\ E \in Seq(Entry(AnyRow))
      BY <2>2, <3>1
    <3> HIDE DEF n, E
    <3>3. BracketWithin(E, q, n)
      BY <2>3, <3>2, CutFinds
    <3> QED  BY <3>3 DEF n, E
  <2> QED  BY <2>3
<1>13. Len(Y) \in Nat /\ Len(Q) \in Nat
  BY <1>1, <1>7
<1> HIDE DEF C, p
<1>14. CASE ReadsBack(d, s)
  <2>1. ReplayUnits(e) = W /\ FrozenRows(e) = s.frozen
    BY <1>1, <1>4, <1>5, <1>10, <1>14 DEF ReadsBack
  <2>2. \A q \in C : FrozenAt(s, q) => FrozenFinds(e, q) /\ FrozenFinds(d, q)
    BY <1>5, <1>14 DEF ReadsBack, FrozenAt, FrozenFinds
  <2>3. s.buffer = Carried(W) \o (Y \o Q) /\ Y \o Q \in Seq(AnyRow)
        /\ Len(Y \o Q) = Len(Q) + Len(Y)
    <3> DEFINE B == Carried(W)
    <3>1. B \in Seq(AnyRow) /\ Y \in Seq(AnyRow) /\ Q \in Seq(AnyRow)
      BY <1>1, <1>7
    <3>2. s.buffer = (B \o Y) \o Q
      BY <1>1, <1>7
    <3> HIDE DEF B
    <3>3. (B \o Y) \o Q = B \o (Y \o Q) /\ Y \o Q \in Seq(AnyRow)
          /\ Len(Y \o Q) = Len(Y) + Len(Q)
      BY <3>1, AssociatedRows
    <3> QED  BY <1>13, <3>2, <3>3 DEF B
  <2>4. Len(Y) <= t.next - done
    BY <1>7 DEF p
  <2>5. Recovers(e, t, done, FALSE) /\ (Len(Y) = 0 => Recovers(e, t, t.next, FALSE))
    BY <1>4, <1>5, <1>13, <2>1, <2>3, <2>4, RecoversBut
  <2>6. k = Len(d.wal.entries) => Len(Y) = 0
    BY <1>7
  <2> QED  BY <1>1, <1>5, <1>7, <1>11, <1>12, <2>1, <2>2, <2>5, <2>6 DEF Finds, C, e
<1>15. CASE ReadsAhead(d, s) /\ ~open
  <2>1. ReadsAhead(e, s) /\ s.frozen = << >> /\ Len(s.frozen) = 0
    BY <1>5, <1>15 DEF ReadsAhead
  <2>2. Len(Q) = 0
    BY <1>1, <1>15
  <2>3. Len(Carried(V)) <= Len(s.buffer) /\ Len(Carried(W)) <= Len(Carried(V))
    <3>1. Carried(V) \in Seq(AnyRow)
      BY <1>1, CountsCarried
    <3> QED  BY <1>1, <1>7, <1>13, <3>1, AssociatedRows
  <2>4. Extent(e) = Len(s.buffer) /\ e.wal.base = 0
    BY <1>1, <1>4, <2>1 DEF ReadsAhead
  <2>5. Len(Carried(W)) \in Nat /\ Len(Carried(V)) \in Nat
    <3>1. Carried(V) \in Seq(AnyRow)
      BY <1>1, CountsCarried
    <3> QED  BY <1>7, <3>1
  <2>6. ReplayUnits(e) = << >>
    <3>1. Extent(e) - e.wal.base >= Len(Carried(W))
      BY <1>8, <2>3, <2>4, <2>5
    <3> QED  BY <1>10, <3>1
  <2>7. Recovers(e, t, done, FALSE) /\ Recovers(e, t, t.next, FALSE)
    BY <1>4, <1>5, <2>1, <2>2, <2>6, RecoversAll
  <2>8. \A q \in C : FrozenFinds(e, q)
    <3> SUFFICES ASSUME NEW q \in C PROVE FrozenFinds(e, q)
      OBVIOUS
    <3>1. ~FrozenAt(s, q)
      BY <2>1 DEF FrozenAt
    <3>2. Seen(s, q)
      BY <1>1, <3>1 DEF UnitFinds
    <3> QED  BY <2>1, <3>2, SeenInBuffer
  <2>9. \A q \in C : FrozenFinds(d, q)
    BY <1>5, <2>8 DEF FrozenFinds
  <2>10. << >> \in Seq(WholeUnits(AnyRow, C))
    OBVIOUS
  <2>11. Finds(e, t, done, FALSE)
    BY <1>5, <2>6, <2>7, <2>8, <2>10 DEF Finds
  <2> QED  BY <2>7, <2>9, <2>11 DEF C, e
<1> QED  BY <1>14, <1>15
(* Behind a flush or a compaction, until the log is reset: none of its     *)
(* rows replays, whatever is left of it.                                   *)
LogSpent(d, s, p) ==
    /\ p = 0 /\ s.buffer = << >>
    /\ \A k \in d.wal.synced .. Len(d.wal.entries) : ReplayUnits(CutDisk(d, k)) = << >>
    /\ \A q \in CommittedSupersessions(d) : FrozenAt(s, q)

\* The rows the supersession under way has appended.
Pending(o, open) == IF open THEN o.total - o.left ELSE 0

\* No log is kept: what is not flushed is promised to nobody.
LogOff(d, s, o, open, p) ==
    /\ ~d.wal.present
    /\ \/ Len(s.buffer) = Pending(o, open) + p
       \/ open /\ o.left = 0 /\ s.buffer = << >> /\ p = 0
    /\ \A q \in CommittedSupersessions(d) : FrozenAt(s, q)

(* Disk and memory hold what the caller was told and promised, in the      *)
(* segments, the delete logs and the log if there is one.                  *)
Backed(d, m, o, open, spent, t, done) ==
    LET s == m.shared
        p == t.next - done
    IN  /\ SettledAt(s, Pending(o, open), t, done)
        /\ DOMAIN Tombstones(d) = Dead(s)
        /\ d.wal.synced <= Len(d.wal.entries)
        /\ \/ m.log = "open" /\ ~spent /\ \E V, Q : LogIs(d, s, o, open, p, V, Q)
           \/ m.log = "open" /\ spent /\ ~open /\ LogSpent(d, s, p)
           \/ m.log = "none" /\ LogOff(d, s, o, open, p)

LEMMA CrashSpent ==
    ASSUME NEW d, IsDisk(d), Sound(d, AnyRow),
           NEW s, WellFormed(s, AnyRow), DOMAIN Tombstones(d) = Dead(s),
           NEW t, NEW done, LogSpent(d, s, t.next - done), SettledAt(s, 0, t, done),
           ReadsBack(d, s),
           NEW k \in d.wal.synced .. Len(d.wal.entries)
    PROVE  /\ Finds(CutDisk(d, k), t, done, FALSE)
           /\ Recovers(CutDisk(d, k), t, t.next, FALSE)
           /\ \A q \in CommittedSupersessions(d) : FrozenFinds(d, q)
<1> DEFINE C == CommittedSupersessions(d)
           e == CutDisk(d, k)
<1>1. k \in Nat /\ k <= Len(d.wal.entries)
  <2>1. d.wal.synced \in Nat /\ Len(d.wal.entries) \in Nat
    BY DiskParts, LogParts
  <2> QED  BY <2>1
<1>2. /\ e.manifest = d.manifest /\ e.segments = d.segments
      /\ e.deletes = d.deletes /\ e.history = d.history /\ e.wal \in Log(AnyRow)
  BY <1>1, CutParts
<1>3. /\ ReplayUnits(e) = << >> /\ s.buffer = << >>
      /\ \A q \in C : FrozenAt(s, q)
  BY DEF LogSpent
<1> HIDE DEF e, C
<1>4. /\ FrozenRows(e) = FrozenRows(d) /\ Tombstones(e) = Tombstones(d)
      /\ CommittedSupersessions(e) = C /\ Sound(e, AnyRow)
  BY <1>2, SameObjects DEF C
<1>5. FrozenRows(e) = s.frozen /\ FrozenRows(d) = s.frozen
  BY <1>4 DEF ReadsBack
<1>6. \A q \in C : FrozenFinds(e, q) /\ FrozenFinds(d, q)
  BY <1>3, <1>5 DEF FrozenAt, FrozenFinds
<1>7. << >> \in Seq(AnyRow) /\ s.buffer = Carried(ReplayUnits(e)) \o << >> /\ Len(<< >>) = 0 + 0
  BY <1>3, CarriedNone
<1>8. 0 \in Nat /\ 0 <= t.next - done
  BY DEF SettledAt
<1>9. Recovers(e, t, done, FALSE) /\ Recovers(e, t, t.next, FALSE)
  BY <1>2, <1>4, <1>5, <1>7, <1>8, RecoversBut
<1>10. << >> \in Seq(WholeUnits(AnyRow, C))
  OBVIOUS
<1>11. Finds(e, t, done, FALSE)
  BY <1>3, <1>4, <1>6, <1>9, <1>10 DEF Finds
<1> QED  BY <1>6, <1>9, <1>11 DEF e, C

LEMMA CrashOff ==
    ASSUME NEW d, IsDisk(d), Sound(d, AnyRow),
           NEW s, WellFormed(s, AnyRow), DOMAIN Tombstones(d) = Dead(s),
           NEW o, NEW open \in BOOLEAN,
           NEW t, NEW done, LogOff(d, s, o, open, t.next - done),
           SettledAt(s, Pending(o, open), t, done),
           NEW torn \in BOOLEAN, open /\ o.left = 0 => torn,
           ReadsBack(d, s) \/ (ReadsAhead(d, s) /\ (open => o.left = 0)),
           NEW k \in d.wal.synced .. Len(d.wal.entries)
    PROVE  /\ Finds(CutDisk(d, k), t, done, torn)
           /\ \A q \in CommittedSupersessions(d) : FrozenFinds(d, q)
<1> DEFINE C == CommittedSupersessions(d)
           e == CutDisk(d, k)
           n0 == Pending(o, open)
           p == t.next - done
<1>1. k \in Nat /\ k <= Len(d.wal.entries)
  <2>1. d.wal.synced \in Nat /\ Len(d.wal.entries) \in Nat
    BY DiskParts, LogParts
  <2> QED  BY <2>1
<1>2. /\ e.manifest = d.manifest /\ e.segments = d.segments
      /\ e.deletes = d.deletes /\ e.history = d.history /\ e.wal \in Log(AnyRow)
      /\ e.wal.present = d.wal.present
  BY <1>1, CutParts
<1> HIDE DEF e
<1>3. ReplayUnits(e) = << >>
  BY <1>2 DEF LogOff, ReplayUnits
<1>4. /\ FrozenRows(e) = FrozenRows(d) /\ Tombstones(e) = Tombstones(d)
      /\ CommittedSupersessions(e) = C /\ Sound(e, AnyRow) /\ Extent(e) = Extent(d)
  BY <1>2, SameObjects
<1>5. /\ \A q \in C : FrozenAt(s, q)
      /\ \/ Len(s.buffer) = n0 + p
         \/ open /\ o.left = 0 /\ s.buffer = << >> /\ p = 0
  BY DEF LogOff
<1>6. n0 \in Nat /\ t.next \in Nat /\ done \in 0 .. t.next /\ p \in Nat
      /\ n0 + p <= RowCount(s)
  BY DEF SettledAt
<1>7. s.buffer \in Seq(AnyRow) /\ s.buffer = Carried(ReplayUnits(e)) \o s.buffer
  <2> DEFINE b == s.buffer
  <2>1. b \in Seq(AnyRow)
    BY FieldTypes DEF WellFormed
  <2>2. Carried(ReplayUnits(e)) = << >>
    BY <1>3, CarriedNone
  <2> HIDE DEF b
  <2>3. << >> \o b = b
    BY <2>1, ConcatEmptySeq
  <2> QED  BY <2>1, <2>2, <2>3 DEF b
<1> HIDE DEF C, n0, p
<1>8. << >> \in Seq(WholeUnits(AnyRow, C))
  OBVIOUS
<1>9. CASE ReadsBack(d, s)
  <2>1. FrozenRows(e) = s.frozen /\ FrozenRows(d) = s.frozen
    BY <1>4, <1>9 DEF ReadsBack
  <2>2. \A q \in C : FrozenFinds(e, q) /\ FrozenFinds(d, q)
    BY <1>5, <2>1 DEF FrozenAt, FrozenFinds
  <2>3. Recovers(e, t, done, torn)
    <3>1. CASE Len(s.buffer) = n0 + p
      <4>1. p \in Nat /\ p <= t.next - done /\ SettledAt(s, n0, t, done)
        BY <1>6 DEF p, n0
      <4>2. Recovers(e, t, done, FALSE)
        BY <1>2, <1>4, <1>7, <2>1, <3>1, <4>1, RecoversBut
      <4> QED  BY <4>2, RecoversTorn
    <3>2. CASE open /\ o.left = 0 /\ s.buffer = << >> /\ p = 0
      <4>1. Latest(Recovered(e)) = FirstRows(s, RowCount(s) - Len(s.buffer)) /\ RowCount(s) \in Nat
        BY <1>2, <1>4, <1>7, <2>1, RowsBack
      <4>2. Len(s.buffer) = 0
        BY <3>2
      <4>3. t.next \in done .. t.next /\ RowCount(s) - n0 - (t.next - t.next) = RowCount(s) - n0
            /\ RowCount(s) - Len(s.buffer) = RowCount(s)
        BY <1>6, <4>1, <4>2
      <4>4. Owed(t, t.next) = FirstRows(s, RowCount(s) - n0)
        BY <4>3, SettledOwed DEF n0
      <4>5. FirstRows(s, RowCount(s) - n0) \subseteq FirstRows(s, RowCount(s))
        BY <1>6, <4>1, FirstRowsMore
      <4> QED  BY <3>2, <4>1, <4>3, <4>4, <4>5 DEF Recovers
    <3> QED  BY <1>5, <3>1, <3>2
  <2>4. Finds(e, t, done, torn)
    BY <1>3, <1>4, <1>8, <2>2, <2>3 DEF Finds
  <2> QED  BY <2>2, <2>4 DEF e, C
<1>10. CASE ReadsAhead(d, s) /\ (open => o.left = 0)
  <2>1. ReadsAhead(e, s) /\ s.frozen = << >> /\ Len(s.frozen) = 0
    BY <1>4, <1>10 DEF ReadsAhead
  <2>2. \A q \in C : FrozenFinds(e, q) /\ FrozenFinds(d, q)
    BY <1>5, <2>1 DEF FrozenAt
  <2>3. Recovers(e, t, done, torn)
    <3>1. SettledAt(s, n0, t, done)
      BY DEF n0
    <3>2. (n0 = 0 => Recovers(e, t, done, FALSE)) /\ Recovers(e, t, done, TRUE)
      BY <1>2, <1>3, <1>4, <2>1, <3>1, RecoversAll
    <3>3. torn \/ n0 = 0
      BY <1>10 DEF n0, Pending
    <3>4. n0 = 0 => Recovers(e, t, done, torn)
      BY <3>2, RecoversTorn
    <3> QED  BY <3>2, <3>3, <3>4
  <2>4. Finds(e, t, done, torn)
    BY <1>3, <1>4, <1>8, <2>2, <2>3 DEF Finds
  <2> QED  BY <2>2, <2>4 DEF e, C
<1> QED  BY <1>9, <1>10
\* A crash beside the disk and the memory of a store that serves.
LEMMA CrashFinds ==
    ASSUME NEW d, IsDisk(d), Sound(d, AnyRow),
           NEW m, WellFormed(m.shared, AnyRow),
           NEW o, IsOperation(o), NEW open \in BOOLEAN, OpenFit(d, o, open),
           NEW spent \in BOOLEAN, NEW t, NEW done, Backed(d, m, o, open, spent, t, done),
           NEW torn \in BOOLEAN, m.log = "none" /\ open /\ o.left = 0 => torn,
           \/ ReadsBack(d, m.shared)
           \/ ReadsAhead(d, m.shared) /\ ~spent /\ (open => o.left = 0 /\ m.log = "none"),
           NEW k \in d.wal.synced .. Len(d.wal.entries)
    PROVE  /\ Finds(CutDisk(d, k), t, done, torn)
           /\ k = Len(d.wal.entries) /\ m.log = "open" => Finds(CutDisk(d, k), t, t.next, torn)
           /\ \A q \in CommittedSupersessions(d) :
                 FrozenFinds(d, q) \/ BracketWithin(d.wal.entries, q, d.wal.synced)
<1> DEFINE s == m.shared
           e == CutDisk(d, k)
<1>1. /\ SettledAt(s, Pending(o, open), t, done) /\ DOMAIN Tombstones(d) = Dead(s)
      /\ \/ m.log = "open" /\ ~spent /\ \E V, Q : LogIs(d, s, o, open, t.next - done, V, Q)
         \/ m.log = "open" /\ spent /\ ~open /\ LogSpent(d, s, t.next - done)
         \/ m.log = "none" /\ LogOff(d, s, o, open, t.next - done)
  BY DEF Backed
<1>2. \A c : Finds(e, t, c, FALSE) => Finds(e, t, c, torn)
  BY RecoversTorn DEF Finds
<1>3. Finds(e, t, done, FALSE) /\ Recovers(e, t, t.next, FALSE) => Finds(e, t, t.next, FALSE)
  BY DEF Finds
<1>4. CASE m.log = "open" /\ ~spent /\ \E V, Q : LogIs(d, s, o, open, t.next - done, V, Q)
  <2>1. PICK V, Q : LogIs(d, s, o, open, t.next - done, V, Q)
    BY <1>4
  <2>2. Len(Q) = Pending(o, open)
    BY <2>1 DEF LogIs, Pending
  <2>3. SettledAt(s, Len(Q), t, done)
    BY <1>1, <2>2
  <2>4. ReadsBack(d, s) \/ (ReadsAhead(d, s) /\ ~open)
    BY <1>4
  <2> HIDE DEF e, s
  <2>5. WellFormed(s, AnyRow)
    BY DEF s
  <2>6. /\ Finds(CutDisk(d, k), t, done, FALSE)
        /\ k = Len(d.wal.entries) => Recovers(CutDisk(d, k), t, t.next, FALSE)
        /\ \A q \in CommittedSupersessions(d) :
              FrozenFinds(d, q) \/ BracketWithin(d.wal.entries, q, d.wal.synced)
    BY <1>1, <2>1, <2>3, <2>4, <2>5, CrashKeepsLog
  <2> QED  BY <1>2, <1>3, <2>6 DEF e
<1>5. CASE m.log = "open" /\ spent /\ ~open /\ LogSpent(d, s, t.next - done)
  <2>1. SettledAt(s, 0, t, done) /\ ReadsBack(d, s) /\ WellFormed(s, AnyRow)
    BY <1>1, <1>5 DEF Pending
  <2> HIDE DEF e, s
  <2>2. /\ Finds(CutDisk(d, k), t, done, FALSE)
        /\ Recovers(CutDisk(d, k), t, t.next, FALSE)
        /\ \A q \in CommittedSupersessions(d) : FrozenFinds(d, q)
    BY <1>1, <1>5, <2>1, CrashSpent
  <2> QED  BY <1>2, <1>3, <2>2 DEF e
<1>6. CASE m.log = "none" /\ LogOff(d, s, o, open, t.next - done)
  <2>1. ReadsBack(d, s) \/ (ReadsAhead(d, s) /\ (open => o.left = 0))
    OBVIOUS
  <2>2. WellFormed(s, AnyRow) /\ (open /\ o.left = 0 => torn)
    BY <1>6
  <2> HIDE DEF e, s
  <2>3. /\ Finds(CutDisk(d, k), t, done, torn)
        /\ \A q \in CommittedSupersessions(d) : FrozenFinds(d, q)
    BY <1>1, <1>6, <2>1, <2>2, CrashOff
  <2>4. m.log # "open"
    BY <1>6
  <2> QED  BY <2>3, <2>4 DEF e
<1> QED  BY <1>1, <1>4, <1>5, <1>6
----------------------------------------------------------------------------
\* What every state keeps.

\* Until the log is reset.
Spent == pc \in {"reset", "compact reset"}

(* Of the supersession under way: it has not committed; a row of it that   *)
(* is there is seen; only where no log is kept is it flushed ahead of its  *)
(* delete log, else its records are synced.                                *)
BracketFits ==
    /\ OpenFit(disk, op, InBracket)
    /\ InBracket /\ op.left < op.total => Seen(mem.shared, op.sequence)
    /\ InBracket => (op.left > 0 <=> pc = "replace")
    /\ pc = "commit log" => /\ mem.log = "open" => disk.wal.synced = Len(disk.wal.entries)
                            /\ mem.log = "none" => mem.shared.buffer = << >>
    /\ then = "commit log" => mem.log = "none"
    /\ pc = "bracket" \/ then = "bracket" => op.total = op.left

\* A first segment that no manifest names is there only inside its flush.
Unlisted ==
    pc # "manifest" /\ disk.manifest.layout = {} =>
        \A n \in DOMAIN disk.segments : n[1] # disk.manifest.generation

ServingFits ==
    /\ Backed(disk, mem, op, InBracket, Spent, truth, promised)
    /\ BracketFits
    /\ Unlisted
    /\ ~InBracket => truth = Told(mem.shared)
    /\ mem.log = "none" <=> mem.walSync = "Off"

ClosedFits ==
    /\ Finds(disk, truth, promised, TornByContract)
    /\ disk.wal.synced = Len(disk.wal.entries)
    /\ mem.walSync = "Off" => ~disk.wal.present

(* As long as no write fails: a store that serves has what was promised on *)
(* its disk, and one that is closed will find it.                          *)
Recoverable ==
    faults = 0 => /\ Serving => ServingFits
                  /\ ~Serving => ClosedFits

LEMMA ListedReads ==
    ASSUME NEW d, NEW X, NEW s, s.frozen \in Seq(X),
           Layout(d) = d.manifest.layout,
           Lays(d.segments, d.manifest.generation, d.manifest.layout, s.frozen)
    PROVE  ReadsBack(d, s)
<1> QED  BY LaidOut DEF ReadsBack

\* The first segment, there before it is named.
LEMMA FirstReads ==
    ASSUME NEW d, NEW s, WellFormed(s, AnyRow), s.frozen = << >>, s.buffer # << >>,
           Layout(d) = {0}, <<d.manifest.generation, 0>> \in DOMAIN d.segments,
           d.segments[<<d.manifest.generation, 0>>].rows
             = [i \in 1 .. Len(s.buffer) |->
                  [row |-> s.buffer[i], born |-> BufferBirth(s, i)]]
    PROVE  ReadsAhead(d, s)
<1> DEFINE Q == [i \in 1 .. Len(s.buffer) |->
                   [row |-> s.buffer[i], born |-> BufferBirth(s, i)]]
           g == d.manifest.generation
<1>1. Q \in Seq(Held) /\ Len(Q) = Len(s.buffer)
  BY FrozenBuffer DEF WellFormed, Held
<1>2. s.buffer \in Seq(AnyRow) /\ Len(s.buffer) > 0
  <2>1. s.buffer \in Seq(AnyRow)
    BY FieldTypes DEF WellFormed
  <2> QED  BY <2>1
<1> HIDE DEF Q
<1>3. Q # << >>
  BY <1>1, <1>2
<1>4. << >> \in Seq(Held) /\ Len(<< >>) = 0 /\ << >> \o Q = Q
  BY <1>1, ConcatEmptySeq
<1>5. Lays(d.segments, g, {}, << >>)
  BY LaysNone
<1>6. d.segments[<<g, Len(<< >>)>>].rows = Q /\ <<g, Len(<< >>)>> \in DOMAIN d.segments
  BY <1>4 DEF Q
<1>7. Lays(d.segments, g, {} \cup {Len(<< >>)}, << >> \o Q)
  BY <1>1, <1>3, <1>4, <1>5, <1>6, LaysOneMore
<1>8. Lays(d.segments, g, Layout(d), Q)
  BY <1>4, <1>7
<1>9. Extent(d) = Len(Q) /\ FrozenRows(d) = Q
  BY <1>1, <1>8, LaidOut
<1> QED  BY <1>1, <1>9 DEF ReadsAhead, Q

LEMMA DiskReads ==
    ASSUME StoreInv, Serving, Unlisted
    PROVE  /\ IsDisk(disk) /\ Sound(disk, AnyRow) /\ IsMemory(mem) /\ IsOperation(op)
           /\ WellFormed(mem.shared, AnyRow) /\ Known(mem.shared)
           /\ \/ ReadsBack(disk, mem.shared)
              \/ pc = "manifest" /\ ReadsAhead(disk, mem.shared)
<1> DEFINE d == disk
           s == mem.shared
           g == d.manifest.generation
<1>1. /\ IsDisk(d) /\ Sound(d, AnyRow) /\ IsMemory(mem) /\ IsOperation(op)
      /\ ObjectsFit(d) /\ StateFits(mem) /\ Mirrors(d, mem) /\ FlushFits
  BY DEF StoreInv, Typed, ObjectsFit, Up, Serving
<1>2. WellFormed(s, AnyRow) /\ Known(s)
  BY <1>1 DEF StateFits
<1>3. /\ s.frozen \in Seq(Held) /\ s.base = Len(s.frozen)
      /\ Lays(d.segments, g, d.manifest.layout, s.frozen)
      /\ d.manifest.layout = {} => s.frozen = << >>
  BY <1>1, MirrorParts
<1> HIDE DEF d, s
<1>4. CASE d.manifest.layout # {}
  <2>1. Layout(d) = d.manifest.layout
    BY <1>4 DEF Layout
  <2> QED  BY <1>1, <1>2, <1>3, <2>1, ListedReads DEF d, s
<1>5. CASE d.manifest.layout = {} /\ pc # "manifest"
  <2>1. Layout(d) = {}
    BY <1>5 DEF Layout, Unlisted, d
  <2> QED  BY <1>1, <1>2, <1>3, <1>5, <2>1, ListedReads DEF d, s
<1>6. CASE d.manifest.layout = {} /\ pc = "manifest"
  <2>1. s.frozen = << >> /\ s.base = 0
    BY <1>3, <1>6
  <2>2. <<g, 0>> \in DOMAIN d.segments /\ d.segments[<<g, 0>>] = BufferSegment /\ s.buffer # << >>
    BY <1>1, <1>6, <2>1 DEF FlushFits, d, s
  <2>3. \A n \in DOMAIN d.segments : n[1] = g => n[2] = 0
    BY <1>1, <1>6 DEF ObjectsFit, d
  <2>4. Layout(d) = {0}
    <3>1. Layout(d) = {n[2] : n \in {m \in DOMAIN d.segments : m[1] = g}}
      BY <1>6 DEF Layout
    <3>2. <<g, 0>>[1] = g /\ <<g, 0>>[2] = 0
      OBVIOUS
    <3> QED  BY <2>2, <2>3, <3>1, <3>2
  <2>5. BufferSegment.rows = [i \in 1 .. Len(s.buffer) |->
                                [row |-> s.buffer[i], born |-> BufferBirth(s, i)]]
    BY <1>1, <2>2, BufferFresh DEF s, d
  <2>6. ReadsAhead(d, s)
    BY <1>2, <2>1, <2>2, <2>4, <2>5, FirstReads
  <2> QED  BY <1>1, <1>2, <1>6, <2>6 DEF d, s
<1> QED  BY <1>4, <1>5, <1>6
----------------------------------------------------------------------------
\* What follows from it.

LEMMA CutWhole ==
    ASSUME NEW d, IsDisk(d)
    PROVE  /\ CutDisk(d, Len(d.wal.entries))
                = [d EXCEPT !.wal.synced = Len(d.wal.entries)]
           /\ d.wal.synced = Len(d.wal.entries) => CutDisk(d, Len(d.wal.entries)) = d
<1>1. d.wal \in Log(AnyRow) /\ d.wal.entries \in Seq(Entry(AnyRow))
  BY DiskParts, LogParts
<1>2. SubSeq(d.wal.entries, 1, Len(d.wal.entries)) = d.wal.entries /\ Len(d.wal.entries) \in Nat
  <2> DEFINE e == d.wal.entries
  <2>1. e \in Seq(Entry(AnyRow)) /\ Len(e) \in Nat
    BY <1>1
  <2> HIDE DEF e
  <2>2. SubSeq(e, 1, Len(e)) = e
    BY <2>1, PrefixTyped
  <2> QED  BY <2>1, <2>2 DEF e
<1> DEFINE w == d.wal
           n == Len(d.wal.entries)
<1>3. CutDisk(d, n) = [d EXCEPT !.wal = [w EXCEPT !.entries = w.entries, !.synced = n]]
  BY <1>1, <1>2 DEF CutDisk, IsDisk
<1>4. [w EXCEPT !.entries = w.entries, !.synced = n] = [w EXCEPT !.synced = n]
  BY <1>1 DEF Log
<1>5. w.synced = n => [w EXCEPT !.synced = n] = w
  BY <1>1 DEF Log
<1>6. [d EXCEPT !.wal = w] = d
  BY DEF IsDisk
<1>7. [d EXCEPT !.wal = [w EXCEPT !.synced = n]] = [d EXCEPT !.wal.synced = n]
  OBVIOUS
<1> QED  BY <1>3, <1>4, <1>5, <1>6, <1>7

\* A crash beside a store that serves.
LEMMA ServingCrash ==
    ASSUME StoreInv, Serving, ServingFits,
           NEW k \in disk.wal.synced .. Len(disk.wal.entries)
    PROVE  LET e == CutDisk(disk, k)
           IN  /\ Finds(e, truth, promised, TornByContract)
               /\ k = Len(disk.wal.entries) /\ mem.log = "open" =>
                     Finds(e, truth, truth.next, TornByContract)
               /\ \A q \in CommittedSupersessions(disk) :
                     FrozenFinds(disk, q) \/ BracketWithin(disk.wal.entries, q, disk.wal.synced)
<1>1. /\ IsDisk(disk) /\ Sound(disk, AnyRow) /\ IsOperation(op) /\ WellFormed(mem.shared, AnyRow)
      /\ \/ ReadsBack(disk, mem.shared)
         \/ pc = "manifest" /\ ReadsAhead(disk, mem.shared)
  BY DiskReads DEF ServingFits
<1>2. /\ OpenFit(disk, op, InBracket) /\ Backed(disk, mem, op, InBracket, Spent, truth, promised)
      /\ InBracket => (op.left > 0 <=> pc = "replace")
      /\ then = "commit log" => mem.log = "none"
      /\ mem.log = "none" <=> mem.walSync = "Off"
  BY DEF ServingFits, BracketFits
<1>3. op.left \in Nat
  BY <1>1, OperationParts
<1>4. InBracket \in BOOLEAN /\ Spent \in BOOLEAN /\ TornByContract \in BOOLEAN
  BY DEF InBracket, Spent, TornByContract
<1>5. mem.log = "none" /\ InBracket /\ op.left = 0 => TornByContract
  BY <1>2 DEF OpenFit, TornByContract
<1>6. pc = "manifest" => ~Spent /\ (InBracket => op.left = 0 /\ mem.log = "none")
  <2> SUFFICES ASSUME pc = "manifest" PROVE ~Spent /\ (InBracket => op.left = 0 /\ mem.log = "none")
    OBVIOUS
  <2>1. ~Spent /\ pc # "replace"
    BY DEF Spent
  <2>2. InBracket => then = "commit log"
    BY DEF InBracket
  <2>3. InBracket => ~(op.left > 0)
    BY <1>2, <2>1
  <2>4. InBracket => op.left = 0
    BY <1>3, <2>3
  <2>5. InBracket => mem.log = "none"
    BY <1>2, <2>2
  <2> QED  BY <2>1, <2>4, <2>5
<1>7. \/ ReadsBack(disk, mem.shared)
      \/ /\ ReadsAhead(disk, mem.shared) /\ ~Spent
         /\ InBracket => op.left = 0 /\ mem.log = "none"
  BY <1>1, <1>6
<1> QED  BY <1>1, <1>2, <1>4, <1>5, <1>7, CrashFinds

LEMMA CrashAnywhere ==
    ASSUME StoreInv, Recoverable, faults = 0,
           NEW k \in disk.wal.synced .. Len(disk.wal.entries)
    PROVE  /\ Finds(CutDisk(disk, k), truth, promised, TornByContract)
           /\ \A q \in CommittedSupersessions(disk) :
                 FrozenFinds(disk, q) \/ BracketWithin(disk.wal.entries, q, disk.wal.synced)
<1>1. CASE Serving
  BY <1>1, ServingCrash DEF Recoverable
<1>2. CASE ~Serving
  <2>1. ClosedFits
    BY <1>2 DEF Recoverable
  <2>2. IsDisk(disk) /\ disk.wal.synced = Len(disk.wal.entries)
    BY <2>1 DEF ClosedFits, StoreInv, Typed
  <2>3. k = Len(disk.wal.entries)
    <3>1. Len(disk.wal.entries) \in Nat
      BY <2>2, DiskParts, LogParts
    <3> QED  BY <2>2, <3>1
  <2>4. CutDisk(disk, k) = disk
    BY <2>2, <2>3, CutWhole
  <2> QED  BY <2>1, <2>4 DEF ClosedFits, Finds
<1> QED  BY <1>1, <1>2

LEMMA RecoverablePrefix ==
    ASSUME StoreInv, Recoverable
    PROVE  RecoversPrefix
<1> SUFFICES ASSUME faults = 0, NEW d \in AfterCrash
             PROVE  \E cut \in promised .. truth.next :
                      LET found == Latest(Recovered(d))
                          owed  == Rows(Prefix(cut).alive)
                      IN  IF TornByContract THEN owed \subseteq found ELSE found = owed
  BY DEF RecoversPrefix
<1>1. PICK k \in disk.wal.synced .. Len(disk.wal.entries) : d = CutDisk(disk, k)
  BY DEF AfterCrash, CutDisk
<1>2. Recovers(d, truth, promised, TornByContract)
  BY <1>1, CrashAnywhere DEF Finds
<1>3. \A cut : Rows(Prefix(cut).alive) = Owed(truth, cut)
  BY DEF Prefix, Owed
<1> QED  BY <1>2, <1>3 DEF Recovers

LEMMA RecoverableLogs ==
    ASSUME StoreInv, Recoverable
    PROVE  DeleteLogsCommitLast
<1> SUFFICES ASSUME faults = 0, NEW n \in DeleteLogs(disk)
             PROVE  LET log == disk.deletes[n]
                        flushed == {v \in Range(FrozenRows(disk)) : v.born = log.stamp}
                        e == disk.wal.entries
                    IN  /\ \A id \in log.ids : id < Extent(disk)
                        /\ log.superseding =>
                             \/ flushed # {}
                             \/ \E b \in 1..disk.wal.synced :
                                  /\ e[b].kind = "bracket" /\ e[b].sequence = log.stamp
                                  /\ b + e[b].count <= disk.wal.synced
  BY DEF DeleteLogsCommitLast
<1> DEFINE log == disk.deletes[n]
           F == FrozenRows(disk)
<1>1. Sound(disk, AnyRow) /\ IsDisk(disk)
  BY DEF StoreInv, Typed, ObjectsFit
<1>2. F \in Seq([row : AnyRow, born : Nat]) /\ log.ids \subseteq 0 .. Len(F) - 1
  BY <1>1 DEF Sound
<1>3. Extent(disk) = Len(F)
  BY <1>1, SoundOpens
<1>4. \A id \in log.ids : id < Extent(disk)
  BY <1>2, <1>3
<1>5. ASSUME log.superseding
      PROVE  FrozenFinds(disk, log.stamp)
               \/ BracketWithin(disk.wal.entries, log.stamp, disk.wal.synced)
  <2>1. log.stamp \in CommittedSupersessions(disk)
    BY <1>5 DEF CommittedSupersessions
  <2>2. disk.wal.synced \in disk.wal.synced .. Len(disk.wal.entries)
    <3>1. disk.wal.synced \in Nat /\ Len(disk.wal.entries) \in Nat
      BY <1>1, DiskParts, LogParts
    <3>2. disk.wal.synced <= Len(disk.wal.entries)
      <4>1. CASE Serving
        BY <4>1 DEF Recoverable, ServingFits, Backed
      <4>2. CASE ~Serving
        BY <3>1, <4>2 DEF Recoverable, ClosedFits
      <4> QED  BY <4>1, <4>2
    <3> QED  BY <3>1, <3>2
  <2> QED  BY <2>1, <2>2, CrashAnywhere
<1>6. FrozenFinds(disk, log.stamp) => {v \in Range(F) : v.born = log.stamp} # {}
  <2>1. DOMAIN F = 1 .. Len(F)
    BY <1>2
  <2> QED  BY <2>1 DEF FrozenFinds, Range
<1> HIDE DEF log, F
<1> QED  BY <1>4, <1>5, <1>6 DEF log, F, BracketWithin
----------------------------------------------------------------------------
\* Steps that leave the log, the kills and the memory alone.

LEMMA SameKills ==
    ASSUME NEW d, NEW e, e.manifest = d.manifest,
           DOMAIN e.deletes \subseteq DOMAIN d.deletes,
           \A n \in DOMAIN d.deletes :
              n[1] = d.manifest.generation =>
                 n \in DOMAIN e.deletes /\ e.deletes[n] = d.deletes[n]
    PROVE  /\ CommittedSupersessions(e) = CommittedSupersessions(d)
           /\ DOMAIN Tombstones(e) = DOMAIN Tombstones(d)
<1>1. DeleteLogs(e) = DeleteLogs(d) /\ \A n \in DeleteLogs(d) : e.deletes[n] = d.deletes[n]
  BY DEF DeleteLogs
<1>2. CommittedSupersessions(e) = CommittedSupersessions(d)
  BY <1>1 DEF CommittedSupersessions
<1>3. UNION {e.deletes[n].ids : n \in DeleteLogs(e)} = UNION {d.deletes[n].ids : n \in DeleteLogs(d)}
  BY <1>1
<1>4. \A c : DOMAIN Tombstones(c) = UNION {c.deletes[n].ids : n \in DeleteLogs(c)}
  BY DEF Tombstones
<1> QED  BY <1>2, <1>3, <1>4

LEMMA BackedSame ==
    ASSUME NEW d, NEW e, e.wal = d.wal, e.manifest = d.manifest,
           CommittedSupersessions(e) = CommittedSupersessions(d),
           DOMAIN Tombstones(e) = DOMAIN Tombstones(d),
           NEW open \in BOOLEAN, NEW o, NEW x,
           open => x.sequence = o.sequence /\ x.total = o.total /\ x.left = o.left,
           NEW m, NEW t, NEW done, Backed(d, m, o, open, FALSE, t, done)
    PROVE  Backed(e, m, x, open, FALSE, t, done)
<1> DEFINE s == m.shared
           p == t.next - done
<1>1. /\ SettledAt(s, Pending(o, open), t, done) /\ DOMAIN Tombstones(d) = Dead(s)
      /\ d.wal.synced <= Len(d.wal.entries)
      /\ \/ m.log = "open" /\ \E V, Q : LogIs(d, s, o, open, p, V, Q)
         \/ m.log = "none" /\ LogOff(d, s, o, open, p)
  BY DEF Backed
<1> HIDE DEF s, p
<1>2. Pending(x, open) = Pending(o, open)
  BY DEF Pending
<1>3. \A Q : OpenTail(x, open, Q) = OpenTail(o, open, Q)
  BY DEF OpenTail
<1>4. \A V, Q : LogIs(d, s, o, open, p, V, Q) => LogIs(e, s, x, open, p, V, Q)
  BY <1>3 DEF LogIs
<1>5. LogOff(d, s, o, open, p) => LogOff(e, s, x, open, p)
  BY <1>2 DEF LogOff
<1>6. (\E V, Q : LogIs(d, s, o, open, p, V, Q)) => \E V, Q : LogIs(e, s, x, open, p, V, Q)
  BY <1>4
<1> QED  BY <1>1, <1>2, <1>5, <1>6 DEF Backed, s, p

LEMMA Flags ==
    /\ InBracket \in BOOLEAN /\ Spent \in BOOLEAN
    /\ InBracket' \in BOOLEAN /\ Spent' \in BOOLEAN
<1> QED  BY DEF InBracket, Spent

\* Where no supersession is under way.
LEMMA NoBracket ==
    ASSUME ~InBracket', then' # "commit log",
           pc' = "bracket" \/ then' = "bracket" => op'.total = op'.left
    PROVE  BracketFits'
<1>1. pc' # "commit log"
  BY DEF InBracket
<1> QED  BY <1>1 DEF BracketFits, OpenFit

LEMMA QuietOutside ==
    ASSUME ServingFits, ~InBracket, ~InBracket', ~Spent, ~Spent',
           pc # "manifest", then' # "commit log",
           pc' = "bracket" \/ then' = "bracket" => op'.total = op'.left,
           mem' = mem, truth' = truth, promised' = promised,
           disk'.wal = disk.wal, disk'.manifest = disk.manifest,
           \A n \in DOMAIN disk'.segments :
              n[1] = disk.manifest.generation => n \in DOMAIN disk.segments,
           DOMAIN disk'.deletes \subseteq DOMAIN disk.deletes,
           \A n \in DOMAIN disk.deletes :
              n[1] = disk.manifest.generation =>
                 n \in DOMAIN disk'.deletes /\ disk'.deletes[n] = disk.deletes[n]
    PROVE  ServingFits'
<1>1. Backed(disk, mem, op, FALSE, FALSE, truth, promised)
  <2>1. InBracket = FALSE /\ Spent = FALSE
    BY Flags
  <2> QED  BY <2>1 DEF ServingFits
<1>2. /\ CommittedSupersessions(disk') = CommittedSupersessions(disk)
      /\ DOMAIN Tombstones(disk') = DOMAIN Tombstones(disk)
  BY SameKills
<1>3. Backed(disk', mem, op', FALSE, FALSE, truth, promised)
  BY <1>1, <1>2, BackedSame
<1>4. Backed(disk, mem, op, InBracket, Spent, truth, promised)'
  <2>1. InBracket' = FALSE /\ Spent' = FALSE
    BY Flags
  <2> QED  BY <1>3, <2>1
<1>5. BracketFits'
  BY NoBracket
<1>6. Unlisted'
  BY DEF ServingFits, Unlisted
<1>7. (~InBracket => truth = Told(mem.shared))' /\ (mem.log = "none" <=> mem.walSync = "Off")'
  BY DEF ServingFits
<1> QED  BY <1>4, <1>5, <1>6, <1>7 DEF ServingFits

\* Nor anything else of the disk.
LEMMA QuietMemory ==
    ASSUME ServingFits, ~InBracket, ~InBracket', ~Spent, ~Spent',
           pc # "manifest", then' # "commit log",
           pc' = "bracket" \/ then' = "bracket" => op'.total = op'.left,
           disk' = disk, mem' = mem, truth' = truth, promised' = promised
    PROVE  ServingFits'
<1> QED  BY QuietOutside

LEMMA StartFlushFinds ==
    ASSUME ServingFits, StartFlush
    PROVE  Serving' /\ ServingFits'
<1>1. /\ pc = "idle" /\ pc' = "flush" /\ then' = "idle" /\ disk' = disk /\ mem' = mem
      /\ truth' = truth /\ promised' = promised
  BY DEF StartFlush, FlushThen, ghosts
<1>2. ~InBracket /\ ~InBracket' /\ ~Spent /\ ~Spent' /\ Serving'
  BY <1>1 DEF InBracket, Spent, Serving
<1> QED  BY <1>1, <1>2, QuietMemory

LEMMA TombstoneFinds ==
    ASSUME ServingFits, Tombstone
    PROVE  Serving' /\ ServingFits'
<1>1. /\ pc = "idle" /\ disk' = disk /\ mem' = mem /\ truth' = truth /\ promised' = promised
      /\ FlushThen(mem.shared.buffer, "delete log")
  BY DEF Tombstone, ghosts
<1>2. \/ pc' = "delete log" /\ then' = "idle"
      \/ pc' = "flush" /\ then' = "delete log"
  BY <1>1 DEF FlushThen
<1>3. ~InBracket /\ ~InBracket' /\ ~Spent /\ ~Spent' /\ Serving'
  BY <1>1, <1>2 DEF InBracket, Spent, Serving
<1> QED  BY <1>1, <1>2, <1>3, QuietMemory

LEMMA SupersedeFinds ==
    ASSUME ServingFits, Supersede
    PROVE  Serving' /\ ServingFits'
<1>1. pc = "idle" /\ disk' = disk /\ mem' = mem /\ truth' = truth /\ promised' = promised
  BY DEF Supersede, ghosts
<1>2. PICK newly \in SUBSET Live(mem.shared), count \in 1 .. MaxReplacements :
          /\ op' = [NoOp EXCEPT !.ids = newly, !.total = count, !.left = count]
          /\ IF \E id \in newly : id >= mem.shared.base
             THEN FlushThen(mem.shared.buffer, "bracket")
             ELSE pc' = "bracket" /\ then' = "idle"
  BY DEF Supersede
<1>3. \/ pc' = "bracket" /\ then' = "idle"
      \/ pc' = "flush" /\ then' = "bracket"
  BY <1>2 DEF FlushThen
<1>4. op'.total = op'.left
  BY <1>2 DEF NoOp
<1>5. ~InBracket /\ ~InBracket' /\ ~Spent /\ ~Spent' /\ Serving'
  BY <1>1, <1>3 DEF InBracket, Spent, Serving
<1> QED  BY <1>1, <1>3, <1>4, <1>5, QuietMemory
LEMMA OnlyDone ==
    ASSUME faults = 0, faults' = 0, NEW outcome
    PROVE  ~Abort(outcome)
<1> QED  BY DEF Abort

LEMMA ThenIdle ==
    ASSUME StoreInv, pc \notin {"flush", "manifest", "reset"}
    PROVE  then = "idle" /\ IsDisk(disk) /\ IsMemory(mem) /\ IsOperation(op)
<1> QED  BY DEF StoreInv, Typed, Flushing

LEMMA ManifestNow ==
    ASSUME StoreInv, Serving
    PROVE  /\ mem.generation = disk.manifest.generation
           /\ mem.sections.layout = disk.manifest.layout
           /\ disk.manifest.generation \in Nat
<1>1. disk.manifest = ManifestOf(mem.generation, mem.sections) /\ IsDisk(disk)
  BY DEF StoreInv, Typed, Mirrors, Up, Serving
<1>2. disk.manifest \in Manifest
  BY <1>1, DiskParts
<1> QED  BY <1>1, <1>2, ManifestParts DEF Manifest

LEMMA StartCompactFinds ==
    ASSUME StoreInv, ServingFits, StartCompact
    PROVE  Serving' /\ ServingFits'
<1>1. /\ pc = "idle" /\ disk' = PreCleaned /\ UNCHANGED <<mem, then, truth, promised>>
      /\ pc' \in {"compact", "compact manifest"}
  BY DEF StartCompact, ghosts
<1>2. /\ then = "idle" /\ IsDisk(disk)
  BY <1>1, ThenIdle
<1>3. mem.generation = disk.manifest.generation /\ disk.manifest.generation \in Nat
  BY <1>1, ManifestNow DEF Serving
<1> DEFINE segments == Without(disk.segments, {n \in DOMAIN disk.segments : n[1] = mem.generation + 1})
           deletes == Without(disk.deletes, {n \in DOMAIN disk.deletes : n[1] = mem.generation + 1})
           history == Without(disk.history, {i \in DOMAIN disk.history : i >= mem.sections.history})
<1>4. disk'.wal = disk.wal /\ disk'.manifest = disk.manifest
      /\ disk'.segments = segments /\ disk'.deletes = deletes
  <2>1. disk' = [disk EXCEPT !.segments = segments, !.deletes = deletes, !.history = history]
    BY <1>1 DEF PreCleaned
  <2> HIDE DEF segments, deletes, history
  <2> QED  BY <1>2, <2>1 DEF IsDisk
<1>5. \A n \in DOMAIN disk'.segments : n \in DOMAIN disk.segments
  BY <1>4 DEF Without
<1>6. /\ DOMAIN disk'.deletes \subseteq DOMAIN disk.deletes
      /\ \A n \in DOMAIN disk.deletes :
            n[1] = disk.manifest.generation =>
               n \in DOMAIN disk'.deletes /\ disk'.deletes[n] = disk.deletes[n]
  BY <1>3, <1>4 DEF Without
<1>7. ~InBracket /\ ~InBracket' /\ ~Spent /\ ~Spent' /\ Serving'
  BY <1>1, <1>2 DEF InBracket, Spent, Serving
<1>8. pc # "manifest" /\ then' # "commit log" /\ ~(pc' = "bracket" \/ then' = "bracket")
  BY <1>1, <1>2
<1> QED  BY <1>1, <1>4, <1>5, <1>6, <1>7, <1>8, QuietOutside

LEMMA CleanupFinds ==
    ASSUME StoreInv, ServingFits, Cleanup
    PROVE  Serving' /\ ServingFits'
<1>1. pc = "cleanup" /\ pc' = "idle" /\ UNCHANGED <<mem, then, truth, promised>>
  BY DEF Cleanup, ghosts
<1>2. /\ then = "idle" /\ IsDisk(disk)
  BY <1>1, ThenIdle
<1>3. mem.generation = disk.manifest.generation /\ disk.manifest.generation \in Nat
  BY <1>1, ManifestNow DEF Serving
<1>4. PICK stale \in SUBSET {n \in DOMAIN disk.segments : n[1] # mem.generation},
           logs  \in SUBSET {n \in DOMAIN disk.deletes : n[1] # mem.generation} :
         disk' = [disk EXCEPT !.segments = Without(@, stale), !.deletes = Without(@, logs)]
  BY DEF Cleanup
<1> DEFINE segments == Without(disk.segments, stale)
           deletes == Without(disk.deletes, logs)
<1>5. disk'.wal = disk.wal /\ disk'.manifest = disk.manifest
      /\ disk'.segments = segments /\ disk'.deletes = deletes
  <2>1. disk' = [disk EXCEPT !.segments = segments, !.deletes = deletes]
    BY <1>4
  <2> HIDE DEF segments, deletes
  <2> QED  BY <1>2, <2>1 DEF IsDisk
<1>6. \A n \in DOMAIN disk'.segments : n \in DOMAIN disk.segments
  BY <1>5 DEF Without
<1>7. /\ DOMAIN disk'.deletes \subseteq DOMAIN disk.deletes
      /\ \A n \in DOMAIN disk.deletes :
            n[1] = disk.manifest.generation =>
               n \in DOMAIN disk'.deletes /\ disk'.deletes[n] = disk.deletes[n]
  BY <1>3, <1>5 DEF Without
<1>8. ~InBracket /\ ~InBracket' /\ ~Spent /\ ~Spent' /\ Serving'
  BY <1>1, <1>2 DEF InBracket, Spent, Serving
<1>9. pc # "manifest" /\ then' # "commit log" /\ ~(pc' = "bracket" \/ then' = "bracket")
  BY <1>1, <1>2
<1> QED  BY <1>1, <1>5, <1>6, <1>7, <1>8, <1>9, QuietOutside

LEMMA WriteNextGenerationFinds ==
    ASSUME StoreInv, ServingFits, WriteNextGeneration, faults = 0, faults' = 0
    PROVE  Serving' /\ ServingFits'
<1>1. pc = "compact"
  BY DEF WriteNextGeneration
<1>2. PICK outcome \in Outcomes :
          /\ Wrote(outcome, NextObject)
          /\ UNCHANGED mem
          /\ \/ Abort(outcome)
             \/ /\ outcome = "done"
                /\ pc' \in {pc, "compact manifest"}
                /\ UNCHANGED <<then, truth, promised>>
  BY DEF WriteNextGeneration, ghosts
<1>3. /\ disk' = NextObject /\ UNCHANGED <<mem, then, truth, promised>>
      /\ pc' \in {"compact", "compact manifest"}
  BY <1>1, <1>2, OnlyDone DEF Wrote
<1>4. then = "idle" /\ IsDisk(disk)
  BY <1>1, ThenIdle
<1>5. mem.generation = disk.manifest.generation /\ disk.manifest.generation \in Nat
  BY <1>1, ManifestNow DEF Serving
<1> DEFINE name(k) == <<mem.generation + 1, SegmentRows * k>>
<1>6. /\ disk'.wal = disk.wal /\ disk'.manifest = disk.manifest /\ disk'.deletes = disk.deletes
      /\ \/ disk'.segments = disk.segments
         \/ \E k, x : disk'.segments = Publish(disk.segments, name(k), x)
  <2>1. CASE op.left < HistoryObjects
    <3>1. \E h : disk' = [disk EXCEPT !.history = h]
      BY <1>3, <2>1, Zenon DEF NextObject
    <3> QED  BY <1>4, <3>1 DEF IsDisk
  <2>2. CASE ~(op.left < HistoryObjects)
    <3> DEFINE k == op.left - HistoryObjects
               x == NewSegment(SegmentRows * k)
               segments == Publish(disk.segments, name(k), x)
    <3>1. disk' = [disk EXCEPT !.segments = segments]
      BY <1>3, <2>2 DEF NextObject
    <3> HIDE DEF segments
    <3>2. /\ disk'.wal = disk.wal /\ disk'.manifest = disk.manifest
          /\ disk'.deletes = disk.deletes /\ disk'.segments = segments
      BY <1>4, <3>1 DEF IsDisk
    <3> QED  BY <3>2 DEF segments
  <2> QED  BY <2>1, <2>2
<1>7. \A n \in DOMAIN disk'.segments :
         n[1] = disk.manifest.generation => n \in DOMAIN disk.segments
  <2>1. \A k : name(k)[1] = mem.generation + 1
    OBVIOUS
  <2> HIDE DEF name
  <2>2. \A k : name(k)[1] # disk.manifest.generation
    BY <1>5, <2>1
  <2>3. \A s, n, x : DOMAIN Publish(s, n, x) = DOMAIN s \cup {n}
    BY DEF Publish
  <2>4. CASE disk'.segments = disk.segments
    BY <2>4
  <2>5. CASE \E k, x : disk'.segments = Publish(disk.segments, name(k), x)
    <3>1. PICK k, x : disk'.segments = Publish(disk.segments, name(k), x)
      BY <2>5
    <3>2. DOMAIN disk'.segments = DOMAIN disk.segments \cup {name(k)}
      BY <2>3, <3>1
    <3> QED  BY <2>2, <3>2
  <2> QED  BY <1>6, <2>4, <2>5
<1>8. ~InBracket /\ ~InBracket' /\ ~Spent /\ ~Spent' /\ Serving'
  BY <1>1, <1>3, <1>4 DEF InBracket, Spent, Serving
<1>9. pc # "manifest" /\ then' # "commit log" /\ ~(pc' = "bracket" \/ then' = "bracket")
  BY <1>1, <1>3, <1>4
<1> QED  BY <1>3, <1>6, <1>7, <1>8, <1>9, QuietOutside

LEMMA FlushSegmentFinds ==
    ASSUME StoreInv, ServingFits, FlushSegment, faults = 0, faults' = 0
    PROVE  Serving' /\ ServingFits'
<1>1. pc = "flush"
  BY DEF FlushSegment
<1> DEFINE x == Publish(disk.segments, <<mem.generation, mem.shared.base>>, BufferSegment)
<1>2. PICK outcome \in Outcomes :
          /\ Wrote(outcome, [disk EXCEPT !.segments = x])
          /\ UNCHANGED mem
          /\ \/ Abort(outcome)
             \/ /\ outcome = "done"
                /\ pc' = "manifest"
                /\ UNCHANGED <<then, op, truth, promised>>
  BY Zenon DEF FlushSegment, ghosts
<1> HIDE DEF x
<1>3. /\ disk' = [disk EXCEPT !.segments = x] /\ UNCHANGED <<mem, then, op, truth, promised>>
      /\ pc' = "manifest"
  BY <1>2, OnlyDone DEF Wrote
<1>4. IsDisk(disk)
  BY DEF StoreInv, Typed
<1>5. disk'.wal = disk.wal /\ disk'.manifest = disk.manifest /\ disk'.deletes = disk.deletes
  BY <1>3, <1>4 DEF IsDisk
<1>6. /\ CommittedSupersessions(disk') = CommittedSupersessions(disk)
      /\ DOMAIN Tombstones(disk') = DOMAIN Tombstones(disk)
  BY <1>5, SameKills
<1>7. (InBracket' <=> InBracket) /\ ~Spent /\ ~Spent' /\ Serving'
  BY <1>1, <1>3 DEF InBracket, Spent, Serving
<1>8. InBracket' = InBracket /\ Spent = FALSE /\ Spent' = FALSE
  BY <1>7, Flags
<1>9. Backed(disk, mem, op, InBracket, FALSE, truth, promised)
  BY <1>8 DEF ServingFits
<1>10. Backed(disk', mem, op, InBracket, FALSE, truth, promised)
  BY <1>5, <1>6, <1>9, Flags, BackedSame
<1>11. Backed(disk, mem, op, InBracket, Spent, truth, promised)'
  BY <1>3, <1>8, <1>10
<1>12. BracketFits'
  <2>1. BracketFits
    BY DEF ServingFits
  <2>2. OpenFit(disk', op', InBracket')
    BY <1>3, <1>6, <1>8, <2>1 DEF BracketFits, OpenFit
  <2> QED  BY <1>1, <1>3, <1>8, <2>1, <2>2 DEF BracketFits
<1>13. Unlisted'
  BY <1>3 DEF Unlisted
<1>14. (~InBracket => truth = Told(mem.shared))' /\ (mem.log = "none" <=> mem.walSync = "Off")'
  BY <1>3, <1>8 DEF ServingFits
<1> QED  BY <1>7, <1>11, <1>12, <1>13, <1>14 DEF ServingFits
----------------------------------------------------------------------------
\* Records added to the log.

LEMMA AppendFurther ==
    ASSUME NEW X, NEW a \in Seq(X), NEW b \in Seq(X), NEW x \in X
    PROVE  /\ Append(a \o b, x) = a \o Append(b, x)
           /\ Append(a, x) = a \o << x >>
           /\ a \o << >> = a
           /\ Append(a, x) \in Seq(X) /\ Len(Append(a, x)) = Len(a) + 1
           /\ Len(a \o b) = Len(a) + Len(b) /\ Len(a) \in Nat /\ Len(b) \in Nat
<1> QED  OBVIOUS

\* e is d with one record more, synced or not.
Recorded(d, e, entry, synced) ==
    /\ e.manifest = d.manifest
    /\ CommittedSupersessions(e) = CommittedSupersessions(d)
    /\ e.wal.present = d.wal.present /\ e.wal.generation = d.wal.generation
    /\ e.wal.base = d.wal.base
    /\ e.wal.entries = Append(d.wal.entries, entry)
    /\ e.wal.synced = IF synced THEN Len(d.wal.entries) + 1 ELSE d.wal.synced

\* r is s with one row more in its buffer.
OneRowMore(s, r, row) ==
    /\ r.frozen = s.frozen /\ r.buffer = Append(s.buffer, row)
    /\ \A q : Seen(s, q) => Seen(r, q)

LEMMA PlainWhole ==
    ASSUME NEW R, NEW C, NEW row \in R
    PROVE  LET u == Unit(FALSE, 0, << row >>)
           IN  /\ u \in WholeUnits(R, C) /\ u \in UnitType(R) /\ ~u.bracket
               /\ u.rows = << row >> /\ EntriesOf(u) = << RowEntry(row) >>
<1> DEFINE u == Unit(FALSE, 0, << row >>)
<1>1. << row >> \in Seq(R) /\ << row >> # << >> /\ << row >>[1] = row
  OBVIOUS
<1>2. u.bracket = FALSE /\ u.sequence = 0 /\ u.rows = << row >> /\ u \in UnitType(R)
  BY <1>1 DEF Unit, UnitType
<1>3. u \in WholeUnits(R, C)
  BY <1>1, <1>2 DEF WholeUnits, Plain
<1>4. PlainShape(u)
  BY <1>2, <1>3, WholeEntries DEF Plain
<1> QED  BY <1>1, <1>2, <1>3, <1>4 DEF PlainShape

LEMMA LogGrows ==
    ASSUME NEW d, IsDisk(d), NEW s, NEW o, NEW p \in Nat, NEW V, NEW Q,
           LogIs(d, s, o, FALSE, p, V, Q),
           NEW row \in AnyRow, NEW synced \in BOOLEAN,
           NEW e, Recorded(d, e, RowEntry(row), synced),
           NEW r, OneRowMore(s, r, row), NEW x
    PROVE  LogIs(e, r, x, FALSE, IF synced THEN 0 ELSE p + 1,
                 Append(V, Unit(FALSE, 0, << row >>)), << >>)
<1> DEFINE C == CommittedSupersessions(d)
           u == Unit(FALSE, 0, << row >>)
           U == Append(V, u)
           n == IF synced THEN 0 ELSE p + 1
<1>1. /\ V \in Seq(WholeUnits(AnyRow, C)) /\ Q \in Seq(AnyRow) /\ Len(Q) = 0
      /\ d.wal.present /\ d.wal.generation = d.manifest.generation
      /\ d.wal.base = Len(s.frozen)
      /\ s.buffer = Carried(V) \o Q
      /\ d.wal.entries = Encoded(V) \o << >>
      /\ d.wal.synced <= Len(d.wal.entries)
      /\ p \in 0 .. Len(V) /\ TailPlain(V, p)
      /\ Len(Encoded(V)) <= d.wal.synced + p
      /\ \A i \in 1 .. Len(V) : V[i].bracket => Seen(s, V[i].sequence)
      /\ \A q \in C : \/ FrozenAt(s, q)
                      \/ \E i \in 1 .. Len(V) : V[i].bracket /\ V[i].sequence = q
  BY DEF LogIs, OpenTail
<1>2. /\ u \in WholeUnits(AnyRow, C) /\ u \in UnitType(AnyRow) /\ ~u.bracket
      /\ u.rows = << row >> /\ EntriesOf(u) = << RowEntry(row) >>
  BY PlainWhole
<1>3. V \in Seq(UnitType(AnyRow)) /\ Encoded(V) \in Seq(Entry(AnyRow))
  BY <1>1, EncodedWhole
<1>4. Carried(U) = Carried(V) \o << row >> /\ Carried(V) \in Seq(AnyRow)
  BY <1>2, <1>3, CarriedMore
<1>5. Encoded(U) = Encoded(V) \o << RowEntry(row) >>
  <2>1. V \in Seq(WholeUnits(AnyRow, C)) /\ u \in WholeUnits(AnyRow, C)
    BY <1>1, <1>2
  <2> HIDE DEF u, C
  <2>2. Encoded(Append(V, u)) = Encoded(V) \o EntriesOf(u)
    BY <2>1, EncodedMore
  <2> QED  BY <1>2, <2>2
<1> HIDE DEF u
<1>6. /\ U \in Seq(WholeUnits(AnyRow, C)) /\ Len(U) = Len(V) + 1 /\ U[Len(V) + 1] = u
      /\ \A i \in 1 .. Len(V) : U[i] = V[i]
      /\ Len(V) \in Nat
  BY <1>1, <1>2
<1> HIDE DEF U, C
<1>7. r.buffer = Carried(U) \o << >> /\ r.frozen = s.frozen
  <2> DEFINE B == Carried(V)
  <2>1. B \in Seq(AnyRow) /\ s.buffer = B \o Q /\ Carried(U) = B \o << row >> /\ Q = << >>
    BY <1>1, <1>4
  <2> HIDE DEF B
  <2>2. B \o << >> = B /\ Append(B, row) = B \o << row >> /\ Append(B, row) \in Seq(AnyRow)
    BY <2>1, AppendFurther
  <2>3. Append(B, row) \o << >> = Append(B, row)
    BY <2>2, AppendFurther
  <2> QED  BY <2>1, <2>2, <2>3 DEF OneRowMore
<1>8. /\ e.wal.entries = Encoded(U) \o << >> /\ Len(Encoded(U)) = Len(Encoded(V)) + 1
      /\ Len(d.wal.entries) = Len(Encoded(V)) /\ Len(e.wal.entries) = Len(Encoded(U))
  <2> DEFINE E == Encoded(V)
             y == RowEntry(row)
  <2>1. E \in Seq(Entry(AnyRow)) /\ d.wal.entries = E \o << >> /\ Encoded(U) = E \o << y >>
        /\ y \in Entry(AnyRow)
    BY <1>1, <1>3, <1>5, EntriesAre
  <2> HIDE DEF E, y
  <2>2. E \o << >> = E /\ Append(E, y) = E \o << y >> /\ Append(E, y) \in Seq(Entry(AnyRow))
        /\ Len(Append(E, y)) = Len(E) + 1
    BY <2>1, AppendFurther
  <2>3. Append(E, y) \o << >> = Append(E, y)
    BY <2>2, AppendFurther
  <2> QED  BY <2>1, <2>2, <2>3 DEF Recorded, E, y
<1>9. d.wal.synced \in Nat /\ Len(d.wal.entries) \in Nat
  BY DiskParts, LogParts
<1>10. /\ e.wal.synced <= Len(e.wal.entries) /\ n \in 0 .. Len(U)
       /\ Len(Encoded(U)) <= e.wal.synced + n
  <2>1. e.wal.synced = IF synced THEN Len(d.wal.entries) + 1 ELSE d.wal.synced
    BY DEF Recorded
  <2>2. CASE synced
    BY <1>6, <1>8, <1>9, <2>1, <2>2
  <2>3. CASE ~synced
    BY <1>1, <1>6, <1>8, <1>9, <2>1, <2>3
  <2> QED  BY <2>2, <2>3
<1>11. TailPlain(U, n)
  <2> SUFFICES ASSUME NEW i \in 1 .. Len(U), i > Len(U) - n PROVE Plain(U[i])
    BY DEF TailPlain
  <2>1. ~synced /\ n = p + 1
    BY <1>6
  <2>2. CASE i = Len(V) + 1
    BY <1>2, <1>6, <2>2 DEF Plain
  <2>3. CASE i # Len(V) + 1
    <3>1. i \in 1 .. Len(V) /\ i > Len(V) - p
      BY <1>6, <2>1, <2>3
    <3>2. Plain(V[i])
      BY <1>1, <3>1 DEF TailPlain
    <3> QED  BY <1>6, <3>1, <3>2
  <2> QED  BY <2>2, <2>3
<1>12. \A i \in 1 .. Len(U) : U[i].bracket => Seen(r, U[i].sequence)
  <2> SUFFICES ASSUME NEW i \in 1 .. Len(U), U[i].bracket PROVE Seen(r, U[i].sequence)
    OBVIOUS
  <2>1. i \in 1 .. Len(V)
    BY <1>2, <1>6
  <2>2. Seen(s, V[i].sequence) /\ U[i] = V[i]
    BY <1>1, <1>6, <2>1
  <2> QED  BY <2>2 DEF OneRowMore
<1>13. \A q \in C : \/ FrozenAt(r, q)
                    \/ \E i \in 1 .. Len(U) : U[i].bracket /\ U[i].sequence = q
  <2> SUFFICES ASSUME NEW q \in C, ~FrozenAt(r, q)
               PROVE  \E i \in 1 .. Len(U) : U[i].bracket /\ U[i].sequence = q
    OBVIOUS
  <2>1. ~FrozenAt(s, q)
    BY <1>7 DEF FrozenAt
  <2>2. PICK i \in 1 .. Len(V) : V[i].bracket /\ V[i].sequence = q
    BY <1>1, <2>1
  <2> QED  BY <1>6, <2>2
<1>14. CommittedSupersessions(e) = C /\ e.wal.present /\ e.wal.base = Len(r.frozen)
       /\ e.wal.generation = e.manifest.generation
  BY <1>1, <1>7 DEF Recorded, C
<1>15. << >> \in Seq(AnyRow) /\ Len(<< >>) = 0
  OBVIOUS
<1> HIDE DEF n
<1>16. LogIs(e, r, x, FALSE, n, U, << >>)
  BY <1>6, <1>7, <1>8, <1>10, <1>11, <1>12, <1>13, <1>14, <1>15 DEF LogIs, OpenTail
<1> QED  BY <1>16 DEF U, u, n
LEMMA ExtendsBy ==
    ASSUME NEW X, NEW F \in Seq(X), NEW y \in X, NEW n \in Nat, Len(F) = n,
           NEW G \in [1 .. n + 1 -> X],
           \A k \in 1 .. n : G[k] = F[k], G[n + 1] = y
    PROVE  G = Append(F, y)
<1> DEFINE H == Append(F, y)
<1>1. H \in Seq(X) /\ Len(H) = n + 1 /\ H[n + 1] = y /\ \A k \in 1 .. n : H[k] = F[k]
  OBVIOUS
<1> HIDE DEF H
<1>2. H \in [1 .. n + 1 -> X]
  BY <1>1
<1>3. \A k \in 1 .. n + 1 : H[k] = G[k]
  <2> SUFFICES ASSUME NEW k \in 1 .. n + 1 PROVE H[k] = G[k]
    OBVIOUS
  <2>1. CASE k = n + 1
    BY <1>1, <2>1
  <2>2. CASE k # n + 1
    <3>1. k \in 1 .. n
      BY <2>2
    <3> QED  BY <1>1, <3>1
  <2> QED  BY <2>1, <2>2
<1>4. H = G
  BY <1>2, <1>3
<1> QED  BY <1>4 DEF H

LEMMA ExtendsBehind ==
    ASSUME NEW X, NEW a \in Seq(X), NEW F \in Seq(X), NEW y \in X, NEW n \in Nat, Len(F) = n,
           NEW G \in [1 .. n + 1 -> X],
           \A k \in 1 .. n : G[k] = F[k], G[n + 1] = y
    PROVE  a \o G = Append(a \o F, y) /\ a \o F \in Seq(X)
<1>1. G = Append(F, y)
  BY ExtendsBy
<1>2. a \o Append(F, y) = Append(a \o F, y)
  OBVIOUS
<1> QED  BY <1>1, <1>2

LEMMA TailMore ==
    ASSUME NEW o, o.sequence \in Nat, o.total \in Nat,
           NEW x, x.sequence = o.sequence, x.total = o.total,
           NEW Q \in Seq(AnyRow), NEW row \in AnyRow
    PROVE  /\ OpenTail(o, TRUE, Q) \in Seq(Entry(AnyRow))
           /\ OpenTail(x, TRUE, Append(Q, row)) = Append(OpenTail(o, TRUE, Q), RowEntry(row))
<1> DEFINE b == BracketEntry(o.sequence, o.total)
           Z == Append(Q, row)
           F == [k \in 1 .. Len(Q) |-> RowEntry(Q[k])]
           G == [k \in 1 .. Len(Z) |-> RowEntry(Z[k])]
           X == Entry(AnyRow)
           y == RowEntry(row)
           n == Len(Q)
           a == << b >>
<1>1. b \in X /\ \A v \in AnyRow : RowEntry(v) \in X
  BY EntriesAre
<1>2. n \in Nat /\ Len(Z) = n + 1 /\ Z[n + 1] = row
      /\ \A k \in 1 .. n : Z[k] = Q[k] /\ Q[k] \in AnyRow
  OBVIOUS
<1>3. OpenTail(o, TRUE, Q) = a \o F /\ OpenTail(x, TRUE, Z) = a \o G
  BY DEF OpenTail
<1> HIDE DEF Z, X, b
<1>4. F \in [1 .. n -> X] /\ \A k \in 1 .. n : F[k] = RowEntry(Q[k])
  BY <1>1, <1>2
<1>5. G \in [1 .. n + 1 -> X] /\ (\A k \in 1 .. n : G[k] = RowEntry(Q[k])) /\ G[n + 1] = y
  BY <1>1, <1>2
<1>6. y \in X /\ a \in Seq(X)
  BY <1>1
<1> HIDE DEF F, G, y, a, n
<1>7. F \in Seq(X) /\ Len(F) = n
  BY <1>2, <1>4, FunctionIsSeq
<1>8. \A k \in 1 .. n : G[k] = F[k]
  BY <1>4, <1>5
<1>9. a \o G = Append(a \o F, y) /\ a \o F \in Seq(X)
  BY <1>2, <1>5, <1>6, <1>7, <1>8, ExtendsBehind
<1> QED  BY <1>3, <1>9 DEF X, y, Z

LEMMA AppendLast ==
    ASSUME NEW X, NEW a \in Seq(X), NEW b \in Seq(X), NEW x \in X
    PROVE  Append(a \o b, x) = a \o Append(b, x)
<1> QED  OBVIOUS

\* A bracket is opened behind the units.
LEMMA LogOpens ==
    ASSUME NEW d, IsDisk(d), NEW s, NEW o, NEW p, NEW V, NEW Q,
           LogIs(d, s, o, FALSE, p, V, Q),
           NEW x, x.sequence \in Nat, x.total \in Nat, x.left = x.total,
           NEW e, Recorded(d, e, BracketEntry(x.sequence, x.total), FALSE)
    PROVE  LogIs(e, s, x, TRUE, p, V, << >>)
<1> DEFINE C == CommittedSupersessions(d)
           y == BracketEntry(x.sequence, x.total)
           E == Encoded(V)
<1>1. /\ V \in Seq(WholeUnits(AnyRow, C)) /\ Q \in Seq(AnyRow) /\ Len(Q) = 0
      /\ s.buffer = Carried(V) \o Q
      /\ d.wal.entries = E \o << >>
      /\ d.wal.synced <= Len(d.wal.entries)
  BY DEF LogIs, OpenTail
<1>2. E \in Seq(Entry(AnyRow)) /\ y \in Entry(AnyRow)
  BY <1>1, EncodedWhole, EntriesAre
<1>3. OpenTail(x, TRUE, << >>) = << y >>
  <2> DEFINE T == [k \in 1 .. Len(<< >>) |-> RowEntry(<< >>[k])]
  <2>1. T = << >>
    OBVIOUS
  <2>2. << y >> \in Seq({y}) /\ << y >> \o << >> = << y >>
    OBVIOUS
  <2> HIDE DEF y
  <2>3. OpenTail(x, TRUE, << >>) = << y >> \o T
    BY DEF OpenTail, y
  <2> QED  BY <2>1, <2>2, <2>3
<1> HIDE DEF E, y
<1>4. e.wal.entries = E \o << y >> /\ Len(d.wal.entries) = Len(E)
      /\ Len(e.wal.entries) = Len(E) + 1 /\ Len(E) \in Nat
  <2>1. E \o << >> = E /\ Append(E, y) = E \o << y >> /\ Len(Append(E, y)) = Len(E) + 1
        /\ Len(E) \in Nat
    BY <1>2, AppendFurther
  <2> QED  BY <1>1, <2>1 DEF Recorded, y
<1>5. e.wal.synced = d.wal.synced /\ d.wal.synced \in Nat
  BY DiskParts, LogParts DEF Recorded
<1>6. e.wal.synced <= Len(e.wal.entries)
  BY <1>1, <1>4, <1>5
<1>7. Q = << >> /\ Len(<< >>) = x.total - x.left
  BY <1>1
<1>8. CommittedSupersessions(e) = C /\ e.wal.present = d.wal.present
      /\ e.wal.generation = d.wal.generation /\ e.manifest = d.manifest
      /\ e.wal.base = d.wal.base
  BY DEF Recorded
<1> QED  BY <1>1, <1>3, <1>4, <1>5, <1>6, <1>7, <1>8 DEF LogIs, E

\* A row of the supersession.
LEMMA BracketGrows ==
    ASSUME NEW d, IsDisk(d), NEW s, NEW o, o.sequence \in Nat, o.total \in Nat, o.left \in Nat,
           NEW p, NEW V, NEW Q,
           LogIs(d, s, o, TRUE, p, V, Q),
           NEW row \in AnyRow, NEW synced \in BOOLEAN,
           NEW e, Recorded(d, e, RowEntry(row), synced),
           NEW r, OneRowMore(s, r, row),
           NEW x, x.sequence = o.sequence, x.total = o.total, x.left = o.left - 1
    PROVE  LogIs(e, r, x, TRUE, p, V, Append(Q, row))
<1> DEFINE C == CommittedSupersessions(d)
           y == RowEntry(row)
           E == Encoded(V)
           T == OpenTail(o, TRUE, Q)
           Z == Append(Q, row)
<1>1. /\ V \in Seq(WholeUnits(AnyRow, C)) /\ Q \in Seq(AnyRow) /\ Len(Q) = o.total - o.left
      /\ s.buffer = Carried(V) \o Q
      /\ d.wal.entries = E \o T
      /\ d.wal.synced <= Len(d.wal.entries)
      /\ Len(E) <= d.wal.synced + p
      /\ p \in 0 .. Len(V)
      /\ \A i \in 1 .. Len(V) : V[i].bracket => Seen(s, V[i].sequence)
      /\ \A q \in C : \/ FrozenAt(s, q)
                      \/ \E i \in 1 .. Len(V) : V[i].bracket /\ V[i].sequence = q
  BY DEF LogIs
<1>2. E \in Seq(Entry(AnyRow)) /\ y \in Entry(AnyRow) /\ Carried(V) \in Seq(AnyRow)
  BY <1>1, EncodedWhole, EntriesAre, CountsCarried
<1>3. T \in Seq(Entry(AnyRow)) /\ OpenTail(x, TRUE, Z) = Append(T, y)
  BY <1>1, TailMore
<1> HIDE DEF E, y, T
<1>4. /\ e.wal.entries = E \o OpenTail(x, TRUE, Z)
      /\ Len(e.wal.entries) = Len(d.wal.entries) + 1 /\ Len(d.wal.entries) \in Nat
  <2>1. Append(E \o T, y) = E \o Append(T, y)
    <3> DEFINE X == Entry(AnyRow)
    <3>1. E \in Seq(X) /\ T \in Seq(X) /\ y \in X
      BY <1>2, <1>3
    <3> HIDE DEF X
    <3> QED  BY <3>1
  <2>2. E \o T \in Seq(Entry(AnyRow))
    BY <1>2, <1>3
  <2>3. Len(Append(E \o T, y)) = Len(E \o T) + 1 /\ Len(E \o T) \in Nat
    BY <1>2, <2>2
  <2> QED  BY <1>1, <1>3, <2>1, <2>3 DEF Recorded, y
<1>5. d.wal.synced \in Nat
  BY DiskParts, LogParts
<1>6. e.wal.synced <= Len(e.wal.entries) /\ Len(E) <= e.wal.synced + p
  <2>1. e.wal.synced = IF synced THEN Len(d.wal.entries) + 1 ELSE d.wal.synced
    BY DEF Recorded
  <2>2. p \in Nat /\ Len(E) \in Nat
    <3>1. Len(V) \in Nat
      BY <1>1
    <3> QED  BY <1>1, <1>2, <3>1
  <2>3. Len(E) <= Len(d.wal.entries)
    <3>1. Len(E \o T) = Len(E) + Len(T) /\ Len(T) \in Nat /\ Len(E) \in Nat
      BY <1>2, <1>3
    <3> QED  BY <1>1, <3>1
  <2> DEFINE n == Len(d.wal.entries)
             k == d.wal.synced
             l == e.wal.synced
             f == Len(E)
  <2>4. n \in Nat /\ k \in Nat /\ p \in Nat /\ f \in Nat /\ Len(e.wal.entries) = n + 1
        /\ l = (IF synced THEN n + 1 ELSE k) /\ k <= n /\ f <= k + p /\ f <= n
    BY <1>1, <1>4, <1>5, <2>1, <2>2, <2>3
  <2> HIDE DEF n, k, l, f
  <2>5. l <= n + 1 /\ f <= l + p
    BY <2>4
  <2> QED  BY <2>4, <2>5 DEF l, f
<1>7. /\ Z \in Seq(AnyRow) /\ Len(Z) = Len(Q) + 1 /\ r.buffer = Carried(V) \o Z
      /\ Len(Q) \in Nat /\ r.frozen = s.frozen
  <2> DEFINE B == Carried(V)
  <2>1. B \in Seq(AnyRow) /\ s.buffer = B \o Q
    BY <1>1, <1>2
  <2> HIDE DEF B
  <2>2. Append(B \o Q, row) = B \o Append(Q, row)
    <3>1. B \in Seq(AnyRow) /\ Q \in Seq(AnyRow) /\ row \in AnyRow
      BY <1>1, <2>1
    <3> HIDE DEF C, Z
    <3> QED  BY <3>1
  <2>3. Z \in Seq(AnyRow) /\ Len(Z) = Len(Q) + 1 /\ Len(Q) \in Nat
    BY <1>1
  <2> QED  BY <2>1, <2>2, <2>3 DEF OneRowMore, B
<1>8. Len(Z) = x.total - x.left
  BY <1>1, <1>7
<1>9. CommittedSupersessions(e) = C /\ e.wal.present = d.wal.present
      /\ e.wal.generation = d.wal.generation /\ e.manifest = d.manifest
      /\ e.wal.base = d.wal.base
  BY DEF Recorded
<1>10. d.wal.present /\ d.wal.generation = d.manifest.generation
       /\ d.wal.base = Len(s.frozen) /\ TailPlain(V, p)
  BY DEF LogIs
<1>11. \A i \in 1 .. Len(V) : V[i].bracket => Seen(r, V[i].sequence)
  BY <1>1 DEF OneRowMore
<1>12. \A q \in C : \/ FrozenAt(r, q)
                    \/ \E i \in 1 .. Len(V) : V[i].bracket /\ V[i].sequence = q
  BY <1>1, <1>7 DEF FrozenAt
<1> HIDE DEF Z, C
<1>13. LogIs(e, r, x, TRUE, p, V, Z)
  BY <1>1, <1>4, <1>6, <1>7, <1>8, <1>9, <1>10, <1>11, <1>12 DEF LogIs, E
<1> QED  BY <1>13 DEF Z

\* The log is synced.
LEMMA LogSynced ==
    ASSUME NEW d, IsDisk(d), NEW s, NEW o, NEW open \in BOOLEAN, NEW p, NEW V, NEW Q,
           LogIs(d, s, o, open, p, V, Q),
           NEW e, e.manifest = d.manifest,
           CommittedSupersessions(e) = CommittedSupersessions(d),
           e.wal.present = d.wal.present, e.wal.generation = d.wal.generation,
           e.wal.base = d.wal.base, e.wal.entries = d.wal.entries,
           e.wal.synced = Len(d.wal.entries)
    PROVE  LogIs(e, s, o, open, 0, V, Q)
<1> DEFINE E == Encoded(V)
           C == CommittedSupersessions(d)
           n == Len(d.wal.entries)
<1>1. n \in Nat /\ d.wal.synced \in Nat
  BY DiskParts, LogParts
<1>2. V \in Seq(WholeUnits(AnyRow, C)) /\ Len(E) <= d.wal.synced + p /\ p \in 0 .. Len(V)
      /\ d.wal.entries = E \o OpenTail(o, open, Q)
      /\ d.wal.synced <= Len(d.wal.entries)
      /\ Q \in Seq(AnyRow)
  BY DEF LogIs
<1>3. Len(V) \in Nat
  BY <1>2
<1>4. 0 \in 0 .. Len(V) /\ TailPlain(V, 0)
  BY <1>3 DEF TailPlain
<1>5. Len(E) <= n + 0
  <2> DEFINE T == OpenTail(o, open, Q)
  <2>1. E \in Seq(Entry(AnyRow))
    BY <1>2, EncodedWhole
  <2>2. d.wal.entries = E \o T /\ Len(E) \in Nat /\ Len(T) \in Nat
    <3> DEFINE b == BracketEntry(o.sequence, o.total)
               F == [k \in 1 .. Len(Q) |-> RowEntry(Q[k])]
    <3>1. F \in Seq({RowEntry(r) : r \in AnyRow})
      <4>1. Len(Q) \in Nat /\ \A k \in 1 .. Len(Q) : Q[k] \in AnyRow
        BY <1>2
      <4>2. F \in [1 .. Len(Q) -> {RowEntry(r) : r \in AnyRow}]
        BY <4>1
      <4> QED  BY <4>1, <4>2
    <3> HIDE DEF F, b
    <3>2. T = IF open THEN << b >> \o F ELSE << >>
      BY DEF OpenTail, F, b
    <3>3. CASE open
      <4>1. F \in Seq({b} \cup {RowEntry(r) : r \in AnyRow})
        BY <3>1
      <4>2. << b >> \in Seq({b} \cup {RowEntry(r) : r \in AnyRow})
        OBVIOUS
      <4>3. << b >> \o F \in Seq({b} \cup {RowEntry(r) : r \in AnyRow})
        BY <4>1, <4>2
      <4> QED  BY <1>2, <2>1, <3>2, <3>3, <4>3
    <3>4. CASE ~open
      BY <1>2, <2>1, <3>2, <3>4
    <3> QED  BY <3>3, <3>4
  <2> HIDE DEF E, T
  <2>3. E \o T \in Seq(Entry(AnyRow))
    BY <2>2, DiskParts, LogParts
  <2>4. Len(E \o T) = Len(E) + Len(T)
    OBVIOUS
  <2> QED  BY <1>1, <2>2, <2>4
<1>6. e.wal.synced <= Len(e.wal.entries) /\ Len(E) <= e.wal.synced + 0
  <2> HIDE DEF E
  <2>1. n <= n
    BY <1>1
  <2> QED  BY <1>5, <2>1
<1> HIDE DEF n
<1>7. /\ V \in Seq(WholeUnits(AnyRow, CommittedSupersessions(e))) /\ Q \in Seq(AnyRow)
      /\ e.wal.present /\ e.wal.generation = e.manifest.generation
      /\ e.wal.base = Len(s.frozen)
      /\ s.buffer = Carried(V) \o Q
      /\ Len(Q) = (IF open THEN o.total - o.left ELSE 0)
      /\ e.wal.entries = Encoded(V) \o OpenTail(o, open, Q)
      /\ \A i \in 1 .. Len(V) : V[i].bracket => Seen(s, V[i].sequence)
      /\ \A q \in CommittedSupersessions(e) :
            \/ FrozenAt(s, q)
            \/ \E i \in 1 .. Len(V) : V[i].bracket /\ V[i].sequence = q
  BY <1>2, Zenon DEF LogIs
<1> QED  BY <1>4, <1>6, <1>7, Zenon DEF LogIs
----------------------------------------------------------------------------
\* Appends.

LEMMA MemorySyncs ==
    ASSUME NEW m, IsMemory(m), NEW s, NEW n, NEW c, NEW g
    PROVE  /\ WithRow(m, s, n).walSync = m.walSync /\ WithKills(m, s, n).walSync = m.walSync
           /\ WithLog(m, n).walSync = m.walSync /\ WithSections(m, s, c).walSync = m.walSync
           /\ WithGeneration(m, g, c, s, n).walSync = m.walSync
<1> QED  BY DEF WithRow, WithKills, WithLog, WithSections, WithGeneration, IsMemory

\* wal.append, where it is done.
LEMMA LoggedRecords ==
    ASSUME IsDisk(disk), NEW entry \in Entry(AnyRow), NEW synced,
           disk' = [disk EXCEPT !.wal = Logged(@, entry, synced)]
    PROVE  /\ disk'.manifest = disk.manifest /\ disk'.segments = disk.segments
           /\ CommittedSupersessions(disk') = CommittedSupersessions(disk)
           /\ DOMAIN Tombstones(disk') = DOMAIN Tombstones(disk)
           /\ mem.log = "open" => Recorded(disk, disk', entry, synced)
           /\ mem.log # "open" => disk'.wal = disk.wal
<1> DEFINE w == Logged(disk.wal, entry, synced)
<1>1. disk' = [disk EXCEPT !.wal = w]
  OBVIOUS
<1>2. disk.wal \in Log(AnyRow)
  BY DiskParts
<1>3. mem.log # "open" => w = disk.wal
  BY DEF Logged
<1>4. mem.log = "open" =>
         /\ w.present = disk.wal.present /\ w.generation = disk.wal.generation
         /\ w.base = disk.wal.base
         /\ w.entries = Append(disk.wal.entries, entry)
         /\ w.synced = IF synced THEN Len(disk.wal.entries) + 1 ELSE disk.wal.synced
  BY <1>2 DEF Logged, Log
<1> HIDE DEF w
<1>5. /\ disk'.wal = w /\ disk'.manifest = disk.manifest /\ disk'.segments = disk.segments
      /\ disk'.deletes = disk.deletes /\ disk'.history = disk.history
  BY <1>1 DEF IsDisk
<1>6. /\ CommittedSupersessions(disk') = CommittedSupersessions(disk)
      /\ Tombstones(disk') = Tombstones(disk)
  BY <1>5, SameObjects
<1> QED  BY <1>3, <1>4, <1>5, <1>6 DEF Recorded

LEMMA RowMore ==
    ASSUME NEW s, WellFormed(s, AnyRow), Known(s), NEW row \in AnyRow
    PROVE  LET r == AppendRow(s, row)
           IN  OneRowMore(s, r, row) /\ Dead(r) = Dead(s)
<1> DEFINE r == AppendRow(s, row)
<1>1. SameView(s, r) /\ Dead(r) = Dead(s) /\ RowCount(s) \in Nat
      /\ RowCount(r) = RowCount(s) + 1
  BY AppendTold
<1>2. r.frozen = s.frozen /\ r.buffer = Append(s.buffer, row)
  <2>1. Shaped(s, AnyRow)
    BY DEF WellFormed
  <2> QED  BY <2>1 DEF AppendRow, Shaped, SharedFields
<1> HIDE DEF r
<1>3. \A q : Seen(s, q) => Seen(r, q)
  <2>1. Ids(s) \subseteq Ids(r)
    BY <1>1 DEF Ids
  <2> QED  BY <1>1, <2>1 DEF Seen, SameView
<1> QED  BY <1>1, <1>2, <1>3 DEF OneRowMore, r

LEMMA BackedAppend ==
    ASSUME NEW d, IsDisk(d), NEW m, WellFormed(m.shared, AnyRow), Known(m.shared),
           NEW o, NEW x, NEW done, Backed(d, m, o, FALSE, FALSE, Told(m.shared), done),
           NEW row \in AnyRow, NEW synced \in BOOLEAN, m.log = "none" => ~synced,
           NEW e, e.manifest = d.manifest,
           CommittedSupersessions(e) = CommittedSupersessions(d),
           DOMAIN Tombstones(e) = DOMAIN Tombstones(d),
           m.log = "open" => Recorded(d, e, RowEntry(row), synced),
           m.log = "none" => e.wal = d.wal,
           NEW k, k.shared = AppendRow(m.shared, row), k.log = m.log
    PROVE  Backed(e, k, x, FALSE, FALSE, Told(k.shared),
                  IF synced THEN Told(k.shared).next ELSE done)
<1> DEFINE s == m.shared
           r == k.shared
           t == Told(s)
           u == Told(r)
           p == t.next - done
           n == IF synced THEN u.next ELSE done
<1>1. /\ SettledAt(s, Pending(o, FALSE), t, done) /\ DOMAIN Tombstones(d) = Dead(s)
      /\ d.wal.synced <= Len(d.wal.entries)
      /\ \/ m.log = "open" /\ \E V, Q : LogIs(d, s, o, FALSE, p, V, Q)
         \/ m.log = "none" /\ LogOff(d, s, o, FALSE, p)
  BY DEF Backed
<1> HIDE DEF s, r, t, u, p, n
<1>2. Pending(o, FALSE) = 0 /\ Pending(x, FALSE) = 0
  BY DEF Pending
<1>3. SettledAt(r, 0, u, done) /\ SettledAt(r, 0, u, u.next)
  BY <1>1, <1>2, SettledAppend DEF s, r, t, u
<1>4. SettledAt(r, 0, u, n)
  BY <1>3 DEF n
<1>5. u.next = t.next + 1 /\ t.next \in Nat /\ done \in 0 .. t.next
  <2>1. u.next = t.next + 1
    BY AppendTold DEF s, r, t, u
  <2>2. t.next \in Nat /\ done \in 0 .. t.next
    BY <1>1 DEF SettledAt
  <2> QED  BY <2>1, <2>2
<1>6. p \in Nat /\ u.next - n = (IF synced THEN 0 ELSE p + 1)
  <2>1. CASE synced
    BY <1>5, <2>1 DEF p, n
  <2>2. CASE ~synced
    BY <1>5, <2>2 DEF p, n
  <2> QED  BY <2>1, <2>2
<1>7. OneRowMore(s, r, row) /\ Dead(r) = Dead(s)
  BY RowMore DEF s, r
<1>8. e.wal.synced <= Len(e.wal.entries) /\
         \/ k.log = "open" /\ \E V, Q : LogIs(e, r, x, FALSE, u.next - n, V, Q)
         \/ k.log = "none" /\ LogOff(e, r, x, FALSE, u.next - n)
  <2>1. CASE m.log = "open" /\ \E V, Q : LogIs(d, s, o, FALSE, p, V, Q)
    <3>1. PICK V, Q : LogIs(d, s, o, FALSE, p, V, Q)
      BY <2>1
    <3> DEFINE U == Append(V, Unit(FALSE, 0, << row >>))
               j == IF synced THEN 0 ELSE p + 1
    <3>2. LogIs(e, r, x, FALSE, j, U, << >>)
      BY <1>6, <1>7, <2>1, <3>1, LogGrows
    <3> HIDE DEF U, j
    <3>3. LogIs(e, r, x, FALSE, u.next - n, U, << >>)
      BY <1>6, <3>2 DEF j
    <3>4. e.wal.synced <= Len(e.wal.entries)
      BY <3>2 DEF LogIs
    <3> QED  BY <2>1, <3>3, <3>4
  <2>2. CASE m.log = "none" /\ LogOff(d, s, o, FALSE, p)
    <3>1. ~synced /\ e.wal = d.wal
      BY <2>2
    <3>2. /\ ~d.wal.present /\ Len(s.buffer) = p
          /\ \A q \in CommittedSupersessions(d) : FrozenAt(s, q)
      <4>1. /\ ~d.wal.present
            /\ Len(s.buffer) = Pending(o, FALSE) + p
            /\ \A q \in CommittedSupersessions(d) : FrozenAt(s, q)
        BY <2>2, Zenon DEF LogOff
      <4> DEFINE z == Pending(o, FALSE)
      <4>2. Len(s.buffer) = z + p /\ z = 0
        BY <1>2, <4>1, Zenon
      <4> HIDE DEF z
      <4>3. Len(s.buffer) = p
        BY <1>6, <4>2
      <4> QED  BY <4>1, <4>3, Zenon
    <3>3. r.frozen = s.frozen /\ Len(r.buffer) = Len(s.buffer) + 1
      <4>1. s.buffer \in Seq(AnyRow)
        BY FieldTypes DEF s, WellFormed
      <4> QED  BY <1>7, <4>1 DEF OneRowMore
    <3>4. \A q \in CommittedSupersessions(e) : FrozenAt(r, q)
      BY <3>2, <3>3 DEF FrozenAt
    <3>5. Len(r.buffer) = 0 + (u.next - n)
      BY <1>6, <3>1, <3>2, <3>3
    <3>6. LogOff(e, r, x, FALSE, u.next - n)
      BY <1>2, <3>1, <3>2, <3>4, <3>5 DEF LogOff
    <3> QED  BY <1>1, <2>2, <3>1, <3>6
  <2> QED  BY <1>1, <2>1, <2>2
<1> QED  BY <1>1, <1>2, <1>4, <1>7, <1>8 DEF Backed, r, u, n

LEMMA AppendRowFinds ==
    ASSUME StoreInv, ServingFits, AppendRowOp, faults = 0, faults' = 0
    PROVE  Serving' /\ ServingFits'
<1>1. pc = "idle"
  BY DEF AppendRowOp
<1>2. PICK key \in Keys, outcome \in LogOutcomes, synced \in SyncChoices :
          LET row == [key |-> key, tag |-> minted + 1]
              entry == IF outcome = "torn" THEN TornEntry ELSE RowEntry(row)
          IN  /\ Wrote(outcome, [disk EXCEPT !.wal = Logged(@, entry, synced)])
              /\ IF outcome # "done"
                 THEN faults' = faults + 1
                 ELSE LET s == AppendRow(mem.shared, row)
                      IN  /\ mem' = [mem EXCEPT !.shared = s, !.rows = @ + 1]
                          /\ truth' = Told(s)
                          /\ promised' = IF synced THEN truth'.next ELSE promised
                          /\ FlushIfFull(s.buffer)
  BY Zenon DEF AppendRowOp
<1> DEFINE row == [key |-> key, tag |-> minted + 1]
           s == mem.shared
           r == AppendRow(s, row)
           n == mem.rows + 1
<1>3. /\ IsDisk(disk) /\ IsMemory(mem) /\ minted \in Nat /\ then = "idle"
      /\ WellFormed(s, AnyRow) /\ Known(s)
  BY <1>1 DEF StoreInv, Typed, Flushing, Up, StateFits
<1>4. row \in AnyRow
  BY <1>3 DEF AnyRow
<1>5. outcome = "done"
  BY <1>2
<1>6. /\ disk' = [disk EXCEPT !.wal = Logged(@, RowEntry(row), synced)]
      /\ mem' = WithRow(mem, r, n) /\ truth' = Told(r)
      /\ promised' = (IF synced THEN truth'.next ELSE promised)
      /\ FlushIfFull(r.buffer)
  BY <1>2, <1>5 DEF Wrote, WithRow
<1> HIDE DEF row
<1>7. mem'.shared = r /\ mem'.log = mem.log /\ mem'.walSync = mem.walSync
  <2> HIDE DEF r, n
  <2>1. n \in Nat
    BY <1>3, MemoryParts DEF n
  <2>2. mem'.shared = r
    BY <1>3, <1>6, <2>1, MemoryWithRow
  <2>3. mem'.log = mem.log
    BY <1>3, <1>6, MemoryLevels
  <2>4. mem'.walSync = mem.walSync
    BY <1>3, <1>6, MemorySyncs
  <2> QED  BY <2>2, <2>3, <2>4
<1>8. ServingFits /\ (mem.log = "none" <=> mem.walSync = "Off") /\ truth = Told(s)
  <2>1. ~InBracket
    BY <1>1, <1>3 DEF InBracket
  <2> QED  BY <2>1 DEF ServingFits
<1>9. synced \in BOOLEAN /\ (mem.log = "none" => ~synced)
  BY <1>8 DEF SyncChoices
<1>10. pc' \in {"idle", "flush"} /\ then' = "idle"
  <2> HIDE DEF r
  <2> QED  BY <1>6, FullServes
<1>11. /\ ~InBracket /\ ~InBracket' /\ ~Spent /\ ~Spent' /\ Serving'
  BY <1>1, <1>3, <1>10 DEF InBracket, Spent, Serving
<1>12. InBracket = FALSE /\ InBracket' = FALSE /\ Spent = FALSE /\ Spent' = FALSE
  BY <1>11, Flags
<1>13. RowEntry(row) \in Entry(AnyRow)
  BY <1>4, EntriesAre
<1>14. /\ disk'.manifest = disk.manifest /\ disk'.segments = disk.segments
       /\ CommittedSupersessions(disk') = CommittedSupersessions(disk)
       /\ DOMAIN Tombstones(disk') = DOMAIN Tombstones(disk)
       /\ mem.log = "open" => Recorded(disk, disk', RowEntry(row), synced)
       /\ mem.log # "open" => disk'.wal = disk.wal
  BY <1>3, <1>6, <1>13, LoggedRecords
<1>15. Backed(disk, mem, op, FALSE, FALSE, Told(mem.shared), promised)
  BY <1>8, <1>12 DEF ServingFits
<1>16. Backed(disk', mem', op', FALSE, FALSE, Told(mem'.shared),
              IF synced THEN Told(mem'.shared).next ELSE promised)
  <2>1. mem.log = "none" => disk'.wal = disk.wal
    BY <1>14
  <2> QED  BY <1>3, <1>4, <1>7, <1>9, <1>14, <1>15, <2>1, BackedAppend
<1>17. Backed(disk, mem, op, InBracket, Spent, truth, promised)'
  BY <1>6, <1>7, <1>12, <1>16
<1>18. BracketFits'
  BY <1>10, <1>11, NoBracket
<1>19. Unlisted'
  <2>1. Unlisted
    BY DEF ServingFits
  <2> QED  BY <1>1, <1>14, <2>1 DEF Unlisted
<1>20. (~InBracket => truth = Told(mem.shared))' /\ (mem.log = "none" <=> mem.walSync = "Off")'
  BY <1>6, <1>7, <1>8
<1> QED  BY <1>11, <1>17, <1>18, <1>19, <1>20 DEF ServingFits
----------------------------------------------------------------------------
\* A supersession, up to its delete log.

\* Every coordinate that committed is below the watermark.
LEMMA CommittedBelow ==
    ASSUME NEW m, WellFormed(m.shared, AnyRow), Known(m.shared),
           NEW d, NEW o, NEW open, NEW spent, NEW t, NEW done,
           Backed(d, m, o, open, spent, t, done),
           NEW q \in CommittedSupersessions(d)
    PROVE  q \in Nat /\ q < Watermark(m.shared, RowCount(m.shared)) /\ Seen(m.shared, q)
<1> DEFINE s == m.shared
           p == t.next - done
<1>1. /\ Shaped(s, AnyRow)
      /\ \A id \in Ids(s) : Born(s, id) < Watermark(s, RowCount(s)) /\ Born(s, id) \in Nat
  <2>1. Shaped(s, AnyRow)
    BY DEF WellFormed
  <2> QED  BY <2>1, ViewType DEF Known
<1> HIDE DEF s, p
<1>2. FrozenAt(s, q) => Seen(s, q)
  <2> SUFFICES ASSUME NEW i \in 1 .. Len(s.frozen), s.frozen[i].born = q PROVE Seen(s, q)
    BY DEF FrozenAt
  <2>1. Len(s.frozen) \in Nat /\ Len(s.buffer) \in Nat
        /\ RowCount(s) = Len(s.frozen) + Len(s.buffer)
    BY <1>1, FieldTypes
  <2>2. i - 1 \in Ids(s) /\ i - 1 < Len(s.frozen) /\ (i - 1) + 1 = i
    <3> DEFINE n == Len(s.frozen)
               b == Len(s.buffer)
    <3>1. n \in Nat /\ b \in Nat /\ RowCount(s) = n + b /\ i \in 1 .. n
      BY <2>1
    <3> HIDE DEF n, b
    <3>2. i - 1 \in 0 .. (n + b) - 1 /\ i - 1 < n /\ (i - 1) + 1 = i
      BY <3>1
    <3> QED  BY <3>1, <3>2 DEF Ids, n
  <2>3. Born(s, i - 1) = q
    BY <2>2 DEF Born
  <2> QED  BY <2>2, <2>3 DEF Seen
<1>3. Seen(s, q)
  <2>1. \/ \E V, Q : LogIs(d, s, o, open, p, V, Q)
        \/ LogSpent(d, s, p)
        \/ LogOff(d, s, o, open, p)
    BY Zenon DEF Backed, s, p
  <2>2. CASE \E V, Q : LogIs(d, s, o, open, p, V, Q)
    <3>1. PICK V, Q : LogIs(d, s, o, open, p, V, Q)
      BY <2>2
    <3>2. /\ FrozenAt(s, q) \/ \E i \in 1 .. Len(V) : V[i].bracket /\ V[i].sequence = q
          /\ \A i \in 1 .. Len(V) : V[i].bracket => Seen(s, V[i].sequence)
      BY <3>1 DEF LogIs
    <3> QED  BY <1>2, <3>2
  <2>3. CASE LogSpent(d, s, p)
    BY <1>2, <2>3 DEF LogSpent
  <2>4. CASE LogOff(d, s, o, open, p)
    BY <1>2, <2>4 DEF LogOff
  <2> QED  BY <2>1, <2>2, <2>3, <2>4
<1>4. q \in Nat /\ q < Watermark(s, RowCount(s))
  BY <1>1, <1>3 DEF Seen
<1> QED  BY <1>3, <1>4 DEF s

LEMMA BackedOpens ==
    ASSUME NEW d, IsDisk(d), NEW m, WellFormed(m.shared, AnyRow), Known(m.shared),
           NEW o, NEW t, NEW done, Backed(d, m, o, FALSE, FALSE, t, done),
           NEW x, x.sequence = Watermark(m.shared, RowCount(m.shared)),
           x.total \in Nat, x.left = x.total,
           NEW e, CommittedSupersessions(e) = CommittedSupersessions(d),
           DOMAIN Tombstones(e) = DOMAIN Tombstones(d),
           m.log = "open" => Recorded(d, e, BracketEntry(x.sequence, x.total), FALSE),
           m.log = "none" => e.wal = d.wal
    PROVE  /\ Backed(e, m, x, TRUE, FALSE, t, done)
           /\ x.sequence \notin CommittedSupersessions(e)
<1> DEFINE s == m.shared
           p == t.next - done
<1>1. /\ SettledAt(s, Pending(o, FALSE), t, done) /\ DOMAIN Tombstones(d) = Dead(s)
      /\ d.wal.synced <= Len(d.wal.entries)
      /\ \/ m.log = "open" /\ \E V, Q : LogIs(d, s, o, FALSE, p, V, Q)
         \/ m.log = "none" /\ LogOff(d, s, o, FALSE, p)
  BY DEF Backed
<1>2. x.sequence \in Nat
  <2>1. Shaped(s, AnyRow)
    BY DEF WellFormed
  <2> QED  BY <2>1, ViewType
<1>3. x.sequence \notin CommittedSupersessions(d)
  <2> SUFFICES ASSUME x.sequence \in CommittedSupersessions(d) PROVE FALSE
    OBVIOUS
  <2>1. x.sequence < Watermark(m.shared, RowCount(m.shared))
    BY CommittedBelow
  <2> QED  BY <1>2, <2>1
<1> HIDE DEF s, p
<1>4. Pending(o, FALSE) = 0 /\ Pending(x, TRUE) = 0
  BY DEF Pending
<1>5. SettledAt(s, Pending(x, TRUE), t, done)
  BY <1>1, <1>4
<1>6. CASE m.log = "open" /\ \E V, Q : LogIs(d, s, o, FALSE, p, V, Q)
  <2>1. PICK V, Q : LogIs(d, s, o, FALSE, p, V, Q)
    BY <1>6
  <2>2. LogIs(e, s, x, TRUE, p, V, << >>)
    BY <1>2, <1>6, <2>1, LogOpens
  <2>3. e.wal.synced <= Len(e.wal.entries)
    BY <2>2 DEF LogIs
  <2> QED  BY <1>1, <1>3, <1>5, <1>6, <2>2, <2>3 DEF Backed, s, p
<1>7. CASE m.log = "none" /\ LogOff(d, s, o, FALSE, p)
  <2>1. LogOff(e, s, x, TRUE, p)
    <3>1. ~d.wal.present /\ Len(s.buffer) = Pending(o, FALSE) + p
          /\ \A q \in CommittedSupersessions(d) : FrozenAt(s, q)
      BY <1>7, Zenon DEF LogOff
    <3>2. Len(s.buffer) = Pending(x, TRUE) + p
      BY <1>4, <3>1
    <3> QED  BY <1>7, <3>1, <3>2 DEF LogOff
  <2> QED  BY <1>1, <1>3, <1>5, <1>7, <2>1 DEF Backed, s, p
<1> QED  BY <1>1, <1>6, <1>7

LEMMA OpenBracketFinds ==
    ASSUME StoreInv, ServingFits, OpenBracket, faults = 0, faults' = 0
    PROVE  Serving' /\ ServingFits'
<1>1. pc = "bracket"
  BY DEF OpenBracket
<1> DEFINE q == Watermark(mem.shared, mem.rows)
           entry == BracketEntry(q, op.total)
<1>2. PICK outcome \in LogOutcomes :
          /\ Wrote(outcome, [disk EXCEPT !.wal =
                 Logged(@, IF outcome = "torn" THEN TornEntry ELSE entry, FALSE)])
          /\ UNCHANGED mem
          /\ \/ Abort(outcome)
             \/ /\ outcome = "done"
                /\ op' = [op EXCEPT !.sequence = q]
                /\ pc' = "replace"
                /\ UNCHANGED <<then, truth, promised>>
  BY Zenon DEF OpenBracket, ghosts
<1> HIDE DEF entry
<1>3. /\ disk' = [disk EXCEPT !.wal = Logged(@, entry, FALSE)] /\ mem' = mem
      /\ op' = [op EXCEPT !.sequence = q] /\ pc' = "replace"
      /\ UNCHANGED <<then, truth, promised>>
  <2>1. outcome = "done"
    BY <1>2, OnlyDone
  <2> QED  BY <1>2, <2>1, OnlyDone DEF Wrote
<1>4. then = "idle" /\ IsDisk(disk) /\ IsMemory(mem) /\ IsOperation(op)
  BY <1>1, ThenIdle
<1>5. StateFits(mem) /\ VictimsFit
  BY <1>1 DEF StoreInv, Up
<1>6. WellFormed(mem.shared, AnyRow) /\ Known(mem.shared) /\ mem.rows = RowCount(mem.shared)
  BY <1>5 DEF StateFits
<1>7. op.left > 0 /\ op.total = op.left /\ op.total \in Nat
  <2>1. op.left > 0
    BY <1>1, <1>5 DEF VictimsFit
  <2>2. op.total = op.left
    BY <1>1 DEF ServingFits, BracketFits
  <2> QED  BY <1>4, <2>1, <2>2, OperationParts
<1>8. q \in Nat
  <2>1. Shaped(mem.shared, AnyRow)
    BY <1>6 DEF WellFormed
  <2> QED  BY <1>6, <2>1, ViewType
<1>9. op'.sequence = q /\ op'.total = op.total /\ op'.left = op.left
  BY <1>3, <1>4, <1>8, OperationParts
<1>10. ~InBracket /\ InBracket' /\ ~Spent /\ ~Spent' /\ Serving'
  BY <1>1, <1>3, <1>4 DEF InBracket, Spent, Serving
<1>11. InBracket = FALSE /\ InBracket' = TRUE /\ Spent = FALSE /\ Spent' = FALSE
  BY <1>10, Flags
<1>12. entry \in Entry(AnyRow)
  BY <1>7, <1>8, EntriesAre DEF entry
<1> HIDE DEF q
<1>13. /\ disk'.manifest = disk.manifest /\ disk'.segments = disk.segments
       /\ CommittedSupersessions(disk') = CommittedSupersessions(disk)
       /\ DOMAIN Tombstones(disk') = DOMAIN Tombstones(disk)
       /\ mem.log = "open" => Recorded(disk, disk', entry, FALSE)
       /\ mem.log # "open" => disk'.wal = disk.wal
  BY <1>3, <1>4, <1>12, LoggedRecords
<1>14. Backed(disk, mem, op, FALSE, FALSE, truth, promised)
  BY <1>11 DEF ServingFits
<1>15. /\ Backed(disk', mem, op', TRUE, FALSE, truth, promised)
       /\ op'.sequence \notin CommittedSupersessions(disk')
  <2>1. mem.log = "none" => disk'.wal = disk.wal
    BY <1>13
  <2>2. entry = BracketEntry(op'.sequence, op'.total)
    BY <1>9 DEF entry
  <2>3. op'.sequence = Watermark(mem.shared, RowCount(mem.shared))
    BY <1>6, <1>9 DEF q
  <2>4. op'.total \in Nat /\ op'.left = op'.total
    BY <1>7, <1>9
  <2>5. mem.log = "open" => Recorded(disk, disk', BracketEntry(op'.sequence, op'.total), FALSE)
    BY <1>13, <2>2
  <2> QED  BY <1>4, <1>6, <1>13, <1>14, <2>1, <2>3, <2>4, <2>5, BackedOpens
<1>16. Backed(disk, mem, op, InBracket, Spent, truth, promised)'
  BY <1>3, <1>11, <1>15
<1>17. BracketFits'
  <2>1. op'.left > 0 /\ op'.left = op'.total /\ op'.total \in Nat
    BY <1>7, <1>9
  <2>2. OpenFit(disk', op', InBracket')
    BY <1>15, <2>1 DEF OpenFit
  <2>3. ~(op'.left < op'.total)
    BY <2>1
  <2>4. (InBracket => (op.left > 0 <=> pc = "replace"))'
    BY <1>3, <2>1
  <2>5. pc' # "commit log" /\ then' # "commit log" /\ pc' # "bracket" /\ then' # "bracket"
    BY <1>3, <1>4
  <2> QED  BY <2>2, <2>3, <2>4, <2>5 DEF BracketFits
<1>18. Unlisted'
  <2>1. Unlisted
    BY DEF ServingFits
  <2> QED  BY <1>1, <1>13, <2>1 DEF Unlisted
<1>19. (~InBracket => truth = Told(mem.shared))' /\ (mem.log = "none" <=> mem.walSync = "Off")'
  BY <1>3, <1>10 DEF ServingFits
<1> QED  BY <1>10, <1>16, <1>17, <1>18, <1>19 DEF ServingFits
LEMMA SupersedingMore ==
    ASSUME NEW s, WellFormed(s, AnyRow), NEW rows, rows = RowCount(s),
           NEW row \in AnyRow, NEW q \in Nat
    PROVE  LET r == AppendSuperseding(s, row, q, rows)
           IN  /\ OneRowMore(s, r, row) /\ Dead(r) = Dead(s) /\ SameView(s, r)
               /\ RowCount(s) \in Nat /\ RowCount(r) = RowCount(s) + 1
               /\ Seen(r, q)
<1> DEFINE r == AppendSuperseding(s, row, q, rows)
<1>1. Shaped(s, AnyRow)
  BY DEF WellFormed
<1>2. RowCount(r) = RowCount(s) + 1 /\ Dead(r) = Dead(s)
  BY <1>1, AppendSupersedingKeeps
<1>3. SameView(s, r) /\ Born(r, rows) = q
  BY <1>1, AppendSupersedingView
<1>4. RowCount(s) \in Nat
  BY <1>1, FieldTypes
<1>5. r.frozen = s.frozen /\ r.buffer = Append(s.buffer, row)
  <2> DEFINE d == Diverged(s, rows)
  <2>1. d.frozen = s.frozen /\ d.buffer = s.buffer /\ Shaped(d, AnyRow)
    BY <1>1, DivergedKeeps
  <2> HIDE DEF d
  <2>2. r = [d EXCEPT !.buffer = Append(@, row),
                      !.births = Append(Materialized(d), q),
                      !.next   = IF @ < q + 1 THEN q + 1 ELSE @]
    BY DEF AppendSuperseding, d
  <2> HIDE DEF r
  <2> QED  BY <2>1, <2>2 DEF Shaped, SharedFields
<1> HIDE DEF r
<1>6. Ids(s) \subseteq Ids(r) /\ rows \in Ids(r)
  BY <1>2, <1>4 DEF Ids
<1>7. \A c : Seen(s, c) => Seen(r, c)
  BY <1>3, <1>6 DEF Seen, SameView
<1>8. Seen(r, q)
  BY <1>3, <1>6 DEF Seen
<1> QED  BY <1>2, <1>3, <1>4, <1>5, <1>7, <1>8 DEF OneRowMore, r

LEMMA BackedReplaces ==
    ASSUME NEW d, IsDisk(d), NEW m, WellFormed(m.shared, AnyRow),
           NEW o, o.sequence \in Nat, o.total \in Nat, o.left \in Nat, o.left > 0,
           NEW t, NEW done, Backed(d, m, o, TRUE, FALSE, t, done),
           NEW row \in AnyRow, NEW synced \in BOOLEAN,
           NEW k, k.shared = AppendSuperseding(m.shared, row, o.sequence, RowCount(m.shared)),
           k.log = m.log,
           NEW x, x.sequence = o.sequence, x.total = o.total, x.left = o.left - 1,
           NEW e, CommittedSupersessions(e) = CommittedSupersessions(d),
           DOMAIN Tombstones(e) = DOMAIN Tombstones(d),
           m.log = "open" => Recorded(d, e, RowEntry(row), synced),
           m.log = "none" => e.wal = d.wal
    PROVE  Backed(e, k, x, TRUE, FALSE, t, done)
<1> DEFINE s == m.shared
           r == k.shared
           p == t.next - done
<1>1. /\ SettledAt(s, Pending(o, TRUE), t, done) /\ DOMAIN Tombstones(d) = Dead(s)
      /\ d.wal.synced <= Len(d.wal.entries)
      /\ \/ m.log = "open" /\ \E V, Q : LogIs(d, s, o, TRUE, p, V, Q)
         \/ m.log = "none" /\ LogOff(d, s, o, TRUE, p)
  BY DEF Backed
<1>2. /\ OneRowMore(s, r, row) /\ Dead(r) = Dead(s) /\ SameView(s, r)
      /\ RowCount(s) \in Nat /\ RowCount(r) = RowCount(s) + 1
  BY SupersedingMore
<1>3. s.buffer \in Seq(AnyRow)
  BY FieldTypes DEF WellFormed
<1> HIDE DEF s, r, p
<1>4. Pending(o, TRUE) \in Int /\ Pending(x, TRUE) = Pending(o, TRUE) + 1
  <2> DEFINE a == o.total
             b == o.left
  <2>1. Pending(o, TRUE) = a - b /\ Pending(x, TRUE) = a - (b - 1)
    BY DEF Pending
  <2>2. a \in Nat /\ b \in Nat
    OBVIOUS
  <2> HIDE DEF a, b
  <2>3. a - b \in Int /\ a - (b - 1) = (a - b) + 1
    BY <2>2
  <2> QED  BY <2>1, <2>3
<1>5. SettledAt(r, Pending(x, TRUE), t, done)
  <2> DEFINE z == Pending(o, TRUE)
             a == RowCount(s)
             b == RowCount(r)
  <2>1. SettledAt(r, z + (b - a), t, done)
    <3>1. RowCount(r) \in Nat /\ RowCount(s) <= RowCount(r) /\ RowCount(s) \in Nat
      <4> HIDE DEF a, b, z
      <4> DEFINE y == RowCount(s)
      <4>1. y \in Nat /\ RowCount(r) = y + 1 /\ RowCount(s) = y
        BY <1>2
      <4> HIDE DEF y
      <4> QED  BY <4>1
    <3>2. Dead(r) = Dead(s) /\ SameView(s, r)
      BY <1>2
    <3>3. SettledAt(s, Pending(o, TRUE), t, done)
      BY <1>1
    <3> QED  BY <3>1, <3>2, <3>3, SettledFurther
  <2>2. z \in Int
    BY <1>4, Zenon
  <2>3. b - a = 1
    <3> HIDE DEF z
    <3>1. a \in Nat /\ b = a + 1
      BY <1>2
    <3> HIDE DEF a, b
    <3> QED  BY <3>1
  <2> HIDE DEF z, a, b
  <2>4. z + (b - a) = z + 1
    BY <2>3
  <2> QED  BY <1>4, <2>1, <2>4 DEF z
<1>6. CASE m.log = "open" /\ \E V, Q : LogIs(d, s, o, TRUE, p, V, Q)
  <2>1. PICK V, Q : LogIs(d, s, o, TRUE, p, V, Q)
    BY <1>6
  <2>2. LogIs(e, r, x, TRUE, p, V, Append(Q, row))
    BY <1>2, <1>6, <2>1, BracketGrows
  <2>3. e.wal.synced <= Len(e.wal.entries)
    BY <2>2 DEF LogIs
  <2> QED  BY <1>1, <1>2, <1>5, <1>6, <2>2, <2>3 DEF Backed, r, p
<1>7. CASE m.log = "none" /\ LogOff(d, s, o, TRUE, p)
  <2>1. LogOff(e, r, x, TRUE, p)
    <3>1. ~d.wal.present /\ Len(s.buffer) = Pending(o, TRUE) + p
          /\ \A q \in CommittedSupersessions(d) : FrozenAt(s, q)
      <4>1. o.left # 0
        OBVIOUS
      <4> QED  BY <1>7, <4>1, Zenon DEF LogOff
    <3>2. r.frozen = s.frozen /\ Len(r.buffer) = Len(s.buffer) + 1
      BY <1>2, <1>3 DEF OneRowMore
    <3>3. p \in Int
      BY <1>1 DEF SettledAt, p
    <3>4. Len(r.buffer) = Pending(x, TRUE) + p
      <4> DEFINE z == Pending(o, TRUE)
                 w == Pending(x, TRUE)
                 l == Len(r.buffer)
                 n == Len(s.buffer)
      <4>1. z \in Int /\ w = z + 1 /\ p \in Int /\ l = n + 1 /\ n = z + p
        BY <1>4, <3>1, <3>2, <3>3
      <4> HIDE DEF z, w, l, n
      <4>2. l = w + p
        BY <4>1
      <4> QED  BY <4>2 DEF l, w
    <3>5. \A q \in CommittedSupersessions(e) : FrozenAt(r, q)
      BY <3>1, <3>2 DEF FrozenAt
    <3> QED  BY <1>7, <3>1, <3>4, <3>5 DEF LogOff
  <2> QED  BY <1>1, <1>2, <1>5, <1>7, <2>1 DEF Backed, r, p
<1> QED  BY <1>1, <1>6, <1>7

LEMMA AppendReplacementFinds ==
    ASSUME StoreInv, ServingFits, AppendReplacement, faults = 0, faults' = 0
    PROVE  Serving' /\ ServingFits'
<1>1. pc = "replace"
  BY DEF AppendReplacement
<1>2. PICK key \in Keys, outcome \in LogOutcomes, synced \in SyncChoices :
          LET row == [key |-> key, tag |-> minted + 1]
              entry == IF outcome = "torn" THEN TornEntry ELSE RowEntry(row)
          IN  /\ Wrote(outcome, [disk EXCEPT !.wal = Logged(@, entry, synced)])
              /\ \/ UNCHANGED mem /\ Abort(outcome)
                 \/ /\ outcome = "done"
                    /\ mem' = [mem EXCEPT
                                 !.shared = AppendSuperseding(@, row, op.sequence, mem.rows),
                                 !.rows = @ + 1]
                    /\ op' = [op EXCEPT !.left = @ - 1]
                    /\ pc' = IF op.left = 1 THEN "sync" ELSE pc
                    /\ UNCHANGED <<then, truth, promised>>
  BY Zenon DEF AppendReplacement
<1> DEFINE row == [key |-> key, tag |-> minted + 1]
           s == mem.shared
           r == AppendSuperseding(s, row, op.sequence, mem.rows)
           n == mem.rows + 1
<1>3. /\ IsDisk(disk) /\ IsMemory(mem) /\ IsOperation(op) /\ minted \in Nat /\ then = "idle"
      /\ WellFormed(s, AnyRow) /\ mem.rows = RowCount(s) /\ VictimsFit
  BY <1>1 DEF StoreInv, Typed, Flushing, Up, StateFits
<1>4. row \in AnyRow
  BY <1>3 DEF AnyRow
<1>5. outcome = "done"
  BY <1>2, OnlyDone
<1>6. /\ disk' = [disk EXCEPT !.wal = Logged(@, RowEntry(row), synced)]
      /\ mem' = WithRow(mem, r, n)
      /\ op' = [op EXCEPT !.left = op.left - 1]
      /\ pc' = (IF op.left = 1 THEN "sync" ELSE "replace")
      /\ UNCHANGED <<then, truth, promised>>
  BY <1>1, <1>2, <1>5, OnlyDone DEF Wrote, WithRow
<1> HIDE DEF row
<1>7. mem'.shared = r /\ mem'.log = mem.log /\ mem'.walSync = mem.walSync
  <2> HIDE DEF r, n
  <2>1. n \in Nat
    BY <1>3, MemoryParts DEF n
  <2>2. mem'.shared = r
    BY <1>3, <1>6, <2>1, MemoryWithRow
  <2>3. mem'.log = mem.log
    BY <1>3, <1>6, MemoryLevels
  <2>4. mem'.walSync = mem.walSync
    BY <1>3, <1>6, MemorySyncs
  <2> QED  BY <2>2, <2>3, <2>4
<1>8. op.left > 0 /\ op.left \in Nat /\ op.total \in Nat /\ op.sequence \in Nat
  <2>1. op.left > 0
    BY <1>1, <1>3 DEF VictimsFit
  <2> QED  BY <1>3, <2>1, OperationParts
<1>9. op'.left = op.left - 1 /\ op'.sequence = op.sequence /\ op'.total = op.total
  <2>1. op.left - 1 \in Nat
    BY <1>8
  <2>2. op'.left = op.left - 1 /\ op'.sequence = op.sequence
    BY <1>3, <1>6, <2>1, OperationParts
  <2>3. op'.total = op.total
    BY <1>3, <1>6 DEF IsOperation
  <2> QED  BY <2>2, <2>3
<1>10. InBracket /\ InBracket' /\ ~Spent /\ ~Spent' /\ Serving'
  BY <1>1, <1>6 DEF InBracket, Spent, Serving
<1>11. InBracket = TRUE /\ InBracket' = TRUE /\ Spent = FALSE /\ Spent' = FALSE
  BY <1>10, Flags
<1>12. synced \in BOOLEAN
  BY DEF SyncChoices
<1>13. /\ disk'.manifest = disk.manifest /\ disk'.segments = disk.segments
       /\ CommittedSupersessions(disk') = CommittedSupersessions(disk)
       /\ DOMAIN Tombstones(disk') = DOMAIN Tombstones(disk)
       /\ mem.log = "open" => Recorded(disk, disk', RowEntry(row), synced)
       /\ mem.log # "open" => disk'.wal = disk.wal
  <2>1. RowEntry(row) \in Entry(AnyRow)
    BY <1>4, EntriesAre
  <2> QED  BY <1>3, <1>6, <2>1, LoggedRecords
<1>14. Backed(disk, mem, op, TRUE, FALSE, truth, promised) /\ BracketFits
  BY <1>11 DEF ServingFits
<1>15. Backed(disk', mem', op', TRUE, FALSE, truth, promised)
  <2>1. mem.log = "none" => disk'.wal = disk.wal
    BY <1>13
  <2>2. mem'.shared = AppendSuperseding(mem.shared, row, op.sequence, RowCount(mem.shared))
    BY <1>3, <1>7
  <2> HIDE DEF r, s
  <2> QED  BY <1>3, <1>4, <1>7, <1>8, <1>9, <1>12, <1>13, <1>14, <2>1, <2>2, BackedReplaces DEF s
<1>16. Backed(disk, mem, op, InBracket, Spent, truth, promised)'
  BY <1>6, <1>11, <1>15
<1>17. BracketFits'
  <2>1. OpenFit(disk, op, TRUE)
    BY <1>11, <1>14 DEF BracketFits
  <2>2. OpenFit(disk', op', InBracket')
    <3>1. /\ op.sequence \notin CommittedSupersessions(disk)
          /\ op.total > 0 /\ op.left \in 0 .. op.total
      BY <2>1 DEF OpenFit
    <3>2. op'.left \in 0 .. op'.total
      BY <1>8, <1>9, <3>1
    <3> QED  BY <1>9, <1>13, <3>1, <3>2 DEF OpenFit
  <2>3. Seen(mem'.shared, op'.sequence)
    BY <1>3, <1>4, <1>7, <1>8, <1>9, SupersedingMore
  <2>4. (InBracket => (op.left > 0 <=> pc = "replace"))'
    <3>1. CASE op.left = 1
      BY <1>6, <1>8, <1>9, <3>1
    <3>2. CASE op.left # 1
      <4>1. op'.left > 0 /\ pc' = "replace"
        BY <1>6, <1>8, <1>9, <3>2
      <4> QED  BY <4>1
    <3> QED  BY <3>1, <3>2
  <2>5. pc' # "commit log" /\ then' # "commit log" /\ pc' # "bracket" /\ then' # "bracket"
    BY <1>3, <1>6
  <2> QED  BY <2>2, <2>3, <2>4, <2>5 DEF BracketFits
<1>18. Unlisted'
  <2>1. Unlisted
    BY DEF ServingFits
  <2> QED  BY <1>1, <1>13, <2>1 DEF Unlisted
<1>19. (~InBracket => truth = Told(mem.shared))' /\ (mem.log = "none" <=> mem.walSync = "Off")'
  BY <1>7, <1>10 DEF ServingFits
<1> QED  BY <1>10, <1>16, <1>17, <1>18, <1>19 DEF ServingFits

\* The log's records are synced.
LEMMA SyncedParts ==
    ASSUME NEW d, IsDisk(d), NEW e, e = [d EXCEPT !.wal.synced = Len(d.wal.entries)]
    PROVE  /\ e.manifest = d.manifest /\ e.segments = d.segments
           /\ CommittedSupersessions(e) = CommittedSupersessions(d)
           /\ DOMAIN Tombstones(e) = DOMAIN Tombstones(d)
           /\ e.wal.present = d.wal.present /\ e.wal.generation = d.wal.generation
           /\ e.wal.base = d.wal.base /\ e.wal.entries = d.wal.entries
           /\ e.wal.synced = Len(d.wal.entries)
<1> DEFINE w == [d.wal EXCEPT !.synced = Len(d.wal.entries)]
<1>1. e = [d EXCEPT !.wal = w]
  OBVIOUS
<1>2. d.wal \in Log(AnyRow)
  BY DiskParts
<1>3. /\ w.present = d.wal.present /\ w.generation = d.wal.generation
      /\ w.base = d.wal.base /\ w.entries = d.wal.entries
      /\ w.synced = Len(d.wal.entries)
  BY <1>2 DEF Log
<1> HIDE DEF w
<1>4. /\ e.wal = w /\ e.manifest = d.manifest /\ e.segments = d.segments
      /\ e.deletes = d.deletes /\ e.history = d.history
  BY <1>1 DEF IsDisk
<1>5. /\ CommittedSupersessions(e) = CommittedSupersessions(d)
      /\ Tombstones(e) = Tombstones(d)
  BY <1>4, SameObjects
<1> QED  BY <1>3, <1>4, <1>5

LEMMA BackedSynced ==
    ASSUME NEW d, IsDisk(d), NEW m, WellFormed(m.shared, AnyRow), m.log = "open",
           NEW o, NEW open \in BOOLEAN, NEW t, NEW done,
           Backed(d, m, o, open, FALSE, t, done),
           NEW e, e = [d EXCEPT !.wal.synced = Len(d.wal.entries)]
    PROVE  Backed(e, m, o, open, FALSE, t, t.next)
<1> DEFINE s == m.shared
           p == t.next - done
           z == t.next - t.next
<1>1. /\ SettledAt(s, Pending(o, open), t, done) /\ DOMAIN Tombstones(d) = Dead(s)
      /\ \E V, Q : LogIs(d, s, o, open, p, V, Q)
  BY DEF Backed
<1>2. /\ e.manifest = d.manifest /\ e.segments = d.segments
      /\ CommittedSupersessions(e) = CommittedSupersessions(d)
      /\ DOMAIN Tombstones(e) = DOMAIN Tombstones(d)
      /\ e.wal.present = d.wal.present /\ e.wal.generation = d.wal.generation
      /\ e.wal.base = d.wal.base /\ e.wal.entries = d.wal.entries
      /\ e.wal.synced = Len(d.wal.entries)
  BY SyncedParts, Zenon
<1>3. RowCount(s) \in Nat
  BY FieldTypes DEF WellFormed
<1> HIDE DEF s, p
<1>4. SettledAt(s, Pending(o, open), t, t.next)
  BY <1>1, <1>3, SettledPromise
<1>5. z = 0
  BY <1>4 DEF SettledAt
<1> HIDE DEF z
<1>6. PICK V, Q : LogIs(d, s, o, open, p, V, Q)
  BY <1>1
<1>7. LogIs(e, s, o, open, 0, V, Q)
  BY <1>2, <1>6, LogSynced
<1>8. e.wal.synced <= Len(e.wal.entries)
  BY <1>7 DEF LogIs
<1>9. \E X, Y : LogIs(e, s, o, open, z, X, Y)
  BY <1>5, <1>7
<1> QED  BY <1>1, <1>2, <1>4, <1>8, <1>9 DEF Backed, s, z

LEMMA SyncReplacementsFinds ==
    ASSUME StoreInv, ServingFits, SyncReplacements, faults = 0, faults' = 0
    PROVE  Serving' /\ ServingFits'
<1>1. pc = "sync"
  BY DEF SyncReplacements
<1>2. /\ IsDisk(disk) /\ IsMemory(mem) /\ IsOperation(op) /\ then = "idle"
      /\ WellFormed(mem.shared, AnyRow)
  BY <1>1 DEF StoreInv, Typed, Flushing, Up, StateFits
<1>3. InBracket /\ ~Spent
  BY <1>1 DEF InBracket, Spent
<1>4. InBracket = TRUE /\ Spent = FALSE
  BY <1>3, Flags
<1>5. Backed(disk, mem, op, TRUE, FALSE, truth, promised) /\ BracketFits /\ Unlisted
  BY <1>4 DEF ServingFits
<1>6. OpenFit(disk, op, TRUE)
  BY <1>4, <1>5 DEF BracketFits
<1>7. ~(op.left > 0)
  BY <1>1, <1>3, <1>5 DEF BracketFits
<1>8. op.left < op.total => Seen(mem.shared, op.sequence)
  BY <1>3, <1>5 DEF BracketFits
<1>9. CASE mem.log = "none"
  <2>1. /\ FlushThen(mem.shared.buffer, "commit log")
        /\ UNCHANGED <<disk, mem, op, truth, promised>>
    BY <1>9 DEF SyncReplacements, ghosts
  <2>2. \/ pc' = "commit log" /\ then' = "idle" /\ mem.shared.buffer = << >>
        \/ pc' = "flush" /\ then' = "commit log"
    BY <2>1 DEF FlushThen
  <2>3. InBracket' /\ ~Spent' /\ Serving'
    BY <2>2 DEF InBracket, Spent, Serving
  <2>4. InBracket' = TRUE /\ Spent' = FALSE
    BY <2>3, Flags
  <2>5. Backed(disk, mem, op, InBracket, Spent, truth, promised)'
    BY <1>5, <2>1, <2>4
  <2>6. BracketFits'
    <3>1. OpenFit(disk', op', InBracket')
      BY <1>6, <2>1, <2>4
    <3>2. ~(op'.left > 0) /\ pc' # "replace"
      BY <1>7, <2>1, <2>2
    <3>3. pc' = "commit log" => mem'.log # "open" /\ mem'.shared.buffer = << >>
      BY <1>9, <2>1, <2>2
    <3>4. pc' # "bracket" /\ then' # "bracket" /\ mem'.log = "none"
      BY <1>9, <2>1, <2>2
    <3>5. op'.left < op'.total => Seen(mem'.shared, op'.sequence)
      BY <1>8, <2>1
    <3> QED  BY <3>1, <3>2, <3>3, <3>4, <3>5 DEF BracketFits
  <2>7. Unlisted'
    BY <1>1, <1>5, <2>1 DEF Unlisted
  <2>8. (~InBracket => truth = Told(mem.shared))' /\ (mem.log = "none" <=> mem.walSync = "Off")'
    BY <2>1, <2>3 DEF ServingFits
  <2> QED  BY <2>3, <2>5, <2>6, <2>7, <2>8 DEF ServingFits
<1>10. CASE mem.log # "none"
  <2>1. mem.log = "open"
    BY <1>5, <1>10 DEF Backed
  <2>2. PICK outcome \in Outcomes :
              /\ Wrote(outcome, SyncedLog)
              /\ UNCHANGED mem
              /\ \/ Abort(outcome)
                 \/ /\ outcome = "done"
                    /\ pc' = "commit log"
                    /\ promised' = truth.next
                    /\ UNCHANGED <<then, op, truth>>
    BY <2>1 DEF SyncReplacements
  <2>3. outcome = "done"
    BY <2>2, OnlyDone
  <2>4. /\ disk' = [disk EXCEPT !.wal.synced = Len(disk.wal.entries)]
        /\ mem' = mem /\ pc' = "commit log" /\ promised' = truth.next
        /\ UNCHANGED <<then, op, truth>>
    BY <2>2, <2>3, OnlyDone DEF Wrote, SyncedLog
  <2>5. InBracket' /\ ~Spent' /\ Serving'
    BY <2>4 DEF InBracket, Spent, Serving
  <2>6. InBracket' = TRUE /\ Spent' = FALSE
    BY <2>5, Flags
  <2>7. Backed(disk', mem, op, TRUE, FALSE, truth, truth.next)
    BY <1>2, <1>5, <2>1, <2>4, BackedSynced
  <2>8. Backed(disk, mem, op, InBracket, Spent, truth, promised)'
    BY <2>4, <2>6, <2>7
  <2>9. /\ disk'.manifest = disk.manifest /\ disk'.segments = disk.segments
        /\ CommittedSupersessions(disk') = CommittedSupersessions(disk)
        /\ disk'.wal.entries = disk.wal.entries
        /\ disk'.wal.synced = Len(disk.wal.entries)
    BY <1>2, <2>4, SyncedParts
  <2>10. BracketFits'
    <3>1. OpenFit(disk', op', InBracket')
      BY <1>6, <2>4, <2>6, <2>9 DEF OpenFit
    <3>2. ~(op'.left > 0) /\ pc' # "replace"
      BY <1>7, <2>4
    <3>3. mem'.log = "open" /\ disk'.wal.synced = Len(disk'.wal.entries)
      BY <2>1, <2>4, <2>9
    <3>4. pc' # "bracket" /\ then' # "bracket" /\ then' # "commit log"
      BY <1>2, <2>4
    <3>5. op'.left < op'.total => Seen(mem'.shared, op'.sequence)
      BY <1>8, <2>4
    <3> QED  BY <3>1, <3>2, <3>3, <3>4, <3>5 DEF BracketFits
  <2>11. Unlisted'
    BY <1>1, <1>5, <2>9 DEF Unlisted
  <2>12. (~InBracket => truth = Told(mem.shared))' /\ (mem.log = "none" <=> mem.walSync = "Off")'
    BY <2>4, <2>5 DEF ServingFits
  <2> QED  BY <2>5, <2>8, <2>10, <2>11, <2>12 DEF ServingFits
<1> QED  BY <1>9, <1>10
----------------------------------------------------------------------------
\* Delete logs.

LEMMA DeleteLogAdds ==
    ASSUME NEW d, NEW e, NEW n, NEW log, e.manifest = d.manifest,
           n[1] = d.manifest.generation, n \notin DOMAIN d.deletes,
           e.deletes = Publish(d.deletes, n, log)
    PROVE  /\ CommittedSupersessions(e)
                = CommittedSupersessions(d) \cup (IF log.superseding THEN {log.stamp} ELSE {})
           /\ DOMAIN Tombstones(e) = DOMAIN Tombstones(d) \cup log.ids
<1>1. /\ DOMAIN e.deletes = DOMAIN d.deletes \cup {n} /\ e.deletes[n] = log
      /\ \A k \in DOMAIN d.deletes : e.deletes[k] = d.deletes[k]
  BY DEF Publish
<1>2. DeleteLogs(e) = DeleteLogs(d) \cup {n}
  BY <1>1 DEF DeleteLogs
<1>3. /\ \A k \in DeleteLogs(d) : e.deletes[k] = d.deletes[k]
      /\ n \notin DeleteLogs(d)
  BY <1>1 DEF DeleteLogs
<1>4. CommittedSupersessions(e)
        = CommittedSupersessions(d) \cup (IF log.superseding THEN {log.stamp} ELSE {})
  BY <1>1, <1>2, <1>3 DEF CommittedSupersessions
<1>5. UNION {e.deletes[k].ids : k \in DeleteLogs(e)}
        = (UNION {d.deletes[k].ids : k \in DeleteLogs(d)}) \cup log.ids
  BY <1>1, <1>2, <1>3
<1>6. /\ DOMAIN Tombstones(e) = UNION {e.deletes[k].ids : k \in DeleteLogs(e)}
      /\ DOMAIN Tombstones(d) = UNION {d.deletes[k].ids : k \in DeleteLogs(d)}
  BY DEF Tombstones
<1> QED  BY <1>4, <1>5, <1>6

\* The same rows in the same places, and the same births.
SameRows(s, r) ==
    /\ r.frozen = s.frozen /\ r.buffer = s.buffer
    /\ RowCount(r) = RowCount(s) /\ SameView(s, r)

LEMMA StillSeen ==
    ASSUME NEW s, NEW r, SameRows(s, r)
    PROVE  /\ \A q : Seen(s, q) => Seen(r, q)
           /\ \A q : FrozenAt(s, q) => FrozenAt(r, q)
<1>1. Ids(r) = Ids(s)
  BY DEF SameRows, Ids
<1>2. \A id \in Ids(s) : Born(r, id) = Born(s, id)
  BY DEF SameRows, SameView
<1>3. r.frozen = s.frozen
  BY DEF SameRows
<1> QED  BY <1>1, <1>2, <1>3 DEF Seen, FrozenAt

\* u is the supersession of o, whole, with the rows Q.
Whole(u, C, q, Q, o) ==
    /\ u \in WholeUnits(AnyRow, C) /\ u \in UnitType(AnyRow)
    /\ u.bracket /\ u.sequence = q /\ u.rows = Q
    /\ EntriesOf(u) = OpenTail(o, TRUE, Q)

LEMMA BracketWhole ==
    ASSUME NEW q \in Nat, NEW n \in Nat, n > 0, NEW Q \in Seq(AnyRow), Len(Q) = n,
           NEW o, o.sequence = q, o.total = n, NEW C, q \in C
    PROVE  Whole(Unit(TRUE, q, Q), C, q, Q, o)
<1> DEFINE u == Unit(TRUE, q, Q)
<1>1. u.bracket = TRUE /\ u.sequence = q /\ u.rows = Q /\ u \in UnitType(AnyRow)
  BY DEF Unit, UnitType
<1> HIDE DEF u
<1>2. Q # << >> /\ DOMAIN Q = 1 .. Len(Q)
  OBVIOUS
<1>3. u \in WholeUnits(AnyRow, C)
  BY <1>1, <1>2 DEF WholeUnits, Plain
<1>4. EntriesOf(u) = OpenTail(o, TRUE, Q)
  BY <1>1, <1>2, Zenon DEF EntriesOf, OpenTail
<1> QED  BY <1>1, <1>3, <1>4 DEF u, Whole

LEMMA WholeStill ==
    ASSUME NEW C, NEW D, C \subseteq D, NEW V \in Seq(WholeUnits(AnyRow, C))
    PROVE  V \in Seq(WholeUnits(AnyRow, D))
<1>1. WholeUnits(AnyRow, C) \subseteq WholeUnits(AnyRow, D)
  BY DEF WholeUnits
<1> HIDE DEF WholeUnits
<1> QED  BY <1>1

\* The open bracket is a unit like any other once its delete log is there.
LEMMA LogCommits ==
    ASSUME NEW d, IsDisk(d), NEW s, NEW o, o.sequence \in Nat, o.total \in Nat, o.total > 0,
           o.left = 0,
           NEW p, NEW V, NEW Q, LogIs(d, s, o, TRUE, p, V, Q),
           d.wal.synced = Len(d.wal.entries), Seen(s, o.sequence),
           NEW r, SameRows(s, r), NEW x,
           NEW e, e.wal = d.wal, e.manifest = d.manifest,
           CommittedSupersessions(e) = CommittedSupersessions(d) \cup {o.sequence}
    PROVE  LogIs(e, r, x, FALSE, 0, Append(V, Unit(TRUE, o.sequence, Q)), << >>)
<1> DEFINE C == CommittedSupersessions(d)
           D == CommittedSupersessions(e)
           q == o.sequence
           u == Unit(TRUE, q, Q)
           U == Append(V, u)
<1>1. /\ V \in Seq(WholeUnits(AnyRow, C)) /\ Q \in Seq(AnyRow)
      /\ d.wal.present /\ d.wal.generation = d.manifest.generation
      /\ d.wal.base = Len(s.frozen) /\ s.buffer = Carried(V) \o Q
      /\ Len(Q) = o.total - o.left
      /\ d.wal.entries = Encoded(V) \o OpenTail(o, TRUE, Q)
  BY DEF LogIs
<1>2. /\ \A i \in 1 .. Len(V) : V[i].bracket => Seen(s, V[i].sequence)
      /\ \A c \in C : \/ FrozenAt(s, c)
                      \/ \E i \in 1 .. Len(V) : V[i].bracket /\ V[i].sequence = c
  BY DEF LogIs
<1>3. Len(Q) = o.total
  <2> DEFINE a == o.total
             b == o.left
  <2>1. a \in Nat /\ b = 0 /\ Len(Q) = a - b
    BY <1>1
  <2> HIDE DEF a, b
  <2>2. Len(Q) = a
    BY <2>1
  <2> QED  BY <2>2 DEF a
<1>4. D = C \cup {q}
  OBVIOUS
<1> HIDE DEF C, D
<1>5. V \in Seq(WholeUnits(AnyRow, D))
  BY <1>1, <1>4, WholeStill
<1>6. /\ u \in WholeUnits(AnyRow, D) /\ u \in UnitType(AnyRow)
      /\ u.bracket /\ u.sequence = q /\ u.rows = Q
      /\ EntriesOf(u) = OpenTail(o, TRUE, Q)
  <2>1. q \in D /\ q \in Nat
    BY <1>4
  <2> DEFINE n == o.total
  <2>2. Q \in Seq(AnyRow) /\ Len(Q) = n /\ n \in Nat /\ n > 0
    BY <1>1, <1>3
  <2>3. o.sequence = q /\ o.total = n
    BY Zenon
  <2> HIDE DEF q, n
  <2>4. Whole(u, D, q, Q, o)
    BY <2>1, <2>2, <2>3, BracketWhole
  <2> QED  BY <2>4 DEF Whole
<1> HIDE DEF u
<1>7. U \in Seq(WholeUnits(AnyRow, D)) /\ Len(U) = Len(V) + 1 /\ Len(V) \in Nat
      /\ (\A i \in 1 .. Len(V) : U[i] = V[i]) /\ U[Len(V) + 1] = u
  BY <1>5, <1>6
<1>8. V \in Seq(UnitType(AnyRow))
  BY <1>5, EncodedWhole
<1>9. Carried(U) = Carried(V) \o Q
  BY <1>6, <1>8, CarriedMore
<1>10. Encoded(U) = Encoded(V) \o OpenTail(o, TRUE, Q)
  BY <1>6, <1>8, EncodedMore
<1>11. Carried(U) \in Seq(AnyRow) /\ Encoded(U) \in Seq(Entry(AnyRow))
  <2>1. U \in Seq(UnitType(AnyRow))
    BY <1>7, EncodedWhole
  <2> HIDE DEF U
  <2> QED  BY <2>1, CarriedTyped, EncodedTyped
<1> HIDE DEF U
<1>12. r.buffer = Carried(U) \o << >>
  <2>1. r.buffer = Carried(U)
    BY <1>1, <1>9 DEF SameRows
  <2> QED  BY <1>11, <2>1
<1>13. e.wal.entries = Encoded(U) \o OpenTail(x, FALSE, << >>)
  <2>1. OpenTail(x, FALSE, << >>) = << >>
    BY Zenon DEF OpenTail
  <2>2. e.wal.entries = Encoded(U)
    BY <1>1, <1>10
  <2>3. Encoded(U) \o << >> = Encoded(U)
    BY <1>11
  <2> QED  BY <2>1, <2>2, <2>3, Zenon
<1>14. e.wal.synced = Len(Encoded(U)) /\ Len(Encoded(U)) \in Nat
       /\ Len(e.wal.entries) = Len(Encoded(U))
  <2>1. d.wal.entries = Encoded(U)
    BY <1>1, <1>10, Zenon
  <2>2. Len(Encoded(U)) \in Nat
    BY <1>11
  <2> QED  BY <2>1, <2>2, Zenon
<1>15. 0 \in 0 .. Len(U) /\ TailPlain(U, 0)
  <2>1. Len(U) \in Nat
    BY <1>7
  <2> QED  BY <2>1 DEF TailPlain
<1>16. (\A c : Seen(s, c) => Seen(r, c)) /\ (\A c : FrozenAt(s, c) => FrozenAt(r, c))
  BY StillSeen
<1>17. \A i \in 1 .. Len(U) : U[i].bracket => Seen(r, U[i].sequence)
  <2> SUFFICES ASSUME NEW i \in 1 .. Len(U), U[i].bracket PROVE Seen(r, U[i].sequence)
    OBVIOUS
  <2>1. i \in 1 .. Len(V) \/ i = Len(V) + 1
    BY <1>7
  <2> QED  BY <1>2, <1>6, <1>7, <1>16, <2>1
<1>18. \A c \in D : \/ FrozenAt(r, c)
                    \/ \E i \in 1 .. Len(U) : U[i].bracket /\ U[i].sequence = c
  <2> SUFFICES ASSUME NEW c \in D, ~FrozenAt(r, c)
               PROVE  \E i \in 1 .. Len(U) : U[i].bracket /\ U[i].sequence = c
    OBVIOUS
  <2>1. CASE c = q
    <3>1. Len(V) + 1 \in 1 .. Len(U)
      BY <1>7
    <3> QED  BY <1>6, <1>7, <2>1, <3>1
  <2>2. CASE c \in C
    <3>1. PICK i \in 1 .. Len(V) : V[i].bracket /\ V[i].sequence = c
      BY <1>2, <1>16, <2>2
    <3>2. i \in 1 .. Len(U) /\ U[i] = V[i]
      BY <1>7
    <3> QED  BY <3>1, <3>2
  <2> QED  BY <1>4, <2>1, <2>2
<1>19. Len(<< >>) = 0 /\ << >> \in Seq(AnyRow)
  OBVIOUS
<1>20. /\ e.wal.present /\ e.wal.generation = e.manifest.generation
       /\ e.wal.base = Len(r.frozen)
  BY <1>1 DEF SameRows
<1>21. e.wal.synced <= Len(e.wal.entries) /\ Len(Encoded(U)) <= e.wal.synced + 0
  BY <1>14
<1> QED  BY <1>7, <1>12, <1>13, <1>15, <1>17, <1>18, <1>19, <1>20, <1>21 DEF LogIs, D, U, u

\* Where nothing is buffered every row is a frozen one.
LEMMA SeenFrozen ==
    ASSUME NEW s, Shaped(s, AnyRow), s.buffer = << >>, NEW q, Seen(s, q)
    PROVE  FrozenAt(s, q)
<1>1. PICK id \in Ids(s) : Born(s, id) = q
  BY DEF Seen
<1> DEFINE n == Len(s.frozen)
<1>2. n \in Nat /\ RowCount(s) = n + Len(s.buffer) /\ Len(s.buffer) = 0
  BY FieldTypes
<1> HIDE DEF n
<1>3. id \in 0 .. n - 1
  <2>1. RowCount(s) = n
    BY <1>2
  <2> QED  BY <2>1 DEF Ids
<1>4. id + 1 \in 1 .. n /\ id < n
  BY <1>2, <1>3
<1>5. s.frozen[id + 1].born = q
  BY <1>1, <1>4 DEF Born, n
<1> QED  BY <1>4, <1>5 DEF FrozenAt, n

\* The delete log of a supersession commits it.
LEMMA BackedCommits ==
    ASSUME NEW d, IsDisk(d), NEW m, WellFormed(m.shared, AnyRow),
           NEW o, o.sequence \in Nat, o.total \in Nat, o.total > 0, o.left = 0,
           NEW t, NEW done, Backed(d, m, o, TRUE, FALSE, t, done),
           m.log = "open" => d.wal.synced = Len(d.wal.entries),
           m.log = "none" => m.shared.buffer = << >>,
           Seen(m.shared, o.sequence),
           NEW k, SameRows(m.shared, k.shared), WellFormed(k.shared, AnyRow), Known(k.shared),
           k.log = m.log,
           NEW ids, Dead(k.shared) = Dead(m.shared) \cup ids, NEW x,
           NEW e, e.wal = d.wal, e.manifest = d.manifest,
           CommittedSupersessions(e) = CommittedSupersessions(d) \cup {o.sequence},
           DOMAIN Tombstones(e) = DOMAIN Tombstones(d) \cup ids
    PROVE  Backed(e, k, x, FALSE, FALSE, Told(k.shared), Told(k.shared).next)
<1> DEFINE s == m.shared
           r == k.shared
           p == t.next - done
           u == Told(r)
           z == u.next - u.next
<1>1. /\ DOMAIN Tombstones(d) = Dead(s)
      /\ d.wal.synced <= Len(d.wal.entries)
      /\ \/ m.log = "open" /\ \E V, Q : LogIs(d, s, o, TRUE, p, V, Q)
         \/ m.log = "none" /\ LogOff(d, s, o, TRUE, p)
  BY DEF Backed
<1>2. SettledAt(r, 0, u, u.next)
  BY SettledNow
<1>3. z = 0
  BY <1>2 DEF SettledAt
<1>4. Pending(x, FALSE) = 0
  BY DEF Pending
<1>5. SettledAt(r, Pending(x, FALSE), u, u.next) /\ DOMAIN Tombstones(e) = Dead(r)
  BY <1>1, <1>2, <1>4
<1> HIDE DEF s, r, p, z, u
<1>6. CASE m.log = "open" /\ \E V, Q : LogIs(d, s, o, TRUE, p, V, Q)
  <2>1. PICK V, Q : LogIs(d, s, o, TRUE, p, V, Q)
    BY <1>6
  <2>2. LogIs(e, r, x, FALSE, 0, Append(V, Unit(TRUE, o.sequence, Q)), << >>)
    <3>1. SameRows(s, r) /\ Seen(s, o.sequence)
      BY DEF s, r
    <3>2. d.wal.synced = Len(d.wal.entries)
      BY <1>6
    <3> QED  BY <2>1, <3>1, <3>2, LogCommits
  <2>3. e.wal.synced <= Len(e.wal.entries)
    BY <2>2 DEF LogIs
  <2>4. \E V1, Q1 : LogIs(e, r, x, FALSE, z, V1, Q1)
    BY <1>3, <2>2
  <2> QED  BY <1>5, <1>6, <2>3, <2>4 DEF Backed, r, u, z
<1>7. CASE m.log = "none" /\ LogOff(d, s, o, TRUE, p)
  <2>1. ~d.wal.present /\ \A q \in CommittedSupersessions(d) : FrozenAt(s, q)
    BY <1>7 DEF LogOff
  <2>2. s.buffer = << >> /\ r.frozen = s.frozen /\ r.buffer = << >>
    BY <1>7 DEF SameRows, s, r
  <2>3. FrozenAt(s, o.sequence)
    <3>1. Seen(s, o.sequence) /\ Shaped(s, AnyRow)
      BY DEF s, WellFormed
    <3> QED  BY <2>2, <3>1, SeenFrozen
  <2>4. \A q \in CommittedSupersessions(e) : FrozenAt(r, q)
    BY <2>1, <2>2, <2>3 DEF FrozenAt
  <2>5. Len(r.buffer) = Pending(x, FALSE) + z
    <3> DEFINE l == Len(r.buffer)
               w == Pending(x, FALSE)
    <3>1. l = 0
      BY <2>2
    <3>2. w = 0 /\ z = 0
      BY <1>3, <1>4
    <3> HIDE DEF l, w
    <3>3. l = w + z
      BY <3>1, <3>2
    <3> QED  BY <3>3 DEF l, w
  <2>6. LogOff(e, r, x, FALSE, z)
    BY <2>1, <2>4, <2>5 DEF LogOff
  <2> QED  BY <1>1, <1>5, <1>7, <2>6 DEF Backed, r, u, z
<1> QED  BY <1>1, <1>6, <1>7

\* A delete log where nothing is buffered.
LEMMA BackedKills ==
    ASSUME NEW d, IsDisk(d), NEW m, WellFormed(m.shared, AnyRow), m.shared.buffer = << >>,
           NEW o, NEW t, NEW done, Backed(d, m, o, FALSE, FALSE, t, done),
           NEW k, SameRows(m.shared, k.shared), WellFormed(k.shared, AnyRow), Known(k.shared),
           k.log = m.log,
           NEW ids, Dead(k.shared) = Dead(m.shared) \cup ids, NEW x,
           NEW e, e.wal = d.wal, e.manifest = d.manifest,
           CommittedSupersessions(e) = CommittedSupersessions(d),
           DOMAIN Tombstones(e) = DOMAIN Tombstones(d) \cup ids
    PROVE  Backed(e, k, x, FALSE, FALSE, Told(k.shared), Told(k.shared).next)
<1> DEFINE s == m.shared
           r == k.shared
           p == t.next - done
           u == Told(r)
           z == u.next - u.next
           C == CommittedSupersessions(d)
<1>1. /\ DOMAIN Tombstones(d) = Dead(s)
      /\ d.wal.synced <= Len(d.wal.entries)
      /\ \/ m.log = "open" /\ \E V, Q : LogIs(d, s, o, FALSE, p, V, Q)
         \/ m.log = "none" /\ LogOff(d, s, o, FALSE, p)
  BY DEF Backed
<1>2. SettledAt(r, 0, u, u.next)
  BY SettledNow
<1>3. z = 0
  BY <1>2 DEF SettledAt
<1>4. Pending(x, FALSE) = 0
  BY DEF Pending
<1>5. SettledAt(r, Pending(x, FALSE), u, u.next) /\ DOMAIN Tombstones(e) = Dead(r)
  BY <1>1, <1>2, <1>4
<1>6. SameRows(s, r) /\ s.buffer = << >> /\ r.buffer = << >> /\ r.frozen = s.frozen
  BY DEF SameRows
<1>7. CommittedSupersessions(e) = C
  OBVIOUS
<1> HIDE DEF s, r, p, z, u, C
<1>8. (\A c : Seen(s, c) => Seen(r, c)) /\ (\A c : FrozenAt(s, c) => FrozenAt(r, c))
  BY <1>6, StillSeen
<1>9. CASE m.log = "open" /\ \E V, Q : LogIs(d, s, o, FALSE, p, V, Q)
  <2>1. PICK V, Q : LogIs(d, s, o, FALSE, p, V, Q)
    BY <1>9
  <2>2. /\ V \in Seq(WholeUnits(AnyRow, C)) /\ Q \in Seq(AnyRow) /\ Len(Q) = 0
        /\ d.wal.present /\ d.wal.generation = d.manifest.generation
        /\ d.wal.base = Len(s.frozen) /\ s.buffer = Carried(V) \o Q
        /\ d.wal.entries = Encoded(V) \o OpenTail(o, FALSE, Q)
        /\ d.wal.synced <= Len(d.wal.entries)
        /\ p \in 0 .. Len(V)
        /\ Len(Encoded(V)) <= d.wal.synced + p
        /\ \A q \in C : \/ FrozenAt(s, q)
                        \/ \E i \in 1 .. Len(V) : V[i].bracket /\ V[i].sequence = q
    BY <2>1 DEF LogIs, C
  <2>3. V = << >> /\ p = 0
    <3>1. Len(V) <= Len(Carried(V)) /\ Carried(V) \in Seq(AnyRow)
      BY <2>2, CountsCarried
    <3>2. Len(Carried(V)) = 0
      <4> HIDE DEF Carried
      <4> QED  BY <1>6, <2>2, <3>1
    <3>3. Len(V) = 0
      BY <2>2, <3>1, <3>2
    <3> QED  BY <2>2, <3>3
  <2>4. OpenTail(x, FALSE, Q) = OpenTail(o, FALSE, Q)
    BY Zenon DEF OpenTail
  <2>5. LogIs(e, r, x, FALSE, 0, V, Q)
    <3>1. 0 \in 0 .. Len(V) /\ TailPlain(V, 0)
      BY <2>3 DEF TailPlain
    <3>2. \A i \in 1 .. Len(V) : V[i].bracket => Seen(r, V[i].sequence)
      BY <2>3
    <3>3. \A q \in C : \/ FrozenAt(r, q)
                       \/ \E i \in 1 .. Len(V) : V[i].bracket /\ V[i].sequence = q
      BY <1>8, <2>2
    <3>4. r.buffer = Carried(V) \o Q
      BY <1>6, <2>2
    <3>5. Len(Encoded(V)) <= d.wal.synced + 0
      BY <2>2, <2>3
    <3> QED  BY <1>6, <1>7, <2>2, <2>4, <3>1, <3>2, <3>3, <3>4, <3>5 DEF LogIs
  <2>6. \E V1, Q1 : LogIs(e, r, x, FALSE, z, V1, Q1)
    BY <1>3, <2>5
  <2> QED  BY <1>1, <1>5, <1>9, <2>6 DEF Backed, r, u, z
<1>10. CASE m.log = "none" /\ LogOff(d, s, o, FALSE, p)
  <2>1. ~d.wal.present /\ \A q \in C : FrozenAt(s, q)
    BY <1>10 DEF LogOff, C
  <2>2. \A q \in CommittedSupersessions(e) : FrozenAt(r, q)
    BY <1>7, <1>8, <2>1
  <2>3. Len(r.buffer) = Pending(x, FALSE) + z
    <3> DEFINE l == Len(r.buffer)
               w == Pending(x, FALSE)
    <3>1. l = 0
      BY <1>6
    <3>2. w = 0 /\ z = 0
      BY <1>3, <1>4
    <3> HIDE DEF l, w
    <3>3. l = w + z
      BY <3>1, <3>2
    <3> QED  BY <3>3 DEF l, w
  <2>4. LogOff(e, r, x, FALSE, z)
    BY <2>1, <2>2, <2>3 DEF LogOff
  <2> QED  BY <1>1, <1>5, <1>10, <2>4 DEF Backed, r, u, z
<1> QED  BY <1>1, <1>9, <1>10

LEMMA DeleteLogWritten ==
    ASSUME StoreInv, Serving, NEW q, NEW b \in BOOLEAN, disk' = DeleteLog(q, b)
    PROVE  /\ disk'.wal = disk.wal /\ disk'.manifest = disk.manifest
           /\ disk'.segments = disk.segments
           /\ CommittedSupersessions(disk')
                = CommittedSupersessions(disk) \cup (IF b THEN {q} ELSE {})
           /\ DOMAIN Tombstones(disk') = DOMAIN Tombstones(disk) \cup op.ids
<1>1. IsDisk(disk) /\ IsMemory(mem) /\ Mirrors(disk, mem)
  BY DEF StoreInv, Typed, Serving, Up
<1> DEFINE g == mem.generation
           k == mem.deleteLogs
           n == <<g, k>>
           log == [ids |-> op.ids, stamp |-> q, superseding |-> b]
<1>2. g = disk.manifest.generation /\ k \in Nat
  BY <1>1, ManifestNow, MemoryParts
<1>3. \A l \in DeleteLogs(disk) : l[2] < k
  BY <1>1 DEF Mirrors
<1>4. disk' = [disk EXCEPT !.deletes = Publish(disk.deletes, n, log)]
  BY DEF DeleteLog
<1> HIDE DEF g, k
<1>5. n[1] = disk.manifest.generation /\ n[2] = k
  BY <1>2
<1>6. n \notin DOMAIN disk.deletes
  <2> SUFFICES ASSUME n \in DOMAIN disk.deletes PROVE FALSE
    OBVIOUS
  <2>1. n \in DeleteLogs(disk)
    BY <1>5 DEF DeleteLogs
  <2>2. k < k
    BY <1>3, <1>5, <2>1
  <2> QED  BY <1>2, <2>2
<1>7. log.ids = op.ids /\ log.stamp = q /\ log.superseding = b
  OBVIOUS
<1> HIDE DEF n, log
<1>8. /\ disk'.wal = disk.wal /\ disk'.manifest = disk.manifest
      /\ disk'.segments = disk.segments /\ disk'.deletes = Publish(disk.deletes, n, log)
  BY <1>1, <1>4 DEF IsDisk
<1>9. /\ CommittedSupersessions(disk')
           = CommittedSupersessions(disk) \cup (IF log.superseding THEN {log.stamp} ELSE {})
      /\ DOMAIN Tombstones(disk') = DOMAIN Tombstones(disk) \cup log.ids
  BY <1>5, <1>6, <1>8, DeleteLogAdds
<1> QED  BY <1>7, <1>8, <1>9

LEMMA CommitSupersessionFinds ==
    ASSUME StoreInv, ServingFits, CommitSupersession, faults = 0, faults' = 0
    PROVE  Serving' /\ ServingFits'
<1> DEFINE s == mem.shared
           q == op.sequence
           r == Entomb(s, op.ids, q)
           n == mem.deleteLogs + 1
<1>1. pc = "commit log"
  BY DEF CommitSupersession
<1>2. PICK outcome \in Outcomes :
          /\ Wrote(outcome, DeleteLog(q, TRUE))
          /\ \/ UNCHANGED mem /\ Abort(outcome)
             \/ /\ outcome = "done"
                /\ mem' = [mem EXCEPT !.deleteLogs = @ + 1, !.shared = r]
                /\ truth' = Told(mem'.shared)
                /\ promised' = truth'.next
                /\ FlushIfFull(mem.shared.buffer)
  BY DEF CommitSupersession
<1>3. /\ IsDisk(disk) /\ IsMemory(mem) /\ IsOperation(op) /\ then = "idle"
      /\ WellFormed(s, AnyRow) /\ Known(s) /\ mem.rows = RowCount(s) /\ VictimsFit
  BY <1>1 DEF StoreInv, Typed, Flushing, Up, StateFits
<1>4. /\ disk' = DeleteLog(q, TRUE) /\ mem' = WithKills(mem, r, n)
      /\ truth' = Told(mem'.shared) /\ promised' = truth'.next
      /\ FlushIfFull(s.buffer)
  <2>1. outcome = "done"
    BY <1>2, OnlyDone
  <2> QED  BY <1>2, <2>1, OnlyDone DEF Wrote, WithKills
<1>5. mem'.shared = r /\ mem'.log = mem.log /\ mem'.walSync = mem.walSync
  <2> HIDE DEF r
  <2>1. n \in Nat
    BY <1>3, MemoryParts
  <2> HIDE DEF n
  <2>2. mem'.shared = r
    BY <1>3, <1>4, <2>1, MemoryWithKills
  <2>3. mem'.log = mem.log
    BY <1>3, <1>4, MemoryLevels
  <2>4. mem'.walSync = mem.walSync
    BY <1>3, <1>4, MemorySyncs
  <2> QED  BY <2>2, <2>3, <2>4
<1>6. /\ op.ids \subseteq Live(s) /\ s.diverged /\ q < Watermark(s, RowCount(s)) /\ q \in Nat
  <2>1. /\ InForce(op.ids) /\ s.diverged /\ q < Watermark(s, mem.rows)
    BY <1>1, <1>3 DEF VictimsFit
  <2> QED  BY <1>3, <2>1, OperationParts DEF InForce
<1>7. /\ WellFormed(r, AnyRow) /\ Known(r) /\ SameRows(s, r) /\ Dead(r) = Dead(s) \cup op.ids
  <2> DEFINE ids == op.ids
  <2>1. ids \in SUBSET Live(s) /\ ids \in SUBSET Ids(s) /\ Shaped(s, AnyRow)
    BY <1>3, <1>6 DEF Live, WellFormed
  <2> HIDE DEF ids, q, s
  <2>2. LET t == Entomb(s, ids, q)
        IN  /\ WellFormed(t, AnyRow) /\ Known(t) /\ RowCount(t) = RowCount(s)
            /\ t.frozen = s.frozen /\ t.buffer = s.buffer
    BY <1>3, <1>6, <2>1, SupersededKnown
  <2>3. Dead(Entomb(s, ids, q)) = Dead(s) \cup ids
    BY <1>6, <2>1, EntombKeeps
  <2>4. SameView(s, Entomb(s, ids, q))
    BY <1>6, <2>1, EntombView
  <2> QED  BY <2>2, <2>3, <2>4 DEF SameRows, ids
<1>8. InBracket /\ ~Spent
  BY <1>1 DEF InBracket, Spent
<1>9. InBracket = TRUE /\ Spent = FALSE
  BY <1>8, Flags
<1>10. pc' \in {"idle", "flush"} /\ then' = "idle"
  <2> DEFINE buffer == s.buffer
  <2>1. FlushIfFull(buffer)
    BY <1>4
  <2> HIDE DEF buffer
  <2> QED  BY <2>1, FullServes
<1>11. ~InBracket' /\ ~Spent' /\ Serving'
  BY <1>10 DEF InBracket, Spent, Serving
<1>12. InBracket' = FALSE /\ Spent' = FALSE
  BY <1>11, Flags
<1>13. Backed(disk, mem, op, TRUE, FALSE, truth, promised) /\ BracketFits /\ Unlisted
  BY <1>9 DEF ServingFits
<1>14. /\ op.total \in Nat /\ op.total > 0 /\ op.left = 0
  <2>1. op.total \in Nat /\ op.left \in Nat
    BY <1>3, OperationParts
  <2>2. ~(op.left > 0)
    BY <1>1, <1>8, <1>13 DEF BracketFits
  <2>3. op.total > 0
    BY <1>8, <1>13 DEF BracketFits, OpenFit
  <2> QED  BY <2>1, <2>2, <2>3
<1>15. /\ Seen(s, q)
       /\ mem.log = "open" => disk.wal.synced = Len(disk.wal.entries)
       /\ mem.log = "none" => s.buffer = << >>
  <2>1. op.left < op.total
    BY <1>14
  <2> QED  BY <1>1, <1>8, <1>13, <2>1 DEF BracketFits
<1>16. /\ disk'.wal = disk.wal /\ disk'.manifest = disk.manifest
       /\ disk'.segments = disk.segments
       /\ CommittedSupersessions(disk') = CommittedSupersessions(disk) \cup {q}
       /\ DOMAIN Tombstones(disk') = DOMAIN Tombstones(disk) \cup op.ids
  <2>1. Serving /\ TRUE \in BOOLEAN
    BY <1>1 DEF Serving
  <2> HIDE DEF q
  <2>2. CommittedSupersessions(disk')
          = CommittedSupersessions(disk) \cup (IF TRUE THEN {q} ELSE {})
    BY <1>4, <2>1, DeleteLogWritten
  <2> QED  BY <1>4, <2>1, <2>2, DeleteLogWritten
<1> HIDE DEF r
<1>17. Backed(disk', mem', op', FALSE, FALSE, Told(mem'.shared), Told(mem'.shared).next)
  <2> DEFINE ids == op.ids
  <2>1. /\ SameRows(mem.shared, mem'.shared) /\ WellFormed(mem'.shared, AnyRow)
        /\ Known(mem'.shared) /\ Dead(mem'.shared) = Dead(mem.shared) \cup ids
    BY <1>5, <1>7
  <2>2. Seen(mem.shared, op.sequence) /\ WellFormed(mem.shared, AnyRow)
        /\ (mem.log = "none" => mem.shared.buffer = << >>)
    BY <1>3, <1>15
  <2>3. /\ CommittedSupersessions(disk') = CommittedSupersessions(disk) \cup {op.sequence}
        /\ DOMAIN Tombstones(disk') = DOMAIN Tombstones(disk) \cup ids
    BY <1>16
  <2>4. op.sequence \in Nat
    BY <1>6
  <2>5. mem.log = "open" => disk.wal.synced = Len(disk.wal.entries)
    BY <1>15
  <2>6. mem'.log = mem.log /\ disk'.wal = disk.wal /\ disk'.manifest = disk.manifest
    BY <1>5, <1>16
  <2>7. op.total \in Nat /\ op.total > 0 /\ op.left = 0 /\ IsDisk(disk)
    BY <1>3, <1>14
  <2>8. Backed(disk, mem, op, TRUE, FALSE, truth, promised)
    BY <1>13
  <2> HIDE DEF ids, s, q
  <2> QED  BY <2>1, <2>2, <2>3, <2>4, <2>5, <2>6, <2>7, <2>8, BackedCommits
<1>18. Backed(disk, mem, op, InBracket, Spent, truth, promised)'
  BY <1>4, <1>12, <1>17
<1>19. BracketFits'
  BY <1>10, <1>11, NoBracket
<1>20. Unlisted'
  BY <1>1, <1>13, <1>16 DEF Unlisted
<1>21. (~InBracket => truth = Told(mem.shared))' /\ (mem.log = "none" <=> mem.walSync = "Off")'
  BY <1>4, <1>5 DEF ServingFits
<1> QED  BY <1>11, <1>18, <1>19, <1>20, <1>21 DEF ServingFits

\* A kill spends a coordinate; with nothing buffered no row is touched.
LEMMA KillKeepsRows ==
    ASSUME NEW s, WellFormed(s, AnyRow), Known(s), s.buffer = << >>,
           NEW rows, rows = RowCount(s), NEW ids \in SUBSET Live(s)
    PROVE  LET r == ConsumeSequence(Entomb(s, ids, Watermark(s, rows)), rows)
           IN  /\ WellFormed(r, AnyRow) /\ Known(r)
               /\ SameRows(s, r) /\ Dead(r) = Dead(s) \cup ids
<1> DEFINE q == Watermark(s, rows)
           m == Entomb(s, ids, q)
           r == ConsumeSequence(m, rows)
<1>1. Shaped(s, AnyRow) /\ ids \in SUBSET Ids(s) /\ q \in Nat
  <2>1. Shaped(s, AnyRow)
    BY DEF WellFormed
  <2> QED  BY <2>1, ViewType DEF Live
<1>2. LET t == ConsumeSequence(Entomb(s, ids, Watermark(s, rows)), rows)
      IN  /\ WellFormed(t, AnyRow) /\ Known(t) /\ RowCount(t) = rows /\ t.frozen = s.frozen
  BY DeleteKnown
<1>3. WellFormed(r, AnyRow) /\ Known(r) /\ RowCount(r) = rows /\ r.frozen = s.frozen
  BY <1>2
<1> HIDE DEF q
<1>4. /\ Shaped(m, AnyRow) /\ RowCount(m) = RowCount(s) /\ Dead(m) = Dead(s) \cup ids
  BY <1>1, EntombKeeps
<1>5. SameView(s, m)
  BY <1>1, EntombView
<1> HIDE DEF m
<1>6. RowCount(r) = RowCount(m) /\ Dead(r) = Dead(m)
  BY <1>4, ConsumeKeeps
<1>7. SameView(m, r)
  BY <1>4, ConsumeView
<1> HIDE DEF r
<1>8. SameView(s, r)
  <2>1. Ids(m) = Ids(s)
    BY <1>4 DEF Ids
  <2> QED  BY <1>5, <1>7, <2>1 DEF SameView
<1>9. r.buffer = s.buffer
  <2> DEFINE n == Len(s.frozen)
             b == Len(r.buffer)
  <2>1. Shaped(r, AnyRow)
    BY <1>3 DEF WellFormed
  <2>2. n \in Nat /\ b \in Nat /\ RowCount(r) = n + b /\ RowCount(s) = n + 0
    BY <1>1, <1>3, <2>1, FieldTypes
  <2> HIDE DEF n, b
  <2>3. b = 0
    <3>1. n + b = n + 0
      BY <1>3, <2>2, Zenon
    <3> QED  BY <2>2, <3>1
  <2>4. r.buffer \in Seq(AnyRow)
    BY <2>1, FieldTypes
  <2> QED  BY <2>3, <2>4 DEF b
<1>10. SameRows(s, r) /\ Dead(r) = Dead(s) \cup ids
  BY <1>3, <1>4, <1>6, <1>8, <1>9 DEF SameRows
<1> QED  BY <1>3, <1>10 DEF r, m, q

LEMMA WriteDeleteLogFinds ==
    ASSUME StoreInv, ServingFits, WriteDeleteLog, faults = 0, faults' = 0
    PROVE  Serving' /\ ServingFits'
<1> DEFINE s == mem.shared
           q == Watermark(s, mem.rows)
           r == ConsumeSequence(Entomb(s, op.ids, q), mem.rows)
           n == mem.deleteLogs + 1
<1>1. pc = "delete log"
  BY DEF WriteDeleteLog
<1>2. PICK outcome \in Outcomes :
          /\ Wrote(outcome, DeleteLog(q, FALSE))
          /\ \/ UNCHANGED mem /\ Abort(outcome)
             \/ /\ outcome = "done"
                /\ mem' = [mem EXCEPT !.deleteLogs = @ + 1, !.shared = r]
                /\ truth' = Told(mem'.shared)
                /\ promised' = truth'.next
                /\ pc' = "idle" /\ op' = NoOp /\ then' = then
  BY DEF WriteDeleteLog
<1>3. /\ IsDisk(disk) /\ IsMemory(mem) /\ IsOperation(op) /\ then = "idle"
      /\ WellFormed(s, AnyRow) /\ Known(s) /\ mem.rows = RowCount(s)
      /\ VictimsFit /\ FlushFits
  BY <1>1 DEF StoreInv, Typed, Flushing, Up, StateFits
<1>4. /\ disk' = DeleteLog(q, FALSE) /\ mem' = WithKills(mem, r, n)
      /\ truth' = Told(mem'.shared) /\ promised' = truth'.next
      /\ pc' = "idle" /\ op' = NoOp /\ then' = then
  <2>1. outcome = "done"
    BY <1>2, OnlyDone
  <2> QED  BY <1>2, <2>1, OnlyDone DEF Wrote, WithKills
<1>5. mem'.shared = r /\ mem'.log = mem.log /\ mem'.walSync = mem.walSync
  <2> HIDE DEF r
  <2>1. n \in Nat
    BY <1>3, MemoryParts
  <2> HIDE DEF n
  <2>2. mem'.shared = r
    BY <1>3, <1>4, <2>1, MemoryWithKills
  <2>3. mem'.log = mem.log
    BY <1>3, <1>4, MemoryLevels
  <2>4. mem'.walSync = mem.walSync
    BY <1>3, <1>4, MemorySyncs
  <2> QED  BY <2>2, <2>3, <2>4
<1>6. op.ids \in SUBSET Live(s) /\ s.buffer = << >>
  BY <1>1, <1>3 DEF VictimsFit, InForce, FlushFits
<1>7. WellFormed(r, AnyRow) /\ Known(r) /\ SameRows(s, r) /\ Dead(r) = Dead(s) \cup op.ids
  <2> DEFINE ids == op.ids
  <2> HIDE DEF s
  <2>1. LET t == ConsumeSequence(Entomb(s, ids, Watermark(s, mem.rows)), mem.rows)
        IN  /\ WellFormed(t, AnyRow) /\ Known(t)
            /\ SameRows(s, t) /\ Dead(t) = Dead(s) \cup ids
    BY <1>3, <1>6, KillKeepsRows
  <2> QED  BY <2>1
<1>8. ~InBracket /\ ~Spent /\ ~InBracket' /\ ~Spent' /\ Serving /\ Serving'
  BY <1>1, <1>3, <1>4 DEF InBracket, Spent, Serving
<1>9. InBracket = FALSE /\ Spent = FALSE /\ InBracket' = FALSE /\ Spent' = FALSE
  BY <1>8, Flags
<1>10. Backed(disk, mem, op, FALSE, FALSE, truth, promised) /\ Unlisted
  BY <1>9 DEF ServingFits
<1>11. /\ disk'.wal = disk.wal /\ disk'.manifest = disk.manifest
       /\ disk'.segments = disk.segments
       /\ CommittedSupersessions(disk') = CommittedSupersessions(disk)
       /\ DOMAIN Tombstones(disk') = DOMAIN Tombstones(disk) \cup op.ids
  <2>1. FALSE \in BOOLEAN
    OBVIOUS
  <2> HIDE DEF q
  <2>2. CommittedSupersessions(disk')
          = CommittedSupersessions(disk) \cup (IF FALSE THEN {q} ELSE {})
    BY <1>4, <1>8, <2>1, DeleteLogWritten
  <2> QED  BY <1>4, <1>8, <2>1, <2>2, DeleteLogWritten
<1> HIDE DEF r
<1>12. Backed(disk', mem', op', FALSE, FALSE, Told(mem'.shared), Told(mem'.shared).next)
  <2> DEFINE ids == op.ids
  <2>1. /\ SameRows(mem.shared, mem'.shared) /\ WellFormed(mem'.shared, AnyRow)
        /\ Known(mem'.shared) /\ Dead(mem'.shared) = Dead(mem.shared) \cup ids
    BY <1>5, <1>7
  <2>2. WellFormed(mem.shared, AnyRow) /\ mem.shared.buffer = << >>
    BY <1>3, <1>6
  <2>3. DOMAIN Tombstones(disk') = DOMAIN Tombstones(disk) \cup ids
    BY <1>11
  <2>4. mem'.log = mem.log /\ disk'.wal = disk.wal /\ disk'.manifest = disk.manifest
        /\ CommittedSupersessions(disk') = CommittedSupersessions(disk) /\ IsDisk(disk)
    BY <1>3, <1>5, <1>11
  <2>5. Backed(disk, mem, op, FALSE, FALSE, truth, promised)
    BY <1>10
  <2> HIDE DEF ids, s, q
  <2> QED  BY <2>1, <2>2, <2>3, <2>4, <2>5, BackedKills
<1>13. Backed(disk, mem, op, InBracket, Spent, truth, promised)'
  BY <1>4, <1>9, <1>12
<1>14. BracketFits'
  BY <1>3, <1>4, <1>8, NoBracket
<1>15. Unlisted'
  BY <1>1, <1>10, <1>11 DEF Unlisted
<1>16. (~InBracket => truth = Told(mem.shared))' /\ (mem.log = "none" <=> mem.walSync = "Off")'
  BY <1>4, <1>5 DEF ServingFits
<1> QED  BY <1>8, <1>13, <1>14, <1>15, <1>16 DEF ServingFits
----------------------------------------------------------------------------
\* A flush is named.

LEMMA SameGenerationKills ==
    ASSUME NEW d, NEW e, e.manifest.generation = d.manifest.generation, e.deletes = d.deletes
    PROVE  /\ CommittedSupersessions(e) = CommittedSupersessions(d)
           /\ DOMAIN Tombstones(e) = DOMAIN Tombstones(d)
<1>1. DeleteLogs(e) = DeleteLogs(d)
  BY DEF DeleteLogs
<1> QED  BY <1>1 DEF CommittedSupersessions, Tombstones

LEMMA FlushedRows ==
    ASSUME NEW s, WellFormed(s, AnyRow)
    PROVE  LET r == FlushShared(s, RowCount(s))
           IN  /\ WellFormed(r, AnyRow) /\ RowCount(r) = RowCount(s) /\ Dead(r) = Dead(s)
               /\ SameView(s, r) /\ Watermark(r, RowCount(r)) = Watermark(s, RowCount(s))
               /\ r.tombs = s.tombs /\ r.history = s.history
               /\ r.buffer = << >> /\ Len(r.frozen) = RowCount(s)
               /\ RowCount(s) \in Nat /\ RowCount(s) = Len(s.frozen) + Len(s.buffer)
               /\ \A q : Seen(s, q) => FrozenAt(r, q)
<1> DEFINE r == FlushShared(s, RowCount(s))
<1>1. Shaped(s, AnyRow)
  BY DEF WellFormed
<1>2. WellFormed(r, AnyRow) /\ RowCount(r) = RowCount(s) /\ Dead(r) = Dead(s)
  BY FlushKeeps
<1>3. /\ SameView(s, r) /\ Watermark(r, RowCount(s)) = Watermark(s, RowCount(s))
      /\ r.tombs = s.tombs /\ r.history = s.history
  BY FlushView
<1>4. r.buffer = << >>
  BY <1>1 DEF FlushShared, Shaped, SharedFields
<1> HIDE DEF r
<1>5. Shaped(r, AnyRow)
  BY <1>2 DEF WellFormed
<1>6. /\ RowCount(s) \in Nat /\ RowCount(s) = Len(s.frozen) + Len(s.buffer)
      /\ RowCount(r) = Len(r.frozen) + Len(r.buffer) /\ Len(r.frozen) \in Nat
  BY <1>1, <1>5, FieldTypes
<1>7. Len(r.frozen) = RowCount(s)
  <2> DEFINE n == Len(r.frozen)
             b == Len(r.buffer)
             c == RowCount(r)
  <2>1. n \in Nat /\ b = 0 /\ c = n + b
    BY <1>4, <1>6
  <2> HIDE DEF n, b, c
  <2>2. c = n
    BY <2>1
  <2> QED  BY <1>2, <2>2 DEF n, c
<1>8. ASSUME NEW q, Seen(s, q) PROVE FrozenAt(r, q)
  <2>1. Ids(r) = Ids(s)
    BY <1>2 DEF Ids
  <2>2. Seen(r, q)
    BY <1>3, <1>8, <2>1 DEF Seen, SameView
  <2> QED  BY <1>4, <1>5, <2>2, SeenFrozen
<1>9. Watermark(r, RowCount(r)) = Watermark(s, RowCount(s))
  BY <1>2, <1>3
<1> QED  BY <1>2, <1>3, <1>4, <1>6, <1>7, <1>8, <1>9 DEF r

\* None of the log's rows replays once its rows are in a segment.
LEMMA FlushSpends ==
    ASSUME NEW d, IsDisk(d), NEW s, s.buffer \in Seq(AnyRow),
           NEW o, IsOperation(o), NEW p, NEW V, NEW Q, LogIs(d, s, o, FALSE, p, V, Q),
           NEW e, IsDisk(e), e.wal = d.wal,
           e.manifest.generation = d.manifest.generation,
           CommittedSupersessions(e) = CommittedSupersessions(d),
           Len(s.frozen) \in Nat, Extent(e) = Len(s.frozen) + Len(s.buffer),
           NEW k \in d.wal.synced .. Len(d.wal.entries)
    PROVE  ReplayUnits(CutDisk(e, k)) = << >>
<1> DEFINE C == CommittedSupersessions(d)
           c == CutDisk(e, k)
<1>1. OpenFit(d, o, FALSE)
  BY DEF OpenFit
<1>2. \E W, T, Y : CutIs(d.wal.entries, C, V, k, p, W, T, Y)
  <2>1. FALSE \in BOOLEAN
    OBVIOUS
  <2> QED  BY <1>1, <2>1, LogCut
<1>3. PICK W, T, Y : CutIs(d.wal.entries, C, V, k, p, W, T, Y)
  BY <1>2
<1>4. /\ W \in Seq(WholeUnits(AnyRow, C)) /\ T \in Seq(Entry(AnyRow)) /\ Y \in Seq(AnyRow)
      /\ SubSeq(d.wal.entries, 1, k) = Encoded(W) \o T /\ Undecided(T, C) /\ Untorn(T)
      /\ Carried(V) = Carried(W) \o Y
  BY <1>3 DEF CutIs
<1>5. /\ s.buffer = Carried(V) \o Q /\ Q \in Seq(AnyRow)
      /\ d.wal.present /\ d.wal.generation = d.manifest.generation
      /\ d.wal.base = Len(s.frozen)
      /\ V \in Seq(WholeUnits(AnyRow, C))
  BY DEF LogIs
<1>6. k \in Nat /\ k <= Len(e.wal.entries)
  <2>1. d.wal.synced \in Nat /\ Len(d.wal.entries) \in Nat
    BY DiskParts, LogParts
  <2> QED  BY <2>1
<1>7. /\ c.manifest = e.manifest /\ c.segments = e.segments
      /\ c.deletes = e.deletes /\ c.history = e.history
      /\ c.wal.entries = SubSeq(e.wal.entries, 1, k)
      /\ c.wal.present = e.wal.present /\ c.wal.generation = e.wal.generation
      /\ c.wal.base = e.wal.base
  BY <1>6, CutParts
<1> HIDE DEF c
<1>8. CommittedSupersessions(c) = C /\ Extent(c) = Extent(e)
  <2>1. CommittedSupersessions(c) = CommittedSupersessions(e) /\ Extent(c) = Extent(e)
    BY <1>7, SameObjects
  <2> QED  BY <2>1
<1> HIDE DEF C
<1>9. Carried(V) \in Seq(AnyRow) /\ Carried(W) \in Seq(AnyRow)
  BY <1>4, <1>5, CountsCarried
<1>10. Extent(c) \in Nat /\ c.wal.base \in Nat /\ Extent(c) - c.wal.base >= Len(Carried(W))
  <2> DEFINE v == Carried(V)
             w == Carried(W)
             f == Len(s.frozen)
             b == Len(s.buffer)
             x == Extent(c)
             y == c.wal.base
  <2>1. v \in Seq(AnyRow) /\ w \in Seq(AnyRow) /\ v = w \o Y /\ s.buffer = v \o Q
    BY <1>4, <1>5, <1>9
  <2>2. y = f /\ f \in Nat /\ x = f + b
    BY <1>5, <1>7, <1>8
  <2> HIDE DEF v, w
  <2>3. Len(w) \in Nat /\ Len(Y) \in Nat /\ Len(Q) \in Nat /\ b = (Len(w) + Len(Y)) + Len(Q)
    BY <1>4, <1>5, <2>1
  <2> DEFINE l == Len(w)
             m == Len(Y)
             n == Len(Q)
  <2>4. l \in Nat /\ m \in Nat /\ n \in Nat /\ b = (l + m) + n
    BY <2>3
  <2> HIDE DEF f, b, x, y, l, m, n
  <2>5. x \in Nat /\ y \in Nat /\ x - y >= l
    BY <2>2, <2>4
  <2> QED  BY <2>5 DEF x, y, l, w
<1>11. /\ c.wal.entries = Encoded(W) \o T /\ c.wal.present
       /\ c.wal.generation = c.manifest.generation
  BY <1>4, <1>5, <1>7
<1> HIDE DEF Carried
<1>12. ReplayUnits(c) = << >>
  <2> DEFINE D == CommittedSupersessions(c)
  <2>1. W \in Seq(WholeUnits(AnyRow, D)) /\ Undecided(T, D)
    BY <1>4, <1>8
  <2> HIDE DEF D
  <2>2. D = CommittedSupersessions(c)
    BY DEF D
  <2> QED  BY <1>4, <1>10, <1>11, <2>1, <2>2, ReplaysWhole
<1> QED  BY <1>12 DEF c

LEMMA BackedFlushes ==
    ASSUME NEW d, IsDisk(d), NEW m, WellFormed(m.shared, AnyRow), Known(m.shared),
           NEW o, IsOperation(o), NEW open \in BOOLEAN, open => m.log = "none" /\ o.left = 0,
           NEW t, NEW done, Backed(d, m, o, open, FALSE, t, done),
           NEW k, k.shared = FlushShared(m.shared, RowCount(m.shared)), k.log = m.log,
           NEW e, IsDisk(e), e.wal = d.wal,
           e.manifest.generation = d.manifest.generation, e.deletes = d.deletes,
           Extent(e) = Len(k.shared.frozen)
    PROVE  Backed(e, k, o, open, TRUE, t, t.next)
<1> DEFINE s == m.shared
           r == k.shared
           p == t.next - done
           z == t.next - t.next
           n0 == Pending(o, open)
           C == CommittedSupersessions(d)
<1>1. /\ SettledAt(s, n0, t, done)
      /\ DOMAIN Tombstones(d) = Dead(s)
      /\ d.wal.synced <= Len(d.wal.entries)
      /\ \/ m.log = "open" /\ \E V, Q : LogIs(d, s, o, open, p, V, Q)
         \/ m.log = "none" /\ LogOff(d, s, o, open, p)
  BY DEF Backed
<1>2. /\ WellFormed(r, AnyRow) /\ RowCount(r) = RowCount(s) /\ Dead(r) = Dead(s)
      /\ SameView(s, r) /\ r.buffer = << >> /\ Len(r.frozen) = RowCount(s)
      /\ RowCount(s) \in Nat /\ RowCount(s) = Len(s.frozen) + Len(s.buffer)
      /\ \A q : Seen(s, q) => FrozenAt(r, q)
  BY FlushedRows
<1>3. CommittedSupersessions(e) = C /\ DOMAIN Tombstones(e) = DOMAIN Tombstones(d)
  BY SameGenerationKills
<1>4. n0 \in Nat /\ t.next \in Nat /\ z = 0
  BY <1>1 DEF SettledAt
<1>5. \A q \in C : FrozenAt(r, q)
  BY <1>2, CommittedBelow
<1>6. Extent(e) = Len(s.frozen) + Len(s.buffer)
  BY <1>2
<1> HIDE DEF s, r, p, z, C
<1>7. SettledAt(r, n0, t, t.next)
  <2> HIDE DEF n0
  <2>1. RowCount(s) <= RowCount(r) /\ RowCount(r) \in Nat
    <3> DEFINE a == RowCount(s)
               b == RowCount(r)
    <3>1. a \in Nat /\ b = a
      BY <1>2
    <3> HIDE DEF a, b
    <3>2. a <= b /\ b \in Nat
      BY <3>1
    <3> QED  BY <3>2 DEF a, b
  <2>2. SettledAt(r, n0 + (RowCount(r) - RowCount(s)), t, done)
    BY <1>1, <1>2, <2>1, SettledFurther
  <2> DEFINE c == RowCount(s)
  <2>3. n0 + (c - c) = n0
    BY <1>2, <1>4
  <2>4. SettledAt(r, n0, t, done)
    BY <1>2, <2>2, <2>3
  <2> QED  BY <2>1, <2>4, SettledPromise
<1>8. /\ SettledAt(r, Pending(o, open), t, t.next) /\ DOMAIN Tombstones(e) = Dead(r)
      /\ e.wal.synced <= Len(e.wal.entries)
  BY <1>1, <1>2, <1>3, <1>7
<1>9. CASE m.log = "open" /\ \E V, Q : LogIs(d, s, o, open, p, V, Q)
  <2>1. open = FALSE /\ ~open
    BY <1>9
  <2>2. PICK V, Q : LogIs(d, s, o, open, p, V, Q)
    BY <1>9
  <2>3. LogIs(d, s, o, FALSE, p, V, Q)
    BY <2>1, <2>2
  <2>4. s.buffer \in Seq(AnyRow) /\ Len(s.frozen) \in Nat
    BY FieldTypes DEF WellFormed, s
  <2>5. \A j \in d.wal.synced .. Len(d.wal.entries) : ReplayUnits(CutDisk(e, j)) = << >>
    BY <1>3, <1>6, <2>3, <2>4, FlushSpends DEF C
  <2>6. LogSpent(e, r, z)
    BY <1>2, <1>3, <1>4, <1>5, <2>5 DEF LogSpent
  <2> QED  BY <1>8, <1>9, <2>1, <2>6 DEF Backed, r, z
<1>10. CASE m.log = "none" /\ LogOff(d, s, o, open, p)
  <2>1. ~e.wal.present
    BY <1>10 DEF LogOff
  <2>2. \A q \in CommittedSupersessions(e) : FrozenAt(r, q)
    BY <1>3, <1>5
  <2>3. Len(r.buffer) = Pending(o, open) + z \/ (open /\ o.left = 0 /\ r.buffer = << >> /\ z = 0)
    <3>1. CASE open
      BY <1>2, <1>4, <3>1
    <3>2. CASE ~open
      <4> DEFINE l == Len(r.buffer)
                 w == Pending(o, open)
      <4>1. l = 0
        BY <1>2
      <4>2. w = 0
        BY <3>2 DEF Pending
      <4> HIDE DEF l, w
      <4>3. l = w + z
        BY <1>4, <4>1, <4>2
      <4> QED  BY <4>3 DEF l, w
    <3> QED  BY <3>1, <3>2
  <2>4. LogOff(e, r, o, open, z)
    BY <2>1, <2>2, <2>3 DEF LogOff
  <2> QED  BY <1>8, <1>10, <2>4 DEF Backed, r, z
<1> QED  BY <1>1, <1>9, <1>10

LEMMA FlushManifestFinds ==
    ASSUME StoreInv, StoreInv', ServingFits, FlushManifest, faults = 0, faults' = 0
    PROVE  Serving' /\ ServingFits'
<1> DEFINE s == mem.shared
           r == FlushShared(s, mem.rows)
           c == [mem.sections EXCEPT !.layout = @ \cup {s.base}]
           x == ManifestOf(mem.generation, c)
<1>1. pc = "manifest"
  BY DEF FlushManifest
<1>2. PICK outcome \in Outcomes :
          /\ Wrote(outcome, [disk EXCEPT !.manifest = x])
          /\ \/ UNCHANGED mem /\ Abort(outcome)
             \/ /\ outcome = "done"
                /\ mem' = [mem EXCEPT !.sections = c, !.shared = r]
                /\ promised' = truth.next
                /\ pc' = "reset"
                /\ UNCHANGED <<then, op, truth>>
  BY DEF FlushManifest
<1>3. /\ disk' = [disk EXCEPT !.manifest = x] /\ mem' = WithSections(mem, r, c)
      /\ promised' = truth.next /\ pc' = "reset" /\ UNCHANGED <<then, op, truth>>
  <2>1. outcome = "done"
    BY <1>2, OnlyDone
  <2> QED  BY <1>2, <2>1, OnlyDone DEF Wrote, WithSections
<1>4. /\ IsDisk(disk) /\ IsMemory(mem) /\ IsOperation(op)
      /\ WellFormed(s, AnyRow) /\ Known(s) /\ mem.rows = RowCount(s)
      /\ IsDisk(disk')
      /\ ObjectsFit(disk') /\ StateFits(mem') /\ Mirrors(disk', mem')
  BY <1>1, <1>3 DEF StoreInv, Typed, Up, StateFits
<1>5. /\ mem.generation = disk.manifest.generation
      /\ x.generation = disk.manifest.generation /\ x.layout = c.layout
  <2>1. Serving
    BY <1>1 DEF Serving
  <2>2. mem.generation = disk.manifest.generation
    BY <2>1, ManifestNow
  <2> HIDE DEF c
  <2> QED  BY <2>2, ManifestParts
<1>6. c \in Sections /\ c.layout # {}
  <2>1. mem.sections \in Sections /\ s.base \in Nat
    BY <1>4, MemoryParts, FieldTypes DEF WellFormed
  <2>2. mem.sections \in [layout : SUBSET Nat, diverged : BOOLEAN, next : Nat, history : Nat]
    BY <2>1 DEF Sections
  <2> HIDE DEF s
  <2> QED  BY <2>1, <2>2 DEF Sections
<1> HIDE DEF x, c
<1>7. /\ disk'.wal = disk.wal /\ disk'.manifest = x /\ disk'.segments = disk.segments
      /\ disk'.deletes = disk.deletes
  BY <1>3, <1>4 DEF IsDisk
<1>8. /\ CommittedSupersessions(disk') = CommittedSupersessions(disk)
      /\ disk'.manifest.generation = disk.manifest.generation
      /\ disk'.manifest.layout # {}
  BY <1>5, <1>6, <1>7, SameGenerationKills
<1> HIDE DEF r
<1>9. mem'.shared = r /\ mem'.log = mem.log /\ mem'.walSync = mem.walSync
  <2>1. mem'.shared = r
    BY <1>3, <1>4, <1>6, MemoryWithSections
  <2>2. mem'.log = mem.log
    BY <1>3, <1>4, MemoryLevels
  <2>3. mem'.walSync = mem.walSync
    BY <1>3, <1>4, MemorySyncs
  <2> QED  BY <2>1, <2>2, <2>3
<1>10. /\ RowCount(r) = RowCount(s) /\ Dead(r) = Dead(s)
       /\ SameView(s, r) /\ Watermark(r, RowCount(r)) = Watermark(s, RowCount(s))
       /\ r.tombs = s.tombs /\ r.history = s.history
       /\ r = FlushShared(s, RowCount(s))
  BY <1>4, FlushedRows DEF r
<1>11. Extent(disk') = Len(r.frozen)
  <2> DEFINE d == disk'
             m == mem'
  <2>1. ObjectsFit(d) /\ StateFits(m) /\ Mirrors(d, m)
    BY <1>4
  <2>2. m.shared = r /\ d.manifest.layout # {}
    BY <1>8, <1>9
  <2> HIDE DEF d, m
  <2>3. /\ Layout(d) = d.manifest.layout /\ r.frozen \in Seq(Held)
        /\ Lays(d.segments, d.manifest.generation, d.manifest.layout, r.frozen)
    BY <2>1, <2>2, MirrorParts
  <2>4. ReadsBack(d, r)
    BY <2>3, ListedReads
  <2> QED  BY <2>4 DEF ReadsBack, d
<1>12. (InBracket' <=> InBracket) /\ ~Spent /\ Spent' /\ Serving'
  BY <1>1, <1>3 DEF InBracket, Spent, Serving
<1>13. InBracket' = InBracket /\ Spent = FALSE /\ Spent' = TRUE
  BY <1>12, Flags
<1>14. Backed(disk, mem, op, InBracket, FALSE, truth, promised) /\ BracketFits /\ Unlisted
  BY <1>13 DEF ServingFits
<1>15. InBracket => mem.log = "none" /\ op.left = 0
  <2>1. op.left \in Nat
    BY <1>4, OperationParts
  <2>2. InBracket => then = "commit log" /\ ~(op.left > 0)
    BY <1>1, <1>14 DEF InBracket, BracketFits
  <2>3. InBracket => mem.log = "none"
    BY <1>14, <2>2 DEF BracketFits
  <2>4. ~(op.left > 0) => op.left = 0
    <3> DEFINE n == op.left
    <3>1. n \in Nat
      BY <2>1
    <3> HIDE DEF n
    <3>2. ~(n > 0) => n = 0
      BY <3>1
    <3> QED  BY <3>2 DEF n
  <2> QED  BY Zenon, <2>2, <2>3, <2>4
<1>16. Backed(disk', mem', op, InBracket, TRUE, truth, truth.next)
  <2>1. mem'.shared = FlushShared(mem.shared, RowCount(mem.shared)) /\ mem'.log = mem.log
    BY <1>9, <1>10
  <2>2. WellFormed(mem.shared, AnyRow) /\ Known(mem.shared)
    BY <1>4
  <2>3. Extent(disk') = Len(mem'.shared.frozen)
    BY <1>9, <1>11
  <2>4. InBracket \in BOOLEAN
    BY Flags
  <2> HIDE DEF s
  <2> QED  BY <1>4, <1>7, <1>8, <1>14, <1>15, <2>1, <2>2, <2>3, <2>4, BackedFlushes
<1>17. Backed(disk, mem, op, InBracket, Spent, truth, promised)'
  BY <1>3, <1>13, <1>16
<1>18. BracketFits'
  <2>1. OpenFit(disk', op', InBracket')
    BY <1>3, <1>8, <1>13, <1>14 DEF BracketFits, OpenFit
  <2>2. (InBracket /\ op.left < op.total => Seen(mem.shared, op.sequence))'
    <3>1. \A q : Seen(s, q) => Seen(r, q)
      <4>1. Ids(r) = Ids(s)
        BY <1>10 DEF Ids
      <4> QED  BY <1>10, <4>1 DEF Seen, SameView
    <3> QED  BY <1>3, <1>9, <1>13, <1>14, <3>1 DEF BracketFits
  <2>3. (InBracket => (op.left > 0 <=> pc = "replace"))'
    BY <1>1, <1>3, <1>13, <1>14 DEF BracketFits
  <2>4. (then = "commit log" => mem.log = "none")'
    BY <1>3, <1>9, <1>14 DEF BracketFits
  <2>5. (pc = "bracket" \/ then = "bracket" => op.total = op.left)'
    BY <1>3, <1>14 DEF BracketFits
  <2>6. (pc # "commit log")'
    BY <1>3
  <2> QED  BY <2>1, <2>2, <2>3, <2>4, <2>5, <2>6 DEF BracketFits
<1>19. Unlisted'
  BY <1>8 DEF Unlisted
<1>20. (~InBracket => truth = Told(mem.shared))'
  <2>1. Told(r) = Told(s)
    <3>1. Dead(s) \subseteq Ids(s)
      BY <1>4 DEF WellFormed, Shaped
    <3> QED  BY <1>10, <3>1, SameTold
  <2> QED  BY <1>3, <1>9, <1>13, <2>1 DEF ServingFits
<1>21. (mem.log = "none" <=> mem.walSync = "Off")'
  BY <1>9 DEF ServingFits
<1> QED  BY <1>12, <1>17, <1>18, <1>19, <1>20, <1>21 DEF ServingFits
----------------------------------------------------------------------------
\* The log is reset.

LEMMA FreshLogIs ==
    ASSUME NEW d, NEW s, d.wal = FreshLog(d.manifest.generation, Len(s.frozen)),
           s.buffer = << >>, NEW o,
           \A q \in CommittedSupersessions(d) : FrozenAt(s, q)
    PROVE  LogIs(d, s, o, FALSE, 0, << >>, << >>)
<1> DEFINE C == CommittedSupersessions(d)
           U == WholeUnits(AnyRow, C)
<1>1. << >> \in Seq(AnyRow) /\ Len(<< >>) = 0 /\ << >> \o << >> = << >>
  BY EmptySeq
<1>2. << >> \in Seq(U)
  <2> HIDE DEF U
  <2> QED  BY EmptySeq
<1>3. Carried(<< >>) = << >> /\ Encoded(<< >>) = << >> /\ OpenTail(o, FALSE, << >>) = << >>
  BY CarriedNone, EncodedNone DEF OpenTail
<1>4. /\ d.wal.present /\ d.wal.generation = d.manifest.generation
      /\ d.wal.base = Len(s.frozen) /\ d.wal.entries = << >> /\ d.wal.synced = 0
  BY DEF FreshLog
<1>5. 0 \in 0 .. Len(<< >>) /\ TailPlain(<< >>, 0)
  BY <1>1 DEF TailPlain
<1>6. s.buffer = Carried(<< >>) \o << >>
  BY <1>1, <1>3
<1>7. d.wal.entries = Encoded(<< >>) \o OpenTail(o, FALSE, << >>)
  BY <1>1, <1>3, <1>4
<1>8. d.wal.synced <= Len(d.wal.entries)
  BY <1>1, <1>4
<1>9. Len(Encoded(<< >>)) <= d.wal.synced + 0
  BY <1>1, <1>3, <1>4
<1>10. \A i \in 1 .. Len(<< >>) : FALSE
  BY <1>1
<1>11. Len(<< >>) = (IF FALSE THEN o.total - o.left ELSE 0)
  BY <1>1
<1> HIDE DEF U, C
<1>12. /\ \A i \in 1 .. Len(<< >>) : << >>[i].bracket => Seen(s, << >>[i].sequence)
       /\ \A q \in C : \/ FrozenAt(s, q)
                       \/ \E i \in 1 .. Len(<< >>) : << >>[i].bracket /\ << >>[i].sequence = q
  BY <1>10 DEF C
<1> QED  BY Zenon, <1>1, <1>2, <1>4, <1>5, <1>6, <1>7, <1>8, <1>9, <1>11, <1>12 DEF LogIs, U, C

LEMMA BackedResets ==
    ASSUME NEW d, NEW m, NEW o, NEW open \in BOOLEAN, NEW t, NEW done,
           Backed(d, m, o, open, TRUE, t, done),
           NEW k, k.shared = m.shared, k.log = m.log,
           NEW x, x.sequence = o.sequence, x.total = o.total, x.left = o.left,
           NEW e, e.manifest = d.manifest, e.deletes = d.deletes,
           m.log = "none" => e.wal = d.wal,
           m.log = "open" => e.wal = FreshLog(d.manifest.generation, Len(m.shared.frozen))
    PROVE  Backed(e, k, x, open, FALSE, t, done)
<1> DEFINE s == m.shared
           p == t.next - done
<1>1. /\ SettledAt(s, Pending(o, open), t, done)
      /\ DOMAIN Tombstones(d) = Dead(s)
      /\ d.wal.synced <= Len(d.wal.entries)
      /\ \/ m.log = "open" /\ ~open /\ LogSpent(d, s, p)
         \/ m.log = "none" /\ LogOff(d, s, o, open, p)
  BY DEF Backed
<1>2. /\ CommittedSupersessions(e) = CommittedSupersessions(d)
      /\ DOMAIN Tombstones(e) = DOMAIN Tombstones(d)
  BY SameGenerationKills
<1>3. Pending(x, open) = Pending(o, open)
  BY DEF Pending
<1>4. SettledAt(k.shared, Pending(x, open), t, done) /\ DOMAIN Tombstones(e) = Dead(k.shared)
  BY <1>1, <1>2, <1>3
<1>5. CASE m.log = "open" /\ ~open /\ LogSpent(d, s, p)
  <2>1. p = 0 /\ s.buffer = << >> /\ \A q \in CommittedSupersessions(e) : FrozenAt(s, q)
    BY <1>2, <1>5 DEF LogSpent
  <2>2. e.wal = FreshLog(e.manifest.generation, Len(s.frozen))
    BY <1>5
  <2> HIDE DEF s, p
  <2>3. LogIs(e, s, x, FALSE, 0, << >>, << >>)
    BY <2>1, <2>2, FreshLogIs
  <2>4. \E V, Q : LogIs(e, s, x, open, p, V, Q)
    <3>1. open = FALSE
      BY <1>5
    <3>2. LogIs(e, s, x, open, p, << >>, << >>)
      BY <2>1, <2>3, <3>1
    <3> QED  BY <3>2
  <2>5. e.wal.synced <= Len(e.wal.entries)
    BY <2>3 DEF LogIs
  <2> QED  BY <1>4, <1>5, <2>4, <2>5 DEF Backed, s, p
<1>6. CASE m.log = "none" /\ LogOff(d, s, o, open, p)
  <2>1. LogOff(e, s, x, open, p)
    BY <1>2, <1>3, <1>6 DEF LogOff
  <2> QED  BY <1>1, <1>4, <1>6, <2>1 DEF Backed
<1> QED  BY <1>1, <1>5, <1>6

LEMMA ResetBacks ==
    ASSUME StoreInv, ServingFits, Serving, Spent, NEW target, ResetWal(target),
           faults = 0, faults' = 0
    PROVE  /\ pc' = target /\ then' = "idle" /\ truth' = truth /\ promised' = promised
           /\ op'.sequence = op.sequence /\ op'.total = op.total /\ op'.left = op.left
           /\ mem'.shared = mem.shared /\ mem'.log = mem.log /\ mem'.walSync = mem.walSync
           /\ disk'.manifest = disk.manifest /\ disk'.segments = disk.segments
           /\ CommittedSupersessions(disk') = CommittedSupersessions(disk)
           /\ Backed(disk', mem', op', InBracket, FALSE, truth, promised)
<1> DEFINE w == IF mem.log = "none" THEN disk.wal ELSE FreshLog(mem.generation, mem.rows)
<1>1. PICK outcome :
        /\ Wrote(outcome,
                 [disk EXCEPT !.wal =
                    IF mem.log = "none" THEN @ ELSE FreshLog(mem.generation, mem.rows)])
        /\ mem' = [mem EXCEPT !.log = CASE outcome = "late" -> "detached"
                                        [] outcome = "lost" -> @
                                        [] mem.log = "none" -> "none"
                                        [] OTHER -> "open"]
        /\ \/ Abort(outcome)
           \/ /\ outcome = "done"
              /\ pc' = target
              /\ then' = "idle"
              /\ op' = [op EXCEPT !.due = FALSE]
              /\ UNCHANGED <<truth, promised>>
  BY Zenon DEF ResetWal, ghosts
<1>2. Backed(disk, mem, op, InBracket, TRUE, truth, promised)
  <2>1. Spent = TRUE
    BY Flags
  <2> QED  BY <2>1 DEF ServingFits
<1>3. mem.log \in {"none", "open"}
  BY <1>2 DEF Backed
<1>4. /\ disk' = [disk EXCEPT !.wal = w] /\ mem' = WithLog(mem, mem.log)
      /\ op' = [op EXCEPT !.due = FALSE]
      /\ pc' = target /\ then' = "idle" /\ truth' = truth /\ promised' = promised
  <2>1. outcome = "done" /\ ~Abort(outcome)
    BY <1>1, OnlyDone
  <2> QED  BY <1>1, <1>3, <2>1 DEF Wrote, WithLog
<1>5. /\ IsDisk(disk) /\ IsMemory(mem) /\ IsOperation(op)
      /\ WellFormed(mem.shared, AnyRow) /\ mem.rows = RowCount(mem.shared)
  BY DEF StoreInv, Typed, Up, StateFits, Serving
<1> HIDE DEF w
<1>6. /\ disk'.wal = w /\ disk'.manifest = disk.manifest /\ disk'.segments = disk.segments
      /\ disk'.deletes = disk.deletes
  BY <1>4, <1>5 DEF IsDisk
<1>7. op'.sequence = op.sequence /\ op'.total = op.total /\ op'.left = op.left
  BY <1>4, <1>5 DEF IsOperation
<1>8. mem'.shared = mem.shared /\ mem'.log = mem.log /\ mem'.walSync = mem.walSync
  <2>1. mem.log \in {"none", "open", "detached"}
    BY <1>3
  <2>2. mem'.shared = mem.shared
    BY <1>4, <1>5, <2>1, MemoryWithLog
  <2>3. mem'.log = mem.log
    BY <1>4, <1>5, MemoryLevels
  <2>4. mem'.walSync = mem.walSync
    BY <1>4, <1>5, MemorySyncs
  <2> QED  BY <2>2, <2>3, <2>4
<1>9. CommittedSupersessions(disk') = CommittedSupersessions(disk)
  BY <1>6, SameGenerationKills
<1>10. mem.log = "open" =>
          disk'.wal = FreshLog(disk.manifest.generation, Len(mem.shared.frozen))
  <2> SUFFICES ASSUME mem.log = "open"
               PROVE  disk'.wal = FreshLog(disk.manifest.generation, Len(mem.shared.frozen))
    OBVIOUS
  <2>1. mem.shared.buffer = << >>
    BY <1>2 DEF Backed, LogSpent
  <2>2. RowCount(mem.shared) = Len(mem.shared.frozen)
    <3> DEFINE n == Len(mem.shared.frozen)
               b == Len(mem.shared.buffer)
    <3>1. n \in Nat /\ b = 0 /\ RowCount(mem.shared) = n + b
      BY <1>5, <2>1, FieldTypes DEF WellFormed
    <3> HIDE DEF n, b
    <3>2. n + b = n
      BY <3>1
    <3> QED  BY <3>1, <3>2 DEF n
  <2>3. mem.generation = disk.manifest.generation
    BY ManifestNow
  <2> QED  BY <1>5, <1>6, <2>2, <2>3 DEF w
<1>11. mem.log = "none" => disk'.wal = disk.wal
  BY <1>6 DEF w
<1>12. Backed(disk', mem', op', InBracket, FALSE, truth, promised)
  BY <1>2, <1>6, <1>7, <1>8, <1>10, <1>11, Flags, BackedResets
<1> QED  BY <1>4, <1>6, <1>7, <1>8, <1>9, <1>12

LEMMA FlushResetFinds ==
    ASSUME StoreInv, ServingFits, FlushReset, faults = 0, faults' = 0
    PROVE  Serving' /\ ServingFits'
<1>1. pc = "reset" /\ ResetWal(then)
  BY DEF FlushReset
<1>2. Serving /\ Spent
  BY <1>1 DEF Serving, Spent
<1>3. /\ pc' = then /\ then' = "idle" /\ truth' = truth /\ promised' = promised
      /\ op'.sequence = op.sequence /\ op'.total = op.total /\ op'.left = op.left
      /\ mem'.shared = mem.shared /\ mem'.log = mem.log /\ mem'.walSync = mem.walSync
      /\ disk'.manifest = disk.manifest /\ disk'.segments = disk.segments
      /\ CommittedSupersessions(disk') = CommittedSupersessions(disk)
      /\ Backed(disk', mem', op', InBracket, FALSE, truth, promised)
  BY <1>1, <1>2, ResetBacks
<1>4. then \in {"idle", "delete log", "bracket", "commit log"} /\ mem.shared.buffer = << >>
  BY <1>1 DEF StoreInv, Typed, Up, FlushFits
<1>5. (InBracket' <=> InBracket) /\ ~Spent' /\ Serving' /\ (InBracket <=> then = "commit log")
  BY <1>1, <1>3, <1>4 DEF InBracket, Spent, Serving
<1>6. InBracket' = InBracket /\ Spent' = FALSE
  BY <1>5, Flags
<1>7. Backed(disk, mem, op, InBracket, Spent, truth, promised)'
  BY <1>3, <1>6
<1>8. BracketFits /\ Unlisted
  BY DEF ServingFits
<1>9. BracketFits'
  <2>1. OpenFit(disk', op', InBracket')
    BY <1>3, <1>6, <1>8 DEF BracketFits, OpenFit
  <2>2. (InBracket /\ op.left < op.total => Seen(mem.shared, op.sequence))'
    BY <1>3, <1>6, <1>8 DEF BracketFits
  <2>3. (InBracket => (op.left > 0 <=> pc = "replace"))'
    BY <1>1, <1>3, <1>4, <1>6, <1>8 DEF BracketFits
  <2>4. (pc = "commit log" => /\ mem.log = "open" => disk.wal.synced = Len(disk.wal.entries)
                              /\ mem.log = "none" => mem.shared.buffer = << >>)'
    BY <1>3, <1>4, <1>8 DEF BracketFits
  <2>5. (then = "commit log" => mem.log = "none")'
    BY <1>3
  <2>6. (pc = "bracket" \/ then = "bracket" => op.total = op.left)'
    BY <1>3, <1>8 DEF BracketFits
  <2> QED  BY <2>1, <2>2, <2>3, <2>4, <2>5, <2>6 DEF BracketFits
<1>10. Unlisted'
  BY <1>1, <1>3, <1>8 DEF Unlisted
<1>11. (~InBracket => truth = Told(mem.shared))' /\ (mem.log = "none" <=> mem.walSync = "Off")'
  BY <1>3, <1>6 DEF ServingFits
<1> QED  BY <1>5, <1>7, <1>9, <1>10, <1>11 DEF ServingFits

LEMMA CompactResetFinds ==
    ASSUME StoreInv, ServingFits, CompactReset, faults = 0, faults' = 0
    PROVE  Serving' /\ ServingFits'
<1>1. pc = "compact reset" /\ ResetWal("cleanup")
  BY DEF CompactReset
<1>2. Serving /\ Spent /\ ~InBracket
  BY <1>1 DEF Serving, Spent, InBracket
<1>3. /\ pc' = "cleanup" /\ then' = "idle" /\ truth' = truth /\ promised' = promised
      /\ mem'.shared = mem.shared /\ mem'.log = mem.log /\ mem'.walSync = mem.walSync
      /\ disk'.manifest = disk.manifest /\ disk'.segments = disk.segments
      /\ Backed(disk', mem', op', InBracket, FALSE, truth, promised)
  BY <1>1, <1>2, ResetBacks
<1>4. ~InBracket' /\ ~Spent' /\ Serving'
  BY <1>3 DEF InBracket, Spent, Serving
<1>5. InBracket' = InBracket /\ Spent' = FALSE
  BY <1>2, <1>4, Flags
<1>6. Backed(disk, mem, op, InBracket, Spent, truth, promised)'
  BY <1>3, <1>5
<1>7. BracketFits'
  BY <1>3, <1>4, NoBracket
<1>8. Unlisted'
  BY <1>1, <1>3 DEF ServingFits, Unlisted
<1>9. (~InBracket => truth = Told(mem.shared))' /\ (mem.log = "none" <=> mem.walSync = "Off")'
  BY <1>2, <1>3 DEF ServingFits
<1> QED  BY <1>4, <1>6, <1>7, <1>8, <1>9 DEF ServingFits
----------------------------------------------------------------------------
\* A compaction commits.

\* A log of another generation replays nothing.
LEMMA StaleLog ==
    ASSUME NEW d, IsDisk(d), d.wal.generation # d.manifest.generation,
           NEW k \in d.wal.synced .. Len(d.wal.entries)
    PROVE  ReplayUnits(CutDisk(d, k)) = << >>
<1>1. k \in Nat /\ k <= Len(d.wal.entries)
  <2>1. d.wal.synced \in Nat /\ Len(d.wal.entries) \in Nat
    BY DiskParts, LogParts
  <2> QED  BY <2>1
<1> DEFINE e == CutDisk(d, k)
<1>2. e.manifest = d.manifest /\ e.wal.generation = d.wal.generation
  BY <1>1, CutParts
<1> HIDE DEF e
<1>3. ReplayUnits(e) = << >>
  BY <1>2 DEF ReplayUnits
<1> QED  BY <1>3 DEF e

LEMMA BackedCompacts ==
    ASSUME NEW d, IsDisk(d), d.manifest.generation \in Nat,
           NEW m, NEW o, NEW t, NEW done, Backed(d, m, o, FALSE, FALSE, t, done),
           NEW k, k.log = m.log, WellFormed(k.shared, AnyRow), Known(k.shared),
           k.shared.buffer = << >>, Dead(k.shared) = {}, Told(k.shared) = t,
           NEW e, IsDisk(e), e.wal = d.wal,
           e.manifest.generation = d.manifest.generation + 1, DeleteLogs(e) = {},
           NEW x
    PROVE  Backed(e, k, x, FALSE, TRUE, t, t.next)
<1> DEFINE s == m.shared
           r == k.shared
           p == t.next - done
           z == t.next - t.next
<1>1. /\ d.wal.synced <= Len(d.wal.entries)
      /\ \/ m.log = "open" /\ \E V, Q : LogIs(d, s, o, FALSE, p, V, Q)
         \/ m.log = "none" /\ LogOff(d, s, o, FALSE, p)
  BY DEF Backed
<1>2. SettledAt(r, 0, t, t.next)
  BY SettledNow
<1>3. z = 0
  BY <1>2 DEF SettledAt
<1>4. Pending(x, FALSE) = 0
  BY DEF Pending
<1>5. CommittedSupersessions(e) = {} /\ DOMAIN Tombstones(e) = {}
  BY DEF CommittedSupersessions, Tombstones
<1>6. SettledAt(r, Pending(x, FALSE), t, t.next) /\ DOMAIN Tombstones(e) = Dead(r)
  BY <1>2, <1>4, <1>5
<1> HIDE DEF s, r, p, z
<1>7. CASE m.log = "open" /\ \E V, Q : LogIs(d, s, o, FALSE, p, V, Q)
  <2>1. PICK V, Q : LogIs(d, s, o, FALSE, p, V, Q)
    BY <1>7
  <2>2. d.wal.generation = d.manifest.generation
    BY <2>1 DEF LogIs
  <2>3. e.wal.generation # e.manifest.generation
    BY <2>2
  <2>4. \A j \in e.wal.synced .. Len(e.wal.entries) : ReplayUnits(CutDisk(e, j)) = << >>
    BY <2>3, StaleLog
  <2>5. r.buffer = << >>
    BY DEF r
  <2>6. LogSpent(e, r, z)
    BY <1>3, <1>5, <2>4, <2>5 DEF LogSpent
  <2> QED  BY <1>1, <1>6, <1>7, <2>6 DEF Backed, r, z
<1>8. CASE m.log = "none" /\ LogOff(d, s, o, FALSE, p)
  <2>1. ~e.wal.present
    BY <1>8 DEF LogOff
  <2>2. Len(r.buffer) = Pending(x, FALSE) + z
    <3> DEFINE l == Len(r.buffer)
               w == Pending(x, FALSE)
    <3>1. l = 0
      BY DEF r
    <3>2. w = 0
      BY <1>4
    <3> HIDE DEF l, w
    <3>3. l = w + z
      BY <1>3, <3>1, <3>2
    <3> QED  BY <3>3 DEF l, w
  <2>3. LogOff(e, r, x, FALSE, z)
    BY <1>5, <2>1, <2>2 DEF LogOff
  <2> QED  BY <1>1, <1>6, <1>8, <2>3 DEF Backed, r, z
<1> QED  BY <1>1, <1>7, <1>8

LEMMA CommitCompactionFinds ==
    ASSUME StoreInv, StoreInv', ServingFits, CommitCompaction, faults = 0, faults' = 0
    PROVE  Serving' /\ ServingFits'
<1> DEFINE s == mem.shared
           r == NextShared
           g == mem.generation + 1
           c == [layout   |-> NewBases,
                 diverged |-> r.diverged \/ mem.sections.diverged,
                 next     |-> IF r.diverged THEN r.next ELSE mem.sections.next,
                 history  |-> mem.sections.history + HistoryObjects]
           n == Len(op.order)
           x == ManifestOf(g, c)
<1>1. pc = "compact manifest"
  BY DEF CommitCompaction
<1>2. PICK outcome \in Outcomes :
          /\ Wrote(outcome, [disk EXCEPT !.manifest = x])
          /\ \/ UNCHANGED mem /\ Abort(outcome)
             \/ /\ outcome = "done"
                /\ mem' = [mem EXCEPT !.generation = @ + 1, !.sections = c,
                                      !.shared = r, !.rows = n, !.deleteLogs = 0]
                /\ promised' = truth.next
                /\ pc' = "compact reset"
                /\ UNCHANGED <<then, op, truth>>
  BY DEF CommitCompaction
<1>3. /\ disk' = [disk EXCEPT !.manifest = x] /\ mem' = WithGeneration(mem, g, c, r, n)
      /\ promised' = truth.next /\ pc' = "compact reset" /\ UNCHANGED <<then, op, truth>>
  <2>1. outcome = "done"
    BY <1>2, OnlyDone
  <2> HIDE DEF r, c, n, x
  <2>2. mem' = [mem EXCEPT !.generation = mem.generation + 1, !.sections = c,
                           !.shared = r, !.rows = n, !.deleteLogs = 0]
    BY <1>2, <2>1, OnlyDone
  <2> QED  BY <1>2, <2>1, <2>2, OnlyDone DEF Wrote, WithGeneration
<1>4. /\ IsDisk(disk) /\ IsMemory(mem) /\ IsOperation(op)
      /\ WellFormed(s, AnyRow) /\ Known(s) /\ mem.rows = RowCount(s) /\ StateFits(mem)
      /\ ObjectsFit(disk) /\ CompactionFits /\ IsDisk(disk') /\ then = "idle"
  BY <1>1, <1>3 DEF StoreInv, Typed, Up, StateFits, Flushing
<1>5. op.order \in MergeOrders(s, Live(s))
  BY <1>1, <1>4 DEF CompactionFits
<1>6. /\ WellFormed(r, AnyRow) /\ Known(r)
  BY <1>4, <1>5, NextFits
<1>7. r.buffer = << >> /\ Dead(r) = {} /\ Told(r) = Told(s)
  <2>1. r.buffer = << >> /\ Dead(r) = {}
    BY DEF NextShared, Compacted, Dead
  <2>2. Told(r) = Told(s)
    BY <1>4, <1>5, CompactedTold DEF NextShared
  <2> QED  BY <2>1, <2>2
<1>8. mem.generation = disk.manifest.generation /\ disk.manifest.generation \in Nat
  <2>1. Serving
    BY <1>1 DEF Serving
  <2> QED  BY <2>1, ManifestNow
<1>9. c.layout = NewBases
  OBVIOUS
<1> HIDE DEF r, c, n, g
<1>10. x.generation = g /\ x.layout = NewBases
  BY <1>9, ManifestParts
<1> HIDE DEF x
<1>11. /\ disk'.wal = disk.wal /\ disk'.manifest = x /\ disk'.segments = disk.segments
       /\ disk'.deletes = disk.deletes
  BY <1>3, <1>4 DEF IsDisk
<1>12. disk'.manifest.generation = disk.manifest.generation + 1
  BY <1>8, <1>10, <1>11 DEF g
<1>13. DeleteLogs(disk') = {}
  <2>1. PICK bound \in Nat :
          DOMAIN disk.deletes \subseteq (0 .. disk.manifest.generation) \X (0 .. bound)
    BY <1>4 DEF ObjectsFit
  <2>2. \A l \in DOMAIN disk.deletes : l[1] # disk.manifest.generation + 1
    <3> SUFFICES ASSUME NEW l \in DOMAIN disk.deletes, l[1] = disk.manifest.generation + 1
                 PROVE  FALSE
      OBVIOUS
    <3>1. l[1] \in 0 .. disk.manifest.generation
      BY <2>1
    <3> QED  BY <1>8, <3>1
  <2> QED  BY <1>11, <1>12, <2>2 DEF DeleteLogs
<1>14. mem'.shared = r /\ mem'.log = mem.log /\ mem'.walSync = mem.walSync
  <2> DEFINE k == WithGeneration(mem, g, c, r, n)
  <2>1. IsMemory(mem) /\ mem' = k
    BY <1>3, <1>4
  <2> HIDE DEF s
  <2>2. k.shared = r /\ k.log = mem.log
    BY <2>1, MemoryNextGeneration
  <2>3. k.walSync = mem.walSync
    BY <2>1, MemorySyncs
  <2> HIDE DEF k
  <2> QED  BY <2>1, <2>2, <2>3
<1>15. /\ ~InBracket /\ ~InBracket' /\ ~Spent /\ Spent' /\ Serving'
  BY <1>1, <1>3, <1>4 DEF InBracket, Spent, Serving
<1>16. InBracket = FALSE /\ InBracket' = FALSE /\ Spent = FALSE /\ Spent' = TRUE
  BY <1>15, Flags
<1>17. truth = Told(s) /\ Backed(disk, mem, op, FALSE, FALSE, truth, promised)
  BY <1>16 DEF ServingFits
<1>18. Backed(disk', mem', op', FALSE, TRUE, truth, truth.next)
  <2>1. /\ WellFormed(mem'.shared, AnyRow) /\ Known(mem'.shared)
        /\ mem'.shared.buffer = << >> /\ Dead(mem'.shared) = {} /\ Told(mem'.shared) = truth
    BY <1>6, <1>7, <1>14, <1>17
  <2> HIDE DEF s
  <2> QED  BY <1>4, <1>8, <1>11, <1>12, <1>13, <1>14, <1>17, <2>1, BackedCompacts
<1>19. Backed(disk, mem, op, InBracket, Spent, truth, promised)'
  BY <1>3, <1>16, <1>18
<1>20. BracketFits'
  BY <1>3, <1>4, <1>15, NoBracket
<1>21. Unlisted'
  <2> SUFFICES ASSUME disk'.manifest.layout = {}, NEW l \in DOMAIN disk'.segments,
                      l[1] = disk'.manifest.generation
               PROVE  FALSE
    BY DEF Unlisted
  <2>1. NewBases = {}
    BY <1>10, <1>11
  <2>2. Cardinality(NewBases) = 0
    BY <2>1, FS_EmptySet
  <2>3. op.left = HistoryObjects + 0 /\ \E k \in Written : TRUE
    <3>1. op.left = HistoryObjects + Cardinality(NewBases)
      BY <1>1, <1>4 DEF CompactionFits
    <3>2. l \in DOMAIN disk.segments /\ l[1] = disk.manifest.generation + 1
      BY <1>11, <1>12
    <3>3. \E k \in Written : l = <<disk.manifest.generation + 1, SegmentRows * k>>
      BY <1>1, <1>4, <3>2 DEF CompactionFits
    <3> QED  BY <2>2, <3>1, <3>3
  <2>4. HistoryObjects \in {0, 1}
    BY DEF HistoryObjects
  <2> QED  BY <2>3, <2>4 DEF Written
<1>22. (~InBracket => truth = Told(mem.shared))'
  BY <1>3, <1>7, <1>14, <1>17
<1>23. (mem.log = "none" <=> mem.walSync = "Off")'
  BY <1>14 DEF ServingFits
<1> QED  BY <1>15, <1>19, <1>20, <1>21, <1>22, <1>23 DEF ServingFits
----------------------------------------------------------------------------
\* Closing, crashing, opening.

\* Naming the layout that was listed changes nothing an open reads.
LEMMA NamedReads ==
    ASSUME NEW d, NEW e, Layout(e) = Layout(d),
           e.manifest.generation = d.manifest.generation,
           e.manifest.diverged = d.manifest.diverged,
           e.manifest.next = d.manifest.next, e.manifest.history = d.manifest.history,
           e.segments = d.segments, e.deletes = d.deletes, e.history = d.history,
           e.wal = d.wal
    PROVE  /\ FrozenRows(e) = FrozenRows(d)
           /\ CommittedSupersessions(e) = CommittedSupersessions(d)
           /\ ReplayUnits(e) = ReplayUnits(d) /\ Recovered(e) = Recovered(d)
<1>1. \A b : SegmentOf(e, b) = SegmentOf(d, b)
  BY Zenon DEF SegmentOf
<1>2. Extent(e) = Extent(d)
  BY <1>1, Zenon DEF Extent
<1>3. FrozenRows(e) = FrozenRows(d)
  BY <1>1, <1>2, Zenon DEF FrozenRows
<1>4. DeleteLogs(e) = DeleteLogs(d)
  BY Zenon DEF DeleteLogs
<1>5. Tombstones(e) = Tombstones(d)
  <2> DEFINE T(D, L) == [id \in UNION {D[n].ids : n \in L} |->
                            D[CHOOSE n \in L : id \in D[n].ids].stamp]
  <2>1. Tombstones(e) = T(e.deletes, DeleteLogs(e)) /\ Tombstones(d) = T(d.deletes, DeleteLogs(d))
    BY DEF Tombstones
  <2> HIDE DEF T
  <2> QED  BY <1>4, <2>1
<1>6. CommittedSupersessions(e) = CommittedSupersessions(d)
  BY <1>4, Zenon DEF CommittedSupersessions
<1>7. ReplayUnits(e) = ReplayUnits(d)
  BY <1>2, <1>6, Zenon DEF ReplayUnits
<1>8. LoadedHistory(e) = LoadedHistory(d)
  <2> DEFINE H(n, h) == UNION {h[i] : i \in 0 .. n - 1}
  <2>1. /\ LoadedHistory(e) = H(e.manifest.history, e.history)
        /\ LoadedHistory(d) = H(d.manifest.history, d.history)
    BY DEF LoadedHistory
  <2> HIDE DEF H
  <2> QED  BY <2>1
<1>9. KilledAt(e) = KilledAt(d)
  BY <1>5, Zenon DEF KilledAt
<1>10. LoadedDiverged(e) = LoadedDiverged(d)
  <2>1. LoadedDiverged(e) <=> LoadedDiverged(d)
    BY <1>1, <1>9, Zenon DEF LoadedDiverged
  <2>2. LoadedDiverged(e) \in BOOLEAN /\ LoadedDiverged(d) \in BOOLEAN
    <3>1. e.manifest.diverged = d.manifest.diverged
      OBVIOUS
    <3> QED  BY <3>1 DEF LoadedDiverged
  <2> QED  BY <2>1, <2>2
<1>11. LoadedMarks(e) = LoadedMarks(d)
  BY <1>1, <1>9, Zenon DEF LoadedMarks
<1>12. Loaded(e) = Loaded(d)
  <2> DEFINE mark(c) == IF LoadedDiverged(c) THEN Max(LoadedMarks(c)) ELSE 0
             L(F, D, m, T, H) == [frozen |-> F, buffer |-> << >>,
                       base |-> Len(F), diverged |-> D,
                       next |-> m, seqBase |-> m, births |-> << >>,
                       tombs |-> T, history |-> H]
  <2>1. /\ Loaded(e) = L(FrozenRows(e), LoadedDiverged(e), mark(e), Tombstones(e), LoadedHistory(e))
        /\ Loaded(d) = L(FrozenRows(d), LoadedDiverged(d), mark(d), Tombstones(d), LoadedHistory(d))
    BY LoadedFields, Zenon
  <2>2. mark(e) = mark(d)
    BY <1>10, <1>11
  <2> HIDE DEF L, mark
  <2> QED  BY <1>3, <1>5, <1>8, <1>10, <2>1, <2>2
<1> QED  BY <1>3, <1>6, <1>7, <1>12, Zenon DEF Recovered

LEMMA FindsSame ==
    ASSUME NEW d, NEW e, NEW t, NEW done, NEW torn, Finds(d, t, done, torn),
           FrozenRows(e) = FrozenRows(d),
           CommittedSupersessions(e) = CommittedSupersessions(d),
           ReplayUnits(e) = ReplayUnits(d), Recovered(e) = Recovered(d), e.wal = d.wal
    PROVE  Finds(e, t, done, torn)
<1>1. Recovers(e, t, done, torn)
  BY DEF Finds, Recovers
<1>2. \A q : FrozenFinds(e, q) <=> FrozenFinds(d, q)
  BY DEF FrozenFinds
<1> QED  BY <1>1, <1>2 DEF Finds

LEMMA ForgottenLevel == Forgotten.walSync = mem.walSync
  BY DEF Forgotten, NoMemory

\* The disk a crash or a close leaves.
LEMMA CutCloses ==
    ASSUME NEW d, IsDisk(d), NEW k \in d.wal.synced .. Len(d.wal.entries),
           NEW e, e = CutDisk(d, k)
    PROVE  /\ e.wal.synced = Len(e.wal.entries)
           /\ e.wal.present = d.wal.present
<1>1. k \in Nat /\ k <= Len(d.wal.entries) /\ d.wal.entries \in Seq(Entry(AnyRow))
  <2>1. d.wal.synced \in Nat /\ Len(d.wal.entries) \in Nat /\ d.wal.entries \in Seq(Entry(AnyRow))
    BY DiskParts, LogParts
  <2> QED  BY <2>1
<1>2. /\ e.wal.entries = SubSeq(d.wal.entries, 1, k) /\ e.wal.synced = k
      /\ e.wal.present = d.wal.present
  BY <1>1, CutParts
<1>3. Len(SubSeq(d.wal.entries, 1, k)) = k
  BY <1>1, PrefixTyped
<1> QED  BY <1>2, <1>3

LEMMA CloseRecovers ==
    ASSUME StoreInv, ServingFits, Close
    PROVE  ~Serving' /\ ClosedFits'
<1> DEFINE n == Len(disk.wal.entries)
<1>1. /\ pc = "idle" /\ pc' = "down" /\ op' = op /\ truth' = truth
      /\ disk' = [disk EXCEPT !.wal.synced = Len(disk.wal.entries)]
      /\ mem' = Forgotten
      /\ promised' = IF mem.log = "open" THEN truth.next ELSE promised
  BY DEF Close
<1>2. IsDisk(disk) /\ Serving
  BY <1>1 DEF StoreInv, Typed, Serving
<1>3. disk' = CutDisk(disk, n)
  BY <1>1, <1>2, CutWhole
<1>4. n \in disk.wal.synced .. Len(disk.wal.entries)
  <2>1. n \in Nat /\ disk.wal.synced \in Nat
    BY <1>2, DiskParts, LogParts
  <2>2. disk.wal.synced <= n
    BY DEF ServingFits, Backed
  <2> QED  BY <2>1, <2>2
<1>5. mem'.walSync = mem.walSync
  BY <1>1, ForgottenLevel
<1>6. TornByContract' <=> TornByContract
  BY <1>1, <1>5 DEF TornByContract
<1>7. TornByContract' = TornByContract
  BY <1>6 DEF TornByContract
<1>8. Finds(disk', truth', promised', TornByContract')
  <2> DEFINE e == CutDisk(disk, n)
  <2>1. /\ Finds(e, truth, promised, TornByContract)
        /\ n = Len(disk.wal.entries) /\ mem.log = "open" =>
              Finds(e, truth, truth.next, TornByContract)
    BY <1>2, <1>4, ServingCrash
  <2>2. disk' = e
    BY <1>3
  <2> HIDE DEF e
  <2> QED  BY <1>1, <1>7, <2>1, <2>2
<1> HIDE DEF n
<1>9. disk'.wal.synced = Len(disk'.wal.entries) /\ disk'.wal.present = disk.wal.present
  BY <1>2, <1>3, <1>4, CutCloses
<1>10. mem.walSync = "Off" => ~disk.wal.present
  BY DEF ServingFits, Backed, LogOff
<1> QED  BY <1>1, <1>5, <1>8, <1>9, <1>10 DEF ClosedFits, Serving

LEMMA CrashRecovers ==
    ASSUME StoreInv, Recoverable, faults = 0, Crash
    PROVE  ~Serving' /\ ClosedFits'
<1>1. /\ pc \notin {"down", "refused"} /\ pc' = "down" /\ op' = op /\ truth' = truth
      /\ promised' = promised /\ mem' = Forgotten
      /\ \E kept \in disk.wal.synced .. Len(disk.wal.entries) : disk' = CutDisk(disk, kept)
  BY DEF Crash, CutDisk
<1>2. PICK k \in disk.wal.synced .. Len(disk.wal.entries) : disk' = CutDisk(disk, k)
  BY <1>1
<1>3. IsDisk(disk)
  BY DEF StoreInv, Typed
<1>4. mem'.walSync = mem.walSync
  BY <1>1, ForgottenLevel
<1>5. TornByContract' = TornByContract
  BY <1>1, <1>4 DEF TornByContract
<1>6. Finds(disk', truth', promised', TornByContract')
  <2> DEFINE e == CutDisk(disk, k)
  <2>1. Finds(e, truth, promised, TornByContract)
    BY CrashAnywhere
  <2> HIDE DEF e
  <2> QED  BY <1>1, <1>2, <1>5, <2>1 DEF e
<1>7. disk'.wal.synced = Len(disk'.wal.entries) /\ disk'.wal.present = disk.wal.present
  BY <1>2, <1>3, CutCloses
<1>8. mem.walSync = "Off" => ~disk.wal.present
  BY DEF Recoverable, ClosedFits, ServingFits, Backed, LogOff
<1> QED  BY <1>1, <1>4, <1>6, <1>7, <1>8 DEF ClosedFits, Serving

LEMMA OpenLoadRecovers ==
    ASSUME StoreInv, StoreInv', ClosedFits, OpenLoad
    PROVE  ~Serving' /\ ClosedFits'
<1> DEFINE m == disk.manifest
           c == [layout |-> Layout(disk), diverged |-> m.diverged,
                 next |-> m.next, history |-> m.history]
           x == ManifestOf(m.generation, c)
           k == [shared |-> Loaded(disk), rows |-> Extent(disk),
                 generation |-> m.generation, deleteLogs |-> NextDeleteLog(disk),
                 sections |-> c, log |-> "none", walSync |-> mem.walSync]
<1>1. IsDisk(disk) /\ ObjectsFit(disk)
  BY DEF StoreInv, Typed
<1>2. ~OpenRefused(disk)
  BY <1>1, SoundOpens DEF ObjectsFit
<1>3. /\ pc' = "replay" /\ op' = op /\ truth' = truth /\ promised' = promised
      /\ disk' = [disk EXCEPT !.manifest = x]
      /\ mem' = k
  BY <1>2 DEF OpenLoad, ghosts
<1>4. mem'.walSync = mem.walSync
  BY <1>3
<1> HIDE DEF k
<1>5. c.layout = Layout(disk) /\ c.diverged = m.diverged /\ c.next = m.next /\ c.history = m.history
  OBVIOUS
<1> HIDE DEF c
<1>6. /\ x.generation = m.generation /\ x.layout = Layout(disk) /\ x.diverged = m.diverged
      /\ x.next = m.next /\ x.history = m.history
  BY <1>5, ManifestParts
<1> HIDE DEF x
<1>7. /\ disk'.manifest = x /\ disk'.segments = disk.segments /\ disk'.deletes = disk.deletes
      /\ disk'.history = disk.history /\ disk'.wal = disk.wal
  BY <1>1, <1>3 DEF IsDisk
<1>8. Layout(disk') = Layout(disk)
  <2>1. LayoutNamed'
    BY DEF StoreInv
  <2> QED  BY <1>3, <1>6, <1>7, <2>1 DEF LayoutNamed
<1>9. TornByContract' = TornByContract
  BY <1>3, <1>4 DEF TornByContract
<1>10. Finds(disk', truth', promised', TornByContract')
  <2> DEFINE d == disk'
  <2>1. /\ FrozenRows(d) = FrozenRows(disk)
        /\ CommittedSupersessions(d) = CommittedSupersessions(disk)
        /\ ReplayUnits(d) = ReplayUnits(disk) /\ Recovered(d) = Recovered(disk)
    BY <1>6, <1>7, <1>8, NamedReads
  <2>2. Finds(disk, truth, promised, TornByContract) /\ d.wal = disk.wal
    BY <1>7 DEF ClosedFits
  <2> HIDE DEF d
  <2>3. Finds(d, truth, promised, TornByContract)
    BY <2>1, <2>2, FindsSame
  <2> QED  BY <1>3, <1>9, <2>3 DEF d
<1> QED  BY <1>3, <1>4, <1>7, <1>10 DEF ClosedFits, Serving

(* What an open replays is on the disk it leaves: in the log it rewrites,  *)
(* or where no log is kept, in segments alone.                             *)
LEMMA ReplayIsLogged ==
    ASSUME NEW d, IsDisk(d), Sound(d, AnyRow),
           ReplayUnits(d) \in Seq(WholeUnits(AnyRow, CommittedSupersessions(d))),
           \A q \in CommittedSupersessions(d) :
              FrozenFinds(d, q) \/ UnitFinds(ReplayUnits(d), q),
           NEW e, e = [d EXCEPT !.wal = RewrittenLog(d)], NEW o
    PROVE  LogIs(e, Recovered(d), o, FALSE, 0, ReplayUnits(d), << >>)
<1> DEFINE C == CommittedSupersessions(d)
           V == ReplayUnits(d)
           F == FrozenRows(d)
           s == Recovered(d)
           N == << >>
           x == Encoded(V)
           g == d.manifest.generation
           b == Extent(d)
<1>1. d.wal \in Log(AnyRow) /\ V \in Seq(WholeUnits(AnyRow, C))
  BY DiskParts
<1>2. /\ s.frozen = F /\ s.buffer = Carried(V)
      /\ \A i \in DOMAIN V : V[i].bracket /\ V[i].rows # << >> => Seen(s, V[i].sequence)
      /\ Carried(V) \in Seq(AnyRow)
  BY <1>1, RecoveredRows
<1>3. b = Len(F)
  BY SoundOpens
<1>4. x \in Seq(Entry(AnyRow)) /\ Len(V) \in Nat /\ Len(x) \in Nat
  <2>1. x \in Seq(Entry(AnyRow))
    BY <1>1, EncodedWhole
  <2> HIDE DEF x, V
  <2> QED  BY <1>1, <2>1
<1>5. /\ e.wal = RewrittenLog(d) /\ e.manifest = d.manifest
      /\ CommittedSupersessions(e) = C
  <2>1. /\ e.wal = RewrittenLog(d) /\ e.manifest = d.manifest /\ e.segments = d.segments
        /\ e.deletes = d.deletes /\ e.history = d.history
    BY DiskParts
  <2> QED  BY <2>1, SameObjects
<1>6. /\ e.wal.present /\ e.wal.generation = g /\ e.wal.base = b
      /\ e.wal.entries = x /\ e.wal.synced = Len(x)
  <2>1. RewrittenLog(d) = [FreshLog(g, b) EXCEPT !.entries = x, !.synced = Len(x)]
    BY DEF RewrittenLog
  <2> HIDE DEF x, g, b
  <2> QED  BY <1>5, <2>1 DEF FreshLog
<1>7. \A i \in 1 .. Len(V) : V[i].bracket => Seen(s, V[i].sequence)
  <2> HIDE DEF V, s, C
  <2> SUFFICES ASSUME NEW i \in 1 .. Len(V), V[i].bracket PROVE Seen(s, V[i].sequence)
    OBVIOUS
  <2>1. V[i] \in WholeUnits(AnyRow, C) /\ i \in DOMAIN V
    BY <1>1
  <2>2. V[i].rows # << >>
    BY <2>1 DEF WholeUnits
  <2> QED  BY <1>2, <2>1, <2>2
<1>8. \A q \in C : FrozenAt(s, q) \/ \E i \in 1 .. Len(V) : V[i].bracket /\ V[i].sequence = q
  BY <1>2 DEF FrozenFinds, UnitFinds, FrozenAt
<1>9. /\ N \in Seq(AnyRow) /\ Len(N) = 0
      /\ Carried(V) = Carried(V) \o N /\ x = x \o OpenTail(o, FALSE, N)
  <2>1. N \in Seq(AnyRow) /\ Len(N) = 0
    OBVIOUS
  <2>2. OpenTail(o, FALSE, N) = << >>
    BY DEF OpenTail
  <2> DEFINE c == Carried(V)
  <2> HIDE DEF x, c
  <2>3. c = c \o N /\ x = x \o << >>
    BY <1>2, <1>4 DEF c
  <2> QED  BY <2>1, <2>2, <2>3 DEF c
<1>10. TailPlain(V, 0) /\ 0 \in 0 .. Len(V)
  <2> HIDE DEF V
  <2> QED  BY <1>4 DEF TailPlain
<1>11. Len(x) <= e.wal.synced + 0 /\ e.wal.synced <= Len(e.wal.entries)
  <2> HIDE DEF x
  <2> QED  BY <1>4, <1>6
<1>12. Len(N) = (IF FALSE THEN o.total - o.left ELSE 0)
  BY <1>9
<1> HIDE DEF C, V, F, s, N, x, g, b
<1>13. /\ V \in Seq(WholeUnits(AnyRow, CommittedSupersessions(e))) /\ N \in Seq(AnyRow)
       /\ e.wal.present /\ e.wal.generation = e.manifest.generation
       /\ e.wal.base = Len(s.frozen)
       /\ s.buffer = Carried(V) \o N
       /\ e.wal.entries = Encoded(V) \o OpenTail(o, FALSE, N)
  <2>1. e.wal.generation = e.manifest.generation
    BY <1>5, <1>6 DEF g
  <2>2. e.wal.base = Len(s.frozen)
    BY <1>2, <1>3, <1>6
  <2>3. s.buffer = Carried(V) \o N
    BY <1>2, <1>9
  <2>4. e.wal.entries = Encoded(V) \o OpenTail(o, FALSE, N)
    BY <1>6, <1>9 DEF x
  <2> QED  BY <1>1, <1>5, <1>6, <1>9, <2>1, <2>2, <2>3, <2>4
<1>14. Len(Encoded(V)) <= e.wal.synced + 0
  BY <1>11 DEF x
<1>15. \A q \in CommittedSupersessions(e) :
          FrozenAt(s, q) \/ \E i \in 1 .. Len(V) : V[i].bracket /\ V[i].sequence = q
  BY <1>5, <1>8
<1>16. LogIs(e, s, o, FALSE, 0, V, N)
  BY <1>7, <1>10, <1>11, <1>12, <1>13, <1>14, <1>15, Zenon DEF LogIs
<1> QED  BY <1>16 DEF s, V, N

LEMMA ReplayBacks ==
    ASSUME NEW d, IsDisk(d), Sound(d, AnyRow),
           ReplayUnits(d) \in Seq(WholeUnits(AnyRow, CommittedSupersessions(d))),
           \A q \in CommittedSupersessions(d) :
              FrozenFinds(d, q) \/ UnitFinds(ReplayUnits(d), q),
           NEW off \in BOOLEAN, off => ~d.wal.present,
           NEW e, e = [d EXCEPT !.wal = IF off THEN NoLog ELSE RewrittenLog(d)],
           NEW m, m.shared = Recovered(d), m.log = IF off THEN "none" ELSE "open",
           NEW o
    PROVE  /\ Backed(e, m, o, FALSE, FALSE, Told(m.shared), Told(m.shared).next)
           /\ off => FirstUnflushed(m.shared) = Told(m.shared).next
<1> DEFINE C == CommittedSupersessions(d)
           V == ReplayUnits(d)
           s == Recovered(d)
           t == Told(s)
<1>1. d.wal \in Log(AnyRow)
  BY DiskParts
<1>2. /\ WellFormed(s, AnyRow) /\ Known(s)
      /\ s.frozen = FrozenRows(d) /\ s.buffer = Carried(V)
      /\ Dead(s) = DOMAIN Tombstones(d)
  BY <1>1, RecoveredRows
<1>3. /\ SettledAt(s, 0, t, t.next)
      /\ t.next = Watermark(s, RowCount(s)) /\ t.next \in Nat
  <2> HIDE DEF s
  <2>1. SettledAt(s, 0, t, t.next)
    BY <1>2, SettledNow
  <2>2. t.next = Watermark(s, RowCount(s)) /\ t.next \in Nat
    BY <1>2, ToldParts
  <2> QED  BY <2>1, <2>2
<1>4. /\ CommittedSupersessions(e) = C /\ DOMAIN Tombstones(e) = Dead(s)
      /\ e.wal = (IF off THEN NoLog ELSE RewrittenLog(d))
  <2>1. /\ e.wal = (IF off THEN NoLog ELSE RewrittenLog(d))
        /\ e.manifest = d.manifest /\ e.segments = d.segments
        /\ e.deletes = d.deletes /\ e.history = d.history
    BY DiskParts
  <2> HIDE DEF s
  <2> QED  BY <1>2, <2>1, SameObjects
<1> HIDE DEF s
<1>5. t.next - t.next = 0 /\ Pending(o, FALSE) = 0
  <2> HIDE DEF t
  <2> QED  BY <1>3 DEF Pending
<1>6. CASE off
  <2>1. m.log = "none" /\ e.wal = NoLog /\ ~d.wal.present
    BY <1>4, <1>6
  <2>2. V = << >>
    BY <2>1 DEF ReplayUnits
  <2>3. s.buffer = << >> /\ Len(s.buffer) = 0
    <3> HIDE DEF V
    <3>1. s.buffer = << >>
      BY <1>2, <2>2, CarriedNone
    <3> QED  BY <3>1
  <2>4. ~e.wal.present /\ e.wal.synced <= Len(e.wal.entries)
    BY <2>1 DEF NoLog
  <2>5. \A q \in CommittedSupersessions(e) : FrozenAt(s, q)
    <3>1. \A q : ~UnitFinds(V, q)
      <4> HIDE DEF V
      <4> QED  BY <2>2 DEF UnitFinds
    <3>2. \A q \in C : FrozenFinds(d, q)
      BY <3>1
    <3> HIDE DEF C
    <3> QED  BY <1>2, <1>4, <3>2 DEF FrozenFinds, FrozenAt
  <2>6. LogOff(e, s, o, FALSE, 0)
    <3>1. Len(s.buffer) = Pending(o, FALSE) + 0
      <4>1. Pending(o, FALSE) = 0 /\ 0 = 0 + 0
        BY DEF Pending
      <4> QED  BY <2>3, <4>1, Zenon
    <3> QED  BY <2>4, <2>5, <3>1 DEF LogOff
  <2>7. FirstUnflushed(s) = t.next
    <3> DEFINE w == Watermark(s, RowCount(s))
    <3>1. {w} \cup {BufferBirth(s, i) : i \in DOMAIN s.buffer} = {w}
      BY <2>3
    <3>2. w \in Nat
      BY <1>3
    <3>3. FirstUnflushed(s) = Min({w})
      BY <3>1 DEF FirstUnflushed
    <3> HIDE DEF w
    <3>4. Min({w}) = w
      <4> DEFINE S == {w}
      <4>1. S \in SUBSET Int /\ w \in S /\ \A x \in S : w <= x
        BY <3>2
      <4> HIDE DEF S
      <4>2. Min(S) = w
        BY <4>1, MinIs
      <4> QED  BY <4>2 DEF S
    <3> QED  BY <1>3, <3>3, <3>4 DEF w
  <2> DEFINE z == t.next
  <2>8. Backed(e, m, o, FALSE, FALSE, t, z)
    <3>1. LogOff(e, s, o, FALSE, t.next - z) /\ SettledAt(s, Pending(o, FALSE), t, z)
      BY <1>3, <1>5, <2>6
    <3>2. s = m.shared
      BY DEF s
    <3> HIDE DEF z, t
    <3>3. SettledAt(m.shared, Pending(o, FALSE), t, z) /\ DOMAIN Tombstones(e) = Dead(m.shared)
          /\ LogOff(e, m.shared, o, FALSE, t.next - z)
      BY <1>4, <3>1, <3>2
    <3> QED  BY <2>1, <2>4, <3>3, Zenon DEF Backed
  <2> QED  BY <2>7, <2>8 DEF s
<1>7. CASE ~off
  <2>1. m.log = "open" /\ e = [d EXCEPT !.wal = RewrittenLog(d)]
    BY <1>7
  <2>2. LogIs(e, s, o, FALSE, 0, V, << >>)
    BY <2>1, ReplayIsLogged DEF s
  <2> DEFINE z == t.next
  <2>3. Backed(e, m, o, FALSE, FALSE, t, z)
    <3>1. \E V1, Q1 : LogIs(e, s, o, FALSE, t.next - z, V1, Q1)
      BY <1>5, <2>2
    <3>2. SettledAt(s, Pending(o, FALSE), t, z)
      BY <1>3, <1>5
    <3>3. s = m.shared /\ e.wal.synced <= Len(e.wal.entries)
      <4> HIDE DEF V
      <4> QED  BY <2>2 DEF LogIs, s
    <3> HIDE DEF z, t, V
    <3>4. /\ SettledAt(m.shared, Pending(o, FALSE), t, z)
          /\ DOMAIN Tombstones(e) = Dead(m.shared)
          /\ \E V1, Q1 : LogIs(e, m.shared, o, FALSE, t.next - z, V1, Q1)
      BY <1>4, <3>1, <3>2, <3>3
    <3> QED  BY <2>1, <3>3, <3>4, Zenon DEF Backed
  <2> QED  BY <1>7, <2>3 DEF s
<1> QED  BY <1>6, <1>7

(* A store that kept a log is reopened with one.  To leave the log out of  *)
(* an open is to leave out the rows it holds.                              *)
NoDowngrade == \A c \in LevelChanges : c[2] = "Off" => c[1] = "Off"

LEMMA OpenReplayRecovers ==
    ASSUME StoreInv, StoreInv', NoDowngrade, ClosedFits, OpenReplay
    PROVE  Serving' /\ ServingFits'
<1> DEFINE s == Recovered(disk)
           V == ReplayUnits(disk)
<1>1. pc = "replay" /\ pc' = "idle" /\ op' = NoOp /\ then' = then
  BY DEF OpenReplay
<1>2. PICK level \in {mem.walSync} \cup {c[2] : c \in {x \in LevelChanges : x[1] = mem.walSync}} :
         /\ mem' = [mem EXCEPT !.shared = s, !.rows = RowCount(s),
                               !.log = IF level = "Off" THEN "none" ELSE "open",
                               !.walSync = level]
         /\ truth' = Told(s)
         /\ promised' = IF level = "Off" THEN FirstUnflushed(s) ELSE truth'.next
         /\ disk' = [disk EXCEPT !.wal = IF level = "Off" THEN NoLog ELSE RewrittenLog(disk)]
  BY DEF OpenReplay
<1>3. /\ IsDisk(disk) /\ Sound(disk, AnyRow) /\ IsMemory(mem) /\ then = "idle"
      /\ disk.manifest.layout = Layout(disk)
  BY <1>1 DEF StoreInv, Typed, ObjectsFit, Flushing, LayoutNamed
<1>4. /\ V \in Seq(WholeUnits(AnyRow, CommittedSupersessions(disk)))
      /\ \A q \in CommittedSupersessions(disk) : FrozenFinds(disk, q) \/ UnitFinds(V, q)
      /\ mem.walSync = "Off" => ~disk.wal.present
  BY DEF ClosedFits, Finds
<1> DEFINE off == level = "Off"
<1>5. off \in BOOLEAN /\ (off => ~disk.wal.present)
  <2>1. off => mem.walSync = "Off"
    BY <1>2 DEF NoDowngrade
  <2> QED  BY <1>4, <2>1
<1>6. /\ mem'.shared = s /\ mem'.walSync = level
      /\ mem'.log = IF off THEN "none" ELSE "open"
  <2> DEFINE l == IF level = "Off" THEN "none" ELSE "open"
             n == RowCount(s)
  <2>1. mem' = [mem EXCEPT !.shared = s, !.rows = n, !.log = l, !.walSync = level]
    BY <1>2
  <2> HIDE DEF l, n, s
  <2>2. mem'.shared = s /\ mem'.walSync = level /\ mem'.log = l
    BY <1>3, <2>1 DEF IsMemory
  <2> QED  BY <2>2 DEF l
<1>7. /\ disk' = [disk EXCEPT !.wal = IF off THEN NoLog ELSE RewrittenLog(disk)]
      /\ disk'.manifest = disk.manifest /\ disk'.segments = disk.segments
  BY <1>2, <1>3 DEF IsDisk
<1>8. /\ Backed(disk', mem', op', FALSE, FALSE, Told(mem'.shared), Told(mem'.shared).next)
      /\ off => FirstUnflushed(mem'.shared) = Told(mem'.shared).next
  <2> DEFINE e == disk'
             m == mem'
             o == op'
  <2>1. /\ m.shared = Recovered(disk) /\ m.log = IF off THEN "none" ELSE "open"
        /\ e = [disk EXCEPT !.wal = IF off THEN NoLog ELSE RewrittenLog(disk)]
    BY <1>6, <1>7
  <2> HIDE DEF e, m, o, off
  <2>2. /\ Backed(e, m, o, FALSE, FALSE, Told(m.shared), Told(m.shared).next)
        /\ off => FirstUnflushed(m.shared) = Told(m.shared).next
    BY <1>3, <1>4, <1>5, <2>1, ReplayBacks
  <2> QED  BY <2>2 DEF e, m, o
<1> HIDE DEF s, V
<1>9. truth' = Told(mem'.shared) /\ promised' = Told(mem'.shared).next
  BY <1>2, <1>6, <1>8
<1>10. ~InBracket' /\ ~Spent' /\ Serving'
  BY <1>1, <1>3 DEF InBracket, Spent, Serving
<1>11. InBracket' = FALSE /\ Spent' = FALSE
  BY <1>10, Flags
<1>12. Backed(disk, mem, op, InBracket, Spent, truth, promised)'
  BY <1>8, <1>9, <1>11
<1>13. BracketFits'
  BY <1>1, <1>3, <1>10, NoBracket
<1>14. Unlisted'
  <2>1. disk.manifest.layout = {} =>
          Layout(disk) = {n[2] : n \in {y \in DOMAIN disk.segments : y[1] = disk.manifest.generation}}
    BY DEF Layout
  <2> QED  BY <1>3, <1>7, <2>1 DEF Unlisted
<1>15. (~InBracket => truth = Told(mem.shared))' /\ (mem.log = "none" <=> mem.walSync = "Off")'
  BY <1>6, <1>9
<1> QED  BY <1>10, <1>12, <1>13, <1>14, <1>15 DEF ServingFits

\* A store nobody opened yet owes nothing.
LEMMA InitRecovers == Init => Recoverable /\ faults \in Nat
<1> SUFFICES ASSUME Init PROVE Recoverable /\ faults \in Nat
  OBVIOUS
<1> DEFINE d == disk
           s == EmptyShared
           t == truth
           N == << >>
<1>1. /\ disk = NewDisk /\ pc = "down" /\ op = NoOp /\ truth = Told(EmptyShared)
      /\ promised = 0 /\ faults = 0
  BY DEF Init
<1>2. IsDisk(d) /\ Sound(d, AnyRow)
  BY InitFits DEF StoreInv, Typed, ObjectsFit
<1>3. /\ d.manifest.layout = {} /\ DOMAIN d.segments = {} /\ DOMAIN d.deletes = {}
      /\ d.wal = NoLog
  BY <1>1 DEF NewDisk
<1>4. ~d.wal.present /\ d.wal.entries = << >> /\ d.wal.synced = 0
  BY <1>3 DEF NoLog
<1>5. Layout(d) = {} /\ DeleteLogs(d) = {}
  BY <1>3 DEF Layout, DeleteLogs
<1>6. CommittedSupersessions(d) = {} /\ DOMAIN Tombstones(d) = {}
  BY <1>5 DEF CommittedSupersessions, Tombstones
<1>7. ReplayUnits(d) = << >>
  BY <1>4 DEF ReplayUnits
<1>8. FrozenRows(d) = << >>
  <2> DEFINE X == [row : AnyRow, born : Nat]
  <2>1. N \in Seq(X)
    OBVIOUS
  <2>2. Lays(d.segments, d.manifest.generation, Layout(d), N)
    BY <1>5, LaysNone
  <2> HIDE DEF d, N, X
  <2>3. FrozenRows(d) = N
    BY <2>1, <2>2, LaidOut
  <2> QED  BY <2>3 DEF N
<1>9. /\ WellFormed(s, AnyRow) /\ Known(s) /\ s.frozen = << >> /\ s.buffer = << >>
      /\ Dead(s) = {} /\ Watermark(s, RowCount(s)) = 0
  <2>1. WellFormed(s, AnyRow) /\ Known(s)
    BY EmptyFits
  <2>2. s.frozen = << >> /\ s.buffer = << >> /\ Dead(s) = {} /\ s.diverged = FALSE
    BY DEF EmptyShared, Dead
  <2>3. RowCount(s) = 0
    <3> HIDE DEF s
    <3> QED  BY <2>2 DEF RowCount
  <2>4. Watermark(s, RowCount(s)) = 0
    <3> HIDE DEF s
    <3> QED  BY <2>2, <2>3 DEF Watermark
  <2> QED  BY <2>1, <2>2, <2>4
<1>10. t = Told(s) /\ t.next = 0
  <2>1. t = Told(s)
    BY <1>1
  <2> HIDE DEF s, t
  <2>2. Told(s).next = 0
    BY <1>9, ToldParts
  <2> QED  BY <2>1, <2>2
<1> HIDE DEF s, t
<1>11. SettledAt(s, 0, t, 0)
  <2>1. SettledAt(s, 0, Told(s), Told(s).next)
    BY <1>9, SettledNow
  <2> QED  BY <1>10, <2>1
<1> HIDE DEF d
<1>12. Recovers(d, t, 0, FALSE)
  <2> DEFINE B == Carried(ReplayUnits(d))
  <2>1. N \in Seq(AnyRow) /\ Len(N) = 0 + 0 /\ 0 \in Nat /\ 0 <= t.next - 0
    BY <1>10
  <2>2. B = << >>
    BY <1>7, CarriedNone
  <2>3. s.buffer = B \o N
    <3> HIDE DEF B
    <3> QED  BY <1>9, <2>2
  <2>4. d.wal \in Log(AnyRow) /\ DOMAIN Tombstones(d) = Dead(s) /\ FrozenRows(d) = s.frozen
    BY <1>2, <1>6, <1>8, <1>9, DiskParts
  <2> HIDE DEF N
  <2> QED  BY <1>2, <1>9, <1>11, <2>1, <2>3, <2>4, RecoversBut DEF B
<1>13. TornByContract = FALSE
  BY <1>1 DEF TornByContract, NoOp
<1>14. ReplayUnits(d) \in Seq(WholeUnits(AnyRow, CommittedSupersessions(d)))
  <2> DEFINE W == WholeUnits(AnyRow, CommittedSupersessions(d))
  <2> HIDE DEF W
  <2>1. << >> \in Seq(W)
    OBVIOUS
  <2> QED  BY <1>7, <2>1 DEF W
<1>15. Finds(disk, truth, promised, TornByContract)
  <2>1. Finds(d, t, 0, FALSE)
    BY <1>6, <1>12, <1>14 DEF Finds
  <2> QED  BY <1>1, <1>13, <2>1 DEF d, t
<1>16. disk.wal.synced = Len(disk.wal.entries) /\ ~disk.wal.present
  BY <1>4 DEF d
<1> QED  BY <1>1, <1>15, <1>16 DEF Recoverable, ClosedFits, Serving

LEMMA StutterRecovers ==
    ASSUME Recoverable, UNCHANGED vars
    PROVE  Recoverable'
<1>1. /\ disk' = disk /\ mem' = mem /\ pc' = pc /\ then' = then /\ op' = op
      /\ truth' = truth /\ promised' = promised /\ faults' = faults
  BY DEF vars
<1>2. Serving' = Serving /\ InBracket' = InBracket /\ Spent' = Spent
      /\ TornByContract' = TornByContract
  BY <1>1 DEF Serving, InBracket, Spent, TornByContract
<1>3. BracketFits => BracketFits'
  BY <1>1, <1>2 DEF BracketFits
<1>4. Unlisted => Unlisted'
  BY <1>1 DEF Unlisted
<1>5. ServingFits => ServingFits'
  BY <1>1, <1>2, <1>3, <1>4 DEF ServingFits
<1>6. ClosedFits => ClosedFits'
  BY <1>1, <1>2 DEF ClosedFits
<1> QED  BY <1>1, <1>2, <1>5, <1>6 DEF Recoverable

\* Failed writes are counted, and none of them uncounted.
Counted == faults' \in {faults, faults + 1}

LEMMA OpeningCounts ==
    ASSUME Close \/ Crash \/ OpenLoad \/ OpenReplay \/ UNCHANGED vars
    PROVE  Counted
<1> QED  BY DEF Close, Crash, OpenLoad, OpenReplay, vars, ghosts, Counted

LEMMA WritingCounts ==
    ASSUME \/ AppendRowOp \/ StartFlush \/ FlushSegment \/ FlushManifest \/ FlushReset
           \/ Tombstone \/ WriteDeleteLog
    PROVE  Counted
<1> QED  BY DEF AppendRowOp, StartFlush, FlushSegment, FlushManifest, FlushReset, ResetWal,
                Tombstone, WriteDeleteLog, Abort, ghosts, Counted

LEMMA SupersedingCounts ==
    ASSUME \/ Supersede \/ OpenBracket \/ AppendReplacement \/ SyncReplacements
           \/ CommitSupersession
    PROVE  Counted
<1> QED  BY DEF Supersede, OpenBracket, AppendReplacement, SyncReplacements,
                CommitSupersession, Abort, ghosts, Counted

LEMMA CompactingCounts ==
    ASSUME \/ StartCompact \/ WriteNextGeneration \/ CommitCompaction \/ CompactReset
           \/ Cleanup
    PROVE  Counted
<1> QED  BY DEF StartCompact, WriteNextGeneration, CommitCompaction, CompactReset, ResetWal,
                Cleanup, Abort, ghosts, Counted

LEMMA FaultsCount ==
    ASSUME [Next]_vars, faults \in Nat
    PROVE  faults' \in Nat /\ (faults' = 0 => faults = 0)
<1>1. Counted
  BY OpeningCounts, WritingCounts, SupersedingCounts, CompactingCounts, Zenon DEF Next
<1> QED  BY <1>1 DEF Counted

LEMMA RecoverableInductive ==
    ASSUME StoreInv, StoreInv', NoDowngrade, Recoverable, faults \in Nat, [Next]_vars
    PROVE  Recoverable' /\ faults' \in Nat
<1>1. faults' \in Nat
  BY FaultsCount
<1>2. CASE faults' # 0
  BY <1>1, <1>2 DEF Recoverable
<1>3. CASE faults' = 0
  <2>1. faults = 0 /\ faults' = 0
    BY <1>3, FaultsCount
  <2>2. (Serving => ServingFits) /\ (~Serving => ClosedFits)
    BY <2>1 DEF Recoverable
  <2>3. CASE UNCHANGED vars
    BY <1>1, <2>3, StutterRecovers
  <2>4. CASE Close
    <3>1. Serving
      BY <2>4 DEF Close, Serving
    <3>2. ~Serving' /\ ClosedFits'
      BY <2>2, <2>4, <3>1, CloseRecovers
    <3> QED  BY <1>1, <3>2 DEF Recoverable
  <2>5. CASE Crash
    <3>1. ~Serving' /\ ClosedFits'
      BY <2>1, <2>5, CrashRecovers
    <3> QED  BY <1>1, <3>1 DEF Recoverable
  <2>6. CASE OpenLoad
    <3>1. ~Serving
      BY <2>6 DEF OpenLoad, Serving
    <3>2. ~Serving' /\ ClosedFits'
      BY <2>2, <2>6, <3>1, OpenLoadRecovers
    <3> QED  BY <1>1, <3>2 DEF Recoverable
  <2>7. CASE OpenReplay
    <3>1. ~Serving
      BY <2>7 DEF OpenReplay, Serving
    <3>2. Serving' /\ ServingFits'
      BY <2>2, <2>7, <3>1, OpenReplayRecovers
    <3> QED  BY <1>1, <3>2 DEF Recoverable
  <2>8. CASE \/ AppendRowOp \/ StartFlush \/ FlushSegment \/ FlushManifest \/ FlushReset
             \/ Tombstone \/ WriteDeleteLog
    <3>1. Serving
      BY <2>8 DEF AppendRowOp, StartFlush, FlushSegment, FlushManifest, FlushReset,
                  Tombstone, WriteDeleteLog, Serving
    <3>2. ServingFits
      BY <2>2, <3>1
    <3>3. Serving' /\ ServingFits'
      BY <2>1, <2>8, <3>2, AppendRowFinds, StartFlushFinds, FlushSegmentFinds,
         FlushManifestFinds, FlushResetFinds, TombstoneFinds, WriteDeleteLogFinds, Zenon
    <3> QED  BY <1>1, <3>3 DEF Recoverable
  <2>9. CASE \/ Supersede \/ OpenBracket \/ AppendReplacement \/ SyncReplacements
             \/ CommitSupersession
    <3>1. Serving
      BY <2>9 DEF Supersede, OpenBracket, AppendReplacement, SyncReplacements,
                  CommitSupersession, Serving
    <3>2. ServingFits
      BY <2>2, <3>1
    <3>3. Serving' /\ ServingFits'
      BY <2>1, <2>9, <3>2, SupersedeFinds, OpenBracketFinds, AppendReplacementFinds,
         SyncReplacementsFinds, CommitSupersessionFinds, Zenon
    <3> QED  BY <1>1, <3>3 DEF Recoverable
  <2>10. CASE \/ StartCompact \/ WriteNextGeneration \/ CommitCompaction \/ CompactReset
              \/ Cleanup
    <3>1. Serving
      BY <2>10 DEF StartCompact, WriteNextGeneration, CommitCompaction, CompactReset,
                   Cleanup, Serving
    <3>2. ServingFits
      BY <2>2, <3>1
    <3>3. Serving' /\ ServingFits'
      BY <2>1, <2>10, <3>2, StartCompactFinds, WriteNextGenerationFinds,
         CommitCompactionFinds, CompactResetFinds, CleanupFinds, Zenon
    <3> QED  BY <1>1, <3>3 DEF Recoverable
  <2> QED  BY <2>3, <2>4, <2>5, <2>6, <2>7, <2>8, <2>9, <2>10, Zenon DEF Next
<1> QED  BY <1>2, <1>3

\* The two together, as one state predicate.
Accounted == Recoverable /\ faults \in Nat

LEMMA AccountedAlways ==
    ASSUME NoLateFaults, NoDowngrade
    PROVE  Spec => [](StoreInv /\ Accounted)
<1>1. Spec => []StoreInv
  BY StoreStaysFit
<1>2. Init => Accounted
  BY InitRecovers DEF Accounted
<1>3. StoreInv /\ StoreInv' /\ Accounted /\ [Next]_vars => Accounted'
  BY RecoverableInductive DEF Accounted
<1> QED  BY <1>1, <1>2, <1>3, PTL DEF Spec

(* Whatever instant a crash picks, for every number of keys, rows,         *)
(* replacements, generations and crashes and every WAL level: as long as   *)
(* no write fails, the rows an open finds are those of a prefix of the     *)
(* acknowledged events that holds every event promised durable (the WAL    *)
(* contract of Store::append, flush, tombstone, supersede and compact).    *)
THEOREM StoreRecoversPrefix ==
    ASSUME NoLateFaults, NoDowngrade
    PROVE  Spec => []RecoversPrefix
<1>1. StoreInv /\ Accounted => RecoversPrefix
  BY RecoverablePrefix DEF Accounted
<1> QED  BY <1>1, AccountedAlways, PTL

(* A delete log never names a row that is not yet durable, and one that    *)
(* commits a supersession finds its replacements in a segment or in the    *)
(* synced log, at every instant (Store::supersede, tombstone, replay).     *)
THEOREM StoreDeleteLogsCommitLast ==
    ASSUME NoLateFaults, NoDowngrade
    PROVE  Spec => []DeleteLogsCommitLast
<1>1. StoreInv /\ Accounted => DeleteLogsCommitLast
  BY RecoverableLogs DEF Accounted
<1> QED  BY <1>1, AccountedAlways, PTL

----------------------------------------------------------------------------
\* Supersessions, whole or not at all.

\* A coordinate that is the birth of a row id is the birth of a version.
LEMMA SeenVersions ==
    ASSUME NEW s, NEW q, Seen(s, q)
    PROVE  \E v \in AliveVersions(s) \cup DeadVersions(s) : v.born = q
<1>1. PICK id \in Ids(s) : Born(s, id) = q
  BY DEF Seen
<1>2. CASE id \in Dead(s)
  <2> DEFINE v == [row |-> RowAt(s, id), born |-> Born(s, id), killed |-> s.tombs[id]]
  <2>1. v \in DeadVersions(s)
    BY <1>2 DEF DeadVersions, KilledVersions
  <2> QED  BY <1>1, <2>1
<1>3. CASE id \notin Dead(s)
  <2> DEFINE v == [row |-> RowAt(s, id), born |-> Born(s, id)]
  <2>1. v \in AliveVersions(s)
    BY <1>1, <1>3 DEF AliveVersions, Live
  <2> QED  BY <1>1, <2>1
<1> QED  BY <1>2, <1>3

LEMMA FoundIsSeen ==
    ASSUME NEW d, IsDisk(d), Sound(d, AnyRow),
           ReplayUnits(d) \in Seq(WholeUnits(AnyRow, CommittedSupersessions(d))),
           NEW q, FrozenFinds(d, q) \/ UnitFinds(ReplayUnits(d), q)
    PROVE  Seen(Recovered(d), q)
<1> DEFINE V == ReplayUnits(d)
           F == FrozenRows(d)
           r == Recovered(d)
           W == WholeUnits(AnyRow, CommittedSupersessions(d))
<1>1. d.wal \in Log(AnyRow)
  BY DiskParts
<1>2. /\ \A i \in 1 .. Len(F) : Seen(r, F[i].born)
      /\ \A i \in DOMAIN V : V[i].bracket /\ V[i].rows # << >> => Seen(r, V[i].sequence)
  BY <1>1, RecoveredRows
<1>3. CASE FrozenFinds(d, q)
  BY <1>2, <1>3 DEF FrozenFinds
<1>4. CASE UnitFinds(V, q)
  <2> HIDE DEF V, W, r
  <2>1. PICK i \in 1 .. Len(V) : V[i].bracket /\ V[i].sequence = q
    BY <1>4 DEF UnitFinds
  <2>2. V \in Seq(W)
    BY DEF V, W
  <2>3. i \in DOMAIN V /\ V[i] \in W
    BY <2>2
  <2>4. V[i].rows # << >>
    BY <2>3 DEF W, WholeUnits
  <2> QED  BY <1>2, <2>1, <2>3, <2>4 DEF r
<1> QED  BY <1>3, <1>4

LEMMA RecoverableWhole ==
    ASSUME StoreInv, Recoverable, faults = 0
    PROVE  MutationsWhole
<1> SUFFICES ASSUME NEW d \in AfterCrash, NEW q \in CommittedSupersessions(d)
             PROVE  LET t == Told(Recovered(d))
                    IN  \E v \in t.alive \cup t.dead : v.born = q
  BY DEF MutationsWhole
<1>1. PICK k \in disk.wal.synced .. Len(disk.wal.entries) : d = CutDisk(disk, k)
  BY DEF AfterCrash, CutDisk
<1>2. IsDisk(disk) /\ Sound(disk, AnyRow)
  BY DEF StoreInv, Typed, ObjectsFit
<1>3. Finds(d, truth, promised, TornByContract)
  BY <1>1, CrashAnywhere
<1>4. k \in Nat /\ k <= Len(disk.wal.entries)
  <2>1. disk.wal.synced \in Nat /\ Len(disk.wal.entries) \in Nat
    BY <1>2, DiskParts, LogParts
  <2> QED  BY <2>1
<1>5. IsDisk(d) /\ Sound(d, AnyRow)
  <2>1. /\ IsDisk(d) /\ d.manifest = disk.manifest /\ d.segments = disk.segments
        /\ d.deletes = disk.deletes /\ d.history = disk.history
    BY <1>1, <1>2, <1>4, CutParts
  <2> QED  BY <1>2, <2>1, SameObjects
<1>6. Seen(Recovered(d), q)
  BY <1>3, <1>5, FoundIsSeen DEF Finds
<1> DEFINE r == Recovered(d)
<1>7. \E v \in AliveVersions(r) \cup DeadVersions(r) : v.born = q
  BY <1>6, SeenVersions
<1>8. Told(r).alive = AliveVersions(r) /\ Told(r).dead = DeadVersions(r)
  BY DEF Told
<1> QED  BY <1>7, <1>8

LEMMA NeverFails ==
    ASSUME NoFaults, [Next]_vars
    PROVE  faults' = faults
<1>1. Outcomes = {"done"} /\ LogOutcomes = {"done"} /\ ~Abort("done")
  BY AllDone DEF Abort
<1>2. CASE Close \/ Crash \/ OpenLoad \/ OpenReplay \/ UNCHANGED vars
  BY <1>2 DEF Close, Crash, OpenLoad, OpenReplay, vars, ghosts
<1>3. CASE \/ AppendRowOp \/ StartFlush \/ FlushSegment \/ FlushManifest \/ FlushReset
           \/ Tombstone \/ WriteDeleteLog
  BY <1>1, <1>3 DEF AppendRowOp, StartFlush, FlushSegment, FlushManifest, FlushReset, ResetWal,
                    Tombstone, WriteDeleteLog, ghosts
<1>4. CASE \/ Supersede \/ OpenBracket \/ AppendReplacement \/ SyncReplacements
           \/ CommitSupersession
  BY <1>1, <1>4 DEF Supersede, OpenBracket, AppendReplacement, SyncReplacements,
                    CommitSupersession, ghosts
<1>5. CASE \/ StartCompact \/ WriteNextGeneration \/ CommitCompaction \/ CompactReset
           \/ Cleanup
  BY <1>1, <1>5 DEF StartCompact, WriteNextGeneration, CommitCompaction, CompactReset, ResetWal,
                    Cleanup, ghosts
<1> QED  BY <1>2, <1>3, <1>4, <1>5, Zenon DEF Next

(* The crash half of old-or-new (Store::supersede, replay_wal): where no   *)
(* write fails and no open drops the log, a supersession whose delete log  *)
(* is there is found with its replacements, at every instant.  The run     *)
(* durable_downgrade breaks it with an open that drops the log.            *)
THEOREM StoreMutationsWhole ==
    ASSUME NoFaults, NoDowngrade
    PROVE  Spec => []MutationsWhole
<1> DEFINE None == faults = 0
<1>1. NoLateFaults
  BY AllDone
<1>2. Spec => [](StoreInv /\ Accounted)
  BY <1>1, AccountedAlways
<1>3. Init => None
  BY DEF Init
<1>4. None /\ [Next]_vars => None'
  BY NeverFails
<1>5. StoreInv /\ Accounted /\ None => MutationsWhole
  BY RecoverableWhole DEF Accounted
<1> HIDE DEF None
<1> QED  BY <1>2, <1>3, <1>4, <1>5, PTL DEF Spec
=============================================================================
