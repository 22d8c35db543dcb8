---------------------------- MODULE StoreLemmas -----------------------------
(***************************************************************************)
(* Lemmas about the operators of StoreState and Disk.  The proofs about    *)
(* the state machines cite these and expand no operator themselves.        *)
(*                                                                         *)
(* First StoreState: each writing operator keeps a shared state well       *)
(* formed, what it does to the row count and to the set of dead ids, and   *)
(* to the view of a state: the row and the birth of every row id, and the  *)
(* watermark.  Then Disk: when the segments of a layout hold a given       *)
(* sequence of rows an open reads exactly that sequence back, and the      *)
(* state it loads is well formed.  Last the log: what a replay makes of    *)
(* encoded units, of a log cut short, and of rows the segments hold.       *)
(***************************************************************************)
EXTENDS Disk, TLAPS, FiniteSetTheorems, SequenceTheorems, WellFoundedInduction

LEMMA FunctionIsSeq ==
    ASSUME NEW S, NEW n \in Nat, NEW f \in [1 .. n -> S]
    PROVE  f \in Seq(S) /\ Len(f) = n
<1>1. f \in Seq(S)
  BY SeqDef
<1> QED BY <1>1, LenProperties

LEMMA AppendType ==
    ASSUME NEW S, NEW f \in Seq(S), NEW x \in S
    PROVE  /\ Append(f, x) \in Seq(S) /\ Append(f, x) # << >>
           /\ Len(Append(f, x)) = Len(f) + 1
BY AppendProperties

LEMMA NatSum ==
    ASSUME NEW m \in Nat, NEW n \in Nat
    PROVE  m + n \in Nat
OBVIOUS

\* The types of the fields, one by one.
LEMMA FieldTypes ==
    ASSUME NEW R, NEW s, Shaped(s, R)
    PROVE  /\ s.frozen \in Seq([row : R, born : Nat]) /\ Len(s.frozen) \in Nat
           /\ s.buffer \in Seq(R) /\ Len(s.buffer) \in Nat
           /\ s.base = Len(s.frozen) /\ s.base \in Nat
           /\ s.diverged \in BOOLEAN /\ s.next \in Nat /\ s.seqBase \in Nat
           /\ s.births \in Seq(Nat)
           /\ s.tombs \in [Dead(s) -> Nat]
           /\ s.history \in SUBSET [row : R, born : Nat, killed : Nat]
           /\ RowCount(s) = Len(s.frozen) + Len(s.buffer)
           /\ RowCount(s) \in Nat
<1>1. s \in SharedFields(s, R)
  BY DEF Shaped
<1>2. /\ s.frozen \in Seq([row : R, born : Nat]) /\ s.buffer \in Seq(R)
      /\ s.diverged \in BOOLEAN /\ s.next \in Nat /\ s.seqBase \in Nat
      /\ s.births \in Seq(Nat) /\ s.tombs \in [Dead(s) -> Nat]
      /\ s.history \in SUBSET [row : R, born : Nat, killed : Nat]
  BY <1>1 DEF SharedFields
<1>3. Len(s.frozen) \in Nat /\ Len(s.buffer) \in Nat
  BY <1>2, LenProperties
<1>4. RowCount(s) = Len(s.frozen) + Len(s.buffer) /\ RowCount(s) \in Nat
  BY <1>3, NatSum, Zenon DEF RowCount
<1> QED BY <1>2, <1>3, <1>4 DEF Shaped

\* An id below the frozen count indexes the segments, any other the buffer.
LEMMA SplitId ==
    ASSUME NEW m \in Nat, NEW n \in Nat, NEW id \in 0 .. (m + n) - 1
    PROVE  /\ id \in Nat
           /\ id < m => id + 1 \in 1 .. m
           /\ ~(id < m) => id - m + 1 \in 1 .. n
OBVIOUS

LEMMA BirthSum ==
    ASSUME NEW m \in Nat, NEW n \in Nat, NEW i \in 1 .. n
    PROVE  m + i - 1 \in Nat
OBVIOUS

\* Every buffered row has a birth.
LEMMA BufferBirthType ==
    ASSUME NEW R, NEW s, Shaped(s, R), NEW i \in 1 .. Len(s.buffer)
    PROVE  BufferBirth(s, i) \in Nat
<1>1. s.base + i - 1 \in Nat /\ s.seqBase + i - 1 \in Nat
  BY FieldTypes, BirthSum, Zenon
<1>2. s.births # << >> => s.births[i] \in Nat
  <2>1. s.births # << >> => Len(s.births) = Len(s.buffer)
    BY DEF Shaped
  <2>2. s.births \in Seq(Nat)
    BY FieldTypes
  <2> QED BY <2>1, <2>2, ElementOfSeq
<1> QED BY <1>1, <1>2, Zenon DEF BufferBirth

\* Every id has a row of R and a birth, and the watermark is a coordinate.
LEMMA ViewType ==
    ASSUME NEW R, NEW s, Shaped(s, R)
    PROVE  /\ Watermark(s, RowCount(s)) \in Nat
           /\ \A id \in Ids(s) : RowAt(s, id) \in R /\ Born(s, id) \in Nat
<1>1. Watermark(s, RowCount(s)) \in Nat
  BY FieldTypes DEF Watermark
<1>2. ASSUME NEW id \in Ids(s)
      PROVE  RowAt(s, id) \in R /\ Born(s, id) \in Nat
  <2>1. /\ id < Len(s.frozen) => id + 1 \in 1 .. Len(s.frozen)
        /\ ~(id < Len(s.frozen)) => id - Len(s.frozen) + 1 \in 1 .. Len(s.buffer)
    <3>1. id \in 0 .. (Len(s.frozen) + Len(s.buffer)) - 1
      BY <1>2, Zenon DEF Ids, RowCount
    <3>2. Len(s.frozen) \in Nat /\ Len(s.buffer) \in Nat
      BY FieldTypes
    <3> QED BY <3>1, <3>2, SplitId, Zenon
  <2>2. CASE id < Len(s.frozen)
    <3>1. s.frozen[id + 1] \in [row : R, born : Nat]
      BY <2>1, <2>2, FieldTypes, ElementOfSeq, Zenon
    <3> QED BY <2>2, <3>1 DEF RowAt, Born
  <2>3. CASE ~(id < Len(s.frozen))
    <3>1. s.buffer[id - Len(s.frozen) + 1] \in R
      BY <2>1, <2>3, FieldTypes, ElementOfSeq, Zenon
    <3>2. BufferBirth(s, id - Len(s.frozen) + 1) \in Nat
      BY <2>1, <2>3, BufferBirthType, Zenon
    <3> QED BY <2>3, <3>1, <3>2, Zenon DEF RowAt, Born
  <2> QED BY <2>2, <2>3
<1> QED BY <1>1, <1>2

----------------------------------------------------------------------------
\* Every writing operator, in the order of StoreState.

\* Ordinary append: one more row, nothing killed.
LEMMA AppendRowKeeps ==
    ASSUME NEW R, NEW s, WellFormed(s, R), NEW row \in R
    PROVE  /\ WellFormed(AppendRow(s, row), R)
           /\ RowCount(AppendRow(s, row)) = RowCount(s) + 1
           /\ Dead(AppendRow(s, row)) = Dead(s)
<1> DEFINE t      == AppendRow(s, row)
           buffer == Append(s.buffer, row)
           births == Append(s.births, s.next)
<1>1. Shaped(s, R) /\ VirtualIsPlain(s) /\ s \in SharedFields(s, R)
  BY DEF WellFormed, Shaped
<1>2. buffer \in Seq(R) /\ Len(buffer) = Len(s.buffer) + 1
  <2>1. s.buffer \in Seq(R)
    BY <1>1, FieldTypes
  <2> QED BY <2>1, AppendType
<1>3. births \in Seq(Nat) /\ births # << >> /\ Len(births) = Len(s.births) + 1
  <2>1. s.births \in Seq(Nat) /\ s.next \in Nat
    BY <1>1, FieldTypes
  <2> QED BY <2>1, AppendType
<1>4. /\ t.frozen = s.frozen /\ t.buffer = buffer /\ t.base = s.base
      /\ t.diverged = s.diverged /\ t.seqBase = s.seqBase
      /\ t.next = IF s.diverged THEN s.next + 1 ELSE s.next
      /\ t.births = IF s.diverged /\ s.births # << >> THEN births ELSE s.births
      /\ t.tombs = s.tombs /\ t.history = s.history
  BY <1>1 DEF AppendRow, SharedFields
<1>5. Dead(t) = Dead(s)
  BY <1>4 DEF Dead
<1>6. t \in SharedFields(t, R)
  <2>1. \A b \in Seq(R), x \in Seq(Nat), y \in Nat :
           [s EXCEPT !.buffer = b, !.births = x, !.next = y] \in SharedFields(s, R)
    BY <1>1 DEF SharedFields
  <2>2. /\ (IF s.diverged /\ s.births # << >> THEN births ELSE s.births) \in Seq(Nat)
        /\ (IF s.diverged THEN s.next + 1 ELSE s.next) \in Nat
    BY <1>1, <1>3, FieldTypes
  <2>3. t \in SharedFields(s, R)
    BY <2>1, <2>2, <1>2, Zenon DEF AppendRow
  <2>4. SharedFields(t, R) = SharedFields(s, R)
    BY <1>5, Zenon DEF SharedFields
  <2> QED BY <2>3, <2>4, Zenon
<1> HIDE DEF t
<1>7. RowCount(t) = RowCount(s) + 1
  <2>1. \A m, n \in Nat : m + (n + 1) = (m + n) + 1
    OBVIOUS
  <2>2. Len(s.frozen) \in Nat /\ Len(s.buffer) \in Nat
    BY <1>1, FieldTypes
  <2>3. RowCount(t) = Len(s.frozen) + (Len(s.buffer) + 1)
    BY <1>2, <1>4, Zenon DEF RowCount
  <2> QED BY <2>1, <2>2, <2>3, Zenon DEF RowCount
<1>8. t.births # << >> => Len(t.births) = Len(t.buffer)
  BY <1>1, <1>2, <1>3, <1>4 DEF Shaped
<1>9. t.diverged /\ t.births = << >> => t.seqBase + Len(t.buffer) = t.next
  <2>1. ASSUME s.diverged, s.births = << >>
        PROVE  s.seqBase + Len(buffer) = s.next + 1
    <3>1. /\ s.seqBase + Len(s.buffer) = s.next
          /\ Len(s.buffer) \in Nat /\ s.seqBase \in Nat
      BY <1>1, <2>1, FieldTypes DEF Shaped
    <3> QED BY <3>1, <1>2
  <2> QED BY <2>1, <1>3, <1>4, Zenon
<1>10. Dead(t) \subseteq Ids(t)
  <2>1. \A n \in Nat : 0 .. n - 1 \subseteq 0 .. (n + 1) - 1
    OBVIOUS
  <2> QED BY <2>1, <1>1, <1>5, <1>7, FieldTypes, Zenon DEF Shaped, Ids
<1>11. Shaped(t, R)
  BY <1>1, <1>4, <1>6, <1>8, <1>9, <1>10 DEF Shaped
<1>12. VirtualIsPlain(t)
  BY <1>1, <1>4, <1>5 DEF VirtualIsPlain
<1> QED BY <1>5, <1>7, <1>11, <1>12 DEF WellFormed, t

\* The first mutation: rows stay, births are unchanged, and from here on
\* the watermark is a field.
LEMMA DivergedKeeps ==
    ASSUME NEW R, NEW s, Shaped(s, R), NEW rows, rows = RowCount(s)
    PROVE  LET d == Diverged(s, rows)
           IN  /\ Shaped(d, R)
               /\ d.diverged = TRUE
               /\ d.frozen = s.frozen /\ d.buffer = s.buffer /\ d.base = s.base
               /\ d.births = s.births /\ d.tombs = s.tombs /\ d.history = s.history
               /\ d.next = Watermark(s, rows)
<1> DEFINE d == Diverged(s, rows)
<1>1. CASE s.diverged
  BY <1>1, FieldTypes DEF Diverged, Watermark
<1>2. CASE ~s.diverged
  <2> DEFINE start == rows - Len(s.buffer)
  <2>1. start = Len(s.frozen) /\ rows \in Nat /\ start \in Nat
    <3>1. \A m, n \in Nat : (m + n) - n = m
      OBVIOUS
    <3>2. /\ Len(s.frozen) \in Nat /\ Len(s.buffer) \in Nat
          /\ rows \in Nat /\ rows = Len(s.frozen) + Len(s.buffer)
      BY FieldTypes
    <3>3. start = Len(s.frozen)
      BY <3>1, <3>2, Zenon
    <3> QED BY <3>2, <3>3, Zenon
  <2> HIDE DEF start
  <2>2. d = [s EXCEPT !.diverged = TRUE, !.next = rows, !.seqBase = start]
    BY <1>2 DEF Diverged, start
  <2>3. s \in SharedFields(s, R)
    BY DEF Shaped
  <2>4. /\ d.diverged = TRUE /\ d.next = rows /\ d.seqBase = start
        /\ d.frozen = s.frozen /\ d.buffer = s.buffer /\ d.base = s.base
        /\ d.births = s.births /\ d.tombs = s.tombs /\ d.history = s.history
    BY <2>2, <2>3 DEF SharedFields
  <2>5. d \in SharedFields(s, R)
    BY <2>1, <2>2, <2>3 DEF SharedFields
  <2> HIDE DEF d
  <2>6. Dead(d) = Dead(s) /\ Ids(d) = Ids(s)
    BY <2>4, Zenon DEF Dead, Ids, RowCount
  <2>7. d \in SharedFields(d, R)
    BY <2>5, <2>6, Zenon DEF SharedFields
  <2>8. d.seqBase + Len(d.buffer) = d.next
    BY <2>1, <2>4, FieldTypes, Zenon
  <2>9. Shaped(d, R)
    BY <2>4, <2>6, <2>7, <2>8, Zenon DEF Shaped
  <2> QED BY <1>2, <2>4, <2>9 DEF Watermark, d
<1> QED BY <1>1, <1>2

\* The same without the shape, which a prover could apply over and over.
LEMMA DivergedFields ==
    ASSUME NEW R, NEW s, Shaped(s, R), NEW rows, rows = RowCount(s)
    PROVE  LET d == Diverged(s, rows)
           IN  /\ d.diverged = TRUE
               /\ d.frozen = s.frozen /\ d.buffer = s.buffer /\ d.base = s.base
               /\ d.births = s.births /\ d.tombs = s.tombs /\ d.history = s.history
               /\ d.next = Watermark(s, rows)
<1> DEFINE d == Diverged(s, rows)
<1>1. s \in SharedFields(s, R)
  BY DEF Shaped
<1>2. CASE s.diverged
  BY <1>1, <1>2 DEF Diverged, Watermark, SharedFields
<1>3. CASE ~s.diverged
  BY <1>1, <1>3 DEF Diverged, Watermark, SharedFields
<1> QED BY <1>2, <1>3

\* Explicit births, one for every row of the buffer.
LEMMA MaterializedType ==
    ASSUME NEW R, NEW s, Shaped(s, R)
    PROVE  Materialized(s) \in Seq(Nat) /\ Len(Materialized(s)) = Len(s.buffer)
<1>1. CASE s.births # << >>
  BY <1>1, FieldTypes DEF Materialized, Shaped
<1>2. CASE s.births = << >>
  <2> DEFINE n == Len(s.buffer)
             b == s.seqBase
             run == [i \in 1 .. n |-> b + i - 1]
  <2>1. n \in Nat /\ b \in Nat
    BY FieldTypes
  <2> HIDE DEF n, b
  <2>2. run \in Seq(Nat) /\ Len(run) = n
    <3>1. \A i \in 1 .. n : b + i - 1 \in Nat
      BY <2>1, BirthSum, Zenon
    <3>2. run \in [1 .. n -> Nat]
      BY <3>1
    <3> QED BY <2>1, <3>2, FunctionIsSeq, Zenon
  <2> QED BY <1>2, <2>2 DEF Materialized, n, b
<1> QED BY <1>1, <1>2

\* A kill's coordinate: no row moves, and the table has diverged.
LEMMA ConsumeKeeps ==
    ASSUME NEW R, NEW s, Shaped(s, R), NEW rows, rows = RowCount(s)
    PROVE  LET t == ConsumeSequence(s, rows)
           IN  /\ WellFormed(t, R)
               /\ RowCount(t) = RowCount(s)
               /\ Dead(t) = Dead(s)
<1> DEFINE d      == Diverged(s, rows)
           t      == ConsumeSequence(s, rows)
           births == IF d.buffer = << >> THEN << >> ELSE Materialized(d)
           start  == IF d.buffer = << >> THEN d.next + 1 ELSE d.seqBase
<1>1. /\ Shaped(d, R) /\ d.diverged = TRUE /\ d \in SharedFields(d, R)
      /\ d.frozen = s.frozen /\ d.buffer = s.buffer /\ d.tombs = s.tombs
  <2>1. /\ d.diverged = TRUE
        /\ d.frozen = s.frozen /\ d.buffer = s.buffer /\ d.base = s.base
        /\ d.births = s.births /\ d.tombs = s.tombs /\ d.history = s.history
        /\ d.next = Watermark(s, rows)
    BY DivergedFields
  <2>2. Shaped(d, R)
    BY DivergedKeeps, Zenon
  <2> QED BY <2>1, <2>2, Zenon DEF Shaped
<1> HIDE DEF d
<1>2. t = [d EXCEPT !.next = d.next + 1, !.seqBase = start, !.births = births]
  <2>1. CASE d.buffer = << >>
    BY <2>1 DEF ConsumeSequence, d
  <2>2. CASE d.buffer # << >>
    <3>1. t = [d EXCEPT !.next = d.next + 1, !.births = Materialized(d)]
      BY <2>2 DEF ConsumeSequence, d
    <3>2. d = [d EXCEPT !.seqBase = d.seqBase]
      BY <1>1 DEF SharedFields
    <3>3. t = [[d EXCEPT !.seqBase = d.seqBase]
                 EXCEPT !.next = d.next + 1, !.births = Materialized(d)]
      BY <3>1, <3>2, Zenon
    <3> QED BY <3>3, <2>2, <1>1 DEF SharedFields
  <2> QED BY <2>1, <2>2
<1>3. /\ d.next \in Nat /\ start \in Nat
      /\ births \in Seq(Nat)
      /\ births # << >> => Len(births) = Len(d.buffer)
      /\ births = << >> => d.buffer = << >>
  <2>1. Materialized(d) \in Seq(Nat) /\ Len(Materialized(d)) = Len(d.buffer)
    BY <1>1, MaterializedType
  <2>2. d.buffer \in Seq(R) /\ d.next \in Nat /\ d.seqBase \in Nat
    BY <1>1, FieldTypes
  <2>3. d.buffer # << >> => Materialized(d) # << >>
    BY <2>1, <2>2
  <2> QED BY <2>1, <2>2, <2>3
<1>4. births = << >> => start + Len(d.buffer) = d.next + 1
  BY <1>3
<1> HIDE DEF births, start, t
<1>5. /\ t.frozen = d.frozen /\ t.buffer = d.buffer /\ t.base = d.base
      /\ t.diverged = TRUE /\ t.tombs = d.tombs
      /\ t.next = d.next + 1 /\ t.seqBase = start /\ t.births = births
  BY <1>1, <1>2 DEF SharedFields
<1>6. Dead(t) = Dead(d) /\ RowCount(t) = RowCount(d)
  BY <1>5, Zenon DEF Dead, RowCount
<1>7. t \in SharedFields(d, R)
  <2>1. \A x, y \in Nat, z \in Seq(Nat) :
           [d EXCEPT !.next = x, !.seqBase = y, !.births = z] \in SharedFields(d, R)
    BY <1>1 DEF SharedFields
  <2>2. d.next + 1 \in Nat
    BY <1>3
  <2> QED BY <2>1, <2>2, <1>2, <1>3, Zenon
<1>8. t \in SharedFields(t, R)
  BY <1>6, <1>7, Zenon DEF SharedFields
<1>9. Shaped(t, R)
  BY <1>1, <1>3, <1>4, <1>5, <1>6, <1>8, Zenon DEF Shaped, Ids
<1>10. Dead(d) = Dead(s) /\ RowCount(d) = RowCount(s)
  BY <1>1, Zenon DEF Dead, RowCount
<1>11. VirtualIsPlain(t)
  BY <1>5 DEF VirtualIsPlain
<1> QED BY <1>6, <1>9, <1>10, <1>11 DEF WellFormed, t

\* A replacement: one more row, its birth recorded, and the table diverged.
LEMMA AppendSupersedingKeeps ==
    ASSUME NEW R, NEW s, Shaped(s, R), NEW rows, rows = RowCount(s),
           NEW row \in R, NEW sequence \in Nat
    PROVE  LET t == AppendSuperseding(s, row, sequence, rows)
           IN  /\ WellFormed(t, R)
               /\ t.diverged
               /\ RowCount(t) = RowCount(s) + 1
               /\ Dead(t) = Dead(s)
<1> DEFINE d      == Diverged(s, rows)
           t      == AppendSuperseding(s, row, sequence, rows)
           buffer == Append(d.buffer, row)
           births == Append(Materialized(d), sequence)
           next   == IF d.next < sequence + 1 THEN sequence + 1 ELSE d.next
<1>1. /\ Shaped(d, R) /\ d.diverged = TRUE /\ d \in SharedFields(d, R)
      /\ d.frozen = s.frozen /\ d.buffer = s.buffer /\ d.tombs = s.tombs
  <2>1. /\ d.diverged = TRUE
        /\ d.frozen = s.frozen /\ d.buffer = s.buffer /\ d.base = s.base
        /\ d.births = s.births /\ d.tombs = s.tombs /\ d.history = s.history
        /\ d.next = Watermark(s, rows)
    BY DivergedFields
  <2>2. Shaped(d, R)
    BY DivergedKeeps, Zenon
  <2> QED BY <2>1, <2>2, Zenon DEF Shaped
<1>2. t = [d EXCEPT !.buffer = buffer, !.births = births, !.next = next]
  BY DEF AppendSuperseding
<1> HIDE DEF d, t
<1>3. buffer \in Seq(R) /\ Len(buffer) = Len(d.buffer) + 1
  <2>1. d.buffer \in Seq(R)
    BY <1>1, FieldTypes
  <2> HIDE DEF d
  <2> QED BY <2>1, AppendType
<1>4. births \in Seq(Nat) /\ births # << >> /\ Len(births) = Len(d.buffer) + 1
  <2>1. Materialized(d) \in Seq(Nat) /\ Len(Materialized(d)) = Len(d.buffer)
    BY <1>1, MaterializedType
  <2>2. \A m \in Seq(Nat) : /\ Append(m, sequence) \in Seq(Nat)
                            /\ Append(m, sequence) # << >>
                            /\ Len(Append(m, sequence)) = Len(m) + 1
    BY AppendProperties
  <2> QED BY <2>1, <2>2, Zenon
<1>5. next \in Nat
  <2>1. d.next \in Nat
    BY <1>1, FieldTypes
  <2> QED BY <2>1
<1> HIDE DEF buffer, births, next
<1>6. /\ t.frozen = d.frozen /\ t.buffer = buffer /\ t.base = d.base
      /\ t.diverged = TRUE /\ t.tombs = d.tombs /\ t.births = births
  BY <1>1, <1>2 DEF SharedFields
<1>7. Dead(t) = Dead(d) /\ Dead(d) = Dead(s) /\ RowCount(d) = RowCount(s)
  BY <1>1, <1>6, Zenon DEF Dead, RowCount
<1>8. t \in SharedFields(t, R)
  <2>1. \A b \in Seq(R), x \in Seq(Nat), y \in Nat :
           [d EXCEPT !.buffer = b, !.births = x, !.next = y] \in SharedFields(d, R)
    BY <1>1 DEF SharedFields
  <2>2. t \in SharedFields(d, R)
    BY <2>1, <1>2, <1>3, <1>4, <1>5, Zenon
  <2> QED BY <2>2, <1>7, Zenon DEF SharedFields
<1>9. RowCount(t) = RowCount(d) + 1
  <2>1. \A m, n \in Nat : m + (n + 1) = (m + n) + 1
    OBVIOUS
  <2>2. Len(d.frozen) \in Nat /\ Len(d.buffer) \in Nat
    BY <1>1, FieldTypes
  <2>3. RowCount(t) = Len(d.frozen) + (Len(d.buffer) + 1)
    BY <1>3, <1>6, Zenon DEF RowCount
  <2> QED BY <2>1, <2>2, <2>3, Zenon DEF RowCount
<1>10. Dead(t) \subseteq Ids(t)
  <2>1. \A n \in Nat : 0 .. n - 1 \subseteq 0 .. (n + 1) - 1
    OBVIOUS
  <2>2. RowCount(d) \in Nat /\ Dead(d) \subseteq 0 .. RowCount(d) - 1
    BY <1>1, FieldTypes, Zenon DEF Shaped, Ids
  <2> QED BY <2>1, <2>2, <1>7, <1>9, Zenon DEF Ids
<1>11. Shaped(t, R)
  BY <1>1, <1>3, <1>4, <1>6, <1>8, <1>10, Zenon DEF Shaped
<1>12. VirtualIsPlain(t)
  BY <1>6 DEF VirtualIsPlain
<1> QED BY <1>6, <1>7, <1>9, <1>11, <1>12, Zenon DEF WellFormed, t

\* Victims die where they lie.
LEMMA EntombKeeps ==
    ASSUME NEW R, NEW s, Shaped(s, R), NEW ids \in SUBSET Ids(s), NEW stamp \in Nat
    PROVE  LET t == Entomb(s, ids, stamp)
           IN  /\ Shaped(t, R)
               /\ t.diverged = s.diverged /\ t.buffer = s.buffer
               /\ RowCount(t) = RowCount(s)
               /\ Dead(t) = Dead(s) \cup ids
<1> DEFINE t     == Entomb(s, ids, stamp)
           tombs == [id \in Dead(s) \cup ids |->
                       IF id \in ids THEN stamp ELSE s.tombs[id]]
<1>1. t = [s EXCEPT !.tombs = tombs]
  BY DEF Entomb
<1>2. tombs \in [Dead(s) \cup ids -> Nat]
  <2>1. s.tombs \in [Dead(s) -> Nat]
    BY FieldTypes
  <2> QED BY <2>1
<1>3. s \in SharedFields(s, R)
  BY DEF Shaped
<1> HIDE DEF t, tombs
<1>4. /\ t.frozen = s.frozen /\ t.buffer = s.buffer /\ t.base = s.base
      /\ t.diverged = s.diverged /\ t.next = s.next /\ t.seqBase = s.seqBase
      /\ t.births = s.births /\ t.tombs = tombs /\ t.history = s.history
  BY <1>1, <1>3 DEF SharedFields
<1>5. Dead(t) = Dead(s) \cup ids
  BY <1>2, <1>4 DEF Dead
<1>6. RowCount(t) = RowCount(s) /\ Ids(t) = Ids(s)
  BY <1>4, Zenon DEF RowCount, Ids
<1>7. t \in SharedFields(t, R)
  <2>1. t.tombs \in [Dead(t) -> Nat]
    BY <1>2, <1>4, <1>5, Zenon
  <2>2. s.frozen \in Seq([row : R, born : Nat]) /\ s.history \in SUBSET [row : R, born : Nat, killed : Nat]
    BY FieldTypes
  <2> QED BY <1>1, <1>3, <2>1, <2>2, <1>4 DEF SharedFields
<1>8. Shaped(t, R)
  BY <1>4, <1>5, <1>6, <1>7, Zenon DEF Shaped
<1> QED BY <1>4, <1>5, <1>6, <1>8, Zenon DEF t

\* The rows a flush freezes, each with the birth it had in the buffer.
LEMMA FrozenBuffer ==
    ASSUME NEW R, NEW s, Shaped(s, R)
    PROVE  LET segment == [i \in 1 .. Len(s.buffer) |->
                             [row |-> s.buffer[i], born |-> BufferBirth(s, i)]]
           IN  /\ segment \in Seq([row : R, born : Nat])
               /\ Len(segment) = Len(s.buffer)
<1> DEFINE segment == [i \in 1 .. Len(s.buffer) |->
                         [row |-> s.buffer[i], born |-> BufferBirth(s, i)]]
<1>1. ASSUME NEW i \in 1 .. Len(s.buffer)
      PROVE  [row |-> s.buffer[i], born |-> BufferBirth(s, i)] \in [row : R, born : Nat]
  <2>1. BufferBirth(s, i) \in Nat
    BY BufferBirthType
  <2>2. s.buffer[i] \in R
    BY FieldTypes, ElementOfSeq, Zenon
  <2> QED BY <2>1, <2>2
<1>2. segment \in [1 .. Len(s.buffer) -> [row : R, born : Nat]]
  BY <1>1
<1>3. Len(s.buffer) \in Nat
  BY FieldTypes
<1> HIDE DEF segment
<1>4. segment \in Seq([row : R, born : Nat]) /\ Len(segment) = Len(s.buffer)
  BY <1>2, <1>3, FunctionIsSeq, Zenon
<1> QED BY <1>4 DEF segment

\* The buffer becomes a segment: no row, id or kill changes.
LEMMA FlushKeeps ==
    ASSUME NEW R, NEW s, WellFormed(s, R), NEW rows, rows = RowCount(s)
    PROVE  LET t == FlushShared(s, rows)
           IN  /\ WellFormed(t, R)
               /\ t.diverged = s.diverged
               /\ RowCount(t) = RowCount(s)
               /\ Dead(t) = Dead(s)
<1> DEFINE t       == FlushShared(s, rows)
           segment == [i \in 1 .. Len(s.buffer) |->
                         [row |-> s.buffer[i], born |-> BufferBirth(s, i)]]
           frozen  == s.frozen \o segment
           start   == IF s.diverged THEN s.next ELSE s.seqBase
<1>1. Shaped(s, R) /\ VirtualIsPlain(s) /\ s \in SharedFields(s, R)
  BY DEF WellFormed, Shaped
<1>2. CASE s.buffer = << >>
  BY <1>2 DEF FlushShared
<1>3. CASE s.buffer # << >>
  <2>1. segment \in Seq([row : R, born : Nat]) /\ Len(segment) = Len(s.buffer)
    BY <1>1, FrozenBuffer, Zenon
  <2>2. /\ \A i \in 1 .. Len(s.buffer) : segment[i].born = BufferBirth(s, i)
        /\ t = [s EXCEPT !.frozen = frozen, !.buffer = << >>, !.base = rows,
                         !.seqBase = start, !.births = << >>]
    BY <1>3 DEF FlushShared
  <2>3. /\ Len(s.frozen) \in Nat /\ Len(s.buffer) \in Nat /\ s.next \in Nat
        /\ s.seqBase \in Nat /\ s.frozen \in Seq([row : R, born : Nat])
        /\ s.base = Len(s.frozen) /\ s.diverged \in BOOLEAN
        /\ rows \in Nat /\ rows = Len(s.frozen) + Len(s.buffer)
    BY <1>1, FieldTypes
  <2> HIDE DEF segment, t
  <2>4. /\ frozen \in Seq([row : R, born : Nat])
        /\ Len(frozen) = Len(s.frozen) + Len(segment)
        /\ \A i \in 1 .. Len(s.frozen) + Len(segment) :
              frozen[i] = IF i <= Len(s.frozen) THEN s.frozen[i]
                          ELSE segment[i - Len(s.frozen)]
    <3>1. \A f, g \in Seq([row : R, born : Nat]) :
             /\ f \o g \in Seq([row : R, born : Nat])
             /\ Len(f \o g) = Len(f) + Len(g)
             /\ \A i \in 1 .. Len(f) + Len(g) :
                   (f \o g)[i] = IF i <= Len(f) THEN f[i] ELSE g[i - Len(f)]
      BY ConcatProperties
    <3> QED BY <2>1, <2>3, <3>1, Zenon
  <2>5. start \in Nat
    BY <2>3
  <2> HIDE DEF frozen, start
  <2>6. /\ t.frozen = frozen /\ t.buffer = << >> /\ t.base = rows
        /\ t.diverged = s.diverged /\ t.seqBase = start /\ t.next = s.next
        /\ t.births = << >> /\ t.tombs = s.tombs /\ t.history = s.history
    BY <2>2, <1>1 DEF SharedFields
  <2>7. Dead(t) = Dead(s)
    BY <2>6, Zenon DEF Dead
  <2>8. RowCount(t) = RowCount(s)
    <3>1. Len(t.buffer) = 0 /\ Len(t.frozen) = rows
      BY <2>1, <2>3, <2>4, <2>6
    <3>2. RowCount(t) = rows + 0
      BY <3>1, Zenon DEF RowCount
    <3> QED BY <3>2, <2>3
  <2>9. t \in SharedFields(t, R)
    <3>1. \A f \in Seq([row : R, born : Nat]), b \in Seq(R), x, y \in Nat, z \in Seq(Nat) :
             [s EXCEPT !.frozen = f, !.buffer = b, !.base = x,
                       !.seqBase = y, !.births = z] \in SharedFields(s, R)
      BY <1>1 DEF SharedFields
    <3>2. << >> \in Seq(R) /\ << >> \in Seq(Nat)
      OBVIOUS
    <3>3. t \in SharedFields(s, R)
      BY <3>1, <3>2, <2>2, <2>3, <2>4, <2>5, Zenon
    <3> QED BY <3>3, <2>7, Zenon DEF SharedFields
  <2>10. t.diverged /\ t.births = << >> => t.seqBase + Len(t.buffer) = t.next
    BY <2>3, <2>6 DEF start
  <2>11. Shaped(t, R)
    <3>1. Ids(t) = Ids(s)
      BY <2>8, Zenon DEF Ids
    <3>2. t.base = Len(t.frozen)
      BY <2>1, <2>3, <2>4, <2>6, Zenon
    <3> QED BY <3>1, <3>2, <1>1, <2>6, <2>7, <2>9, <2>10, Zenon DEF Shaped
  <2>12. ASSUME ~s.diverged, NEW i \in DOMAIN frozen PROVE frozen[i].born = i - 1
    <3>1. i \in 1 .. Len(s.frozen) + Len(segment)
      BY <2>4, <2>12, LenProperties, Zenon
    <3>2. CASE i <= Len(s.frozen)
      <4>1. i \in 1 .. Len(s.frozen)
        BY <2>3, <3>1, <3>2
      <4>2. i \in DOMAIN s.frozen
        BY <2>3, <4>1, LenProperties, Zenon
      <4> QED BY <4>2, <3>1, <3>2, <2>4, <2>12, <1>1, Zenon DEF VirtualIsPlain
    <3>3. CASE ~(i <= Len(s.frozen))
      <4>1. ASSUME NEW m \in Nat, NEW n \in Nat, NEW k \in 1 .. m + n, ~(k <= m)
            PROVE  k - m \in 1 .. n /\ m + (k - m) - 1 = k - 1
        BY <4>1
      <4>2. /\ i - Len(s.frozen) \in 1 .. Len(s.buffer)
            /\ s.base + (i - Len(s.frozen)) - 1 = i - 1
        <5>1. i \in 1 .. Len(s.frozen) + Len(s.buffer)
          BY <2>1, <3>1, Zenon
        <5>2. Len(s.frozen) \in Nat /\ Len(s.buffer) \in Nat /\ s.base = Len(s.frozen)
          BY <2>3
        <5>3. /\ i - Len(s.frozen) \in 1 .. Len(s.buffer)
              /\ Len(s.frozen) + (i - Len(s.frozen)) - 1 = i - 1
          BY <4>1, <5>1, <5>2, <3>3, Zenon
        <5> QED BY <5>2, <5>3, Zenon
      <4>3. frozen[i].born = BufferBirth(s, i - Len(s.frozen))
        BY <4>2, <2>2, <2>4, <3>1, <3>3, Zenon
      <4> QED BY <4>2, <4>3, <2>12, Zenon DEF BufferBirth
    <3> QED BY <3>2, <3>3
  <2>13. VirtualIsPlain(t)
    BY <1>1, <2>6, <2>7, <2>12, Zenon DEF VirtualIsPlain
  <2> QED BY <2>6, <2>7, <2>8, <2>11, <2>13, Zenon DEF WellFormed, t
<1> QED BY <1>2, <1>3

\* A merge order is a sequence of the ids it orders.
LEMMA MergeOrderType ==
    ASSUME NEW R, NEW s, Shaped(s, R), NEW order \in MergeOrders(s, Live(s))
    PROVE  order \in Seq(Live(s)) /\ Len(order) \in Nat
<1>1. RowCount(s) \in Nat
  BY FieldTypes
<1>2. Live(s) \in SUBSET (0 .. RowCount(s) - 1)
  BY DEF Live, Ids
<1>3. IsFiniteSet(0 .. RowCount(s) - 1)
  BY <1>1, FS_Interval
<1>4. Cardinality(Live(s)) \in Nat
  BY <1>2, <1>3, FS_Subset, FS_CardinalityType, Zenon
<1>5. order \in [1 .. Cardinality(Live(s)) -> Live(s)]
  BY DEF MergeOrders
<1> QED BY <1>4, <1>5, FunctionIsSeq, Zenon

\* The versions a compaction retains have rows of R and two coordinates.
LEMMA RetainedType ==
    ASSUME NEW R, NEW s, Shaped(s, R)
    PROVE  Retained(s) \in SUBSET [row : R, born : Nat, killed : Nat]
<1>1. ASSUME NEW v \in KilledVersions(s)
      PROVE  v \in [row : R, born : Nat, killed : Nat]
  <2>1. PICK id \in Dead(s) :
           v = [row |-> RowAt(s, id), born |-> Born(s, id), killed |-> s.tombs[id]]
    BY <1>1 DEF KilledVersions
  <2>2. RowAt(s, id) \in R /\ Born(s, id) \in Nat
    BY <2>1, ViewType DEF Shaped
  <2>3. s.tombs[id] \in Nat
    BY <2>1, FieldTypes
  <2> QED BY <2>1, <2>2, <2>3
<1>2. s.history \in SUBSET [row : R, born : Nat, killed : Nat]
  BY FieldTypes
<1> QED BY <1>1, <1>2 DEF Retained, DeadVersions

\* Compaction: the live rows under new ids, nothing dead among them.
LEMMA CompactedKeeps ==
    ASSUME NEW R, NEW s, WellFormed(s, R), NEW rows, rows = RowCount(s),
           NEW order \in MergeOrders(s, Live(s))
    PROVE  LET t == Compacted(s, rows, order)
           IN  /\ WellFormed(t, R)
               /\ RowCount(t) = Len(order)
<1> DEFINE t         == Compacted(s, rows, order)
           diverging == Diverging(s, order)
           mark      == IF diverging THEN Watermark(s, rows) ELSE 0
           frozen    == [i \in 1 .. Len(order) |->
                           [row  |-> RowAt(s, order[i]),
                            born |-> IF diverging THEN Born(s, order[i]) ELSE i - 1]]
<1>1. Shaped(s, R) /\ VirtualIsPlain(s)
  BY DEF WellFormed
<1>2. order \in Seq(Live(s)) /\ Len(order) \in Nat
  BY <1>1, MergeOrderType
<1>3. frozen \in Seq([row : R, born : Nat]) /\ Len(frozen) = Len(order)
  <2>1. ASSUME NEW i \in 1 .. Len(order)
        PROVE  frozen[i] \in [row : R, born : Nat]
    <3>1. order[i] \in Ids(s)
      BY <1>2, ElementOfSeq DEF Live
    <3>2. RowAt(s, order[i]) \in R /\ Born(s, order[i]) \in Nat
      BY <3>1, <1>1, ViewType
    <3>3. i - 1 \in Nat
      BY <1>2
    <3> QED BY <3>2, <3>3
  <2>2. frozen \in [1 .. Len(order) -> [row : R, born : Nat]]
    BY <2>1
  <2> HIDE DEF frozen
  <2> QED BY <1>2, <2>2, FunctionIsSeq, Zenon
<1>4. mark \in Nat /\ diverging \in BOOLEAN
  BY <1>1, ViewType, Zenon DEF Diverging
<1>5. Retained(s) \in SUBSET [row : R, born : Nat, killed : Nat]
  BY <1>1, RetainedType
<1>6. ~diverging => /\ Retained(s) = {}
                    /\ \A i \in 1 .. Len(order) : frozen[i].born = i - 1
  <2>1. ~diverging => s.history = {} /\ Dead(s) = {}
    BY <1>1, Zenon DEF Diverging, VirtualIsPlain
  <2> QED BY <2>1 DEF Retained, DeadVersions, KilledVersions
<1>7. t = [frozen |-> frozen, buffer |-> << >>, base |-> Len(order),
           diverged |-> diverging, next |-> mark, seqBase |-> mark,
           births |-> << >>, tombs |-> [id \in {} |-> 0],
           history |-> Retained(s)]
  BY DEF Compacted
<1> HIDE DEF t, diverging, mark, frozen
<1>8. /\ t.frozen = frozen /\ t.buffer = << >> /\ t.base = Len(order)
      /\ t.diverged = diverging /\ t.next = mark /\ t.seqBase = mark
      /\ t.births = << >> /\ t.tombs = [id \in {} |-> 0]
      /\ t.history = Retained(s)
  BY <1>7
<1>9. Dead(t) = {}
  BY <1>8 DEF Dead
<1>10. RowCount(t) = Len(order)
  <2>1. Len(t.frozen) = Len(order) /\ Len(t.buffer) = 0
    BY <1>3, <1>8
  <2> QED BY <2>1, <1>2 DEF RowCount
<1>11. t \in SharedFields(t, R)
  <2>1. [id \in {} |-> 0] \in [Dead(t) -> Nat]
    BY <1>9
  <2>2. << >> \in Seq(R) /\ << >> \in Seq(Nat)
    OBVIOUS
  <2> QED BY <2>1, <2>2, <1>2, <1>3, <1>4, <1>5, <1>7 DEF SharedFields
<1>12. Shaped(t, R)
  <2>1. t.seqBase + Len(t.buffer) = t.next
    BY <1>4, <1>8
  <2> QED BY <2>1, <1>3, <1>8, <1>9, <1>11, Zenon DEF Shaped
<1>13. VirtualIsPlain(t)
  <2>1. DOMAIN frozen = 1 .. Len(order)
    BY <1>3, LenProperties, Zenon
  <2> QED BY <2>1, <1>6, <1>8, <1>9, Zenon DEF VirtualIsPlain
<1> QED BY <1>10, <1>12, <1>13, Zenon DEF WellFormed, t
----------------------------------------------------------------------------
\* The view of a state.

\* Every row id of s is in t the same row with the same birth.
SameView(s, t) ==
    \A id \in Ids(s) : RowAt(t, id) = RowAt(s, id) /\ Born(t, id) = Born(s, id)

\* An id of s is an id of the buffer, or below the frozen count.
LEMMA BufferIndex ==
    ASSUME NEW R, NEW s, Shaped(s, R), NEW id \in Ids(s), ~(id < Len(s.frozen))
    PROVE  id - Len(s.frozen) + 1 \in 1 .. Len(s.buffer)
<1>1. id \in 0 .. (Len(s.frozen) + Len(s.buffer)) - 1
  BY Zenon DEF Ids, RowCount
<1>2. Len(s.frozen) \in Nat /\ Len(s.buffer) \in Nat
  BY FieldTypes
<1> QED BY <1>1, <1>2, SplitId, Zenon

\* A view is decided by the segments, the buffer and the buffer's births.
LEMMA ViewFromBuffer ==
    ASSUME NEW R, NEW s, Shaped(s, R), NEW t, t.frozen = s.frozen,
           \A i \in 1 .. Len(s.buffer) :
              t.buffer[i] = s.buffer[i] /\ BufferBirth(t, i) = BufferBirth(s, i)
    PROVE  SameView(s, t)
<1> SUFFICES ASSUME NEW id \in Ids(s)
             PROVE  RowAt(t, id) = RowAt(s, id) /\ Born(t, id) = Born(s, id)
  BY DEF SameView
<1>1. CASE id < Len(s.frozen)
  BY <1>1 DEF RowAt, Born
<1>2. CASE ~(id < Len(s.frozen))
  <2>1. id - Len(s.frozen) + 1 \in 1 .. Len(s.buffer)
    BY <1>2, BufferIndex, Zenon
  <2> QED BY <1>2, <2>1, Zenon DEF RowAt, Born
<1> QED BY <1>1, <1>2

\* The id after the last one is the row after the buffer's last.
LEMMA NextId ==
    ASSUME NEW R, NEW s, Shaped(s, R), NEW t, t.frozen = s.frozen
    PROVE  /\ RowAt(t, RowCount(s)) = t.buffer[Len(s.buffer) + 1]
           /\ Born(t, RowCount(s)) = BufferBirth(t, Len(s.buffer) + 1)
<1>1. \A m, n \in Nat : ~(m + n < m) /\ (m + n) - m + 1 = n + 1
  OBVIOUS
<1>2. /\ ~(RowCount(s) < Len(s.frozen))
      /\ RowCount(s) - Len(s.frozen) + 1 = Len(s.buffer) + 1
  <2>1. Len(s.frozen) \in Nat /\ Len(s.buffer) \in Nat
    BY FieldTypes
  <2> QED BY <1>1, <2>1, Zenon DEF RowCount
<1> QED BY <1>2, Zenon DEF RowAt, Born

----------------------------------------------------------------------------

\* The first mutation: no row's birth changes.
LEMMA DivergedView ==
    ASSUME NEW R, NEW s, Shaped(s, R), NEW rows, rows = RowCount(s)
    PROVE  \A i \in 1 .. Len(s.buffer) :
              BufferBirth(Diverged(s, rows), i) = BufferBirth(s, i)
<1> SUFFICES ASSUME NEW i \in 1 .. Len(s.buffer)
             PROVE  BufferBirth(Diverged(s, rows), i) = BufferBirth(s, i)
  OBVIOUS
<1>1. CASE s.diverged
  BY <1>1 DEF Diverged
<1>2. CASE ~s.diverged
  <2> DEFINE d == Diverged(s, rows)
  <2>1. s \in SharedFields(s, R) /\ s.base = Len(s.frozen) /\ s.births = << >>
    BY <1>2 DEF Shaped
  <2>2. d.diverged = TRUE /\ d.births = << >> /\ d.seqBase = rows - Len(s.buffer)
    BY <1>2, <2>1 DEF Diverged, SharedFields
  <2>3. rows - Len(s.buffer) = s.base
    <3>1. \A m, n \in Nat : (m + n) - n = m
      OBVIOUS
    <3> QED BY <3>1, <2>1, FieldTypes, Zenon
  <2>4. BufferBirth(s, i) = s.base + i - 1
    BY <1>2 DEF BufferBirth
  <2>5. BufferBirth(d, i) = d.seqBase + i - 1
    BY <2>2, Zenon DEF BufferBirth
  <2> QED BY <2>2, <2>3, <2>4, <2>5, Zenon
<1> QED BY <1>1, <1>2

\* Explicit births are the births the buffer had.
LEMMA MaterializedView ==
    ASSUME NEW R, NEW s, Shaped(s, R), s.diverged, NEW i \in 1 .. Len(s.buffer)
    PROVE  Materialized(s)[i] = BufferBirth(s, i)
<1>1. CASE s.births # << >>
  BY <1>1 DEF Materialized, BufferBirth
<1>2. CASE s.births = << >>
  BY <1>2 DEF Materialized, BufferBirth
<1> QED BY <1>1, <1>2

\* Ordinary append: the row is born at the watermark.
LEMMA AppendRowView ==
    ASSUME NEW R, NEW s, WellFormed(s, R), NEW row \in R
    PROVE  LET t == AppendRow(s, row)
               n == RowCount(s)
           IN  /\ SameView(s, t)
               /\ RowAt(t, n) = row /\ Born(t, n) = Watermark(s, n)
               /\ Watermark(t, n + 1) = Watermark(s, n) + 1
               /\ t.tombs = s.tombs /\ t.history = s.history
<1> DEFINE t      == AppendRow(s, row)
           buffer == Append(s.buffer, row)
           births == Append(s.births, s.next)
           n      == RowCount(s)
           k      == Len(s.buffer)
<1>1. Shaped(s, R) /\ s \in SharedFields(s, R)
  BY DEF WellFormed, Shaped
<1>2. /\ t.frozen = s.frozen /\ t.buffer = buffer /\ t.base = s.base
      /\ t.diverged = s.diverged /\ t.seqBase = s.seqBase
      /\ t.next = IF s.diverged THEN s.next + 1 ELSE s.next
      /\ t.births = IF s.diverged /\ s.births # << >> THEN births ELSE s.births
      /\ t.tombs = s.tombs /\ t.history = s.history
  BY <1>1 DEF AppendRow, SharedFields
<1>3. /\ s.buffer \in Seq(R) /\ s.births \in Seq(Nat) /\ k \in Nat /\ n \in Nat
      /\ s.next \in Nat /\ s.seqBase \in Nat /\ s.base \in Nat
      /\ n = s.base + k
  BY <1>1, FieldTypes
<1>4. /\ buffer[k + 1] = row
      /\ \A i \in 1 .. k : buffer[i] = s.buffer[i]
  BY <1>3, AppendProperties
<1>5. s.births # << >> =>
         /\ Len(s.births) = k /\ births # << >> /\ births[k + 1] = s.next
         /\ \A i \in 1 .. k : births[i] = s.births[i]
  <2>1. s.births # << >> => Len(s.births) = k
    BY <1>1 DEF Shaped
  <2> QED BY <2>1, <1>3, AppendProperties
<1> HIDE DEF t, buffer, births
<1>6. \A i \in 1 .. k : BufferBirth(t, i) = BufferBirth(s, i)
  BY <1>2, <1>5 DEF BufferBirth
<1>7. SameView(s, t)
  BY <1>1, <1>2, <1>4, <1>6, ViewFromBuffer, Zenon
<1>8. BufferBirth(t, k + 1) = Watermark(s, n)
  <2>1. CASE ~s.diverged
    <3>1. s.base + (k + 1) - 1 = n
      BY <1>3
    <3> QED BY <2>1, <3>1, <1>2 DEF BufferBirth, Watermark
  <2>2. CASE s.diverged /\ s.births # << >>
    BY <2>2, <1>2, <1>5 DEF BufferBirth, Watermark
  <2>3. CASE s.diverged /\ s.births = << >>
    <3>1. s.seqBase + k = s.next
      BY <2>3, <1>1 DEF Shaped
    <3>2. s.seqBase + (k + 1) - 1 = s.next
      BY <3>1, <1>3
    <3> QED BY <2>3, <3>2, <1>2 DEF BufferBirth, Watermark
  <2> QED BY <2>1, <2>2, <2>3
<1>9. RowAt(t, n) = row /\ Born(t, n) = Watermark(s, n)
  BY <1>1, <1>2, <1>4, <1>8, NextId, Zenon
<1>10. Watermark(t, n + 1) = Watermark(s, n) + 1
  BY <1>2 DEF Watermark
<1> QED BY <1>2, <1>7, <1>9, <1>10 DEF t

\* A kill's coordinate: nothing that is known moves.
LEMMA ConsumeView ==
    ASSUME NEW R, NEW s, Shaped(s, R), NEW rows, rows = RowCount(s)
    PROVE  LET t == ConsumeSequence(s, rows)
           IN  /\ SameView(s, t)
               /\ Watermark(t, rows) = Watermark(s, rows) + 1
               /\ t.tombs = s.tombs /\ t.history = s.history
<1> DEFINE d      == Diverged(s, rows)
           t      == ConsumeSequence(s, rows)
           births == IF d.buffer = << >> THEN << >> ELSE Materialized(d)
<1>1. /\ Shaped(d, R) /\ d.diverged = TRUE /\ d.next = Watermark(s, rows)
      /\ d.frozen = s.frozen /\ d.buffer = s.buffer
      /\ d.tombs = s.tombs /\ d.history = s.history
      /\ d \in SharedFields(d, R)
  <2>1. /\ d.diverged = TRUE
        /\ d.frozen = s.frozen /\ d.buffer = s.buffer /\ d.base = s.base
        /\ d.births = s.births /\ d.tombs = s.tombs /\ d.history = s.history
        /\ d.next = Watermark(s, rows)
    BY DivergedFields
  <2>2. Shaped(d, R)
    BY DivergedKeeps, Zenon
  <2> QED BY <2>1, <2>2, Zenon DEF Shaped
<1>2. \A i \in 1 .. Len(s.buffer) : BufferBirth(d, i) = BufferBirth(s, i)
  BY DivergedView, Zenon
<1> HIDE DEF d
<1>3. /\ t.frozen = d.frozen /\ t.buffer = d.buffer /\ t.diverged = TRUE
      /\ t.next = d.next + 1 /\ t.births = births
      /\ t.tombs = d.tombs /\ t.history = d.history
  <2>1. CASE d.buffer = << >>
    BY <1>1, <2>1 DEF ConsumeSequence, SharedFields, d
  <2>2. CASE d.buffer # << >>
    BY <1>1, <2>2 DEF ConsumeSequence, SharedFields, d
  <2> QED BY <2>1, <2>2
<1>4. ASSUME NEW i \in 1 .. Len(d.buffer)
      PROVE  births # << >> /\ births[i] = BufferBirth(d, i)
  <2>1. d.buffer \in Seq(R)
    BY <1>1, FieldTypes
  <2>2. d.buffer # << >>
    BY <2>1
  <2>3. Materialized(d) \in Seq(Nat) /\ Len(Materialized(d)) = Len(d.buffer)
    BY <1>1, MaterializedType
  <2>4. Materialized(d) # << >>
    BY <2>1, <2>3
  <2> QED BY <1>1, <2>2, <2>4, MaterializedView
<1> HIDE DEF births, t
<1>5. \A i \in 1 .. Len(d.buffer) : BufferBirth(t, i) = BufferBirth(d, i)
  BY <1>3, <1>4, Zenon DEF BufferBirth
<1>6. SameView(s, t)
  <2>1. \A i \in 1 .. Len(s.buffer) :
           t.buffer[i] = s.buffer[i] /\ BufferBirth(t, i) = BufferBirth(s, i)
    BY <1>1, <1>2, <1>3, <1>5, Zenon
  <2> QED BY <1>1, <1>3, <2>1, ViewFromBuffer, Zenon
<1>7. Watermark(t, rows) = Watermark(s, rows) + 1
  BY <1>1, <1>3 DEF Watermark
<1> QED BY <1>1, <1>3, <1>6, <1>7, Zenon DEF t

\* A replacement is born at the mutation's coordinate, which it spends.
LEMMA AppendSupersedingView ==
    ASSUME NEW R, NEW s, Shaped(s, R), NEW rows, rows = RowCount(s),
           NEW row \in R, NEW sequence \in Nat
    PROVE  LET t == AppendSuperseding(s, row, sequence, rows)
               w == Watermark(s, rows)
           IN  /\ SameView(s, t)
               /\ RowAt(t, rows) = row /\ Born(t, rows) = sequence
               /\ Watermark(t, rows + 1)
                    = IF w < sequence + 1 THEN sequence + 1 ELSE w
               /\ t.tombs = s.tombs /\ t.history = s.history
<1> DEFINE d      == Diverged(s, rows)
           t      == AppendSuperseding(s, row, sequence, rows)
           k      == Len(s.buffer)
           buffer == Append(d.buffer, row)
           births == Append(Materialized(d), sequence)
<1>1. /\ Shaped(d, R) /\ d.diverged = TRUE /\ d.next = Watermark(s, rows)
      /\ d.frozen = s.frozen /\ d.buffer = s.buffer
      /\ d.tombs = s.tombs /\ d.history = s.history
      /\ d \in SharedFields(d, R)
  <2>1. /\ d.diverged = TRUE
        /\ d.frozen = s.frozen /\ d.buffer = s.buffer /\ d.base = s.base
        /\ d.births = s.births /\ d.tombs = s.tombs /\ d.history = s.history
        /\ d.next = Watermark(s, rows)
    BY DivergedFields
  <2>2. Shaped(d, R)
    BY DivergedKeeps, Zenon
  <2> QED BY <2>1, <2>2, Zenon DEF Shaped
<1>2. \A i \in 1 .. k : BufferBirth(d, i) = BufferBirth(s, i)
  BY DivergedView, Zenon
<1> HIDE DEF d
<1>3. /\ t.frozen = d.frozen /\ t.buffer = buffer /\ t.diverged = TRUE
      /\ t.next = IF d.next < sequence + 1 THEN sequence + 1 ELSE d.next
      /\ t.births = births /\ t.tombs = d.tombs /\ t.history = d.history
  BY <1>1 DEF AppendSuperseding, SharedFields, d
<1>4. /\ buffer[k + 1] = row
      /\ \A i \in 1 .. k : buffer[i] = s.buffer[i]
  <2>1. d.buffer \in Seq(R) /\ Len(d.buffer) = k
    BY <1>1, FieldTypes
  <2> QED BY <2>1, <1>1, AppendProperties
<1>5. /\ births # << >> /\ births[k + 1] = sequence
      /\ \A i \in 1 .. k : births[i] = BufferBirth(s, i)
  <2>1. Materialized(d) \in Seq(Nat) /\ Len(Materialized(d)) = k
    BY <1>1, MaterializedType
  <2>2. \A i \in 1 .. k : Materialized(d)[i] = BufferBirth(d, i)
    BY <1>1, MaterializedView
  <2>3. \A m \in Seq(Nat) : /\ Append(m, sequence) # << >>
                            /\ Append(m, sequence)[Len(m) + 1] = sequence
                            /\ \A i \in 1 .. Len(m) : Append(m, sequence)[i] = m[i]
    BY AppendProperties
  <2> QED BY <1>2, <2>1, <2>2, <2>3, Zenon
<1> HIDE DEF t, buffer, births
<1>6. /\ \A i \in 1 .. k : BufferBirth(t, i) = BufferBirth(s, i)
      /\ BufferBirth(t, k + 1) = sequence
  BY <1>3, <1>5, Zenon DEF BufferBirth
<1>7. SameView(s, t)
  <2>1. \A i \in 1 .. Len(s.buffer) :
           t.buffer[i] = s.buffer[i] /\ BufferBirth(t, i) = BufferBirth(s, i)
    BY <1>3, <1>4, <1>6, Zenon
  <2> QED BY <1>1, <1>3, <2>1, ViewFromBuffer, Zenon
<1>8. RowAt(t, rows) = row /\ Born(t, rows) = sequence
  BY <1>1, <1>3, <1>4, <1>6, NextId, Zenon
<1>9. Watermark(t, rows + 1)
        = IF Watermark(s, rows) < sequence + 1 THEN sequence + 1 ELSE Watermark(s, rows)
  BY <1>1, <1>3, Zenon DEF Watermark
<1> QED BY <1>1, <1>3, <1>7, <1>8, <1>9, Zenon DEF t

\* A kill changes no row and no birth.
LEMMA EntombView ==
    ASSUME NEW R, NEW s, Shaped(s, R), NEW ids \in SUBSET Ids(s), NEW stamp \in Nat,
           NEW rows
    PROVE  LET t == Entomb(s, ids, stamp)
           IN  /\ SameView(s, t)
               /\ Watermark(t, rows) = Watermark(s, rows)
               /\ t.tombs = [id \in Dead(s) \cup ids |->
                               IF id \in ids THEN stamp ELSE s.tombs[id]]
               /\ t.history = s.history
<1> DEFINE t == Entomb(s, ids, stamp)
<1>1. s \in SharedFields(s, R)
  BY DEF Shaped
<1>2. /\ t.frozen = s.frozen /\ t.buffer = s.buffer /\ t.base = s.base
      /\ t.diverged = s.diverged /\ t.next = s.next /\ t.seqBase = s.seqBase
      /\ t.births = s.births /\ t.history = s.history
      /\ t.tombs = [id \in Dead(s) \cup ids |->
                      IF id \in ids THEN stamp ELSE s.tombs[id]]
  BY <1>1 DEF Entomb, SharedFields
<1> HIDE DEF t
<1>3. \A i \in 1 .. Len(s.buffer) : BufferBirth(t, i) = BufferBirth(s, i)
  BY <1>2, Zenon DEF BufferBirth
<1>4. SameView(s, t)
  BY <1>2, <1>3, ViewFromBuffer, Zenon
<1>5. Watermark(t, rows) = Watermark(s, rows)
  BY <1>2, Zenon DEF Watermark
<1> QED BY <1>2, <1>4, <1>5, Zenon DEF t

\* A flush moves the buffer's rows and births into a segment as they are.
LEMMA FlushView ==
    ASSUME NEW R, NEW s, WellFormed(s, R), NEW rows, rows = RowCount(s)
    PROVE  LET t == FlushShared(s, rows)
           IN  /\ SameView(s, t)
               /\ Watermark(t, rows) = Watermark(s, rows)
               /\ t.tombs = s.tombs /\ t.history = s.history
<1> DEFINE t       == FlushShared(s, rows)
           m       == Len(s.frozen)
           k       == Len(s.buffer)
           segment == [i \in 1 .. Len(s.buffer) |->
                         [row |-> s.buffer[i], born |-> BufferBirth(s, i)]]
           frozen  == s.frozen \o segment
<1>1. Shaped(s, R) /\ s \in SharedFields(s, R)
  BY DEF WellFormed, Shaped
<1>2. CASE s.buffer = << >>
  BY <1>2 DEF FlushShared, SameView
<1>3. CASE s.buffer # << >>
  <2>1. segment \in Seq([row : R, born : Nat]) /\ Len(segment) = k
    BY <1>1, FrozenBuffer, Zenon
  <2>2. /\ t.frozen = frozen /\ t.diverged = s.diverged /\ t.next = s.next
        /\ t.tombs = s.tombs /\ t.history = s.history
    BY <1>1, <1>3 DEF FlushShared, SharedFields
  <2>3. /\ m \in Nat /\ k \in Nat /\ s.frozen \in Seq([row : R, born : Nat])
        /\ RowCount(s) = m + k
    BY <1>1, FieldTypes
  <2>4. \A i \in 1 .. k : segment[i] = [row |-> s.buffer[i], born |-> BufferBirth(s, i)]
    OBVIOUS
  <2> HIDE DEF segment, t
  <2>5. /\ Len(frozen) = m + k
        /\ \A i \in 1 .. m + k :
              frozen[i] = IF i <= m THEN s.frozen[i] ELSE segment[i - m]
    <3>1. \A f, g \in Seq([row : R, born : Nat]) :
             /\ Len(f \o g) = Len(f) + Len(g)
             /\ \A i \in 1 .. Len(f) + Len(g) :
                   (f \o g)[i] = IF i <= Len(f) THEN f[i] ELSE g[i - Len(f)]
      BY ConcatProperties
    <3> QED BY <2>1, <2>3, <3>1, Zenon
  <2> HIDE DEF frozen
  <2>6. ASSUME NEW id \in Ids(s)
        PROVE  RowAt(t, id) = RowAt(s, id) /\ Born(t, id) = Born(s, id)
    <3>1. id \in 0 .. (m + k) - 1
      BY <2>3, Zenon DEF Ids
    <3> HIDE DEF m, k
    <3>2. /\ id < m + k /\ id + 1 \in 1 .. m + k
          /\ (id + 1) - m = id - m + 1
          /\ id < m <=> id + 1 <= m
      BY <2>3, <3>1
    <3>3. RowAt(t, id) = frozen[id + 1].row /\ Born(t, id) = frozen[id + 1].born
      BY <2>2, <2>5, <3>2 DEF RowAt, Born
    <3>4. CASE id < m
      <4>1. frozen[id + 1] = s.frozen[id + 1]
        BY <2>5, <3>2, <3>4, Zenon
      <4> QED BY <3>3, <3>4, <4>1, Zenon DEF RowAt, Born, m
    <3>5. CASE ~(id < m)
      <4>1. id - m + 1 \in 1 .. k
        BY <1>1, <3>5, BufferIndex, Zenon DEF m, k
      <4> DEFINE j == id - m + 1
      <4>2. frozen[id + 1] = segment[j]
        <5>1. frozen[id + 1] = segment[(id + 1) - m]
          BY <2>5, <3>2, <3>5, Zenon
        <5> QED BY <3>2, <5>1, Zenon
      <4>3. segment[j] = [row |-> s.buffer[j], born |-> BufferBirth(s, j)]
        BY <2>4, <4>1, Zenon
      <4>4. /\ frozen[id + 1].row = s.buffer[j]
            /\ frozen[id + 1].born = BufferBirth(s, j)
        <5> HIDE DEF j
        <5> QED BY <4>2, <4>3
      <4> QED BY <3>3, <3>5, <4>4, Zenon DEF RowAt, Born, m
    <3> QED BY <3>4, <3>5
  <2>7. Watermark(t, rows) = Watermark(s, rows)
    BY <2>2, Zenon DEF Watermark
  <2> QED BY <2>2, <2>6, <2>7, Zenon DEF SameView, t
<1> QED BY <1>2, <1>3

\* While a table is virtual a row's birth is its id.
LEMMA VirtualBirths ==
    ASSUME NEW R, NEW s, WellFormed(s, R), ~s.diverged, NEW id \in Ids(s)
    PROVE  Born(s, id) = id
<1>1. /\ Shaped(s, R) /\ s.base = Len(s.frozen)
      /\ \A i \in DOMAIN s.frozen : s.frozen[i].born = i - 1
  BY DEF WellFormed, Shaped, VirtualIsPlain
<1>2. /\ Len(s.frozen) \in Nat /\ Len(s.buffer) \in Nat
      /\ DOMAIN s.frozen = 1 .. Len(s.frozen)
      /\ id \in 0 .. (Len(s.frozen) + Len(s.buffer)) - 1
  <2>1. s.frozen \in Seq([row : R, born : Nat]) /\ Len(s.buffer) \in Nat
    BY <1>1, FieldTypes
  <2> QED BY <2>1, LenProperties DEF Ids, RowCount
<1>3. CASE id < Len(s.frozen)
  <2>1. id + 1 \in DOMAIN s.frozen /\ (id + 1) - 1 = id
    BY <1>2, <1>3
  <2> QED BY <1>1, <1>3, <2>1, Zenon DEF Born
<1>4. CASE ~(id < Len(s.frozen))
  <2>1. Born(s, id) = s.base + (id - Len(s.frozen) + 1) - 1
    BY <1>4, Zenon DEF Born, BufferBirth
  <2>2. \A m \in Nat, i \in Int : m + (i - m + 1) - 1 = i
    OBVIOUS
  <2>3. id \in Int /\ Len(s.frozen) \in Nat
    BY <1>2
  <2>4. Len(s.frozen) + (id - Len(s.frozen) + 1) - 1 = id
    BY <2>2, <2>3, Zenon
  <2>5. s.base = Len(s.frozen)
    BY <1>1
  <2> QED BY <2>1, <2>4, <2>5, Zenon
<1> QED BY <1>3, <1>4

\* A merge order is onto the ids it merges, and sorted.
LEMMA MergeOrderIndex ==
    ASSUME NEW R, NEW s, Shaped(s, R), NEW order \in MergeOrders(s, Live(s))
    PROVE  /\ \A i \in 1 .. Len(order) : order[i] \in Live(s) /\ order[i] \in Ids(s)
           /\ \A i, j \in 1 .. Len(order) : i < j => Precedes(s, order[i], order[j])
           /\ \A id \in Live(s) : \E i \in 1 .. Len(order) : order[i] = id
<1>1. order \in Seq(Live(s)) /\ Len(order) \in Nat
  BY MergeOrderType
<1>2. DOMAIN order = 1 .. Len(order)
  BY <1>1, LenProperties
<1>3. order \in [1 .. Cardinality(Live(s)) -> Live(s)]
  BY DEF MergeOrders
<1>4. 1 .. Cardinality(Live(s)) = 1 .. Len(order)
  BY <1>2, <1>3
<1>5. \A i \in 1 .. Len(order) : order[i] \in Live(s)
  BY <1>3, <1>4
<1>6. \A id \in Live(s) : id \in Ids(s)
  BY DEF Live
<1> QED BY <1>4, <1>5, <1>6 DEF MergeOrders

\* A compaction hands out row ids afresh: id i holds what the i-th of the
\* merge order held, birth included, and the watermark stays.
LEMMA CompactedView ==
    ASSUME NEW R, NEW s, WellFormed(s, R), NEW rows, rows = RowCount(s),
           NEW order \in MergeOrders(s, Live(s))
    PROVE  LET t == Compacted(s, rows, order)
           IN  /\ \A id \in Ids(t) :
                     /\ id + 1 \in 1 .. Len(order)
                     /\ RowAt(t, id) = RowAt(s, order[id + 1])
                     /\ Born(t, id) = Born(s, order[id + 1])
               /\ Watermark(t, Len(order)) = Watermark(s, rows)
               /\ Dead(t) = {} /\ t.history = Retained(s)
<1> DEFINE t         == Compacted(s, rows, order)
           n         == Len(order)
           diverging == Diverging(s, order)
           mark      == IF diverging THEN Watermark(s, rows) ELSE 0
           frozen    == [i \in 1 .. Len(order) |->
                           [row  |-> RowAt(s, order[i]),
                            born |-> IF diverging THEN Born(s, order[i]) ELSE i - 1]]
<1>1. Shaped(s, R) /\ VirtualIsPlain(s)
  BY DEF WellFormed
<1>2. n \in Nat /\ \A i \in 1 .. n : order[i] \in Ids(s)
  BY <1>1, MergeOrderType, MergeOrderIndex
<1>3. /\ t.frozen = frozen /\ t.diverged = diverging /\ t.next = mark
      /\ Dead(t) = {} /\ t.history = Retained(s)
  BY DEF Compacted, Dead
<1>4. RowCount(t) = n
  BY CompactedKeeps
<1>5. ~diverging => /\ ~s.diverged /\ Dead(s) = {}
                    /\ \A i \in 1 .. n : order[i] = i - 1
  BY Zenon DEF Diverging
<1>6. \A i \in 1 .. n : frozen[i].row = RowAt(s, order[i])
                     /\ frozen[i].born = Born(s, order[i])
  <2> SUFFICES ASSUME NEW i \in 1 .. n
               PROVE  /\ frozen[i].row = RowAt(s, order[i])
                      /\ frozen[i].born = Born(s, order[i])
    OBVIOUS
  <2>1. /\ frozen[i].row = RowAt(s, order[i])
        /\ frozen[i].born = IF diverging THEN Born(s, order[i]) ELSE i - 1
    OBVIOUS
  <2>2. ~diverging => Born(s, order[i]) = i - 1
    BY <1>2, <1>5, VirtualBirths, Zenon
  <2> QED BY <2>1, <2>2, Zenon
<1>7. Len(t.frozen) = n
  <2>1. RowCount(t) = Len(t.frozen) + Len(t.buffer) /\ t.buffer = << >>
        /\ t.base = n
    BY DEF RowCount, Compacted
  <2>2. WellFormed(t, R)
    BY CompactedKeeps
  <2>3. t.base = Len(t.frozen)
    BY <2>2, Zenon DEF WellFormed, Shaped
  <2> QED BY <2>1, <2>3
<1> HIDE DEF t, frozen, diverging, mark
<1>8. ASSUME NEW id \in Ids(t)
      PROVE  /\ id + 1 \in 1 .. Len(order)
             /\ RowAt(t, id) = RowAt(s, order[id + 1])
             /\ Born(t, id) = Born(s, order[id + 1])
  <2>1. id \in 0 .. n - 1
    BY <1>4, Zenon DEF Ids
  <2>2. id < Len(t.frozen) /\ id + 1 \in 1 .. n
    BY <1>2, <1>7, <2>1
  <2>3. RowAt(t, id) = frozen[id + 1].row /\ Born(t, id) = frozen[id + 1].born
    BY <1>3, <2>2, Zenon DEF RowAt, Born
  <2> QED BY <1>6, <2>2, <2>3, Zenon
<1>9. ~diverging => n = rows
  <2> SUFFICES ASSUME ~diverging PROVE n = rows
    OBVIOUS
  <2>1. rows \in Nat
    BY <1>1, FieldTypes
  <2>2. Live(s) = 0 .. rows - 1
    BY <1>5 DEF Live, Ids
  <2>3. \A i \in 1 .. n : i - 1 \in 0 .. rows - 1
    BY <1>1, <1>5, <2>2, MergeOrderIndex
  <2>4. \A id \in 0 .. rows - 1 : \E i \in 1 .. n : i - 1 = id
    <3>1. \A id \in Live(s) : \E i \in 1 .. n : order[i] = id
      <4>1. \A id \in Live(s) : \E i \in 1 .. Len(order) : order[i] = id
        BY <1>1, MergeOrderIndex
      <4> QED BY <4>1
    <3> QED BY <1>5, <2>2, <3>1, Zenon
  <2>5. n <= rows
    <3>1. CASE n = 0
      BY <2>1, <3>1
    <3>2. CASE n > 0
      <4>1. n \in 1 .. n
        BY <1>2, <3>2
      <4>2. n - 1 \in 0 .. rows - 1
        BY <2>3, <4>1, Zenon
      <4> QED BY <1>2, <2>1, <4>2
    <3> QED BY <1>2, <3>1, <3>2
  <2>6. rows <= n
    <3>1. CASE rows = 0
      BY <1>2, <3>1
    <3>2. CASE rows > 0
      <4>1. rows - 1 \in 0 .. rows - 1
        BY <2>1, <3>2
      <4>2. PICK i \in 1 .. n : i - 1 = rows - 1
        BY <2>4, <4>1, Zenon
      <4> QED BY <1>2, <2>1, <4>2
    <3> QED BY <2>1, <3>1, <3>2
  <2> QED BY <1>2, <2>1, <2>5, <2>6
<1>10. Watermark(t, n) = Watermark(s, rows)
  BY <1>3, <1>5, <1>9, Zenon DEF Watermark, mark
<1> QED BY <1>3, <1>8, <1>10, Zenon DEF t

----------------------------------------------------------------------------
\* Numbers and sets of them.

LEMMA Least ==
    ASSUME NEW S \in SUBSET Nat, S # {}
    PROVE  \E x \in S : \A y \in S : x <= y
<1>1. PICK x \in S : \A y \in S : ~(<<y, x>> \in OpToRel(<, Nat))
  BY NatLessThanWellFounded, WFMin
<1>2. \A y \in S : x <= y
  <2> TAKE y \in S
  <2>1. ~(y < x)
    BY <1>1 DEF OpToRel
  <2> QED BY <2>1
<1> QED BY <1>2

\* A set of numbers that holds 0 and the successor of each holds them all.
LEMMA NatsFrom ==
    ASSUME NEW S \in SUBSET Nat, 0 \in S, \A n \in S : n + 1 \in S
    PROVE  S = Nat
<1>1. SUFFICES ASSUME Nat \ S # {} PROVE FALSE
  OBVIOUS
<1>2. PICK x \in Nat \ S : \A y \in Nat \ S : x <= y
  BY <1>1, Least
<1> QED BY <1>2

\* The same up to a bound.
LEMMA NatsUpTo ==
    ASSUME NEW m \in Nat, NEW S \in SUBSET (0 .. m), 0 \in S,
           \A n \in S : n < m => n + 1 \in S
    PROVE  S = 0 .. m
<1> DEFINE T == (0 .. m) \ S
<1>1. SUFFICES ASSUME T # {} PROVE FALSE
  OBVIOUS
<1>2. T \in SUBSET Nat
  OBVIOUS
<1>3. PICK x \in T : \A y \in T : x <= y
  <2> HIDE DEF T
  <2> QED BY <1>1, <1>2, Least
<1>4. x \in 0 .. m /\ x # 0 /\ x - 1 \in 0 .. m /\ x - 1 < m
  OBVIOUS
<1>5. x - 1 \in S
  BY <1>3, <1>4
<1> QED BY <1>4, <1>5

LEMMA MaxIs ==
    ASSUME NEW S \in SUBSET Int, NEW m \in S, \A x \in S : x <= m
    PROVE  Max(S) = m
<1>1. \A x \in S : (\A y \in S : x >= y) => x = m
  OBVIOUS
<1> QED BY <1>1 DEF Max

LEMMA MinIs ==
    ASSUME NEW S \in SUBSET Int, NEW m \in S, \A x \in S : m <= x
    PROVE  Min(S) = m
<1>1. \A x \in S : (\A y \in S : x =< y) => x = m
  OBVIOUS
<1> QED BY <1>1 DEF Min

LEMMA MinOf ==
    ASSUME NEW S \in SUBSET Nat, S # {}
    PROVE  Min(S) \in S /\ \A x \in S : Min(S) <= x
BY Least DEF Min

LEMMA MaxOf ==
    ASSUME NEW S \in SUBSET Nat, S # {}, NEW b \in Nat, \A x \in S : x <= b
    PROVE  Max(S) \in S /\ \A x \in S : x <= Max(S)
<1> DEFINE T == {b - x : x \in S}
<1>1. T \in SUBSET Nat /\ T # {}
  <2>1. \A x \in S : b - x \in Nat
    OBVIOUS
  <2> QED BY <2>1
<1>2. PICK t \in T : \A y \in T : t <= y
  BY <1>1, Least
<1>3. PICK m \in S : t = b - m
  OBVIOUS
<1>4. \A x \in S : x <= m
  <2> TAKE x \in S
  <2>1. b - x \in T
    OBVIOUS
  <2> QED BY <1>2, <1>3, <2>1
<1>5. Max(S) = m
  BY <1>4, MaxIs
<1> QED BY <1>4, <1>5

\* Finitely many numbers are bounded.
LEMMA Bounded ==
    ASSUME NEW n \in Nat, NEW f, \A i \in 1 .. n : f[i] \in Nat
    PROVE  \E b \in Nat : \A i \in 1 .. n : f[i] <= b
<1> DEFINE S == {k \in 0 .. n : \E b \in Nat : \A i \in 1 .. k : f[i] <= b}
<1>1. 0 \in S
  OBVIOUS
<1>2. ASSUME NEW k \in S, k < n
      PROVE  k + 1 \in S
  <2>1. PICK b \in Nat : \A i \in 1 .. k : f[i] <= b
    OBVIOUS
  <2>2. f[k + 1] \in Nat
    BY <1>2
  <2>3. b + f[k + 1] \in Nat /\ \A i \in 1 .. k + 1 : f[i] <= b + f[k + 1]
    BY <2>1, <2>2, <1>2
  <2> QED BY <2>3, <1>2
<1>3. S = 0 .. n
  <2> HIDE DEF S
  <2>1. S \in SUBSET (0 .. n)
    BY DEF S
  <2> QED BY <1>1, <1>2, <2>1, NatsUpTo
<1> QED BY <1>3

----------------------------------------------------------------------------
\* A layout.

(* The segments of generation g at the bases L hold the rows R: each is    *)
(* there, none is empty, no two overlap, and every row is in one of them.  *)
Lays(segments, g, L, R) ==
    /\ L \subseteq Nat
    /\ \A b \in L :
          LET held == segments[<<g, b>>].rows
          IN  /\ <<g, b>> \in DOMAIN segments
              /\ Len(held) \in Nat \ {0}
              /\ DOMAIN held = 1 .. Len(held)
              /\ b + Len(held) <= Len(R)
              /\ \A i \in 1 .. Len(held) : held[i] = R[b + i]
    /\ \A b, c \in L : b < c => b + Len(segments[<<g, b>>].rows) <= c
    /\ \A n \in 1 .. Len(R) :
          \E b \in L : b < n /\ n <= b + Len(segments[<<g, b>>].rows)

\* What an open makes of such a layout.
LEMMA LaidOut ==
    ASSUME NEW d, NEW X, NEW R \in Seq(X),
           Lays(d.segments, d.manifest.generation, Layout(d), R)
    PROVE  /\ Extent(d) = Len(R)
           /\ FrozenRows(d) = R
           /\ LayoutPresent(d)
           /\ Contiguous(d)
<1> DEFINE L == Layout(d)
           n == Len(R)
           held(b) == SegmentOf(d, b).rows
           size(b) == Len(held(b))
<1>1. /\ L \subseteq Nat
      /\ \A b \in L : <<d.manifest.generation, b>> \in DOMAIN d.segments
      /\ \A b \in L : \A i \in 1 .. size(b) : held(b)[i] = R[b + i]
  BY Zenon DEF Lays, SegmentOf
<1>2. /\ \A b \in L : size(b) \in Nat \ {0} /\ b + size(b) <= n
      /\ \A b, c \in L : b < c => b + size(b) <= c
      /\ \A i \in 1 .. n : \E b \in L : b < i /\ i <= b + size(b)
  BY Zenon DEF Lays, SegmentOf
<1>3. n \in Nat /\ DOMAIN R = 1 .. n
  BY LenProperties
<1> DEFINE ends == {0} \cup {b + size(b) : b \in L}
<1>4. Extent(d) = Max(ends)
  BY DEF Extent
<1> HIDE DEF L, size, held, n
<1>5. \A b \in L : b \in Nat /\ size(b) \in Nat
  BY <1>1, <1>2
<1>6. \A x \in ends : x \in Int /\ x <= n
  BY <1>2, <1>3, <1>5
<1>7. n \in ends
  <2>1. CASE n = 0
    BY <2>1
  <2>2. CASE n # 0
    <3>1. PICK b \in L : b < n /\ n <= b + size(b)
      BY <1>2, <1>3, <2>2
    <3>2. b \in Nat /\ size(b) \in Nat /\ b + size(b) <= n
      BY <1>2, <1>5
    <3>3. b + size(b) = n
      BY <1>3, <3>1, <3>2
    <3> QED BY <3>3
  <2> QED BY <2>1, <2>2
<1>8. Extent(d) = n
  <2> HIDE DEF ends
  <2> QED BY <1>4, <1>6, <1>7, MaxIs
<1>9. ASSUME NEW i \in 1 .. n
      PROVE  LET base == Max({b \in L : b < i})
             IN  held(base)[i - base] = R[i]
  <2>1. PICK b \in L : b < i /\ i <= b + size(b)
    BY <1>2
  <2>2. b \in Nat /\ size(b) \in Nat /\ i \in Int
    BY <1>5
  <2>3. ASSUME NEW c \in L, c < i
        PROVE  c <= b
    <3>1. b < c => b + size(b) <= c
      BY <1>2
    <3>2. c \in Nat
      BY <1>5
    <3> QED BY <2>1, <2>2, <2>3, <3>1, <3>2
  <2>4. Max({x \in L : x < i}) = b
    <3>1. {x \in L : x < i} \in SUBSET Int /\ b \in {x \in L : x < i}
      BY <1>5, <2>1
    <3>2. \A c \in {x \in L : x < i} : c <= b
      BY <2>3
    <3> QED BY <3>1, <3>2, MaxIs
  <2>5. i - b \in 1 .. size(b) /\ b + (i - b) = i
    BY <2>1, <2>2
  <2>6. held(b)[i - b] = R[b + (i - b)]
    BY <1>1, <2>5
  <2> QED BY <2>4, <2>5, <2>6
<1>10. FrozenRows(d) = R
  <2>1. FrozenRows(d) = [i \in 1 .. n |->
                            LET base == Max({b \in L : b < i})
                            IN  held(base)[i - base]]
    BY <1>8 DEF FrozenRows, L, held
  <2>2. FrozenRows(d) = [i \in 1 .. n |-> R[i]]
    BY <2>1, <1>9
  <2>3. R = [i \in 1 .. n |-> R[i]]
    BY <1>3
  <2> QED BY <2>2, <2>3
<1>11. LayoutPresent(d)
  BY <1>1 DEF LayoutPresent, L
<1>12. Contiguous(d)
  <2> SUFFICES ASSUME NEW base \in L, base # 0
               PROVE  \E b \in L : b + size(b) = base
    BY DEF Contiguous, L, size, held
  <2>1. base \in Nat /\ size(base) \in Nat \ {0} /\ base + size(base) <= n
    BY <1>2, <1>5
  <2>2. base \in 1 .. n
    BY <1>3, <2>1
  <2>3. PICK b \in L : b < base /\ base <= b + size(b)
    BY <1>2, <2>2
  <2>4. b + size(b) <= base
    BY <1>2, <2>3
  <2>5. b + size(b) = base
    BY <1>5, <2>1, <2>3, <2>4
  <2> QED BY <2>5
<1> QED BY <1>8, <1>10, <1>11, <1>12 DEF n

LEMMA LaysNone ==
    ASSUME NEW segments, NEW g
    PROVE  Lays(segments, g, {}, << >>)
BY DEF Lays

\* Objects published elsewhere do not move a layout.
LEMMA LaysStill ==
    ASSUME NEW segments, NEW g, NEW L, NEW R, Lays(segments, g, L, R),
           NEW later,
           \A b \in L : /\ <<g, b>> \in DOMAIN later
                       /\ later[<<g, b>>] = segments[<<g, b>>]
    PROVE  Lays(later, g, L, R)
BY Zenon DEF Lays

\* A segment published where the layout ends, and named, extends it.
LEMMA LaysOneMore ==
    ASSUME NEW segments, NEW g, NEW L, NEW X, NEW R \in Seq(X), NEW Q \in Seq(X),
           Lays(segments, g, L, R), Q # << >>,
           <<g, Len(R)>> \in DOMAIN segments, segments[<<g, Len(R)>>].rows = Q
    PROVE  Lays(segments, g, L \cup {Len(R)}, R \o Q)
<1> DEFINE n == Len(R)
           q == Len(Q)
           held(b) == segments[<<g, b>>].rows
           size(b) == Len(held(b))
           M == L \cup {n}
<1>1. /\ L \subseteq Nat
      /\ \A b \in L : <<g, b>> \in DOMAIN segments
      /\ \A b \in L : DOMAIN held(b) = 1 .. size(b)
      /\ \A b \in L : \A i \in 1 .. size(b) : held(b)[i] = R[b + i]
  BY Zenon DEF Lays
<1>2. /\ \A b \in L : size(b) \in Nat \ {0} /\ b + size(b) <= n
      /\ \A b, c \in L : b < c => b + size(b) <= c
      /\ \A i \in 1 .. n : \E b \in L : b < i /\ i <= b + size(b)
  BY Zenon DEF Lays
<1>3. n \in Nat /\ q \in Nat \ {0} /\ size(n) = q /\ DOMAIN Q = 1 .. q
  BY LenProperties, EmptySeq
<1>4. /\ Len(R \o Q) = n + q
      /\ \A i \in 1 .. n : (R \o Q)[i] = R[i]
      /\ \A i \in 1 .. q : (R \o Q)[n + i] = Q[i]
  BY ConcatProperties, <1>3
<1>5. <<g, n>> \in DOMAIN segments /\ held(n) = Q
  OBVIOUS
<1> DEFINE RQ == R \o Q
<1> HIDE DEF n, q, held, size, RQ
<1>6. /\ M \subseteq Nat
      /\ \A b \in M : <<g, b>> \in DOMAIN segments
      /\ \A b \in M : DOMAIN held(b) = 1 .. size(b)
  BY <1>1, <1>3, <1>5
<1>7. ASSUME NEW b \in M
      PROVE  /\ size(b) \in Nat \ {0} /\ b + size(b) <= n + q
             /\ \A i \in 1 .. size(b) : held(b)[i] = RQ[b + i]
  <2>1. CASE b \in L
    <3>1. b \in Nat /\ size(b) \in Nat \ {0} /\ b + size(b) <= n
      BY <1>1, <1>2, <2>1
    <3>2. \A i \in 1 .. size(b) : b + i \in 1 .. n
      BY <3>1, <1>3
    <3>3. \A i \in 1 .. size(b) : held(b)[i] = RQ[b + i]
      BY <3>2, <1>1, <1>4, <2>1 DEF RQ
    <3> QED BY <3>1, <3>3, <1>3
  <2>2. CASE b = n
    BY <2>2, <1>3, <1>4, <1>5 DEF RQ
  <2> QED BY <2>1, <2>2
<1>8. ASSUME NEW b \in M, NEW c \in M, b < c
      PROVE  b + size(b) <= c
  <2>1. CASE b \in L /\ c \in L
    BY <2>1, <1>2, <1>8
  <2>2. CASE b \in L /\ c = n
    BY <2>2, <1>2
  <2>3. CASE b = n
    <3>1. b < n
      <4>1. c \in L \/ c = n
        OBVIOUS
      <4>2. c \in L => size(c) \in Nat /\ c \in Nat /\ c + size(c) <= n
        BY <1>1, <1>2
      <4> QED BY <4>1, <4>2, <1>8, <1>3, <2>3
    <3> QED BY <3>1, <2>3, <1>3
  <2> QED BY <2>1, <2>2, <2>3
<1>9. ASSUME NEW i \in 1 .. (n + q)
      PROVE  \E b \in M : b < i /\ i <= b + size(b)
  <2>1. CASE i <= n
    <3>1. i \in 1 .. n
      BY <2>1, <1>3
    <3> QED BY <3>1, <1>2
  <2>2. CASE n < i
    BY <2>2, <1>3
  <2> QED BY <2>1, <2>2, <1>3
<1>10. Len(RQ) = n + q
  BY <1>4 DEF RQ
<1> QED BY <1>6, <1>7, <1>8, <1>9, <1>10, Zenon DEF Lays, held, size, RQ, n

LEMMA DivMod ==
    ASSUME NEW b \in Nat, NEW S \in Nat \ {0}
    PROVE  /\ b \div S \in Nat /\ b % S \in 0 .. S - 1
           /\ b = S * (b \div S) + (b % S)
OBVIOUS

LEMMA Multiple ==
    ASSUME NEW b \in Nat, NEW S \in Nat \ {0}, b % S = 0
    PROVE  b \div S \in Nat /\ b = S * (b \div S)
<1> DEFINE k == b \div S
           p == S * k
<1>1. k \in Nat /\ b = p + 0
  BY DivMod
<1>2. p \in Int
  BY <1>1
<1> HIDE DEF p
<1>3. b = p
  BY <1>1, <1>2
<1> QED BY <1>1, <1>3 DEF p

\* Two multiples of S are S apart.
LEMMA MultiplesApart ==
    ASSUME NEW i \in Nat, NEW j \in Nat, NEW S \in Nat \ {0}, S * i < S * j
    PROVE  i + 1 <= j /\ S * i + S <= S * j
<1>1. i < j
  OBVIOUS
<1>2. i + 1 <= j
  BY <1>1
<1>3. S * (i + 1) <= S * j
  BY <1>2
<1>4. S * (i + 1) = S * i + S
  OBVIOUS
<1> QED BY <1>2, <1>3, <1>4

LEMMA MultipleMod ==
    ASSUME NEW i \in Nat, NEW S \in Nat \ {0}
    PROVE  (S * i) % S = 0 /\ S * i \in Nat
OBVIOUS

\* A sequence cut into segments of S rows, the last one shorter.
LEMMA LaysChunks ==
    ASSUME NEW segments, NEW g, NEW X, NEW R \in Seq(X), NEW S \in Nat \ {0},
           NEW L, L = {b \in 0 .. Len(R) - 1 : b % S = 0},
           \A b \in L :
              /\ <<g, b>> \in DOMAIN segments
              /\ segments[<<g, b>>].rows
                   = SubSeq(R, b + 1, Min({b + S, Len(R)}))
    PROVE  Lays(segments, g, L, R)
<1> DEFINE n == Len(R)
           held(b) == segments[<<g, b>>].rows
           size(b) == Len(held(b))
           end(b) == IF b + S <= n THEN b + S ELSE n
<1>1. n \in Nat
  BY LenProperties
<1>2. \A b \in L : b \in Nat /\ b < n
  BY <1>1
<1>3. ASSUME NEW b \in L
      PROVE  /\ Min({b + S, n}) = end(b)
             /\ end(b) \in Nat /\ b < end(b) /\ end(b) <= n /\ end(b) <= b + S
  <2>1. b \in Nat /\ b < n /\ S \in Nat /\ S > 0
    BY <1>2
  <2>2. end(b) \in Nat /\ b < end(b) /\ end(b) <= n /\ end(b) <= b + S
    BY <2>1, <1>1
  <2>3. {b + S, n} \in SUBSET Int /\ end(b) \in {b + S, n}
        /\ \A x \in {b + S, n} : end(b) <= x
    BY <2>1, <1>1
  <2>4. Min({b + S, n}) = end(b)
    <3> HIDE DEF end
    <3> QED BY <2>3, MinIs
  <2> QED BY <2>2, <2>4
<1>4. ASSUME NEW b \in L
      PROVE  /\ size(b) = end(b) - b /\ DOMAIN held(b) = 1 .. size(b)
             /\ \A i \in 1 .. size(b) : held(b)[i] = R[b + i]
  <2>1. held(b) = SubSeq(R, b + 1, end(b))
    BY <1>3
  <2> DEFINE e == end(b)
  <2>2. b \in Nat /\ e \in Nat /\ b < e /\ e <= n
    BY <1>2, <1>3
  <2> HIDE DEF e
  <2>3. b + 1 \in 1 .. n + 1 /\ e \in b .. n
    BY <2>2, <1>1
  <2>4. /\ SubSeq(R, b + 1, e) \in Seq(X)
        /\ Len(SubSeq(R, b + 1, e)) = e - (b + 1) + 1
        /\ \A i \in 1 .. e - (b + 1) + 1 : SubSeq(R, b + 1, e)[i] = R[(b + 1) + i - 1]
    BY <2>2, <2>3, <1>1, SubSeqProperties
  <2>5. e - (b + 1) + 1 = e - b /\ \A i \in 1 .. e - b : (b + 1) + i - 1 = b + i
    BY <2>2
  <2>6. held(b) = SubSeq(R, b + 1, e)
    BY <2>1 DEF e
  <2> HIDE DEF held
  <2>7. size(b) = e - b /\ DOMAIN held(b) = 1 .. size(b)
    BY <2>4, <2>5, <2>6, LenProperties
  <2>8. \A i \in 1 .. size(b) : held(b)[i] = R[b + i]
    BY <2>4, <2>5, <2>6, <2>7
  <2> QED BY <2>7, <2>8 DEF e
<1> HIDE DEF n, held, size, end
<1>5. ASSUME NEW b \in L, NEW c \in L, b < c
      PROVE  b + S <= c
  <2>1. b % S = 0 /\ c % S = 0 /\ b \in Nat /\ c \in Nat
    BY <1>2
  <2>2. b = S * (b \div S) /\ b \div S \in Nat
    BY <2>1, Multiple
  <2>3. c = S * (c \div S) /\ c \div S \in Nat
    BY <2>1, Multiple
  <2>4. S * (b \div S) < S * (c \div S)
    BY <2>2, <2>3, <1>5
  <2>5. S * (b \div S) + S <= S * (c \div S)
    BY <2>2, <2>3, <2>4, MultiplesApart
  <2> QED BY <2>2, <2>3, <2>5
<1>6. ASSUME NEW i \in 1 .. n
      PROVE  \E b \in L : b < i /\ i <= b + size(b)
  <2> DEFINE k == (i - 1) \div S
             b == S * k
  <2>1. i - 1 \in Nat /\ S \in Nat \ {0}
    BY <1>6, <1>1
  <2>2. k \in Nat /\ (i - 1) % S \in 0 .. S - 1 /\ i - 1 = b + ((i - 1) % S)
    BY <2>1, DivMod
  <2>3. b \in Nat /\ b % S = 0
    BY <2>2, MultipleMod
  <2> HIDE DEF b, k
  <2>4. b <= i - 1 /\ i - 1 < b + S
    BY <2>1, <2>2, <2>3
  <2>5. b \in L
    BY <2>3, <2>4, <1>1, <1>6 DEF n
  <2>6. size(b) = end(b) - b /\ end(b) \in Nat
    BY <2>5, <1>3, <1>4
  <2>7. i <= end(b)
    BY <2>4, <2>3, <1>1, <1>6 DEF end
  <2> QED BY <2>3, <2>4, <2>5, <2>6, <2>7
<1>7. ASSUME NEW b \in L
      PROVE  size(b) \in Nat \ {0} /\ b + size(b) = end(b) /\ b + size(b) <= n
  <2>1. b \in Nat /\ end(b) \in Nat /\ b < end(b) /\ end(b) <= n /\ size(b) = end(b) - b
    BY <1>2, <1>3, <1>4
  <2> QED BY <2>1
<1>8. ASSUME NEW b \in L, NEW c \in L, b < c
      PROVE  b + size(b) <= c
  <2>1. b + size(b) = end(b) /\ end(b) <= b + S /\ b + S <= c
    BY <1>3, <1>5, <1>7, <1>8
  <2>2. b \in Nat /\ c \in Nat
    BY <1>2
  <2>3. end(b) \in Nat
    BY <1>3
  <2>4. b + S \in Nat
    BY <2>2
  <2> QED BY <2>1, <2>2, <2>3, <2>4
<1>9. L \subseteq Nat
  BY <1>2
<1> QED BY <1>4, <1>6, <1>7, <1>8, <1>9, Zenon DEF Lays, held, size, n

----------------------------------------------------------------------------
\* What an open loads.

Segment(R) == [rows : Seq([row : R, born : Nat]), stamped : BOOLEAN]

DeleteRecord == [ids : SUBSET Nat, stamp : Nat, superseding : BOOLEAN]

Manifest == [generation : Nat, layout : SUBSET Nat, diverged : BOOLEAN,
             next : Nat, history : Nat]

ObjectsTyped(d, R) ==
    /\ d.manifest \in Manifest
    /\ \A n \in DOMAIN d.segments : d.segments[n] \in Segment(R)
    /\ \A n \in DOMAIN d.deletes : d.deletes[n] \in DeleteRecord
    /\ \A i \in DOMAIN d.history :
          d.history[i] \in SUBSET [row : R, born : Nat, killed : Nat]

(* The objects of a disk fit together: the layout holds a sequence of      *)
(* rows, the delete logs kill rows of it, a segment without births is one  *)
(* whose rows are born at their ids, and the history the manifest names is *)
(* there and below the coordinate it records.                              *)
Sound(d, R) ==
    LET held == FrozenRows(d)
    IN  /\ ObjectsTyped(d, R)
        /\ held \in Seq([row : R, born : Nat])
        /\ Lays(d.segments, d.manifest.generation, Layout(d), held)
        /\ \A n \in DeleteLogs(d) :
              /\ d.deletes[n].ids \subseteq 0 .. Len(held) - 1
              /\ d.deletes[n].ids # {} => d.deletes[n].stamp > 0
        /\ \A b \in Layout(d) :
              ~SegmentOf(d, b).stamped =>
                 \A i \in 1 .. Len(SegmentOf(d, b).rows) :
                    SegmentOf(d, b).rows[i].born = b + i - 1
        /\ d.manifest.history > 0 => d.manifest.diverged
        /\ \A i \in 0 .. d.manifest.history - 1 :
              i \in DOMAIN d.history /\ \A v \in d.history[i] : v.killed < d.manifest.next

(* Every coordinate in use in s is below its watermark.                    *)
Known(s) ==
    LET mark == Watermark(s, RowCount(s))
    IN  /\ \A id \in Ids(s) : Born(s, id) < mark
        /\ \A id \in Dead(s) : s.tombs[id] < mark
        /\ \A v \in s.history : v.killed < mark

(* The watermark follows the last event that is still to be seen in s, or  *)
(* is the one a manifest recorded.                                         *)
Attained(s, recorded) ==
    \/ s.next = recorded
    \/ \E id \in Ids(s) : Born(s, id) + 1 = s.next
    \/ \E id \in Dead(s) : s.tombs[id] + 1 = s.next

\* Tombstones, one id at a time.
LEMMA TombstonesOf ==
    ASSUME NEW d, NEW R, Sound(d, R)
    PROVE  /\ DOMAIN Tombstones(d) \subseteq 0 .. Len(FrozenRows(d)) - 1
           /\ \A id \in DOMAIN Tombstones(d) :
                 Tombstones(d)[id] \in Nat /\ Tombstones(d)[id] > 0
<1> DEFINE T == Tombstones(d)
           Of(id) == CHOOSE n \in DeleteLogs(d) : id \in d.deletes[n].ids
<1>1. T = [id \in UNION {d.deletes[n].ids : n \in DeleteLogs(d)} |->
              d.deletes[Of(id)].stamp]
  BY DEF Tombstones
<1>2. ASSUME NEW id \in DOMAIN T
      PROVE  Of(id) \in DeleteLogs(d) /\ id \in d.deletes[Of(id)].ids
  <2>1. \E n \in DeleteLogs(d) : id \in d.deletes[n].ids
    BY <1>1
  <2> QED BY <2>1
<1>3. ASSUME NEW id \in DOMAIN T
      PROVE  id \in 0 .. Len(FrozenRows(d)) - 1 /\ T[id] \in Nat /\ T[id] > 0
  <2>1. T[id] = d.deletes[Of(id)].stamp
    BY <1>1
  <2> DEFINE n == Of(id)
  <2>2. n \in DeleteLogs(d) /\ id \in d.deletes[n].ids /\ T[id] = d.deletes[n].stamp
    BY <1>2, <2>1
  <2> HIDE DEF n, T
  <2>3. d.deletes[n] \in DeleteRecord
    BY <2>2 DEF Sound, ObjectsTyped, DeleteLogs
  <2>4. d.deletes[n].ids \subseteq 0 .. Len(FrozenRows(d)) - 1 /\ d.deletes[n].stamp > 0
    BY <2>2 DEF Sound
  <2> QED BY <2>2, <2>3, <2>4 DEF DeleteRecord
<1> QED BY <1>3

\* One past the largest birth of a segment.
LEMMA SegmentEnd ==
    ASSUME NEW segment, NEW R, segment \in Segment(R), segment.rows # << >>
    PROVE  /\ SequenceEnd(segment) \in Nat
           /\ \A i \in DOMAIN segment.rows : segment.rows[i].born < SequenceEnd(segment)
           /\ \E i \in DOMAIN segment.rows :
                 segment.rows[i].born + 1 = SequenceEnd(segment)
<1> DEFINE rows == segment.rows
           n == Len(rows)
           born == [i \in 1 .. n |-> rows[i].born]
           S == {rows[i].born : i \in DOMAIN rows}
<1>1. rows \in Seq([row : R, born : Nat])
  BY DEF Segment
<1>2. n \in Nat /\ DOMAIN rows = 1 .. n /\ n # 0
  BY <1>1, LenProperties, EmptySeq
<1>3. \A i \in 1 .. n : rows[i].born \in Nat
  <2>1. \A i \in 1 .. n : rows[i] \in [row : R, born : Nat]
    BY <1>1, ElementOfSeq
  <2> HIDE DEF rows, n
  <2> QED BY <2>1
<1> HIDE DEF rows, n
<1>4. \A i \in 1 .. n : born[i] \in Nat /\ born[i] = rows[i].born
  BY <1>3
<1>5. PICK b \in Nat : \A i \in 1 .. n : born[i] <= b
  <2> HIDE DEF born
  <2> QED BY <1>2, <1>4, Bounded
<1>6. S \in SUBSET Nat /\ S # {} /\ \A x \in S : x <= b
  BY <1>2, <1>3, <1>4, <1>5
<1>7. Max(S) \in S /\ \A x \in S : x <= Max(S)
  <2> HIDE DEF S
  <2> QED BY <1>6, MaxOf
<1>8. SequenceEnd(segment) = Max(S) + 1
  BY DEF SequenceEnd, rows
<1> DEFINE M == Max(S)
<1>9. M \in Nat /\ (\E i \in DOMAIN rows : rows[i].born = M)
      /\ \A i \in DOMAIN rows : rows[i].born <= M
  BY <1>6, <1>7
<1> HIDE DEF M
<1>10. SequenceEnd(segment) = M + 1
  BY <1>8 DEF M
<1> QED BY <1>2, <1>3, <1>9, <1>10 DEF rows

\* The largest of the coordinates a tombstone carries, 0 where none does.
KilledAt(d) == Max({0} \cup {Tombstones(d)[id] : id \in DOMAIN Tombstones(d)})

LEMMA KilledAtIs ==
    ASSUME NEW d, NEW R, Sound(d, R)
    PROVE  /\ KilledAt(d) \in Nat
           /\ \A id \in DOMAIN Tombstones(d) : Tombstones(d)[id] <= KilledAt(d)
           /\ KilledAt(d) # 0 => \E id \in DOMAIN Tombstones(d) :
                                    Tombstones(d)[id] = KilledAt(d)
           /\ DOMAIN Tombstones(d) # {} => KilledAt(d) > 0
<1> DEFINE T == Tombstones(d)
           n == Len(FrozenRows(d))
           S == {0} \cup {T[id] : id \in DOMAIN T}
           f == [i \in 1 .. n |-> IF i - 1 \in DOMAIN T THEN T[i - 1] ELSE 0]
<1>1. DOMAIN T \subseteq 0 .. n - 1 /\ \A id \in DOMAIN T : T[id] \in Nat /\ T[id] > 0
  BY TombstonesOf
<1>2. n \in Nat
  BY LenProperties DEF Sound
<1> HIDE DEF T, n
<1>3. \A i \in 1 .. n : f[i] \in Nat
  BY <1>1
<1>4. PICK b \in Nat : \A i \in 1 .. n : f[i] <= b
  <2> HIDE DEF f
  <2> QED BY <1>2, <1>3, Bounded
<1>5. ASSUME NEW id \in DOMAIN T
      PROVE  T[id] \in Nat /\ T[id] <= b
  <2>1. id + 1 \in 1 .. n /\ (id + 1) - 1 = id
    BY <1>1, <1>2
  <2>2. f[id + 1] = T[id]
    BY <2>1
  <2> QED BY <2>1, <2>2, <1>1, <1>4
<1>6. S \in SUBSET Nat /\ S # {} /\ \A x \in S : x <= b
  BY <1>5, <1>4
<1>7. Max(S) \in S /\ \A x \in S : x <= Max(S)
  <2> HIDE DEF S
  <2> QED BY <1>6, MaxOf
<1>8. KilledAt(d) = Max(S)
  BY DEF KilledAt, T
<1> DEFINE M == Max(S)
<1>9. /\ M \in Nat /\ \A id \in DOMAIN T : T[id] <= M
      /\ M # 0 => \E id \in DOMAIN T : T[id] = M
  BY <1>6, <1>7
<1> HIDE DEF M
<1>10. DOMAIN T # {} => M > 0
  BY <1>1, <1>9
<1> QED BY <1>8, <1>9, <1>10 DEF M, T

\* The fields of a loaded state.
LoadedDiverged(d) ==
    \/ d.manifest.diverged
    \/ KilledAt(d) > 0
    \/ \E base \in Layout(d) : SegmentOf(d, base).stamped

LoadedMarks(d) ==
    {d.manifest.next}
      \cup (IF KilledAt(d) > 0 THEN {KilledAt(d) + 1} ELSE {})
      \cup {SequenceEnd(SegmentOf(d, b)) : b \in Layout(d)}

LoadedHistory(d) == UNION {d.history[i] : i \in 0 .. d.manifest.history - 1}

LEMMA LoadedFields ==
    ASSUME NEW d
    PROVE  LET s == Loaded(d)
               mark == IF LoadedDiverged(d) THEN Max(LoadedMarks(d)) ELSE 0
           IN  /\ s = [frozen |-> FrozenRows(d), buffer |-> << >>,
                       base |-> Len(FrozenRows(d)), diverged |-> LoadedDiverged(d),
                       next |-> mark, seqBase |-> mark, births |-> << >>,
                       tombs |-> Tombstones(d), history |-> LoadedHistory(d)]
               /\ s.frozen = FrozenRows(d) /\ s.buffer = << >>
               /\ s.base = Len(FrozenRows(d))
               /\ s.diverged = LoadedDiverged(d)
               /\ s.next = mark /\ s.seqBase = mark
               /\ s.births = << >>
               /\ s.tombs = Tombstones(d) /\ s.history = LoadedHistory(d)
<1> DEFINE mark == IF LoadedDiverged(d) THEN Max(LoadedMarks(d)) ELSE 0
<1>1. Loaded(d)
        = [frozen |-> FrozenRows(d), buffer |-> << >>,
           base |-> Len(FrozenRows(d)), diverged |-> LoadedDiverged(d),
           next |-> mark, seqBase |-> mark, births |-> << >>,
           tombs |-> Tombstones(d), history |-> LoadedHistory(d)]
  BY Zenon DEF Loaded, LoadedDiverged, LoadedMarks, LoadedHistory, KilledAt
<1> HIDE DEF mark
<1> QED BY <1>1 DEF mark

\* A segment of the layout, and the row an id has in it.
LEMMA LayoutSegment ==
    ASSUME NEW d, NEW R, Sound(d, R), NEW b \in Layout(d)
    PROVE  LET segment == SegmentOf(d, b)
               n == Len(segment.rows)
           IN  /\ b \in Nat /\ n \in Nat \ {0} /\ segment \in Segment(R)
               /\ segment.rows # << >> /\ DOMAIN segment.rows = 1 .. n
               /\ b + n <= Len(FrozenRows(d))
               /\ \A i \in 1 .. n : segment.rows[i] = FrozenRows(d)[b + i]
               /\ \A i \in 1 .. n : /\ b + i \in 1 .. Len(FrozenRows(d))
                                    /\ segment.rows[i].born = FrozenRows(d)[b + i].born
<1> DEFINE segment == SegmentOf(d, b)
           n == Len(segment.rows)
           F == FrozenRows(d)
<1>1. /\ b \in Nat /\ n \in Nat \ {0} /\ DOMAIN segment.rows = 1 .. n
      /\ <<d.manifest.generation, b>> \in DOMAIN d.segments
      /\ b + n <= Len(F)
      /\ \A i \in 1 .. n : segment.rows[i] = F[b + i]
  BY Zenon DEF Sound, Lays, SegmentOf
<1>2. segment \in Segment(R)
  BY <1>1 DEF Sound, ObjectsTyped, SegmentOf
<1>3. Len(F) \in Nat
  BY LenProperties DEF Sound
<1>4. segment.rows # << >>
  BY <1>1
<1> HIDE DEF segment, n, F
<1>5. \A i \in 1 .. n : b + i \in 1 .. Len(F)
  BY <1>1, <1>3
<1> QED BY <1>1, <1>2, <1>4, <1>5 DEF segment, n, F

LEMMA FrozenSegment ==
    ASSUME NEW d, NEW R, Sound(d, R), NEW i \in 1 .. Len(FrozenRows(d))
    PROVE  \E b \in Layout(d) :
              /\ i - b \in 1 .. Len(SegmentOf(d, b).rows)
              /\ FrozenRows(d)[i] = SegmentOf(d, b).rows[i - b]
<1> DEFINE F == FrozenRows(d)
           size(b) == Len(SegmentOf(d, b).rows)
<1>1. PICK b \in Layout(d) : b < i /\ i <= b + size(b)
  BY Zenon DEF Sound, Lays, SegmentOf
<1>2. /\ b \in Nat /\ size(b) \in Nat \ {0}
      /\ \A k \in 1 .. size(b) : SegmentOf(d, b).rows[k] = F[b + k]
  BY LayoutSegment
<1> DEFINE k == i - b
<1> HIDE DEF F, size
<1>3. k \in 1 .. size(b) /\ b + k = i
  BY <1>1, <1>2
<1>4. SegmentOf(d, b).rows[k] = F[b + k]
  BY <1>2, <1>3
<1> QED BY <1>3, <1>4 DEF F, size

\* The watermark a diverged disk records: above everything on it, and no
\* further.
LEMMA MarksOf ==
    ASSUME NEW d, NEW R, Sound(d, R)
    PROVE  LET mark == Max(LoadedMarks(d))
           IN  /\ mark \in Nat
               /\ d.manifest.next <= mark
               /\ \A i \in 1 .. Len(FrozenRows(d)) : FrozenRows(d)[i].born < mark
               /\ \A id \in DOMAIN Tombstones(d) : Tombstones(d)[id] < mark
               /\ \/ mark = d.manifest.next
                  \/ \E i \in 1 .. Len(FrozenRows(d)) : FrozenRows(d)[i].born + 1 = mark
                  \/ \E id \in DOMAIN Tombstones(d) : Tombstones(d)[id] + 1 = mark
<1> DEFINE F == FrozenRows(d)
           T == Tombstones(d)
           killed == KilledAt(d)
           S == LoadedMarks(d)
           end(b) == SequenceEnd(SegmentOf(d, b))
<1>1. d.manifest.next \in Nat
  BY DEF Sound, ObjectsTyped, Manifest
<1>2. /\ killed \in Nat
      /\ \A id \in DOMAIN T : T[id] \in Nat /\ T[id] <= killed
      /\ killed # 0 => \E id \in DOMAIN T : T[id] = killed
      /\ DOMAIN T # {} => killed > 0
  BY KilledAtIs, TombstonesOf
<1>3. Len(F) \in Nat /\ \A i \in 1 .. Len(F) : F[i].born \in Nat
  <2>1. F \in Seq([row : R, born : Nat])
    BY DEF Sound
  <2>2. \A i \in 1 .. Len(F) : F[i] \in [row : R, born : Nat]
    BY <2>1, ElementOfSeq
  <2>3. Len(F) \in Nat
    BY <2>1, LenProperties
  <2> HIDE DEF F
  <2> QED BY <2>2, <2>3
<1>4. ASSUME NEW b \in Layout(d)
      PROVE  /\ end(b) \in Nat
             /\ \E i \in 1 .. Len(F) : F[i].born + 1 = end(b)
  <2>1. SegmentOf(d, b) \in Segment(R) /\ SegmentOf(d, b).rows # << >>
    BY LayoutSegment
  <2>2. /\ end(b) \in Nat
        /\ \E i \in DOMAIN SegmentOf(d, b).rows : SegmentOf(d, b).rows[i].born + 1 = end(b)
    BY <2>1, SegmentEnd
  <2>3. PICK i \in DOMAIN SegmentOf(d, b).rows : SegmentOf(d, b).rows[i].born + 1 = end(b)
    BY <2>2
  <2>4. b + i \in 1 .. Len(F) /\ SegmentOf(d, b).rows[i].born = F[b + i].born
    BY LayoutSegment
  <2> QED BY <2>2, <2>3, <2>4
<1>5. ASSUME NEW i \in 1 .. Len(F)
      PROVE  \E b \in Layout(d) : F[i].born < end(b)
  <2>1. PICK b \in Layout(d) : /\ i - b \in 1 .. Len(SegmentOf(d, b).rows)
                               /\ F[i] = SegmentOf(d, b).rows[i - b]
    BY FrozenSegment
  <2>2. SegmentOf(d, b) \in Segment(R) /\ SegmentOf(d, b).rows # << >>
        /\ DOMAIN SegmentOf(d, b).rows = 1 .. Len(SegmentOf(d, b).rows)
    BY LayoutSegment
  <2>3. \A k \in DOMAIN SegmentOf(d, b).rows : SegmentOf(d, b).rows[k].born < end(b)
    BY <2>2, SegmentEnd
  <2> QED BY <2>1, <2>2, <2>3
<1> DEFINE f == [i \in 1 .. Len(F) |-> F[i].born]
<1>6. PICK bound \in Nat : \A i \in 1 .. Len(F) : f[i] <= bound
  <2>1. \A i \in 1 .. Len(F) : f[i] \in Nat
    BY <1>3
  <2> HIDE DEF f, F
  <2> QED BY <1>3, <2>1, Bounded
<1>7. S = {d.manifest.next} \cup (IF killed > 0 THEN {killed + 1} ELSE {})
            \cup {end(b) : b \in Layout(d)}
  BY DEF LoadedMarks
<1> DEFINE top == d.manifest.next + killed + bound + 1
<1> HIDE DEF F, T, killed, end
<1>8. \A i \in 1 .. Len(F) : F[i].born <= bound
  BY <1>6
<1>9. ASSUME NEW b \in Layout(d)
      PROVE  end(b) \in Nat /\ end(b) <= bound + 1
  <2>1. PICK i \in 1 .. Len(F) : F[i].born + 1 = end(b)
    BY <1>4
  <2>2. F[i].born \in Nat /\ F[i].born <= bound
    BY <1>3, <1>8
  <2> QED BY <2>1, <2>2
<1>10. S \in SUBSET Nat /\ S # {} /\ top \in Nat /\ \A x \in S : x <= top
  <2>1. top \in Nat /\ d.manifest.next <= top /\ killed + 1 <= top /\ bound + 1 <= top
    BY <1>1, <1>2
  <2>2. \A b \in Layout(d) : end(b) \in Nat /\ end(b) <= top
    BY <1>9, <1>1, <1>2
  <2> QED BY <1>1, <1>2, <1>7, <2>1, <2>2
<1> DEFINE mark == Max(S)
<1>11. mark \in S /\ \A x \in S : x <= mark
  <2> HIDE DEF S, top
  <2> QED BY <1>10, MaxOf
<1> HIDE DEF mark, S, top
<1>12. mark \in Nat
  BY <1>10, <1>11
<1>13. d.manifest.next <= mark
  BY <1>7, <1>11
<1>14. ASSUME NEW i \in 1 .. Len(F)
       PROVE  F[i].born < mark
  <2>1. PICK b \in Layout(d) : F[i].born < end(b)
    BY <1>5
  <2>2. end(b) \in Nat /\ end(b) <= mark /\ F[i].born \in Nat
    BY <1>3, <1>4, <1>7, <1>11
  <2> QED BY <2>1, <2>2, <1>12
<1>15. ASSUME NEW id \in DOMAIN T
       PROVE  T[id] < mark
  <2>1. T[id] \in Nat /\ T[id] <= killed /\ killed > 0
    BY <1>2
  <2>2. killed + 1 \in S
    BY <2>1, <1>7
  <2>3. killed + 1 <= mark
    BY <2>2, <1>11
  <2> QED BY <2>1, <2>3, <1>2, <1>12
<1>16. \/ mark = d.manifest.next
       \/ \E i \in 1 .. Len(F) : F[i].born + 1 = mark
       \/ \E id \in DOMAIN T : T[id] + 1 = mark
  <2>1. CASE mark = d.manifest.next
    BY <2>1
  <2>2. CASE killed > 0 /\ mark = killed + 1
    BY <2>2, <1>2
  <2>3. CASE \E b \in Layout(d) : mark = end(b)
    BY <2>3, <1>4
  <2> QED BY <2>1, <2>2, <2>3, <1>7, <1>11
<1> QED BY <1>12, <1>13, <1>14, <1>15, <1>16 DEF mark, S, F, T

\* What an undiverged disk cannot hold.
LEMMA UndivergedDisk ==
    ASSUME NEW d, NEW R, Sound(d, R), ~LoadedDiverged(d)
    PROVE  /\ DOMAIN Tombstones(d) = {}
           /\ LoadedHistory(d) = {}
           /\ \A i \in 1 .. Len(FrozenRows(d)) : FrozenRows(d)[i].born = i - 1
<1>1. DOMAIN Tombstones(d) = {}
  BY KilledAtIs DEF LoadedDiverged
<1>2. LoadedHistory(d) = {}
  <2>1. d.manifest.history \in Nat /\ ~(d.manifest.history > 0)
    BY DEF Sound, ObjectsTyped, Manifest, LoadedDiverged
  <2>2. d.manifest.history = 0
    BY <2>1
  <2>3. 0 .. d.manifest.history - 1 = {}
    BY <2>2
  <2> QED BY <2>3 DEF LoadedHistory
<1>3. ASSUME NEW i \in 1 .. Len(FrozenRows(d))
      PROVE  FrozenRows(d)[i].born = i - 1
  <2>1. PICK b \in Layout(d) : /\ i - b \in 1 .. Len(SegmentOf(d, b).rows)
                               /\ FrozenRows(d)[i] = SegmentOf(d, b).rows[i - b]
    BY FrozenSegment
  <2>2. ~SegmentOf(d, b).stamped
    BY DEF LoadedDiverged
  <2>3. SegmentOf(d, b).rows[i - b].born = b + (i - b) - 1
    BY <2>1, <2>2 DEF Sound
  <2>4. b \in Nat
    BY LayoutSegment
  <2>5. b + (i - b) - 1 = i - 1
    BY <2>4
  <2> QED BY <2>1, <2>3, <2>5
<1> QED BY <1>1, <1>2, <1>3

\* An open of a sound disk loads a well formed state.
LEMMA LoadedSound ==
    ASSUME NEW d, NEW R, Sound(d, R)
    PROVE  LET s == Loaded(d)
           IN  /\ WellFormed(s, R)
               /\ Known(s)
               /\ RowCount(s) = Len(FrozenRows(d))
               /\ s.diverged => Attained(s, d.manifest.next)
               /\ s.diverged => d.manifest.next <= s.next
<1> DEFINE s == Loaded(d)
           F == FrozenRows(d)
           T == Tombstones(d)
           H == LoadedHistory(d)
           V == LoadedDiverged(d)
           top == Max(LoadedMarks(d))
           mark == IF V THEN top ELSE 0
<1>1. /\ s = [frozen |-> F, buffer |-> << >>, base |-> Len(F), diverged |-> V,
              next |-> mark, seqBase |-> mark, births |-> << >>,
              tombs |-> T, history |-> H]
      /\ s.frozen = F /\ s.buffer = << >> /\ s.base = Len(F) /\ s.diverged = V
      /\ s.next = mark /\ s.seqBase = mark /\ s.births = << >>
      /\ s.tombs = T /\ s.history = H
  BY LoadedFields, Zenon
<1>2. F \in Seq([row : R, born : Nat]) /\ Len(F) \in Nat
  BY LenProperties DEF Sound
<1>3. /\ top \in Nat /\ d.manifest.next <= top
      /\ \A i \in 1 .. Len(F) : F[i].born < top
      /\ \A id \in DOMAIN T : T[id] < top
      /\ \/ top = d.manifest.next
         \/ \E i \in 1 .. Len(F) : F[i].born + 1 = top
         \/ \E id \in DOMAIN T : T[id] + 1 = top
  BY MarksOf, Zenon
<1>4. DOMAIN T \subseteq 0 .. Len(F) - 1 /\ \A id \in DOMAIN T : T[id] \in Nat
  BY TombstonesOf
<1>5. H \in SUBSET [row : R, born : Nat, killed : Nat]
      /\ (V => \A v \in H : v.killed < top)
  <2>1. ASSUME NEW v \in H
        PROVE  v \in [row : R, born : Nat, killed : Nat] /\ v.killed < d.manifest.next
    <3>1. PICK i \in 0 .. d.manifest.history - 1 : v \in d.history[i]
      BY DEF LoadedHistory
    <3>2. i \in DOMAIN d.history /\ v.killed < d.manifest.next
      BY <3>1 DEF Sound
    <3>3. d.history[i] \in SUBSET [row : R, born : Nat, killed : Nat]
      BY <3>2 DEF Sound, ObjectsTyped
    <3> QED BY <3>1, <3>2, <3>3
  <2>2. d.manifest.next \in Nat
    BY DEF Sound, ObjectsTyped, Manifest
  <2> HIDE DEF H, top
  <2>3. \A v \in H : v.killed \in Nat /\ v.killed < top
    <3> TAKE v \in H
    <3>1. v.killed \in Nat /\ v.killed < d.manifest.next
      BY <2>1
    <3> QED BY <3>1, <2>2, <1>3
  <2> QED BY <2>1, <2>3
<1>6. ~V => DOMAIN T = {} /\ H = {} /\ \A i \in 1 .. Len(F) : F[i].born = i - 1
  BY UndivergedDisk, Zenon
<1>7. V \in BOOLEAN
  BY DEF LoadedDiverged
<1>8. \E A : T = [id \in A |-> T[id]]
  <2>1. T = [id \in DOMAIN T |-> T[id]]
    BY DEF Tombstones
  <2> QED BY <2>1
<1> HIDE DEF s, F, T, H, V, top
<1>9. Dead(s) = DOMAIN T /\ RowCount(s) = Len(F) /\ Ids(s) = 0 .. Len(F) - 1
  <2>1. Dead(s) = DOMAIN T
    BY <1>1 DEF Dead
  <2>2. RowCount(s) = Len(F)
    <3>1. RowCount(s) = Len(F) + Len(<< >>)
      BY <1>1 DEF RowCount
    <3>2. Len(<< >>) = 0
      OBVIOUS
    <3> QED BY <3>1, <3>2, <1>2
  <2> QED BY <2>1, <2>2 DEF Ids
<1>10. s \in SharedFields(s, R)
  <2>1. mark \in Nat
    BY <1>3
  <2>2. T \in [DOMAIN T -> Nat]
    BY <1>4, <1>8
  <2>3. << >> \in Seq(R) /\ << >> \in Seq(Nat)
    OBVIOUS
  <2> HIDE DEF mark
  <2> QED BY <1>1, <1>2, <1>5, <1>7, <1>9, <2>1, <2>2, <2>3 DEF SharedFields
<1>11. Shaped(s, R)
  <2>1. s.diverged /\ s.births = << >> => s.seqBase + Len(s.buffer) = s.next
    <3>1. mark \in Nat /\ Len(<< >>) = 0
      BY <1>3
    <3> HIDE DEF mark
    <3> QED BY <3>1, <1>1
  <2> QED BY <1>1, <1>4, <1>9, <1>10, <2>1, Zenon DEF Shaped
<1>12. VirtualIsPlain(s)
  <2>1. DOMAIN F = 1 .. Len(F)
    BY <1>2, LenProperties
  <2> QED BY <1>1, <1>6, <1>9, <2>1, Zenon DEF VirtualIsPlain
<1>13. \A id \in Ids(s) : id + 1 \in 1 .. Len(F) /\ Born(s, id) = F[id + 1].born
  <2> TAKE id \in Ids(s)
  <2>1. id < Len(F) /\ id + 1 \in 1 .. Len(F)
    BY <1>2, <1>9
  <2> QED BY <2>1, <1>1 DEF Born
<1>14. Known(s)
  <2>1. CASE V
    <3>1. Watermark(s, RowCount(s)) = top
      BY <1>1, <2>1 DEF Watermark
    <3>2. \A id \in Ids(s) : Born(s, id) < top
      BY <1>3, <1>13
    <3> QED BY <3>1, <3>2, <2>1, <1>1, <1>3, <1>5, <1>9 DEF Known
  <2>2. CASE ~V
    <3>1. Watermark(s, RowCount(s)) = Len(F)
      BY <1>1, <1>9, <2>2 DEF Watermark
    <3>2. \A id \in Ids(s) : Born(s, id) < Len(F)
      <4> TAKE id \in Ids(s)
      <4>1. Born(s, id) = (id + 1) - 1 /\ id \in 0 .. Len(F) - 1
        BY <1>6, <1>9, <1>13, <2>2
      <4> QED BY <4>1, <1>2
    <3> QED BY <3>1, <3>2, <2>2, <1>1, <1>6, <1>9 DEF Known
  <2> QED BY <2>1, <2>2
<1>15. V => Attained(s, d.manifest.next)
  <2> SUFFICES ASSUME V PROVE Attained(s, d.manifest.next)
    OBVIOUS
  <2>1. s.next = top
    BY <1>1
  <2>2. CASE top = d.manifest.next
    BY <2>1, <2>2 DEF Attained
  <2>3. CASE \E i \in 1 .. Len(F) : F[i].born + 1 = top
    <3>1. PICK i \in 1 .. Len(F) : F[i].born + 1 = top
      BY <2>3
    <3>2. i - 1 \in Ids(s) /\ (i - 1) + 1 = i
      BY <1>2, <1>9
    <3>3. Born(s, i - 1) = F[i].born
      BY <1>13, <3>2
    <3> QED BY <2>1, <3>1, <3>2, <3>3 DEF Attained
  <2>4. CASE \E id \in DOMAIN T : T[id] + 1 = top
    BY <2>1, <2>4, <1>1, <1>9 DEF Attained
  <2> QED BY <2>2, <2>3, <2>4, <1>3
<1> QED BY <1>1, <1>3, <1>9, <1>11, <1>12, <1>14, <1>15 DEF WellFormed, s, F

----------------------------------------------------------------------------
\* Replay, one row and one unit at a time.

ApplyRow(s, unit, k) ==
    IF unit.bracket
    THEN AppendSuperseding(s, unit.rows[k], unit.sequence, RowCount(s))
    ELSE AppendRow(s, unit.rows[k])

IsApply(f, s, unit) ==
    f[0] = s /\ \A k \in 1 .. Len(unit.rows) : f[k] = ApplyRow(f[k - 1], unit, k)

IsReplay(f, s, units) ==
    f[0] = s /\ \A n \in 1 .. Len(units) : f[n] = ApplyUnit(f[n - 1], units[n])

LEMMA ApplyExists ==
    ASSUME NEW s, NEW unit, Len(unit.rows) \in Nat
    PROVE  \E f : IsApply(f, s, unit) /\ ApplyUnit(s, unit) = f[Len(unit.rows)]
<1> DEFINE m == Len(unit.rows)
           Body(f, n) == [k \in 0 .. n |-> IF k = 0 THEN s ELSE ApplyRow(f[k - 1], unit, k)]
           S == {n \in 0 .. m : \E f : f = Body(f, n)}
<1>1. 0 \in S
  <2> DEFINE f == [k \in 0 .. 0 |-> s]
  <2>1. f = Body(f, 0)
    OBVIOUS
  <2> HIDE DEF f
  <2>2. \E x : x = Body(x, 0)
    BY <2>1
  <2> QED BY <2>2
<1>2. ASSUME NEW n \in S, n < m
      PROVE  n + 1 \in S
  <2>1. PICK f : f = Body(f, n)
    OBVIOUS
  <2> DEFINE g == [k \in 0 .. n + 1 |-> IF k = n + 1 THEN ApplyRow(f[n], unit, n + 1)
                                                ELSE f[k]]
  <2>2. n \in Nat /\ n + 1 \in 0 .. m
    BY <1>2
  <2>3. ASSUME NEW k \in 0 .. n + 1
        PROVE  g[k] = IF k = 0 THEN s ELSE ApplyRow(g[k - 1], unit, k)
    <3>1. CASE k = n + 1
      <4>1. k # 0 /\ k - 1 = n /\ n \in 0 .. n + 1 /\ n # n + 1
        BY <2>2, <3>1
      <4>2. g[k] = ApplyRow(f[n], unit, n + 1) /\ g[n] = f[n]
        BY <3>1, <4>1
      <4> QED BY <3>1, <4>1, <4>2
    <3>2. CASE k # n + 1
      <4>1. k \in 0 .. n /\ (k # 0 => k - 1 \in 0 .. n + 1 /\ k - 1 # n + 1)
        BY <2>2, <3>2
      <4>2. g[k] = f[k] /\ (k # 0 => g[k - 1] = f[k - 1])
        BY <3>2, <4>1
      <4>3. f[k] = Body(f, n)[k]
        BY <2>1
      <4>4. f[k] = IF k = 0 THEN s ELSE ApplyRow(f[k - 1], unit, k)
        BY <4>1, <4>3
      <4> QED BY <4>2, <4>4
    <3> QED BY <3>1, <3>2
  <2>4. g = Body(g, n + 1)
    <3>1. g = [k \in 0 .. n + 1 |-> g[k]]
      OBVIOUS
    <3> HIDE DEF g
    <3> QED BY <2>3, <3>1
  <2> QED BY <2>2, <2>4
<1>3. m \in S
  <2>1. S \in SUBSET (0 .. m)
    OBVIOUS
  <2> HIDE DEF S
  <2>2. S = 0 .. m
    BY <1>1, <1>2, <2>1, NatsUpTo
  <2> QED BY <2>2
<1>4. PICK f0 : f0 = Body(f0, m)
  BY <1>3
<1> DEFINE Fix(f) == f = [k \in 0 .. Len(unit.rows) |->
                            IF k = 0 THEN s
                            ELSE IF unit.bracket
                            THEN AppendSuperseding(f[k - 1], unit.rows[k], unit.sequence,
                                                   RowCount(f[k - 1]))
                            ELSE AppendRow(f[k - 1], unit.rows[k])]
           after == CHOOSE f : Fix(f)
<1>5. ApplyUnit(s, unit) = after[m]
  BY DEF ApplyUnit
<1>6. Fix(f0)
  BY <1>4, Zenon DEF ApplyRow
<1>7. Fix(after)
  <2> HIDE DEF Fix
  <2> QED BY <1>6
<1>8. after = Body(after, m)
  <2> DEFINE a == after
  <2>1. Fix(a)
    BY <1>7
  <2> HIDE DEF a
  <2>2. a = Body(a, m)
    BY <2>1, Zenon DEF ApplyRow
  <2> QED BY <2>2 DEF a
<1> DEFINE a == after
<1>9. a = Body(a, m) /\ ApplyUnit(s, unit) = a[m]
  BY <1>5, <1>8
<1> HIDE DEF a
<1>10. IsApply(a, s, unit)
  <2>1. \A k \in 0 .. m : a[k] = IF k = 0 THEN s ELSE ApplyRow(a[k - 1], unit, k)
    <3> TAKE k \in 0 .. m
    <3>1. Body(a, m)[k] = IF k = 0 THEN s ELSE ApplyRow(a[k - 1], unit, k)
      OBVIOUS
    <3> QED BY <3>1, <1>9
  <2>2. a[0] = s /\ \A k \in 1 .. m : k \in 0 .. m /\ k # 0
    BY <2>1
  <2> QED BY <2>1, <2>2 DEF IsApply
<1> QED BY <1>9, <1>10

LEMMA ApplyIs ==
    ASSUME NEW s, NEW unit, Len(unit.rows) \in Nat, NEW f, IsApply(f, s, unit)
    PROVE  ApplyUnit(s, unit) = f[Len(unit.rows)]
<1> DEFINE m == Len(unit.rows)
<1>1. PICK g : IsApply(g, s, unit) /\ ApplyUnit(s, unit) = g[m]
  BY ApplyExists
<1> DEFINE S == {n \in 0 .. m : f[n] = g[n]}
<1>2. 0 \in S
  BY <1>1 DEF IsApply
<1>3. ASSUME NEW n \in S, n < m
      PROVE  n + 1 \in S
  <2>1. n + 1 \in 1 .. m /\ (n + 1) - 1 = n /\ n + 1 \in 0 .. m
    BY <1>3
  <2>2. f[n + 1] = ApplyRow(f[n], unit, n + 1) /\ g[n + 1] = ApplyRow(g[n], unit, n + 1)
    BY <1>1, <2>1 DEF IsApply
  <2> QED BY <2>1, <2>2
<1>4. S = 0 .. m
  <2>1. S \in SUBSET (0 .. m)
    OBVIOUS
  <2> HIDE DEF S
  <2> QED BY <1>2, <1>3, <2>1, NatsUpTo
<1> QED BY <1>1, <1>4

LEMMA ReplayExists ==
    ASSUME NEW s, NEW units, Len(units) \in Nat
    PROVE  \E f : IsReplay(f, s, units) /\ Replayed(s, units) = f[Len(units)]
<1> DEFINE m == Len(units)
           Body(f, n) == [k \in 0 .. n |-> IF k = 0 THEN s ELSE ApplyUnit(f[k - 1], units[k])]
           S == {n \in 0 .. m : \E f : f = Body(f, n)}
<1>1. 0 \in S
  <2> DEFINE f == [k \in 0 .. 0 |-> s]
  <2>1. f = Body(f, 0)
    OBVIOUS
  <2> HIDE DEF f
  <2>2. \E x : x = Body(x, 0)
    BY <2>1
  <2> QED BY <2>2
<1>2. ASSUME NEW n \in S, n < m
      PROVE  n + 1 \in S
  <2>1. PICK f : f = Body(f, n)
    OBVIOUS
  <2> DEFINE g == [k \in 0 .. n + 1 |-> IF k = n + 1 THEN ApplyUnit(f[n], units[n + 1])
                                                ELSE f[k]]
  <2>2. n \in Nat /\ n + 1 \in 0 .. m
    BY <1>2
  <2>3. ASSUME NEW k \in 0 .. n + 1
        PROVE  g[k] = IF k = 0 THEN s ELSE ApplyUnit(g[k - 1], units[k])
    <3>1. CASE k = n + 1
      <4>1. k # 0 /\ k - 1 = n /\ n \in 0 .. n + 1 /\ n # n + 1
        BY <2>2, <3>1
      <4>2. g[k] = ApplyUnit(f[n], units[n + 1]) /\ g[n] = f[n]
        BY <3>1, <4>1
      <4> QED BY <3>1, <4>1, <4>2
    <3>2. CASE k # n + 1
      <4>1. k \in 0 .. n /\ (k # 0 => k - 1 \in 0 .. n + 1 /\ k - 1 # n + 1)
        BY <2>2, <3>2
      <4>2. g[k] = f[k] /\ (k # 0 => g[k - 1] = f[k - 1])
        BY <3>2, <4>1
      <4>3. f[k] = Body(f, n)[k]
        BY <2>1
      <4>4. f[k] = IF k = 0 THEN s ELSE ApplyUnit(f[k - 1], units[k])
        BY <4>1, <4>3
      <4> QED BY <4>2, <4>4
    <3> QED BY <3>1, <3>2
  <2>4. g = Body(g, n + 1)
    <3>1. g = [k \in 0 .. n + 1 |-> g[k]]
      OBVIOUS
    <3> HIDE DEF g
    <3> QED BY <2>3, <3>1
  <2> QED BY <2>2, <2>4
<1>3. m \in S
  <2>1. S \in SUBSET (0 .. m)
    OBVIOUS
  <2> HIDE DEF S
  <2>2. S = 0 .. m
    BY <1>1, <1>2, <2>1, NatsUpTo
  <2> QED BY <2>2
<1>4. PICK f0 : f0 = Body(f0, m)
  BY <1>3
<1> DEFINE Fix(f) == f = [k \in 0 .. Len(units) |->
                            IF k = 0 THEN s ELSE ApplyUnit(f[k - 1], units[k])]
           after == CHOOSE f : Fix(f)
<1>5. Replayed(s, units) = after[m]
  BY DEF Replayed
<1>6. Fix(f0)
  BY <1>4, Zenon
<1>7. Fix(after)
  <2> HIDE DEF Fix
  <2> QED BY <1>6
<1>8. after = Body(after, m)
  <2> DEFINE a == after
  <2>1. Fix(a)
    BY <1>7
  <2> HIDE DEF a
  <2>2. a = Body(a, m)
    BY <2>1, Zenon
  <2> QED BY <2>2 DEF a
<1> DEFINE a == after
<1>9. a = Body(a, m) /\ Replayed(s, units) = a[m]
  BY <1>5, <1>8
<1> HIDE DEF a
<1>10. IsReplay(a, s, units)
  <2>1. \A k \in 0 .. m : a[k] = IF k = 0 THEN s ELSE ApplyUnit(a[k - 1], units[k])
    <3> TAKE k \in 0 .. m
    <3>1. Body(a, m)[k] = IF k = 0 THEN s ELSE ApplyUnit(a[k - 1], units[k])
      OBVIOUS
    <3> QED BY <3>1, <1>9
  <2>2. a[0] = s /\ \A k \in 1 .. m : k \in 0 .. m /\ k # 0
    BY <2>1
  <2> QED BY <2>1, <2>2 DEF IsReplay
<1> QED BY <1>9, <1>10

LEMMA ReplayIs ==
    ASSUME NEW s, NEW units, Len(units) \in Nat, NEW f, IsReplay(f, s, units)
    PROVE  Replayed(s, units) = f[Len(units)]
<1> DEFINE m == Len(units)
<1>1. PICK g : IsReplay(g, s, units) /\ Replayed(s, units) = g[m]
  BY ReplayExists
<1> DEFINE S == {n \in 0 .. m : f[n] = g[n]}
<1>2. 0 \in S
  BY <1>1 DEF IsReplay
<1>3. ASSUME NEW n \in S, n < m
      PROVE  n + 1 \in S
  <2>1. n + 1 \in 1 .. m /\ (n + 1) - 1 = n /\ n + 1 \in 0 .. m
    BY <1>3
  <2>2. f[n + 1] = ApplyUnit(f[n], units[n + 1]) /\ g[n + 1] = ApplyUnit(g[n], units[n + 1])
    BY <1>1, <2>1 DEF IsReplay
  <2> QED BY <2>1, <2>2
<1>4. S = 0 .. m
  <2>1. S \in SUBSET (0 .. m)
    OBVIOUS
  <2> HIDE DEF S
  <2> QED BY <1>2, <1>3, <2>1, NatsUpTo
<1> QED BY <1>1, <1>4

----------------------------------------------------------------------------
\* What a replayed row does to a state.

Extends(s, t, rows) ==
    /\ t.frozen = s.frozen /\ t.base = s.base
    /\ t.tombs = s.tombs /\ t.history = s.history
    /\ t.buffer = s.buffer \o rows
    /\ s.diverged => t.diverged

Reaches(s, recorded) == s.diverged => Attained(s, recorded)

LEMMA GrownIds ==
    ASSUME NEW R, NEW s, Shaped(s, R), NEW t, RowCount(t) = RowCount(s) + 1
    PROVE  /\ RowCount(s) \in Nat
           /\ Ids(t) = Ids(s) \cup {RowCount(s)} /\ RowCount(s) \notin Ids(s)
<1>1. RowCount(s) \in Nat
  BY FieldTypes
<1> QED BY <1>1 DEF Ids

LEMMA KillCoordinates ==
    ASSUME NEW R, NEW s, Shaped(s, R)
    PROVE  /\ \A id \in Dead(s) : s.tombs[id] \in Nat
           /\ \A v \in s.history : v.born \in Nat /\ v.killed \in Nat
<1>1. s.tombs \in [Dead(s) -> Nat]
  BY FieldTypes
<1>2. s.history \in SUBSET [row : R, born : Nat, killed : Nat]
  BY FieldTypes
<1> QED BY <1>1, <1>2

LEMMA AppendRowGrows ==
    ASSUME NEW R, NEW s, WellFormed(s, R), Known(s), NEW row \in R,
           NEW recorded, Reaches(s, recorded)
    PROVE  LET t == AppendRow(s, row)
           IN  /\ WellFormed(t, R) /\ Known(t) /\ Reaches(t, recorded)
               /\ Extends(s, t, << row >>)
               /\ t.diverged = s.diverged
               /\ RowCount(t) = RowCount(s) + 1
               /\ Watermark(t, RowCount(t)) = Watermark(s, RowCount(s)) + 1
<1> DEFINE t == AppendRow(s, row)
           n == RowCount(s)
           w == Watermark(s, n)
<1>1. /\ WellFormed(t, R) /\ RowCount(t) = n + 1 /\ Dead(t) = Dead(s)
  BY AppendRowKeeps
<1>2. /\ SameView(s, t) /\ Born(t, n) = w
      /\ Watermark(t, n + 1) = w + 1
      /\ t.tombs = s.tombs /\ t.history = s.history
  BY AppendRowView
<1>3. Shaped(s, R) /\ s \in SharedFields(s, R) /\ n \in Nat /\ w \in Nat
  BY FieldTypes, ViewType DEF WellFormed, Shaped
<1>4. t.frozen = s.frozen /\ t.base = s.base /\ t.diverged = s.diverged
      /\ t.buffer = Append(s.buffer, row)
      /\ (s.diverged => t.next = s.next + 1)
  BY <1>3 DEF AppendRow, SharedFields
<1>5. Append(s.buffer, row) = s.buffer \o << row >>
  <2>1. s.buffer \in Seq(R)
    BY <1>3, FieldTypes
  <2> QED BY <2>1
<1> HIDE DEF t, n, w
<1>6. Ids(t) = Ids(s) \cup {n}
  BY <1>1, <1>3, GrownIds DEF n
<1>7. \A id \in Ids(s) : Born(t, id) = Born(s, id) /\ Born(s, id) \in Nat
  BY <1>2, <1>3, ViewType DEF SameView
<1>8. Known(t)
  <2>1. /\ \A id \in Ids(s) : Born(s, id) < w
        /\ \A id \in Dead(s) : s.tombs[id] < w
        /\ \A v \in s.history : v.killed < w
    BY DEF Known, w, n
  <2>2. /\ \A id \in Dead(s) : s.tombs[id] \in Nat
        /\ \A v \in s.history : v.killed \in Nat
    BY <1>3, KillCoordinates
  <2>3. Watermark(t, RowCount(t)) = w + 1
    BY <1>1, <1>2
  <2>4. \A id \in Ids(t) : Born(t, id) < w + 1
    BY <1>2, <1>3, <1>6, <1>7, <2>1
  <2>5. \A id \in Dead(t) : t.tombs[id] < w + 1
    BY <1>1, <1>2, <1>3, <2>1, <2>2
  <2>6. \A v \in t.history : v.killed < w + 1
    BY <1>2, <1>3, <2>1, <2>2
  <2> QED BY <2>3, <2>4, <2>5, <2>6 DEF Known
<1>9. Reaches(t, recorded)
  <2>1. s.diverged => w = s.next
    BY DEF w, Watermark
  <2> QED BY <1>2, <1>4, <1>6, <2>1 DEF Reaches, Attained
<1> QED BY <1>1, <1>2, <1>4, <1>5, <1>8, <1>9 DEF Extends, t, n, w

LEMMA AppendSupersedingGrows ==
    ASSUME NEW R, NEW s, WellFormed(s, R), Known(s), NEW row \in R, NEW q \in Nat,
           NEW recorded, Reaches(s, recorded)
    PROVE  LET t == AppendSuperseding(s, row, q, RowCount(s))
               w == Watermark(s, RowCount(s))
           IN  /\ WellFormed(t, R) /\ Known(t) /\ Reaches(t, recorded)
               /\ Extends(s, t, << row >>)
               /\ t.diverged
               /\ RowCount(t) = RowCount(s) + 1
               /\ Watermark(t, RowCount(t)) = IF w < q + 1 THEN q + 1 ELSE w
<1> DEFINE n == RowCount(s)
           t == AppendSuperseding(s, row, q, n)
           w == Watermark(s, n)
           m == IF w < q + 1 THEN q + 1 ELSE w
<1>1. Shaped(s, R) /\ s \in SharedFields(s, R) /\ n \in Nat /\ w \in Nat
  BY FieldTypes, ViewType DEF WellFormed, Shaped
<1>2. /\ WellFormed(t, R) /\ t.diverged /\ RowCount(t) = n + 1 /\ Dead(t) = Dead(s)
  BY <1>1, AppendSupersedingKeeps
<1>3. /\ SameView(s, t) /\ Born(t, n) = q
      /\ Watermark(t, n + 1) = m
      /\ t.tombs = s.tombs /\ t.history = s.history
  BY <1>1, AppendSupersedingView
<1>4. t.frozen = s.frozen /\ t.base = s.base /\ t.buffer = Append(s.buffer, row)
  <2> DEFINE d == Diverged(s, n)
  <2>1. d.frozen = s.frozen /\ d.buffer = s.buffer /\ d.base = s.base
    BY <1>1, DivergedFields
  <2>2. d \in SharedFields(d, R)
    <3>1. Shaped(d, R)
      BY <1>1, DivergedKeeps
    <3> QED BY <3>1 DEF Shaped
  <2> HIDE DEF d
  <2>3. t = [d EXCEPT !.buffer = Append(@, row),
                      !.births = Append(Materialized(d), q),
                      !.next   = IF @ < q + 1 THEN q + 1 ELSE @]
    BY DEF AppendSuperseding, d
  <2> HIDE DEF t
  <2> QED BY <2>1, <2>2, <2>3 DEF SharedFields
<1>5. Append(s.buffer, row) = s.buffer \o << row >>
  <2>1. s.buffer \in Seq(R)
    BY <1>1, FieldTypes
  <2> QED BY <2>1
<1> HIDE DEF t, n, w
<1>6. Ids(t) = Ids(s) \cup {n}
  BY <1>1, <1>2, GrownIds DEF n
<1>7. \A id \in Ids(s) : Born(t, id) = Born(s, id) /\ Born(s, id) \in Nat
  BY <1>1, <1>3, ViewType DEF SameView
<1>8. m \in Nat /\ w <= m /\ q < m
  BY <1>1
<1>9. Known(t)
  <2>1. /\ \A id \in Ids(s) : Born(s, id) < w
        /\ \A id \in Dead(s) : s.tombs[id] < w
        /\ \A v \in s.history : v.killed < w
    BY DEF Known, w, n
  <2>2. /\ \A id \in Dead(s) : s.tombs[id] \in Nat
        /\ \A v \in s.history : v.killed \in Nat
    BY <1>1, KillCoordinates
  <2>3. Watermark(t, RowCount(t)) = m
    BY <1>2, <1>3
  <2> HIDE DEF m
  <2>4. \A id \in Ids(t) : Born(t, id) < m
    BY <1>1, <1>3, <1>6, <1>7, <1>8, <2>1
  <2>5. \A id \in Dead(t) : t.tombs[id] < m
    BY <1>1, <1>2, <1>3, <1>8, <2>1, <2>2
  <2>6. \A v \in t.history : v.killed < m
    BY <1>1, <1>3, <1>8, <2>1, <2>2
  <2> QED BY <2>3, <2>4, <2>5, <2>6 DEF Known
<1>10. Attained(t, recorded)
  <2>1. t.next = m
    BY <1>2, <1>3 DEF Watermark
  <2>2. CASE w < q + 1
    BY <1>3, <1>6, <2>1, <2>2 DEF Attained
  <2>3. CASE ~(w < q + 1) /\ s.diverged
    <3>1. m = s.next
      BY <2>3 DEF w, Watermark
    <3> HIDE DEF m
    <3>2. Attained(s, recorded)
      BY <2>3 DEF Reaches
    <3> QED BY <1>2, <1>3, <1>6, <1>7, <2>1, <3>1, <3>2 DEF Attained
  <2>4. CASE ~(w < q + 1) /\ ~s.diverged
    <3>1. m = w /\ w = n /\ 1 <= n
      BY <1>1, <2>4 DEF w, Watermark
    <3>2. n - 1 \in Ids(s) /\ (n - 1) + 1 = n
      BY <1>1, <3>1 DEF Ids, n
    <3>3. Born(t, n - 1) = n - 1
      BY <1>7, <2>4, <3>2, VirtualBirths
    <3> HIDE DEF m
    <3>4. n - 1 \in Ids(t) /\ Born(t, n - 1) + 1 = t.next
      BY <1>6, <2>1, <3>1, <3>2, <3>3
    <3> QED BY <3>4 DEF Attained
  <2> QED BY <2>2, <2>3, <2>4
<1> QED BY <1>2, <1>3, <1>4, <1>5, <1>9, <1>10 DEF Extends, Reaches, t, n, w

----------------------------------------------------------------------------
\* What a replayed unit, and a replayed log, do to a state.

UnitType(R) == [bracket : BOOLEAN, sequence : Nat, rows : Seq(R)]

LEMMA ExtendsNone ==
    ASSUME NEW R, NEW s, Shaped(s, R)
    PROVE  Extends(s, s, << >>)
<1>1. s.buffer \in Seq(R)
  BY FieldTypes
<1> QED BY <1>1, EmptySeq DEF Extends

LEMMA ExtendsFurther ==
    ASSUME NEW R, NEW s, Shaped(s, R), NEW t, NEW u, NEW P \in Seq(R), NEW Q \in Seq(R),
           Extends(s, t, P), Extends(t, u, Q)
    PROVE  Extends(s, u, P \o Q)
<1>1. s.buffer \in Seq(R)
  BY FieldTypes
<1>2. (s.buffer \o P) \o Q = s.buffer \o (P \o Q)
  <2> DEFINE B == s.buffer
  <2>1. B \in Seq(R)
    BY <1>1
  <2> HIDE DEF B
  <2>2. (B \o P) \o Q = B \o (P \o Q)
    BY <2>1, ConcatAssociative
  <2> QED BY <2>2 DEF B
<1> QED BY <1>2 DEF Extends

\* A set of sequences that holds the empty one and each of its members with
\* one more element holds them all.
LEMMA SeqsFrom ==
    ASSUME NEW X, NEW S \in SUBSET Seq(X), << >> \in S,
           \A f \in S, e \in X : Append(f, e) \in S
    PROVE  S = Seq(X)
<1> DEFINE N == {n \in Nat : \A f \in Seq(X) : Len(f) = n => f \in S}
<1>1. 0 \in N
  <2>1. \A f \in Seq(X) : Len(f) = 0 => f = << >>
    BY EmptySeq
  <2> QED BY <2>1
<1>2. ASSUME NEW n \in N
      PROVE  n + 1 \in N
  <2> SUFFICES ASSUME NEW f \in Seq(X), Len(f) = n + 1 PROVE f \in S
    OBVIOUS
  <2>1. f # << >>
    BY EmptySeq
  <2>2. PICK g \in Seq(X), e \in X : f = Append(g, e)
    BY <2>1, SequenceEmptyOrAppend
  <2>3. Len(g) = n
    <3>1. Len(f) = Len(g) + 1 /\ Len(g) \in Nat
      BY <2>2, AppendProperties, LenProperties
    <3> QED BY <3>1
  <2> QED BY <2>2, <2>3
<1>3. N = Nat
  <2>1. N \in SUBSET Nat
    OBVIOUS
  <2> HIDE DEF N
  <2> QED BY <1>1, <1>2, <2>1, NatsFrom
<1>4. \A f \in Seq(X) : Len(f) \in Nat
  BY LenProperties
<1> QED BY <1>3, <1>4

LEMMA AppliedNone ==
    ASSUME NEW s, NEW b, NEW q
    PROVE  ApplyUnit(s, Unit(b, q, << >>)) = s
<1> DEFINE u == Unit(b, q, << >>)
           f == [k \in {0} |-> s]
<1>1. u.rows = << >> /\ Len(u.rows) = 0
  BY DEF Unit
<1> HIDE DEF u
<1>2. f[0] = s /\ 1 .. Len(u.rows) = {}
  BY <1>1
<1> HIDE DEF f
<1>3. IsApply(f, s, u)
  BY <1>2 DEF IsApply
<1>4. ApplyUnit(s, u) = f[0]
  BY <1>1, <1>3, ApplyIs
<1> QED BY <1>2, <1>4 DEF u

LEMMA AppliedMore ==
    ASSUME NEW s, NEW b \in BOOLEAN, NEW q, NEW X, NEW rows \in Seq(X), NEW row \in X
    PROVE  LET t == ApplyUnit(s, Unit(b, q, rows))
           IN  ApplyUnit(s, Unit(b, q, Append(rows, row)))
                 = IF b THEN AppendSuperseding(t, row, q, RowCount(t))
                        ELSE AppendRow(t, row)
<1> DEFINE u == Unit(b, q, rows)
           v == Unit(b, q, Append(rows, row))
           n == Len(rows)
<1>1. u.rows = rows /\ v.rows = Append(rows, row) /\ v.bracket = b /\ u.bracket = b
      /\ u.sequence = q /\ v.sequence = q
  BY DEF Unit
<1> HIDE DEF u, v
<1>2. n \in Nat /\ Len(v.rows) = n + 1 /\ Len(u.rows) = n
  BY <1>1, LenProperties, AppendProperties
<1>3. (\A k \in 1 .. n : v.rows[k] = u.rows[k]) /\ v.rows[n + 1] = row
  BY <1>1, AppendProperties
<1>4. PICK f : IsApply(f, s, v) /\ ApplyUnit(s, v) = f[Len(v.rows)]
  BY <1>2, ApplyExists
<1>5. IsApply(f, s, u)
  <2>1. \A k \in 1 .. n : k \in 1 .. n + 1 /\ ApplyRow(f[k - 1], v, k) = ApplyRow(f[k - 1], u, k)
    BY <1>1, <1>2, <1>3 DEF ApplyRow
  <2> QED BY <1>2, <1>4, <2>1 DEF IsApply
<1>6. ApplyUnit(s, u) = f[n]
  BY <1>2, <1>5, ApplyIs
<1>7. f[n + 1] = ApplyRow(f[n], v, n + 1)
  <2>1. n + 1 \in 1 .. Len(v.rows) /\ (n + 1) - 1 = n
    BY <1>2
  <2> QED BY <1>4, <2>1 DEF IsApply
<1>8. ApplyUnit(s, v) = ApplyRow(ApplyUnit(s, u), v, n + 1)
  BY <1>2, <1>4, <1>6, <1>7
<1> QED BY <1>1, <1>3, <1>8 DEF ApplyRow, u, v

LEMMA ReplayedNone ==
    ASSUME NEW s
    PROVE  Replayed(s, << >>) = s
<1> DEFINE f == [k \in {0} |-> s]
<1>1. f[0] = s /\ 1 .. Len(<< >>) = {} /\ Len(<< >>) = 0
  OBVIOUS
<1> HIDE DEF f
<1>2. IsReplay(f, s, << >>)
  BY <1>1 DEF IsReplay
<1>3. Replayed(s, << >>) = f[0]
  BY <1>1, <1>2, ReplayIs
<1> QED BY <1>1, <1>3

LEMMA ReplayedMore ==
    ASSUME NEW s, NEW X, NEW units \in Seq(X), NEW unit \in X
    PROVE  Replayed(s, Append(units, unit)) = ApplyUnit(Replayed(s, units), unit)
<1> DEFINE n == Len(units)
           more == Append(units, unit)
<1>1. n \in Nat /\ Len(more) = n + 1
      /\ (\A k \in 1 .. n : more[k] = units[k]) /\ more[n + 1] = unit
  BY LenProperties, AppendProperties
<1> HIDE DEF more
<1>2. PICK f : IsReplay(f, s, more) /\ Replayed(s, more) = f[n + 1]
  BY <1>1, ReplayExists
<1>3. IsReplay(f, s, units)
  <2>1. \A k \in 1 .. n : k \in 1 .. n + 1
    BY <1>1
  <2> QED BY <1>1, <1>2, <2>1 DEF IsReplay
<1>4. Replayed(s, units) = f[n]
  BY <1>1, <1>3, ReplayIs
<1>5. f[n + 1] = ApplyUnit(f[n], more[n + 1])
  <2>1. n + 1 \in 1 .. Len(more) /\ (n + 1) - 1 = n
    BY <1>1
  <2> QED BY <1>2, <2>1 DEF IsReplay
<1> QED BY <1>1, <1>2, <1>4, <1>5 DEF more

\* A unit grows a state by its rows, whatever coordinate it carries.
LEMMA AppliedGrows ==
    ASSUME NEW R, NEW s, WellFormed(s, R), Known(s), NEW recorded, Reaches(s, recorded),
           NEW b \in BOOLEAN, NEW q \in Nat, NEW rows \in Seq(R)
    PROVE  LET t == ApplyUnit(s, Unit(b, q, rows))
           IN  /\ WellFormed(t, R) /\ Known(t) /\ Reaches(t, recorded)
               /\ Extends(s, t, rows)
<1> DEFINE T(f) == ApplyUnit(s, Unit(b, q, f))
           Good(f) == /\ WellFormed(T(f), R) /\ Known(T(f)) /\ Reaches(T(f), recorded)
                      /\ Extends(s, T(f), f)
           S == {f \in Seq(R) : Good(f)}
<1>1. << >> \in S
  <2>1. T(<< >>) = s
    BY AppliedNone
  <2>2. Extends(s, s, << >>)
    BY ExtendsNone DEF WellFormed
  <2>3. Good(<< >>)
    BY <2>1, <2>2, Zenon
  <2>4. << >> \in Seq(R)
    BY EmptySeq
  <2> HIDE DEF Good
  <2> QED BY <2>3, <2>4
<1>2. ASSUME NEW f \in S, NEW row \in R
      PROVE  Append(f, row) \in S
  <2>1. f \in Seq(R) /\ Good(f)
    OBVIOUS
  <2> DEFINE t == T(f)
             u == T(Append(f, row))
  <2>2. u = IF b THEN AppendSuperseding(t, row, q, RowCount(t)) ELSE AppendRow(t, row)
    BY <2>1, AppliedMore
  <2>3. WellFormed(t, R) /\ Known(t) /\ Reaches(t, recorded) /\ Extends(s, t, f)
    BY <2>1, Zenon
  <2> HIDE DEF t, u
  <2>4. /\ WellFormed(u, R) /\ Known(u) /\ Reaches(u, recorded)
        /\ Extends(t, u, << row >>)
    <3>1. CASE b
      BY <2>2, <2>3, <3>1, AppendSupersedingGrows
    <3>2. CASE ~b
      BY <2>2, <2>3, <3>2, AppendRowGrows
    <3> QED BY <3>1, <3>2
  <2>5. Extends(s, u, f \o << row >>)
    <3>1. Shaped(s, R) /\ << row >> \in Seq(R)
      BY DEF WellFormed
    <3> QED BY <2>1, <2>3, <2>4, <3>1, ExtendsFurther
  <2>6. Append(f, row) = f \o << row >> /\ Append(f, row) \in Seq(R)
    BY <2>1, AppendIsConcat, AppendProperties
  <2>7. Good(Append(f, row))
    BY <2>4, <2>5, <2>6, Zenon DEF u
  <2> HIDE DEF Good
  <2> QED BY <2>6, <2>7
<1>3. S = Seq(R)
  <2>1. S \in SUBSET Seq(R)
    OBVIOUS
  <2> HIDE DEF S
  <2> QED BY <1>1, <1>2, <2>1, SeqsFrom
<1>4. Good(rows)
  <2> HIDE DEF Good
  <2> QED BY <1>3
<1> QED BY <1>4, Zenon

LEMMA ReplayedGrows ==
    ASSUME NEW R, NEW s, WellFormed(s, R), Known(s), NEW recorded, Reaches(s, recorded),
           NEW units \in Seq(UnitType(R))
    PROVE  LET t == Replayed(s, units)
           IN  /\ WellFormed(t, R) /\ Known(t) /\ Reaches(t, recorded)
               /\ \E rows \in Seq(R) : Extends(s, t, rows)
<1> DEFINE T(f) == Replayed(s, f)
           Good(f) == /\ WellFormed(T(f), R) /\ Known(T(f)) /\ Reaches(T(f), recorded)
                      /\ \E rows \in Seq(R) : Extends(s, T(f), rows)
           S == {f \in Seq(UnitType(R)) : Good(f)}
<1>1. << >> \in S
  <2>1. T(<< >>) = s
    BY ReplayedNone
  <2>2. Extends(s, s, << >>) /\ << >> \in Seq(R)
    BY ExtendsNone, EmptySeq DEF WellFormed
  <2>3. Good(<< >>)
    BY <2>1, <2>2, Zenon
  <2>4. << >> \in Seq(UnitType(R))
    BY EmptySeq
  <2> HIDE DEF Good
  <2> QED BY <2>3, <2>4
<1>2. ASSUME NEW f \in S, NEW unit \in UnitType(R)
      PROVE  Append(f, unit) \in S
  <2>1. f \in Seq(UnitType(R)) /\ Good(f)
    OBVIOUS
  <2> DEFINE t == T(f)
             u == T(Append(f, unit))
  <2>2. u = ApplyUnit(t, unit)
    BY <2>1, ReplayedMore
  <2>3. WellFormed(t, R) /\ Known(t) /\ Reaches(t, recorded)
    BY <2>1, Zenon
  <2>4. PICK P \in Seq(R) : Extends(s, t, P)
    BY <2>1, Zenon
  <2> HIDE DEF t, u
  <2>5. /\ unit.bracket \in BOOLEAN /\ unit.sequence \in Nat /\ unit.rows \in Seq(R)
        /\ unit = Unit(unit.bracket, unit.sequence, unit.rows)
    BY DEF UnitType, Unit
  <2> DEFINE b == unit.bracket
             q == unit.sequence
             Q == unit.rows
  <2>6. b \in BOOLEAN /\ q \in Nat /\ Q \in Seq(R) /\ u = ApplyUnit(t, Unit(b, q, Q))
    BY <2>2, <2>5
  <2> HIDE DEF b, q, Q
  <2>7. /\ WellFormed(u, R) /\ Known(u) /\ Reaches(u, recorded)
        /\ Extends(t, u, Q)
    BY <2>3, <2>6, AppliedGrows
  <2>8. Extends(s, u, P \o Q) /\ P \o Q \in Seq(R)
    <3>1. Shaped(s, R)
      BY DEF WellFormed
    <3> QED BY <2>4, <2>6, <2>7, <3>1, ExtendsFurther, ConcatProperties
  <2>9. Append(f, unit) \in Seq(UnitType(R))
    BY <2>1, AppendProperties
  <2>10. Good(Append(f, unit))
    BY <2>7, <2>8, Zenon DEF u
  <2> HIDE DEF Good
  <2> QED BY <2>9, <2>10
<1>3. S = Seq(UnitType(R))
  <2>1. S \in SUBSET Seq(UnitType(R))
    OBVIOUS
  <2> HIDE DEF S
  <2> QED BY <1>1, <1>2, <2>1, SeqsFrom
<1>4. Good(units)
  <2> HIDE DEF Good
  <2> QED BY <1>3
<1> QED BY <1>4, Zenon
----------------------------------------------------------------------------
\* The units of a log.

Entry(R) ==
    {e \in [kind : {"row", "bracket", "torn"}, row : R \cup {0},
            sequence : Nat, count : Nat] : e.kind = "row" => e.row \in R}

\* A complete bracket: the rows its record announces follow it.
Complete(e, i) ==
    /\ i + e[i].count <= Len(e)
    /\ \A k \in (i + 1) .. (i + e[i].count) : e[k].kind = "row"

BracketUnit(e, i) ==
    Unit(TRUE, e[i].sequence, [k \in 1 .. e[i].count |-> e[i + k].row])

\* The units from record i on, given those from the later ones.
UnitsStep(f, e, committed, i) ==
    IF i > Len(e) THEN << >>
    ELSE IF e[i].kind = "row"
    THEN << Unit(FALSE, 0, << e[i].row >>) >> \o f[i + 1]
    ELSE IF ~Complete(e, i) THEN << >>
    ELSE (IF e[i].sequence \in committed \/ i + e[i].count < Len(e)
          THEN << BracketUnit(e, i) >> ELSE << >>) \o f[i + e[i].count + 1]

IsUnits(f, e, committed) ==
    \A i \in 1 .. Len(e) + 1 : f[i] = UnitsStep(f, e, committed, i)

LEMMA UnitsLocal ==
    ASSUME NEW e, Len(e) \in Nat, NEW committed, NEW i \in 1 .. Len(e) + 1,
           i <= Len(e) => e[i].count \in Nat,
           NEW f, NEW g, \A j \in (i + 1) .. (Len(e) + 1) : f[j] = g[j]
    PROVE  UnitsStep(f, e, committed, i) = UnitsStep(g, e, committed, i)
<1>1. i <= Len(e) => f[i + 1] = g[i + 1]
  OBVIOUS
<1>2. i <= Len(e) /\ Complete(e, i)
        => f[i + e[i].count + 1] = g[i + e[i].count + 1]
  <2> SUFFICES ASSUME i <= Len(e), Complete(e, i)
               PROVE  i + e[i].count + 1 \in (i + 1) .. (Len(e) + 1)
    OBVIOUS
  <2>1. i + e[i].count <= Len(e) /\ e[i].count \in Nat /\ i \in Nat
    BY DEF Complete
  <2> DEFINE c == e[i].count
  <2> HIDE DEF c
  <2>2. i + c <= Len(e) /\ c \in Nat /\ i \in Nat
    BY <2>1 DEF c
  <2>3. i + c + 1 \in (i + 1) .. (Len(e) + 1)
    BY <2>2
  <2> QED BY <2>3 DEF c
<1>3. CASE i > Len(e)
  BY <1>3 DEF UnitsStep
<1>4. CASE i <= Len(e)
  <2>1. ~(i > Len(e))
    BY <1>4
  <2>2. CASE e[i].kind = "row"
    BY <2>1, <2>2, <1>1, <1>4, Zenon DEF UnitsStep
  <2>3. CASE e[i].kind # "row" /\ ~Complete(e, i)
    BY <2>1, <2>3, Zenon DEF UnitsStep
  <2>4. CASE e[i].kind # "row" /\ Complete(e, i)
    BY <2>1, <2>4, <1>2, <1>4, Zenon DEF UnitsStep
  <2> QED BY <2>2, <2>3, <2>4
<1> QED BY <1>3, <1>4

LEMMA UnitsExists ==
    ASSUME NEW e, Len(e) \in Nat, \A i \in 1 .. Len(e) : e[i].count \in Nat, NEW committed
    PROVE  \E f : IsUnits(f, e, committed) /\ Units(e, committed) = f[1]
<1> DEFINE m == Len(e)
           Body(f, n) == [i \in (m + 1 - n) .. (m + 1) |-> UnitsStep(f, e, committed, i)]
           S == {n \in 0 .. m : \E f : f = Body(f, n)}
<1>1. 0 \in S
  <2> DEFINE f == [i \in (m + 1) .. (m + 1) |-> << >>]
  <2>1. f = Body(f, 0)
    <3>1. \A i \in (m + 1) .. (m + 1) : i > m
      OBVIOUS
    <3>2. \A i \in (m + 1) .. (m + 1) : UnitsStep(f, e, committed, i) = << >>
      BY <3>1, Zenon DEF UnitsStep
    <3>3. m + 1 - 0 = m + 1
      OBVIOUS
    <3> HIDE DEF m
    <3> QED BY <3>2, <3>3
  <2> HIDE DEF f
  <2>2. \E x : x = Body(x, 0)
    BY <2>1
  <2> QED BY <2>2
<1>2. ASSUME NEW n \in S, n < m
      PROVE  n + 1 \in S
  <2>1. PICK f : f = Body(f, n)
    OBVIOUS
  <2> DEFINE h == m - n
             g == [i \in h .. (m + 1) |-> IF i = h THEN UnitsStep(f, e, committed, h)
                                          ELSE f[i]]
  <2>2. n \in Nat /\ n + 1 \in 0 .. m /\ h \in 1 .. m /\ m + 1 - n = h + 1
        /\ m + 1 - (n + 1) = h /\ m \in Nat
    BY <1>2
  <2>3. ASSUME NEW i \in (h + 1) .. (m + 1)
        PROVE  f[i] = UnitsStep(f, e, committed, i) /\ g[i] = f[i]
    <3>1. i \in (m + 1 - n) .. (m + 1)
      BY <2>2
    <3>2. Body(f, n)[i] = UnitsStep(f, e, committed, i)
      BY <3>1
    <3>3. g[i] = f[i]
      BY <2>2
    <3> QED BY <2>1, <3>2, <3>3
  <2> HIDE DEF h, m
  <2>4. ASSUME NEW i \in h .. (m + 1)
        PROVE  g[i] = UnitsStep(g, e, committed, i)
    <3>1. i \in 1 .. m + 1 /\ i \in Nat
      BY <2>2
    <3>2. \A j \in (i + 1) .. (m + 1) : j \in (h + 1) .. (m + 1)
      BY <2>2
    <3> HIDE DEF g
    <3>3. \A j \in (i + 1) .. (m + 1) : f[j] = g[j]
      BY <2>3, <3>2
    <3>4. i <= m => e[i].count \in Nat
      BY <3>1, <2>2 DEF m
    <3>5. UnitsStep(f, e, committed, i) = UnitsStep(g, e, committed, i)
      BY <3>1, <3>3, <3>4, <2>2, UnitsLocal DEF m
    <3>6. g[i] = UnitsStep(f, e, committed, i)
      <4>1. CASE i = h
        BY <4>1 DEF g
      <4>2. CASE i # h
        <5>1. i \in (h + 1) .. (m + 1)
          BY <4>2, <2>2
        <5> QED BY <5>1, <2>3
      <4> QED BY <4>1, <4>2
    <3> QED BY <3>5, <3>6
  <2>5. g = Body(g, n + 1)
    <3>1. g = [i \in h .. (m + 1) |-> g[i]]
      OBVIOUS
    <3> HIDE DEF g
    <3>2. g = [i \in h .. (m + 1) |-> UnitsStep(g, e, committed, i)]
      BY <2>4, <3>1
    <3> QED BY <3>2, <2>2
  <2> QED BY <2>2, <2>5
<1>3. m \in S
  <2>1. S \in SUBSET (0 .. m)
    OBVIOUS
  <2> HIDE DEF S
  <2>2. S = 0 .. m
    BY <1>1, <1>2, <2>1, NatsUpTo
  <2> QED BY <2>2
<1>4. PICK f0 : f0 = Body(f0, m)
  BY <1>3
<1>5. m + 1 - m = 1
  OBVIOUS
<1> DEFINE Fix(f) ==
      f = [i \in 1 .. Len(e) + 1 |->
             IF i > Len(e) THEN << >>
             ELSE IF e[i].kind = "row"
             THEN << Unit(FALSE, 0, << e[i].row >>) >> \o f[i + 1]
             ELSE LET last     == i + e[i].count
                      complete == /\ last <= Len(e)
                                  /\ \A k \in (i + 1) .. last : e[k].kind = "row"
                      replays  == e[i].sequence \in committed \/ last < Len(e)
                      unit     == Unit(TRUE, e[i].sequence,
                                       [k \in 1 .. e[i].count |-> e[i + k].row])
                  IN  IF ~complete THEN << >>
                      ELSE (IF replays THEN << unit >> ELSE << >>) \o f[last + 1]]
           from == CHOOSE f : Fix(f)
<1>6. Units(e, committed) = from[1]
  BY DEF Units
<1>7. ASSUME NEW f
      PROVE  Fix(f) <=> f = [i \in 1 .. m + 1 |-> UnitsStep(f, e, committed, i)]
  BY Zenon DEF UnitsStep, Complete, BracketUnit
<1>8. Fix(f0)
  <2>1. f0 = [i \in 1 .. m + 1 |-> UnitsStep(f0, e, committed, i)]
    BY <1>4, <1>5
  <2> HIDE DEF Fix
  <2> QED BY <1>7, <2>1
<1>9. Fix(from)
  <2> HIDE DEF Fix
  <2> QED BY <1>8
<1> DEFINE a == from
<1>10. a = [i \in 1 .. m + 1 |-> UnitsStep(a, e, committed, i)] /\ Units(e, committed) = a[1]
  <2> HIDE DEF Fix
  <2> QED BY <1>6, <1>7, <1>9
<1> HIDE DEF a
<1>11. IsUnits(a, e, committed)
  BY <1>10 DEF IsUnits
<1> QED BY <1>10, <1>11

\* Downward induction: what holds at the end, and at each place if at all
\* later ones, holds everywhere.
LEMMA Downward ==
    ASSUME NEW m \in Nat, NEW S \in SUBSET (1 .. m),
           \A i \in 1 .. m : (\A j \in (i + 1) .. m : j \in S) => i \in S
    PROVE  S = 1 .. m
<1> DEFINE T == {n \in 0 .. m : \A j \in (m + 1 - n) .. m : j \in S}
<1>1. 0 \in T
  OBVIOUS
<1>2. ASSUME NEW n \in T, n < m
      PROVE  n + 1 \in T
  <2>1. \A j \in (m - n + 1) .. m : j \in S
    OBVIOUS
  <2>2. m - n \in 1 .. m
    BY <1>2
  <2>3. m - n \in S
    BY <2>1, <2>2
  <2>4. \A j \in (m + 1 - (n + 1)) .. m : j \in S
    <3> TAKE j \in (m + 1 - (n + 1)) .. m
    <3>1. j = m - n \/ j \in (m - n + 1) .. m
      OBVIOUS
    <3> QED BY <2>1, <2>3, <3>1
  <2> QED BY <2>4, <1>2
<1>3. m \in T
  <2>1. T \in SUBSET (0 .. m)
    OBVIOUS
  <2> HIDE DEF T
  <2>2. T = 0 .. m
    BY <1>1, <1>2, <2>1, NatsUpTo
  <2> QED BY <2>2
<1>4. \A j \in (m + 1 - m) .. m : j \in S
  BY <1>3
<1>5. (m + 1 - m) .. m = 1 .. m
  OBVIOUS
<1> QED BY <1>4, <1>5

LEMMA UnitsIs ==
    ASSUME NEW e, Len(e) \in Nat, \A i \in 1 .. Len(e) : e[i].count \in Nat,
           NEW committed, NEW f, IsUnits(f, e, committed)
    PROVE  Units(e, committed) = f[1]
<1>1. PICK g : IsUnits(g, e, committed) /\ Units(e, committed) = g[1]
  BY UnitsExists
<1> DEFINE m == Len(e) + 1
           S == {i \in 1 .. m : f[i] = g[i]}
<1>2. ASSUME NEW i \in 1 .. m, \A j \in (i + 1) .. m : j \in S
      PROVE  i \in S
  <2>1. \A j \in (i + 1) .. (Len(e) + 1) : f[j] = g[j]
    BY <1>2
  <2>2. i <= Len(e) => e[i].count \in Nat
    OBVIOUS
  <2>3. UnitsStep(f, e, committed, i) = UnitsStep(g, e, committed, i)
    BY <2>1, <2>2, UnitsLocal
  <2>4. f[i] = g[i]
    BY <1>1, <2>3 DEF IsUnits
  <2> QED BY <2>4
<1>3. m \in Nat /\ S \in SUBSET (1 .. m)
  OBVIOUS
<1>4. S = 1 .. m
  <2> HIDE DEF S, m
  <2> QED BY <1>2, <1>3, Downward
<1>5. 1 \in 1 .. m
  OBVIOUS
<1> QED BY <1>1, <1>4, <1>5

\* A log's units are made of its rows and its coordinates.
LEMMA UnitsTyped ==
    ASSUME NEW R, NEW e \in Seq(Entry(R)), NEW committed
    PROVE  Units(e, committed) \in Seq(UnitType(R))
<1> DEFINE m == Len(e) + 1
           U == UnitType(R)
<1>1. Len(e) \in Nat /\ \A i \in 1 .. Len(e) : e[i] \in Entry(R)
  BY LenProperties, ElementOfSeq
<1>2. \A i \in 1 .. Len(e) : /\ e[i].count \in Nat /\ e[i].sequence \in Nat
                             /\ e[i].kind = "row" => e[i].row \in R
  BY <1>1 DEF Entry
<1>3. PICK f : IsUnits(f, e, committed) /\ Units(e, committed) = f[1]
  BY <1>1, <1>2, UnitsExists
<1> DEFINE S == {i \in 1 .. m : f[i] \in Seq(U)}
<1>4. ASSUME NEW i \in 1 .. m, \A j \in (i + 1) .. m : j \in S
      PROVE  i \in S
  <2>1. f[i] = UnitsStep(f, e, committed, i)
    BY <1>3 DEF IsUnits
  <2>2. CASE i > Len(e)
    <3>1. f[i] = << >>
      BY <2>1, <2>2 DEF UnitsStep
    <3>2. << >> \in Seq(U)
      BY EmptySeq
    <3> QED BY <3>1, <3>2
  <2>3. CASE i <= Len(e) /\ e[i].kind = "row"
    <3>1. i + 1 \in (i + 1) .. m /\ i \in 1 .. Len(e) /\ ~(i > Len(e))
      BY <2>3, <1>1
    <3>2. f[i + 1] \in Seq(U)
      BY <3>1, <1>4
    <3>3. Unit(FALSE, 0, << e[i].row >>) \in U
      <4>1. << e[i].row >> \in Seq(R)
        BY <3>1, <2>3, <1>2
      <4> QED BY <4>1 DEF Unit, UnitType
    <3>4. f[i] = << Unit(FALSE, 0, << e[i].row >>) >> \o f[i + 1]
      BY <2>1, <2>3, <3>1, Zenon DEF UnitsStep
    <3>5. << Unit(FALSE, 0, << e[i].row >>) >> \in Seq(U)
      <4> DEFINE u == Unit(FALSE, 0, << e[i].row >>)
      <4> HIDE DEF u, U
      <4>1. u \in U
        BY <3>3 DEF u
      <4>2. << u >> \in Seq(U)
        BY <4>1
      <4> QED BY <4>2 DEF u
    <3> HIDE DEF U
    <3> QED BY <3>2, <3>4, <3>5, ConcatProperties
  <2>4. CASE i <= Len(e) /\ e[i].kind # "row" /\ ~Complete(e, i)
    <3>1. f[i] = << >>
      BY <2>1, <2>4, <1>1 DEF UnitsStep
    <3>2. << >> \in Seq(U)
      BY EmptySeq
    <3> QED BY <3>1, <3>2
  <2>5. CASE i <= Len(e) /\ e[i].kind # "row" /\ Complete(e, i)
    <3> DEFINE c == e[i].count
               last == i + c
               head == IF e[i].sequence \in committed \/ last < Len(e)
                       THEN << BracketUnit(e, i) >> ELSE << >>
    <3>1. i \in 1 .. Len(e) /\ ~(i > Len(e)) /\ i \in Nat
      BY <2>5, <1>1
    <3>2. c \in Nat /\ last <= Len(e) /\ \A k \in (i + 1) .. last : e[k].kind = "row"
      BY <2>5, <3>1, <1>2 DEF Complete
    <3>3. f[i] = head \o f[last + 1]
      BY <2>1, <2>5, <3>1, Zenon DEF UnitsStep
    <3>4. last + 1 \in (i + 1) .. m
      <4> HIDE DEF c
      <4> QED BY <3>1, <3>2, <1>1
    <3>5. f[last + 1] \in Seq(U)
      <4> HIDE DEF last
      <4> QED BY <3>4, <1>4
    <3>6. BracketUnit(e, i) \in U
      <4>1. \A k \in 1 .. c : e[i + k].row \in R
        <5> TAKE k \in 1 .. c
        <5> DEFINE j == i + k
        <5>1. j \in (i + 1) .. last /\ j \in 1 .. Len(e)
          <6> HIDE DEF c
          <6> QED BY <3>1, <3>2, <1>1
        <5> HIDE DEF j, last
        <5>2. e[j].row \in R
          BY <5>1, <3>2, <1>2
        <5> QED BY <5>2 DEF j
      <4> DEFINE rows == [k \in 1 .. c |-> e[i + k].row]
      <4>2. rows \in [1 .. c -> R]
        BY <4>1
      <4>3. rows \in Seq(R)
        <5> HIDE DEF rows, c
        <5> QED BY <3>2, <4>2, FunctionIsSeq
      <4>4. e[i].sequence \in Nat
        BY <3>1, <1>2
      <4>5. BracketUnit(e, i) = Unit(TRUE, e[i].sequence, rows)
        BY DEF BracketUnit
      <4> HIDE DEF rows
      <4> QED BY <4>3, <4>4, <4>5 DEF Unit, UnitType
    <3>7. head \in Seq(U)
      <4> DEFINE u == BracketUnit(e, i)
      <4>1. u \in U
        BY <3>6
      <4> HIDE DEF u, U
      <4>2. << u >> \in Seq(U) /\ << >> \in Seq(U)
        BY <4>1
      <4> QED BY <4>2 DEF u
    <3> HIDE DEF head, U, last
    <3> QED BY <3>3, <3>5, <3>7, ConcatProperties
  <2>6. i > Len(e) \/ i <= Len(e)
    BY <1>1
  <2> QED BY <2>2, <2>3, <2>4, <2>5, <2>6
<1>5. m \in Nat /\ S \in SUBSET (1 .. m)
  BY <1>1
<1>6. S = 1 .. m
  <2> HIDE DEF S, m
  <2> QED BY <1>4, <1>5, Downward
<1>7. 1 \in S
  BY <1>6, <1>1
<1> QED BY <1>3, <1>7

LEMMA CleanTyped ==
    ASSUME NEW X, NEW e \in Seq(X)
    PROVE  Clean(e) \in Seq(X)
<1> DEFINE torn == {i \in DOMAIN e : e[i].kind = "torn"}
           S == torn \cup {Len(e) + 1}
<1>1. Len(e) \in Nat /\ DOMAIN e = 1 .. Len(e)
  BY LenProperties
<1>2. S \in SUBSET Nat /\ S # {} /\ \A x \in S : x >= 1 /\ x <= Len(e) + 1
  BY <1>1
<1>3. Min(S) \in S
  <2> HIDE DEF S
  <2> QED BY <1>2, MinOf
<1> DEFINE last == Min(S) - 1
<1>4. last \in 0 .. Len(e)
  <2>1. Min(S) \in Nat /\ Min(S) >= 1 /\ Min(S) <= Len(e) + 1
    BY <1>2, <1>3
  <2> QED BY <2>1, <1>1
<1>5. Clean(e) = SubSeq(e, 1, last)
  BY DEF Clean
<1> HIDE DEF last
<1>6. SubSeq(e, 1, last) \in Seq(X)
  BY <1>1, <1>4, SubSeqProperties
<1> QED BY <1>5, <1>6

LEMMA UncoveredTyped ==
    ASSUME NEW X, NEW units \in Seq(X), NEW covered
    PROVE  Uncovered(units, covered) \in Seq(X)
<1> DEFINE rows == CHOOSE f : f = [n \in 0 .. Len(units) |->
                                     IF n = 0 THEN 0 ELSE f[n - 1] + Len(units[n].rows)]
           S == {i \in DOMAIN units : rows[i - 1] >= covered} \cup {Len(units) + 1}
<1>1. Uncovered(units, covered) = SubSeq(units, Min(S), Len(units))
  BY DEF Uncovered
<1>2. Len(units) \in Nat /\ DOMAIN units = 1 .. Len(units)
  BY LenProperties
<1>3. S \in SUBSET Nat /\ S # {} /\ \A x \in S : x >= 1 /\ x <= Len(units) + 1
  <2> HIDE DEF rows
  <2> QED BY <1>2
<1>4. Min(S) \in S
  <2> HIDE DEF S
  <2> QED BY <1>3, MinOf
<1> DEFINE first == Min(S)
<1>5. first \in 1 .. Len(units) + 1
  BY <1>2, <1>3, <1>4
<1>6. Uncovered(units, covered) = SubSeq(units, first, Len(units))
  BY <1>1
<1> HIDE DEF first
<1>7. SubSeq(units, first, Len(units)) \in Seq(X)
  BY <1>2, <1>5, SubSeqProperties
<1> QED BY <1>6, <1>7

\* The units of a disk's log that an open replays.
Log(R) == [present : BOOLEAN, generation : Nat, base : Nat,
           entries : Seq(Entry(R)), synced : Nat]

LEMMA ReplayUnitsTyped ==
    ASSUME NEW R, NEW d, d.wal \in Log(R)
    PROVE  ReplayUnits(d) \in Seq(UnitType(R))
<1> DEFINE C == CommittedSupersessions(d)
           e == Clean(d.wal.entries)
           covered == Max({0, Extent(d) - d.wal.base})
<1>1. d.wal.entries \in Seq(Entry(R))
  BY DEF Log
<1>2. e \in Seq(Entry(R))
  BY <1>1, CleanTyped
<1>3. ReplayUnits(d) = IF ~d.wal.present \/ d.wal.generation # d.manifest.generation
                       THEN << >> ELSE Uncovered(Units(e, C), covered)
  BY DEF ReplayUnits
<1> HIDE DEF e, C, covered
<1>4. Units(e, C) \in Seq(UnitType(R))
  BY <1>2, UnitsTyped
<1> DEFINE U == UnitType(R)
           us == Units(e, C)
<1>5. us \in Seq(U)
  BY <1>4
<1> HIDE DEF U, us
<1>6. Uncovered(us, covered) \in Seq(U) /\ << >> \in Seq(U)
  BY <1>5, UncoveredTyped, EmptySeq
<1> QED BY <1>3, <1>6 DEF us, U

----------------------------------------------------------------------------
\* The log rewritten from its units.

IsEncoded(f, units) ==
    f[0] = << >> /\ \A n \in 1 .. Len(units) : f[n] = f[n - 1] \o EntriesOf(units[n])

LEMMA EncodedExists ==
    ASSUME NEW units, Len(units) \in Nat
    PROVE  \E f : IsEncoded(f, units) /\ Encoded(units) = f[Len(units)]
<1> DEFINE m == Len(units)
           Body(f, n) == [k \in 0 .. n |-> IF k = 0 THEN << >>
                                           ELSE f[k - 1] \o EntriesOf(units[k])]
           S == {n \in 0 .. m : \E f : f = Body(f, n)}
<1>1. 0 \in S
  <2> DEFINE f == [k \in 0 .. 0 |-> << >>]
  <2>1. f = Body(f, 0)
    OBVIOUS
  <2> HIDE DEF f
  <2>2. \E x : x = Body(x, 0)
    BY <2>1
  <2> QED BY <2>2
<1>2. ASSUME NEW n \in S, n < m
      PROVE  n + 1 \in S
  <2>1. PICK f : f = Body(f, n)
    OBVIOUS
  <2> DEFINE g == [k \in 0 .. n + 1 |-> IF k = n + 1 THEN f[n] \o EntriesOf(units[n + 1])
                                                ELSE f[k]]
  <2>2. n \in Nat /\ n + 1 \in 0 .. m
    BY <1>2
  <2>3. ASSUME NEW k \in 0 .. n + 1
        PROVE  g[k] = IF k = 0 THEN << >> ELSE g[k - 1] \o EntriesOf(units[k])
    <3>1. CASE k = n + 1
      <4>1. k # 0 /\ k - 1 = n /\ n \in 0 .. n + 1 /\ n # n + 1
        BY <2>2, <3>1
      <4>2. g[k] = f[n] \o EntriesOf(units[n + 1]) /\ g[n] = f[n]
        BY <3>1, <4>1
      <4> QED BY <3>1, <4>1, <4>2
    <3>2. CASE k # n + 1
      <4>1. k \in 0 .. n /\ (k # 0 => k - 1 \in 0 .. n + 1 /\ k - 1 # n + 1)
        BY <2>2, <3>2
      <4>2. g[k] = f[k] /\ (k # 0 => g[k - 1] = f[k - 1])
        BY <3>2, <4>1
      <4>3. f[k] = Body(f, n)[k]
        BY <2>1
      <4>4. f[k] = IF k = 0 THEN << >> ELSE f[k - 1] \o EntriesOf(units[k])
        BY <4>1, <4>3
      <4> QED BY <4>2, <4>4
    <3> QED BY <3>1, <3>2
  <2>4. g = Body(g, n + 1)
    <3>1. g = [k \in 0 .. n + 1 |-> g[k]]
      OBVIOUS
    <3> HIDE DEF g
    <3> QED BY <2>3, <3>1
  <2> QED BY <2>2, <2>4
<1>3. m \in S
  <2>1. S \in SUBSET (0 .. m)
    OBVIOUS
  <2> HIDE DEF S
  <2>2. S = 0 .. m
    BY <1>1, <1>2, <2>1, NatsUpTo
  <2> QED BY <2>2
<1>4. PICK f0 : f0 = Body(f0, m)
  BY <1>3
<1> DEFINE Fix(f) == f = [k \in 0 .. Len(units) |->
                            IF k = 0 THEN << >> ELSE f[k - 1] \o EntriesOf(units[k])]
           upto == CHOOSE f : Fix(f)
<1>5. Encoded(units) = upto[m]
  BY DEF Encoded
<1>6. Fix(f0)
  BY <1>4, Zenon
<1>7. Fix(upto)
  <2> HIDE DEF Fix
  <2> QED BY <1>6
<1>8. upto = Body(upto, m)
  <2> DEFINE a == upto
  <2>1. Fix(a)
    BY <1>7
  <2> HIDE DEF a
  <2>2. a = Body(a, m)
    BY <2>1, Zenon
  <2> QED BY <2>2 DEF a
<1> DEFINE a == upto
<1>9. a = Body(a, m) /\ Encoded(units) = a[m]
  BY <1>5, <1>8
<1> HIDE DEF a
<1>10. IsEncoded(a, units)
  <2>1. \A k \in 0 .. m : a[k] = IF k = 0 THEN << >> ELSE a[k - 1] \o EntriesOf(units[k])
    <3> TAKE k \in 0 .. m
    <3>1. Body(a, m)[k] = IF k = 0 THEN << >> ELSE a[k - 1] \o EntriesOf(units[k])
      OBVIOUS
    <3> QED BY <3>1, <1>9
  <2>2. a[0] = << >> /\ \A k \in 1 .. m : k \in 0 .. m /\ k # 0
    BY <2>1
  <2> QED BY <2>1, <2>2 DEF IsEncoded
<1> QED BY <1>9, <1>10

LEMMA EncodedIs ==
    ASSUME NEW units, Len(units) \in Nat, NEW f, IsEncoded(f, units)
    PROVE  Encoded(units) = f[Len(units)]
<1> DEFINE m == Len(units)
<1>1. PICK g : IsEncoded(g, units) /\ Encoded(units) = g[m]
  BY EncodedExists
<1> DEFINE S == {n \in 0 .. m : f[n] = g[n]}
<1>2. 0 \in S
  BY <1>1 DEF IsEncoded
<1>3. ASSUME NEW n \in S, n < m
      PROVE  n + 1 \in S
  <2>1. n + 1 \in 1 .. m /\ (n + 1) - 1 = n /\ n + 1 \in 0 .. m
    BY <1>3
  <2>2. f[n + 1] = f[n] \o EntriesOf(units[n + 1])
        /\ g[n + 1] = g[n] \o EntriesOf(units[n + 1])
    BY <1>1, <2>1 DEF IsEncoded
  <2> QED BY <2>1, <2>2
<1>4. S = 0 .. m
  <2>1. S \in SUBSET (0 .. m)
    OBVIOUS
  <2> HIDE DEF S
  <2> QED BY <1>2, <1>3, <2>1, NatsUpTo
<1> QED BY <1>1, <1>4

LEMMA EncodedNone == Encoded(<< >>) = << >>
<1> DEFINE f == [k \in {0} |-> << >>]
<1>1. f[0] = << >> /\ 1 .. Len(<< >>) = {} /\ Len(<< >>) = 0
  OBVIOUS
<1> HIDE DEF f
<1>2. IsEncoded(f, << >>)
  BY <1>1 DEF IsEncoded
<1>3. Encoded(<< >>) = f[0]
  BY <1>1, <1>2, EncodedIs
<1> QED BY <1>1, <1>3

LEMMA EncodedMore ==
    ASSUME NEW X, NEW units \in Seq(X), NEW unit \in X
    PROVE  Encoded(Append(units, unit)) = Encoded(units) \o EntriesOf(unit)
<1> DEFINE n == Len(units)
           more == Append(units, unit)
<1>1. n \in Nat /\ Len(more) = n + 1
      /\ (\A k \in 1 .. n : more[k] = units[k]) /\ more[n + 1] = unit
  BY LenProperties, AppendProperties
<1> HIDE DEF more
<1>2. PICK f : IsEncoded(f, more) /\ Encoded(more) = f[n + 1]
  BY <1>1, EncodedExists
<1>3. IsEncoded(f, units)
  <2>1. \A k \in 1 .. n : k \in 1 .. n + 1
    BY <1>1
  <2> QED BY <1>1, <1>2, <2>1 DEF IsEncoded
<1>4. Encoded(units) = f[n]
  BY <1>1, <1>3, EncodedIs
<1>5. f[n + 1] = f[n] \o EntriesOf(more[n + 1])
  <2>1. n + 1 \in 1 .. Len(more) /\ (n + 1) - 1 = n
    BY <1>1
  <2> QED BY <1>2, <2>1 DEF IsEncoded
<1> QED BY <1>1, <1>2, <1>4, <1>5 DEF more

LEMMA EntriesTyped ==
    ASSUME NEW R, NEW unit \in UnitType(R)
    PROVE  EntriesOf(unit) \in Seq(Entry(R))
<1> DEFINE E == Entry(R)
           rows == unit.rows
           n == Len(rows)
           log == [k \in DOMAIN rows |-> RowEntry(rows[k])]
           bracket == BracketEntry(unit.sequence, n)
<1>1. rows \in Seq(R) /\ unit.sequence \in Nat
  BY DEF UnitType
<1>2. n \in Nat /\ DOMAIN rows = 1 .. n /\ \A k \in 1 .. n : rows[k] \in R
  BY <1>1, LenProperties, ElementOfSeq
<1>3. log \in Seq(E)
  <2>1. \A k \in 1 .. n : RowEntry(rows[k]) \in E
    <3> TAKE k \in 1 .. n
    <3> DEFINE r == rows[k]
    <3>1. r \in R
      BY <1>2
    <3> HIDE DEF r
    <3>2. RowEntry(r) \in E
      BY <3>1 DEF Entry, RowEntry
    <3> QED BY <3>2 DEF r
  <2> HIDE DEF E
  <2>2. log \in [1 .. n -> E]
    BY <1>2, <2>1
  <2> HIDE DEF log, n
  <2> QED BY <1>2, <2>2, FunctionIsSeq
<1>4. bracket \in E
  <2> HIDE DEF n
  <2> QED BY <1>1, <1>2 DEF Entry, BracketEntry
<1>5. EntriesOf(unit) = (IF unit.bracket THEN << bracket >> ELSE << >>) \o log
  BY DEF EntriesOf
<1> HIDE DEF bracket, log, E
<1>6. << bracket >> \in Seq(E) /\ << >> \in Seq(E)
  BY <1>4
<1> QED BY <1>3, <1>5, <1>6, ConcatProperties DEF E

LEMMA EncodedTyped ==
    ASSUME NEW R, NEW units \in Seq(UnitType(R))
    PROVE  Encoded(units) \in Seq(Entry(R))
<1> DEFINE U == UnitType(R)
           E == Entry(R)
           S == {f \in Seq(U) : Encoded(f) \in Seq(E)}
<1>1. << >> \in S
  BY EncodedNone, EmptySeq
<1>2. ASSUME NEW f \in S, NEW unit \in U
      PROVE  Append(f, unit) \in S
  <2>1. Encoded(Append(f, unit)) = Encoded(f) \o EntriesOf(unit)
    BY EncodedMore
  <2>2. EntriesOf(unit) \in Seq(E)
    BY EntriesTyped
  <2> HIDE DEF E, U
  <2>3. Encoded(f) \o EntriesOf(unit) \in Seq(E)
    BY <2>2, ConcatProperties
  <2>4. Append(f, unit) \in Seq(U)
    BY AppendProperties
  <2> QED BY <2>1, <2>3, <2>4
<1>3. S = Seq(U)
  <2>1. S \in SUBSET Seq(U)
    OBVIOUS
  <2> HIDE DEF S, U
  <2> QED BY <1>1, <1>2, <2>1, SeqsFrom
<1> QED BY <1>3

----------------------------------------------------------------------------
\* Sound disks.

\* A disk whose layout holds the rows F.
LEMMA SoundWith ==
    ASSUME NEW d, NEW R, NEW F \in Seq([row : R, born : Nat]),
           ObjectsTyped(d, R),
           Lays(d.segments, d.manifest.generation, Layout(d), F),
           \A n \in DeleteLogs(d) : /\ d.deletes[n].ids \subseteq 0 .. Len(F) - 1
                                    /\ d.deletes[n].ids # {} => d.deletes[n].stamp > 0,
           \A b \in Layout(d) :
              ~SegmentOf(d, b).stamped =>
                 \A i \in 1 .. Len(SegmentOf(d, b).rows) :
                    SegmentOf(d, b).rows[i].born = b + i - 1,
           d.manifest.history > 0 => d.manifest.diverged,
           \A i \in 0 .. d.manifest.history - 1 :
              i \in DOMAIN d.history /\ \A v \in d.history[i] : v.killed < d.manifest.next
    PROVE  Sound(d, R) /\ FrozenRows(d) = F /\ Extent(d) = Len(F)
<1>1. Extent(d) = Len(F) /\ FrozenRows(d) = F
  BY LaidOut
<1> QED BY <1>1, Zenon DEF Sound

LEMMA SoundOpens ==
    ASSUME NEW d, NEW R, Sound(d, R)
    PROVE  ~OpenRefused(d) /\ Extent(d) = Len(FrozenRows(d))
<1> DEFINE F == FrozenRows(d)
<1>1. F \in Seq([row : R, born : Nat])
      /\ Lays(d.segments, d.manifest.generation, Layout(d), F)
  BY Zenon DEF Sound
<1>2. Extent(d) = Len(F) /\ LayoutPresent(d) /\ Contiguous(d)
  <2> HIDE DEF F
  <2> QED BY <1>1, LaidOut
<1>3. DOMAIN Tombstones(d) \subseteq 0 .. Len(F) - 1
  BY TombstonesOf
<1>4. \A id \in DOMAIN Tombstones(d) : ~(id >= Extent(d))
  <2> TAKE id \in DOMAIN Tombstones(d)
  <2>1. Len(F) \in Nat
    BY <1>1, LenProperties
  <2> HIDE DEF F
  <2>2. id \in 0 .. Len(F) - 1
    BY <1>3
  <2> QED BY <1>2, <2>1, <2>2
<1> QED BY <1>2, <1>4 DEF OpenRefused

\* The log has no part in it.
LEMMA SameObjects ==
    ASSUME NEW d, NEW c, c.manifest = d.manifest, c.segments = d.segments,
           c.deletes = d.deletes, c.history = d.history
    PROVE  /\ Layout(c) = Layout(d) /\ Extent(c) = Extent(d)
           /\ FrozenRows(c) = FrozenRows(d)
           /\ DeleteLogs(c) = DeleteLogs(d)
           /\ Tombstones(c) = Tombstones(d)
           /\ CommittedSupersessions(c) = CommittedSupersessions(d)
           /\ OpenRefused(c) <=> OpenRefused(d)
           /\ Loaded(c) = Loaded(d)
           /\ \A R : Sound(c, R) <=> Sound(d, R)
<1>1. Layout(c) = Layout(d)
  BY Zenon DEF Layout
<1>2. \A b : SegmentOf(c, b) = SegmentOf(d, b)
  BY Zenon DEF SegmentOf
<1>3. Extent(c) = Extent(d)
  BY <1>1, <1>2, Zenon DEF Extent
<1>4. FrozenRows(c) = FrozenRows(d)
  BY <1>1, <1>2, <1>3, Zenon DEF FrozenRows
<1>5. DeleteLogs(c) = DeleteLogs(d)
  BY Zenon DEF DeleteLogs
<1>6. Tombstones(c) = Tombstones(d)
  <2> DEFINE T(D, L) == [id \in UNION {D[n].ids : n \in L} |->
                            D[CHOOSE n \in L : id \in D[n].ids].stamp]
  <2>1. Tombstones(c) = T(c.deletes, DeleteLogs(c)) /\ Tombstones(d) = T(d.deletes, DeleteLogs(d))
    BY DEF Tombstones
  <2> HIDE DEF T
  <2> QED BY <1>5, <2>1
<1>7. CommittedSupersessions(c) = CommittedSupersessions(d)
  BY <1>5, Zenon DEF CommittedSupersessions
<1>8. LayoutPresent(c) <=> LayoutPresent(d)
  BY <1>1, Zenon DEF LayoutPresent
<1>9. Contiguous(c) <=> Contiguous(d)
  BY <1>1, <1>2, Zenon DEF Contiguous
<1>10. OpenRefused(c) <=> OpenRefused(d)
  BY <1>3, <1>6, <1>8, <1>9, Zenon DEF OpenRefused
<1>11. Loaded(c) = Loaded(d)
  <2>1. LoadedHistory(c) = LoadedHistory(d)
    <3> DEFINE H(m, h) == UNION {h[i] : i \in 0 .. m.history - 1}
    <3>1. LoadedHistory(c) = H(c.manifest, c.history) /\ LoadedHistory(d) = H(d.manifest, d.history)
      BY DEF LoadedHistory
    <3> HIDE DEF H
    <3> QED BY <3>1
  <2>2. KilledAt(c) = KilledAt(d)
    BY <1>6, Zenon DEF KilledAt
  <2>3. LoadedDiverged(c) = LoadedDiverged(d)
    <3>1. LoadedDiverged(c) <=> LoadedDiverged(d)
      BY <1>1, <1>2, <2>2, Zenon DEF LoadedDiverged
    <3>2. LoadedDiverged(c) \in BOOLEAN /\ LoadedDiverged(d) \in BOOLEAN
      BY DEF LoadedDiverged
    <3> QED BY <3>1, <3>2
  <2>4. LoadedMarks(c) = LoadedMarks(d)
    BY <1>1, <1>2, <2>2, Zenon DEF LoadedMarks
  <2> DEFINE mark(e) == IF LoadedDiverged(e) THEN Max(LoadedMarks(e)) ELSE 0
             L(F, D, m, T, H) == [frozen |-> F, buffer |-> << >>,
                       base |-> Len(F), diverged |-> D,
                       next |-> m, seqBase |-> m, births |-> << >>,
                       tombs |-> T, history |-> H]
  <2>5. /\ Loaded(c) = L(FrozenRows(c), LoadedDiverged(c), mark(c), Tombstones(c), LoadedHistory(c))
        /\ Loaded(d) = L(FrozenRows(d), LoadedDiverged(d), mark(d), Tombstones(d), LoadedHistory(d))
    BY LoadedFields, Zenon
  <2>6. mark(c) = mark(d)
    BY <2>3, <2>4
  <2> HIDE DEF L, mark
  <2> QED BY <1>4, <1>6, <2>1, <2>3, <2>5, <2>6
<1>12. \A R : ObjectsTyped(c, R) <=> ObjectsTyped(d, R)
  BY Zenon DEF ObjectsTyped
<1>13. \A R : Sound(c, R) <=> Sound(d, R)
  <2> TAKE R
  <2> DEFINE P(e) == LET held == FrozenRows(e) IN
                       /\ held \in Seq([row : R, born : Nat])
                       /\ Lays(e.segments, e.manifest.generation, Layout(e), held)
             Q(e) == \A b \in Layout(e) :
                        ~SegmentOf(e, b).stamped =>
                           \A i \in 1 .. Len(SegmentOf(e, b).rows) :
                              SegmentOf(e, b).rows[i].born = b + i - 1
             D(F, L, o) == \A n \in L : /\ o[n].ids \subseteq 0 .. Len(F) - 1
                                        /\ o[n].ids # {} => o[n].stamp > 0
             H(m, h) == /\ m.history > 0 => m.diverged
                        /\ \A i \in 0 .. m.history - 1 :
                              i \in DOMAIN h /\ \A v \in h[i] : v.killed < m.next
  <2>1. \A e : Sound(e, R) <=> /\ ObjectsTyped(e, R) /\ P(e) /\ Q(e)
                               /\ D(FrozenRows(e), DeleteLogs(e), e.deletes)
                               /\ H(e.manifest, e.history)
    BY Zenon DEF Sound
  <2>2. P(c) <=> P(d)
    BY <1>1, <1>4
  <2>3. Q(c) <=> Q(d)
    BY <1>1, <1>2
  <2> HIDE DEF P, Q, D, H
  <2> QED BY <1>4, <1>5, <1>12, <2>1, <2>2, <2>3
<1> QED BY <1>1, <1>3, <1>4, <1>5, <1>6, <1>7, <1>10, <1>11, <1>13, Zenon

\* The number the next delete log takes is past every one there is.
LEMMA NextDeleteLogUnused ==
    ASSUME NEW d, NEW bound \in Nat,
           \A n \in DeleteLogs(d) : n[2] \in Nat /\ n[2] < bound
    PROVE  /\ NextDeleteLog(d) \in Nat
           /\ \A n \in DeleteLogs(d) : n[2] < NextDeleteLog(d)
<1> DEFINE S == {0} \cup {n[2] + 1 : n \in DeleteLogs(d)}
<1>1. S \in SUBSET Nat /\ S # {} /\ \A x \in S : x <= bound
  OBVIOUS
<1>2. Max(S) \in S /\ \A x \in S : x <= Max(S)
  <2> HIDE DEF S
  <2> QED BY <1>1, MaxOf
<1>3. NextDeleteLog(d) = Max(S)
  BY DEF NextDeleteLog
<1> DEFINE M == Max(S)
<1>4. M \in Nat /\ \A x \in S : x <= M
  BY <1>1, <1>2
<1> HIDE DEF M
<1>5. \A n \in DeleteLogs(d) : n[2] < M
  <2> TAKE n \in DeleteLogs(d)
  <2>1. n[2] + 1 \in S /\ n[2] \in Nat
    OBVIOUS
  <2>2. n[2] + 1 <= M
    BY <1>4, <2>1
  <2> QED BY <1>4, <2>1, <2>2
<1> QED BY <1>3, <1>4, <1>5 DEF M

----------------------------------------------------------------------------
\* The rows of a log's units, and what their replay keeps.

(* The rows the units bring, in order: what an empty store buffers when it *)
(* replays them.                                                           *)
Carried(units) == Replayed(EmptyShared, units).buffer

(* Ids keep their rows and their births. *)
KeepsBirths(s, t) ==
    /\ Ids(s) \subseteq Ids(t)
    /\ \A id \in Ids(s) : Born(t, id) = Born(s, id)

Seen(s, q) == \E id \in Ids(s) : Born(s, id) = q

LEMMA EmptyFits ==
    ASSUME NEW R
    PROVE  /\ WellFormed(EmptyShared, R) /\ Known(EmptyShared)
           /\ Reaches(EmptyShared, 0) /\ EmptyShared.buffer = << >>
<1> DEFINE s == EmptyShared
<1>1. /\ s.frozen = << >> /\ s.buffer = << >> /\ s.base = 0 /\ s.diverged = FALSE
      /\ s.next = 0 /\ s.seqBase = 0 /\ s.births = << >>
      /\ s.tombs = [id \in {} |-> 0] /\ s.history = {}
  BY DEF EmptyShared
<1>2. RowCount(s) = 0 /\ Dead(s) = {} /\ Ids(s) = {}
  BY <1>1 DEF RowCount, Dead, Ids
<1>3. s \in SharedFields(s, R)
  <2>1. s.tombs \in [Dead(s) -> Nat]
    BY <1>1, <1>2
  <2>2. << >> \in Seq([row : R, born : Nat]) /\ << >> \in Seq(R) /\ << >> \in Seq(Nat)
    BY EmptySeq
  <2> DEFINE T == [id \in {} |-> 0]
             D == [Dead(s) -> Nat]
  <2>3. T \in D
    BY <1>1, <2>1
  <2>4. s = [frozen |-> << >>, buffer |-> << >>, base |-> 0,
             diverged |-> FALSE, next |-> 0, seqBase |-> 0, births |-> << >>,
             tombs |-> T, history |-> {}]
    BY DEF EmptyShared
  <2>5. SharedFields(s, R) = [frozen : Seq([row : R, born : Nat]), buffer : Seq(R),
             base : Nat, diverged : BOOLEAN, next : Nat, seqBase : Nat, births : Seq(Nat),
             tombs : D, history : SUBSET [row : R, born : Nat, killed : Nat]]
    BY Zenon DEF SharedFields
  <2> HIDE DEF s, T, D
  <2> QED BY <2>2, <2>3, <2>4, <2>5
<1>4. WellFormed(s, R)
  BY <1>1, <1>2, <1>3 DEF WellFormed, Shaped, VirtualIsPlain
<1>5. Known(s)
  BY <1>1, <1>2 DEF Known
<1> QED BY <1>1, <1>4, <1>5 DEF Reaches

LEMMA CarriedNone == Carried(<< >>) = << >>
BY ReplayedNone, EmptyFits DEF Carried

LEMMA CarriedMore ==
    ASSUME NEW R, NEW units \in Seq(UnitType(R)), NEW unit \in UnitType(R)
    PROVE  /\ Carried(Append(units, unit)) = Carried(units) \o unit.rows
           /\ Carried(units) \in Seq(R)
<1> DEFINE U == UnitType(R)
           s == EmptyShared
           t == Replayed(s, units)
<1>1. WellFormed(s, R) /\ Known(s) /\ Reaches(s, 0)
  BY EmptyFits
<1>2. Replayed(s, Append(units, unit)) = ApplyUnit(t, unit)
  <2> HIDE DEF U
  <2>1. units \in Seq(U) /\ unit \in U
    BY DEF U
  <2> QED BY <2>1, ReplayedMore
<1>3. WellFormed(t, R) /\ Known(t) /\ Reaches(t, 0)
  BY <1>1, ReplayedGrows
<1>4. unit = Unit(unit.bracket, unit.sequence, unit.rows)
      /\ unit.bracket \in BOOLEAN /\ unit.sequence \in Nat /\ unit.rows \in Seq(R)
  BY DEF UnitType, Unit
<1> HIDE DEF s, t
<1>5. Extends(t, ApplyUnit(t, unit), unit.rows)
  BY <1>3, <1>4, AppliedGrows
<1>6. t.buffer \in Seq(R)
  BY <1>3, FieldTypes DEF WellFormed
<1> QED BY <1>2, <1>5, <1>6 DEF Extends, Carried, s, t

LEMMA KeepsBirthsFurther ==
    ASSUME NEW s, NEW t, NEW u, KeepsBirths(s, t), KeepsBirths(t, u)
    PROVE  KeepsBirths(s, u) /\ \A q : Seen(s, q) => Seen(u, q)
<1>1. \A id \in Ids(s) : id \in Ids(t) /\ id \in Ids(u)
                         /\ Born(t, id) = Born(s, id) /\ Born(u, id) = Born(t, id)
  BY DEF KeepsBirths
<1> QED BY <1>1 DEF KeepsBirths, Seen

LEMMA AppliedKeepsBirths ==
    ASSUME NEW R, NEW s, WellFormed(s, R), Known(s), NEW recorded, Reaches(s, recorded),
           NEW b \in BOOLEAN, NEW q \in Nat, NEW rows \in Seq(R)
    PROVE  LET t == ApplyUnit(s, Unit(b, q, rows))
           IN  /\ KeepsBirths(s, t)
               /\ b /\ rows # << >> => Seen(t, q)
<1> DEFINE T(f) == ApplyUnit(s, Unit(b, q, f))
           Good(f) == KeepsBirths(s, T(f)) /\ (b /\ f # << >> => Seen(T(f), q))
           S == {f \in Seq(R) : Good(f)}
<1>1. << >> \in S
  <2>1. T(<< >>) = s
    BY AppliedNone
  <2>2. KeepsBirths(s, s)
    BY DEF KeepsBirths
  <2>3. Good(<< >>)
    BY <2>1, <2>2, Zenon
  <2>4. << >> \in Seq(R)
    BY EmptySeq
  <2> HIDE DEF Good
  <2> QED BY <2>3, <2>4
<1>2. ASSUME NEW f \in S, NEW row \in R
      PROVE  Append(f, row) \in S
  <2>1. f \in Seq(R) /\ Good(f)
    OBVIOUS
  <2> DEFINE t == T(f)
             u == T(Append(f, row))
             n == RowCount(t)
  <2>2. u = IF b THEN AppendSuperseding(t, row, q, n) ELSE AppendRow(t, row)
    BY <2>1, AppliedMore
  <2>3. WellFormed(t, R) /\ Known(t) /\ Reaches(t, recorded)
    BY <2>1, AppliedGrows, Zenon
  <2>4. KeepsBirths(s, t)
    BY <2>1, Zenon
  <2> HIDE DEF t, u
  <2>5. /\ SameView(t, u) /\ RowCount(u) = n + 1 /\ Shaped(t, R)
        /\ b => Born(u, n) = q
    <3>1. Shaped(t, R)
      BY <2>3 DEF WellFormed
    <3>2. CASE b
      <4>1. u = AppendSuperseding(t, row, q, n)
        BY <2>2, <3>2
      <4>2. RowCount(u) = n + 1
        BY <2>3, <4>1, AppendSupersedingGrows
      <4>3. SameView(t, u) /\ Born(u, n) = q
        BY <3>1, <4>1, AppendSupersedingView
      <4> QED BY <3>1, <4>2, <4>3
    <3>3. CASE ~b
      <4>1. u = AppendRow(t, row)
        BY <2>2, <3>3
      <4>2. RowCount(u) = n + 1
        BY <2>3, <4>1, AppendRowKeeps
      <4>3. SameView(t, u)
        BY <2>3, <4>1, AppendRowView
      <4> QED BY <3>1, <3>3, <4>2, <4>3
    <3> QED BY <3>2, <3>3
  <2>6. n \in Nat /\ Ids(u) = Ids(t) \cup {n}
    BY <2>5, GrownIds
  <2>7. KeepsBirths(t, u)
    BY <2>5, <2>6 DEF KeepsBirths, SameView
  <2>8. KeepsBirths(s, u)
    BY <2>4, <2>7, KeepsBirthsFurther
  <2>9. b => Seen(u, q)
    BY <2>5, <2>6 DEF Seen
  <2>10. Good(Append(f, row))
    BY <2>8, <2>9, Zenon DEF u
  <2>11. Append(f, row) \in Seq(R)
    BY <2>1, AppendProperties
  <2> HIDE DEF Good
  <2> QED BY <2>10, <2>11
<1>3. S = Seq(R)
  <2>1. S \in SUBSET Seq(R)
    OBVIOUS
  <2> HIDE DEF S
  <2> QED BY <1>1, <1>2, <2>1, SeqsFrom
<1>4. Good(rows)
  <2> HIDE DEF Good
  <2> QED BY <1>3
<1> QED BY <1>4, Zenon

(* A replay puts the units' rows behind the buffer's, and every coordinate *)
(* a bracket carries is the birth of a row.                                *)
LEMMA ReplayedCarries ==
    ASSUME NEW R, NEW s, WellFormed(s, R), Known(s), NEW recorded, Reaches(s, recorded),
           NEW units \in Seq(UnitType(R))
    PROVE  LET t == Replayed(s, units)
           IN  /\ Extends(s, t, Carried(units))
               /\ KeepsBirths(s, t)
               /\ \A i \in DOMAIN units :
                     units[i].bracket /\ units[i].rows # << >> => Seen(t, units[i].sequence)
<1> DEFINE U == UnitType(R)
           T(f) == Replayed(s, f)
           All(t, f) == \A i \in DOMAIN f : f[i].bracket /\ f[i].rows # << >>
                                              => Seen(t, f[i].sequence)
           Good(f) == Extends(s, T(f), Carried(f)) /\ KeepsBirths(s, T(f)) /\ All(T(f), f)
           S == {f \in Seq(U) : Good(f)}
<1>1. << >> \in S
  <2>1. T(<< >>) = s
    BY ReplayedNone
  <2>2. Extends(s, s, << >>) /\ << >> \in Seq(U)
    BY ExtendsNone, EmptySeq DEF WellFormed
  <2>3. KeepsBirths(s, s) /\ All(s, << >>)
    BY DEF KeepsBirths
  <2> HIDE DEF All
  <2>4. Good(<< >>)
    BY <2>1, <2>2, <2>3, CarriedNone, Zenon
  <2> HIDE DEF Good
  <2> QED BY <2>2, <2>4
<1>2. ASSUME NEW f \in S, NEW unit \in U
      PROVE  Append(f, unit) \in S
  <2> DEFINE t == T(f)
             g == Append(f, unit)
             u == T(g)
  <2>1. f \in Seq(U) /\ Extends(s, t, Carried(f)) /\ KeepsBirths(s, t) /\ All(t, f)
    <3> HIDE DEF All
    <3> QED OBVIOUS
  <2>2. u = ApplyUnit(t, unit)
    <3> HIDE DEF U
    <3> QED BY <2>1, ReplayedMore
  <2>3. WellFormed(t, R) /\ Known(t) /\ Reaches(t, recorded)
    BY <2>1, ReplayedGrows, Zenon
  <2>4. unit = Unit(unit.bracket, unit.sequence, unit.rows)
        /\ unit.bracket \in BOOLEAN /\ unit.sequence \in Nat /\ unit.rows \in Seq(R)
    BY DEF UnitType, Unit
  <2>5. g \in Seq(U) /\ Carried(g) = Carried(f) \o unit.rows /\ Carried(f) \in Seq(R)
    BY <2>1, AppendProperties, CarriedMore
  <2>6. Len(f) \in Nat /\ DOMAIN f = 1 .. Len(f) /\ DOMAIN g = 1 .. Len(f) + 1
        /\ (\A i \in 1 .. Len(f) : g[i] = f[i]) /\ g[Len(f) + 1] = unit
    BY <2>1, LenProperties, AppendProperties
  <2> HIDE DEF t, u, g
  <2>7. Extends(t, u, unit.rows)
    BY <2>2, <2>3, <2>4, AppliedGrows
  <2>8. KeepsBirths(t, u) /\ (unit.bracket /\ unit.rows # << >> => Seen(u, unit.sequence))
    BY <2>2, <2>3, <2>4, AppliedKeepsBirths
  <2>9. Extends(s, u, Carried(g))
    <3>1. Shaped(s, R)
      BY DEF WellFormed
    <3> QED BY <2>1, <2>4, <2>5, <2>7, <3>1, ExtendsFurther
  <2>10. KeepsBirths(s, u) /\ \A q : Seen(t, q) => Seen(u, q)
    <3>1. KeepsBirths(t, t)
      BY DEF KeepsBirths
    <3> QED BY <2>1, <2>8, <3>1, KeepsBirthsFurther
  <2>11. All(u, g)
    BY <2>1, <2>6, <2>8, <2>10
  <2> HIDE DEF All
  <2>12. Good(g)
    BY <2>9, <2>10, <2>11, Zenon DEF u
  <2> HIDE DEF Good
  <2> QED BY <2>5, <2>12 DEF g
<1>3. S = Seq(U)
  <2>1. S \in SUBSET Seq(U)
    OBVIOUS
  <2> HIDE DEF S, U
  <2> QED BY <1>1, <1>2, <2>1, SeqsFrom
<1>4. Good(units)
  <2> HIDE DEF Good
  <2> QED BY <1>3
<1> QED BY <1>4, Zenon

----------------------------------------------------------------------------
\* A log read back: what decode and replay make of encoded units.

Plain(unit) == ~unit.bracket

(* The units a replay keeps: a row on its own, or a bracket with its rows  *)
(* whose supersession committed.                                           *)
WholeUnits(R, C) ==
    {u \in UnitType(R) :
        /\ u.rows # << >>
        /\ u.bracket => u.sequence \in C
        /\ Plain(u) => u = Unit(FALSE, 0, << u.rows[1] >>)}

\* The records of either kind of unit.
PlainShape(u) ==
    /\ EntriesOf(u) = << RowEntry(u.rows[1]) >>
    /\ Len(u.rows) = 1
    /\ u = Unit(FALSE, 0, << u.rows[1] >>)
    /\ u.rows = << u.rows[1] >>

BracketShape(u) ==
    LET h == EntriesOf(u)
        n == Len(u.rows)
    IN  /\ Len(h) = n + 1 /\ h[1] = BracketEntry(u.sequence, n)
        /\ \A k \in 1 .. n : h[k + 1] = RowEntry(u.rows[k])
        /\ u = Unit(TRUE, u.sequence, [k \in 1 .. n |-> u.rows[k]])

LEMMA WholeEntries ==
    ASSUME NEW R, NEW C, NEW u \in WholeUnits(R, C)
    PROVE  /\ EntriesOf(u) \in Seq(Entry(R)) /\ u.rows \in Seq(R)
           /\ Len(u.rows) \in Nat \ {0} /\ u.rows[1] \in R
           /\ Plain(u) => PlainShape(u)
           /\ u.bracket => BracketShape(u) /\ u.sequence \in C
<1> DEFINE h == EntriesOf(u)
           n == Len(u.rows)
           B == << BracketEntry(u.sequence, n) >>
           W == [k \in DOMAIN u.rows |-> RowEntry(u.rows[k])]
<1>1. u \in UnitType(R) /\ u.rows # << >> /\ u.rows \in Seq(R)
  BY DEF WholeUnits, UnitType
<1>2. n \in Nat \ {0} /\ DOMAIN u.rows = 1 .. n /\ \A k \in 1 .. n : u.rows[k] \in R
  BY <1>1, LenProperties, EmptySeq
<1>3. h \in Seq(Entry(R))
  BY <1>1, EntriesTyped
<1>4. h = (IF u.bracket THEN B ELSE << >>) \o W
  BY Zenon DEF EntriesOf
<1>5. W \in Seq({RowEntry(r) : r \in R}) /\ Len(W) = n /\ \A k \in 1 .. n : W[k] = RowEntry(u.rows[k])
  <2> DEFINE Z == {RowEntry(r) : r \in R}
             w(k) == RowEntry(u.rows[k])
  <2>1. W = [k \in 1 .. n |-> w(k)]
    BY <1>2
  <2>2. \A k \in 1 .. n : w(k) \in Z
    BY <1>2
  <2> HIDE DEF w, Z, W
  <2>3. W \in Seq(Z) /\ Len(W) = n /\ \A k \in 1 .. n : W[k] = w(k)
    BY <2>1, <2>2, <1>2
  <2> QED BY <2>3 DEF w, Z
<1>6. CASE Plain(u)
  <2>1. u = Unit(FALSE, 0, << u.rows[1] >>)
    BY <1>6 DEF WholeUnits
  <2>2. u.rows = << u.rows[1] >>
    BY <2>1 DEF Unit
  <2>3. n = 1
    BY <2>2
  <2>4. h = W
    <3> HIDE DEF W, h, B
    <3> QED BY <1>4, <1>5, <1>6 DEF Plain
  <2>5. W = << RowEntry(u.rows[1]) >>
    <3> HIDE DEF W
    <3> QED BY <1>5, <2>3
  <2>6. ~u.bracket
    BY <1>6 DEF Plain
  <2> HIDE DEF h, n, W, B
  <2>7. u.rows[1] \in R
    BY <1>2, <2>3
  <2>8. PlainShape(u)
    BY <2>1, <2>2, <2>3, <2>4, <2>5 DEF h, n, PlainShape
  <2> QED BY <1>1, <1>2, <1>3, <2>6, <2>7, <2>8 DEF h, n
<1>7. CASE ~Plain(u)
  <2>1. u.bracket
    BY <1>7 DEF Plain
  <2>2. u.sequence \in C
    BY <2>1 DEF WholeUnits
  <2>3. h = B \o W
    BY <1>4, <2>1
  <2>4. Len(h) = n + 1 /\ h[1] = BracketEntry(u.sequence, n) /\ \A k \in 1 .. n : h[k + 1] = W[k]
    <3>1. B \in Seq({BracketEntry(u.sequence, n)}) /\ Len(B) = 1 /\ B[1] = BracketEntry(u.sequence, n)
      OBVIOUS
    <3> HIDE DEF B, W, h, n
    <3> DEFINE Z == {RowEntry(r) : r \in R} \cup {BracketEntry(u.sequence, n)}
    <3>2. B \in Seq(Z) /\ W \in Seq(Z)
      BY <1>5, <3>1, SeqMonotonic
    <3> HIDE DEF Z
    <3>7. /\ Len(B \o W) = Len(B) + Len(W)
          /\ \A i \in 1 .. Len(B) + Len(W) :
                (B \o W)[i] = IF i <= Len(B) THEN B[i] ELSE W[i - Len(B)]
      BY <3>2, ConcatProperties
    <3>3. /\ Len(h) = 1 + n
          /\ \A i \in 1 .. 1 + n : h[i] = IF i <= 1 THEN B[i] ELSE W[i - 1]
      BY <1>5, <2>3, <3>1, <3>7
    <3>4. \A k \in 1 .. n : k + 1 \in 1 .. 1 + n /\ ~(k + 1 <= 1) /\ (k + 1) - 1 = k
      BY <1>2
    <3>5. \A k \in 1 .. n : h[k + 1] = W[k]
      <4> TAKE k \in 1 .. n
      <4>1. h[k + 1] = W[(k + 1) - 1]
        BY <3>3, <3>4
      <4> QED BY <3>4, <4>1
    <3>6. h[1] = B[1]
      BY <1>2, <3>3
    <3> QED BY <1>2, <3>1, <3>3, <3>5, <3>6
  <2>5. u = Unit(TRUE, u.sequence, [k \in 1 .. n |-> u.rows[k]])
    <3>1. u.bracket = TRUE
      BY <1>1, <2>1 DEF UnitType
    <3>2. u.rows = [k \in 1 .. n |-> u.rows[k]]
      BY <1>1, <1>2
    <3>3. u = [bracket |-> u.bracket, sequence |-> u.sequence, rows |-> u.rows]
      BY <1>1 DEF UnitType
    <3> HIDE DEF n
    <3> QED BY <3>1, <3>2, <3>3, Zenon DEF Unit
  <2>6. \A k \in 1 .. n : h[k + 1] = RowEntry(u.rows[k])
    <3> HIDE DEF h, W, n
    <3> QED BY <1>5, <2>4
  <2> HIDE DEF h, n, W, B
  <2>7. u.rows[1] \in R
    BY <1>2
  <2>8. BracketShape(u)
    BY <2>4, <2>5, <2>6, Zenon DEF h, n, BracketShape
  <2> QED BY <1>1, <1>2, <1>3, <1>7, <2>2, <2>7, <2>8 DEF h, n
<1> QED BY <1>6, <1>7

LEMMA UnitsShift ==
    ASSUME NEW R, NEW C, NEW h \in Seq(Entry(R)), NEW T \in Seq(Entry(R)),
           NEW f, NEW g, IsUnits(f, h \o T, C), IsUnits(g, T, C)
    PROVE  f[Len(h) + 1] = g[1]
<1> DEFINE e == h \o T
           L == Len(h)
           t == Len(T)
           m == t + 1
           S == {i \in 1 .. m : f[L + i] = g[i]}
<1>1. /\ e \in Seq(Entry(R)) /\ L \in Nat /\ t \in Nat /\ Len(e) = L + t
      /\ (\A i \in 1 .. t : e[L + i] = T[i]) /\ \A i \in 1 .. t : T[i] \in Entry(R)
  <2> DEFINE E == Entry(R)
  <2>1. h \in Seq(E) /\ T \in Seq(E)
    OBVIOUS
  <2> HIDE DEF E
  <2> QED BY <2>1, ConcatProperties, LenProperties, ElementOfSeq
<1>2. \A i \in 1 .. t : T[i].count \in Nat
  BY <1>1 DEF Entry
<1> HIDE DEF e, L, t
<1>3. /\ \A i \in 1 .. Len(e) + 1 : f[i] = UnitsStep(f, e, C, i)
      /\ \A i \in 1 .. m : g[i] = UnitsStep(g, T, C, i)
  BY DEF IsUnits, e, t
<1>4. ASSUME NEW i \in 1 .. m, \A j \in (i + 1) .. m : j \in S
      PROVE  i \in S
  <2>1. f[L + i] = UnitsStep(f, e, C, L + i) /\ g[i] = UnitsStep(g, T, C, i)
    BY <1>1, <1>3
  <2>2. \A j \in (i + 1) .. m : f[L + j] = g[j]
    BY <1>4
  <2>3. CASE i = m
    <3>1. L + i > Len(e) /\ i > Len(T)
      BY <1>1, <2>3 DEF t
    <3> QED BY <2>1, <3>1 DEF UnitsStep
  <2>4. CASE i # m
    <3>1. i \in 1 .. t /\ ~(L + i > Len(e)) /\ ~(i > Len(T)) /\ e[L + i] = T[i]
      BY <1>1, <2>4 DEF t
    <3>2. f[L + i + 1] = g[i + 1]
      <4>1. i + 1 \in (i + 1) .. m /\ L + (i + 1) = L + i + 1
        BY <1>1, <3>1
      <4> QED BY <2>2, <4>1
    <3> DEFINE c == T[i].count
    <3>3. c \in Nat
      BY <1>2, <3>1
    <3>4. Complete(e, L + i) <=> Complete(T, i)
      <4>1. L + i + c <= Len(e) <=> i + c <= Len(T)
        BY <1>1, <3>1, <3>3 DEF t
      <4>2. i + c <= Len(T) =>
              ((\A k \in (L + i + 1) .. (L + i + c) : e[k].kind = "row")
                 <=> (\A k \in (i + 1) .. (i + c) : T[k].kind = "row"))
        <5> SUFFICES ASSUME i + c <= Len(T)
                     PROVE  (\A k \in (L + i + 1) .. (L + i + c) : e[k].kind = "row")
                              <=> (\A k \in (i + 1) .. (i + c) : T[k].kind = "row")
          OBVIOUS
        <5>1. \A k \in (i + 1) .. (i + c) : L + k \in (L + i + 1) .. (L + i + c) /\ e[L + k] = T[k]
          BY <1>1, <3>1, <3>3 DEF t
        <5>2. \A k \in (L + i + 1) .. (L + i + c) : k - L \in (i + 1) .. (i + c) /\ k = L + (k - L)
          BY <1>1, <3>1, <3>3
        <5> QED BY <5>1, <5>2
      <4> HIDE DEF c
      <4> QED BY <3>1, <4>1, <4>2 DEF Complete, c
    <3>5. ASSUME Complete(T, i)
          PROVE  /\ BracketUnit(e, L + i) = BracketUnit(T, i)
                 /\ f[L + i + c + 1] = g[i + c + 1]
                 /\ (L + i + c < Len(e)) <=> (i + c < Len(T))
      <4>1. i + c <= Len(T)
        BY <3>5 DEF Complete
      <4>2. \A k \in 1 .. c : e[L + i + k] = T[i + k]
        <5>1. \A k \in 1 .. c : i + k \in 1 .. t /\ L + i + k = L + (i + k)
          BY <1>1, <3>1, <3>3, <4>1 DEF t
        <5> QED BY <1>1, <5>1
      <4>3. i + c + 1 \in (i + 1) .. m /\ L + (i + c + 1) = L + i + c + 1
        BY <1>1, <3>1, <3>3, <4>1 DEF t
      <4>4. f[L + i + c + 1] = g[i + c + 1]
        BY <2>2, <4>3
      <4>5. [k \in 1 .. c |-> e[L + i + k].row] = [k \in 1 .. c |-> T[i + k].row]
        BY <4>2
      <4> HIDE DEF c
      <4>6. BracketUnit(e, L + i) = BracketUnit(T, i)
        BY <3>1, <4>5 DEF BracketUnit, c
      <4> QED BY <1>1, <3>1, <3>3, <4>4, <4>6 DEF t
    <3> HIDE DEF c
    <3>6. UnitsStep(f, e, C, L + i) = UnitsStep(g, T, C, i)
      BY <3>1, <3>2, <3>4, <3>5 DEF UnitsStep, c
    <3> QED BY <2>1, <3>6
  <2> QED BY <2>3, <2>4
<1>5. S = 1 .. m
  <2>1. S \in SUBSET (1 .. m) /\ m \in Nat
    BY <1>1
  <2> HIDE DEF S, m
  <2> QED BY <1>4, <2>1, Downward
<1>6. 1 \in S
  <2> HIDE DEF S
  <2> QED BY <1>1, <1>5
<1>7. f[L + 1] = g[1]
  BY <1>6
<1> QED BY <1>7 DEF L

LEMMA EntryCounts ==
    ASSUME NEW R, NEW e \in Seq(Entry(R))
    PROVE  Len(e) \in Nat /\ \A i \in 1 .. Len(e) : e[i] \in Entry(R) /\ e[i].count \in Nat
<1>1. Len(e) \in Nat /\ \A i \in 1 .. Len(e) : e[i] \in Entry(R)
  <2> DEFINE E == Entry(R)
  <2> HIDE DEF E
  <2>1. e \in Seq(E)
    BY DEF E
  <2> QED BY <2>1, LenProperties, ElementOfSeq DEF E
<1> QED BY <1>1 DEF Entry

LEMMA UnitsHead ==
    ASSUME NEW R, NEW C, NEW u \in WholeUnits(R, C), NEW T \in Seq(Entry(R))
    PROVE  Units(EntriesOf(u) \o T, C) = << u >> \o Units(T, C)
<1> DEFINE h == EntriesOf(u)
           e == h \o T
           n == Len(u.rows)
<1>1. h \in Seq(Entry(R)) /\ n \in Nat \ {0}
  BY WholeEntries
<1>2. /\ e \in Seq(Entry(R)) /\ Len(h) \in Nat /\ Len(T) \in Nat /\ Len(e) = Len(h) + Len(T)
      /\ \A i \in 1 .. Len(h) : e[i] = h[i]
  <2> DEFINE E == Entry(R)
  <2>1. h \in Seq(E) /\ T \in Seq(E)
    BY <1>1
  <2> HIDE DEF E, h
  <2> QED BY <2>1, ConcatProperties, LenProperties DEF E
<1>3. PICK f : IsUnits(f, e, C) /\ Units(e, C) = f[1]
  <2> HIDE DEF e
  <2> QED BY <1>2, EntryCounts, UnitsExists
<1>4. PICK g : IsUnits(g, T, C) /\ Units(T, C) = g[1]
  BY EntryCounts, UnitsExists
<1>5. f[Len(h) + 1] = g[1]
  <2> HIDE DEF h
  <2> QED BY <1>1, <1>3, <1>4, UnitsShift
<1>6. f[1] = UnitsStep(f, e, C, 1)
  <2> HIDE DEF e, h
  <2>1. 1 \in 1 .. Len(e) + 1
    BY <1>2
  <2> QED BY <1>3, <2>1 DEF IsUnits
<1>7. CASE Plain(u)
  <2>1. h = << RowEntry(u.rows[1]) >> /\ u = Unit(FALSE, 0, << u.rows[1] >>)
    BY <1>7, WholeEntries, Zenon DEF PlainShape
  <2>2. Len(h) = 1 /\ h[1] = RowEntry(u.rows[1])
    BY <2>1
  <2> HIDE DEF h, e
  <2>3. e[1] = RowEntry(u.rows[1]) /\ ~(1 > Len(e))
    BY <1>2, <2>2
  <2>4. e[1].kind = "row" /\ e[1].row = u.rows[1]
    BY <2>3 DEF RowEntry
  <2>5. f[1] = << Unit(FALSE, 0, << u.rows[1] >>) >> \o f[2]
    BY <1>6, <2>3, <2>4 DEF UnitsStep
  <2>6. f[2] = g[1]
    BY <1>5, <2>2
  <2> QED BY <1>3, <1>4, <2>1, <2>5, <2>6 DEF e, h
<1>8. CASE ~Plain(u)
  <2>0. u.bracket
    BY <1>8 DEF Plain
  <2>1. /\ Len(h) = n + 1 /\ h[1] = BracketEntry(u.sequence, n)
        /\ \A k \in 1 .. n : h[k + 1] = RowEntry(u.rows[k])
        /\ u = Unit(TRUE, u.sequence, [k \in 1 .. n |-> u.rows[k]])
        /\ u.sequence \in C
    <3>1. BracketShape(u) /\ u.sequence \in C
      BY <2>0, WholeEntries, Zenon
    <3> QED BY <3>1 DEF BracketShape
  <2> HIDE DEF h, e, n
  <2>2. e[1] = BracketEntry(u.sequence, n) /\ ~(1 > Len(e)) /\ 1 + n <= Len(e)
    BY <1>1, <1>2, <2>1
  <2>3. e[1].kind = "bracket" /\ e[1].sequence = u.sequence /\ e[1].count = n
    BY <2>2 DEF BracketEntry
  <2>4. \A k \in 1 .. n : e[1 + k] = RowEntry(u.rows[k])
    <3>1. \A k \in 1 .. n : k + 1 \in 1 .. Len(h) /\ 1 + k = k + 1
      BY <1>1, <2>1
    <3> QED BY <1>2, <2>1, <3>1
  <2>5. \A k \in 1 .. n : e[1 + k].row = u.rows[k] /\ e[1 + k].kind = "row"
    <3>1. \A r : RowEntry(r).row = r /\ RowEntry(r).kind = "row"
      BY DEF RowEntry
    <3> QED BY <2>4, <3>1
  <2>6. Complete(e, 1)
    <3>1. \A k \in (1 + 1) .. (1 + n) : k - 1 \in 1 .. n /\ k = 1 + (k - 1)
      BY <1>1
    <3> QED BY <2>2, <2>3, <2>5, <3>1 DEF Complete
  <2>7. BracketUnit(e, 1) = u
    <3>1. [k \in 1 .. n |-> e[1 + k].row] = [k \in 1 .. n |-> u.rows[k]]
      BY <2>5
    <3> QED BY <2>1, <2>3, <3>1 DEF BracketUnit
  <2>8. f[1] = << u >> \o f[1 + n + 1]
    BY <1>6, <2>1, <2>2, <2>3, <2>6, <2>7 DEF UnitsStep
  <2>9. f[1 + n + 1] = g[1]
    <3>1. Len(h) + 1 = 1 + n + 1
      BY <1>1, <2>1
    <3> QED BY <1>5, <3>1
  <2> QED BY <1>3, <1>4, <2>8, <2>9 DEF e, h
<1> QED BY <1>7, <1>8

(* What an open finds in a log of encoded units is those units, and what   *)
(* it makes of the records behind them.                                    *)
LEMMA UnitsOfEncoded ==
    ASSUME NEW R, NEW C, NEW V \in Seq(WholeUnits(R, C)), NEW T \in Seq(Entry(R))
    PROVE  Units(Encoded(V) \o T, C) = V \o Units(T, C)
<1> DEFINE X == WholeUnits(R, C)
           E == Entry(R)
           Good(v) == \A t \in Seq(E) : Units(Encoded(v) \o t, C) = v \o Units(t, C)
           S == {v \in Seq(X) : Good(v)}
<1>1. << >> \in S
  <2>1. ASSUME NEW t \in Seq(E)
        PROVE  Units(Encoded(<< >>) \o t, C) = << >> \o Units(t, C)
    <3>1. Units(t, C) \in Seq(UnitType(R))
      BY UnitsTyped
    <3> DEFINE W == Units(t, C)
               U == UnitType(R)
    <3>2. << >> \o t = t
      <4> HIDE DEF E
      <4> QED BY ConcatEmptySeq
    <3> HIDE DEF W, U
    <3>3. << >> \o W = W
      BY <3>1, ConcatEmptySeq DEF W, U
    <3> QED BY <3>2, <3>3, EncodedNone DEF W
  <2>2. << >> \in Seq(X)
    BY EmptySeq
  <2> QED BY <2>1, <2>2
<1>2. ASSUME NEW v \in S, NEW u \in X
      PROVE  Append(v, u) \in S
  <2>1. v \in Seq(X) /\ Good(v) /\ Append(v, u) \in Seq(X)
    <3> HIDE DEF X
    <3> QED BY AppendProperties
  <2>2. ASSUME NEW t \in Seq(E)
        PROVE  Units(Encoded(Append(v, u)) \o t, C) = Append(v, u) \o Units(t, C)
    <3> DEFINE h == EntriesOf(u)
               a == Encoded(v)
               W == Units(t, C)
               U == UnitType(R)
    <3>1. Encoded(Append(v, u)) = a \o h
      <4> HIDE DEF X
      <4> QED BY <2>1, EncodedMore
    <3>2. h \in Seq(E)
      BY WholeEntries
    <3>3. v \in Seq(U) /\ u \in U
      <4>1. X \subseteq U
        BY DEF WholeUnits
      <4> HIDE DEF X, U
      <4> QED BY <2>1, <4>1, SeqMonotonic
    <3>4. a \in Seq(E) /\ W \in Seq(U)
      BY <3>3, EncodedTyped, UnitsTyped
    <3>5. Units(h \o t, C) = << u >> \o W
      BY UnitsHead
    <3> HIDE DEF h, a, W, U, E, X
    <3>6. h \o t \in Seq(E) /\ (a \o h) \o t = a \o (h \o t)
      <4>1. t \in Seq(E)
        OBVIOUS
      <4>2. h \o t \in Seq(E)
        BY <3>2, <4>1, ConcatProperties
      <4> QED BY <3>2, <3>4, <4>1, <4>2, ConcatAssociative
    <3>7. Units(a \o (h \o t), C) = v \o (<< u >> \o W)
      <4>1. Units(a \o (h \o t), C) = v \o Units(h \o t, C)
        BY <2>1, <3>6 DEF a
      <4> QED BY <4>1, <3>5
    <3>8. v \o (<< u >> \o W) = Append(v, u) \o W
      <4>1. << u >> \in Seq(U)
        BY <3>3
      <4>2. v \o (<< u >> \o W) = (v \o << u >>) \o W
        BY <3>3, <3>4, <4>1, ConcatAssociative
      <4>3. v \o << u >> = Append(v, u)
        BY <3>3
      <4> QED BY <4>2, <4>3
    <3> QED BY <3>1, <3>6, <3>7, <3>8 DEF W
  <2> QED BY <2>1, <2>2
<1>3. S = Seq(X)
  <2>1. S \in SUBSET Seq(X)
    OBVIOUS
  <2> HIDE DEF S, X
  <2> QED BY <1>1, <1>2, <2>1, SeqsFrom
<1> QED BY <1>3

(* Records a replay makes nothing of: none, or a bracket that did not      *)
(* commit with at most its rows behind it.                                 *)
Undecided(T, C) ==
    T # << >> => /\ T[1].kind = "bracket"
                 /\ T[1].sequence \notin C
                 /\ Len(T) <= 1 + T[1].count

LEMMA UndecidedReplaysNone ==
    ASSUME NEW R, NEW C, NEW T \in Seq(Entry(R)), Undecided(T, C)
    PROVE  Units(T, C) = << >>
<1>1. Len(T) \in Nat /\ \A i \in 1 .. Len(T) : T[i].count \in Nat
  BY EntryCounts
<1>2. PICK f : IsUnits(f, T, C) /\ Units(T, C) = f[1]
  BY <1>1, UnitsExists
<1>3. f[1] = UnitsStep(f, T, C, 1)
  <2>1. 1 \in 1 .. Len(T) + 1
    BY <1>1
  <2> QED BY <1>2, <2>1 DEF IsUnits
<1>4. CASE T = << >>
  <2>1. 1 > Len(T)
    BY <1>4
  <2> QED BY <1>2, <1>3, <2>1 DEF UnitsStep
<1>5. CASE T # << >>
  <2>1. ~(1 > Len(T)) /\ 1 \in 1 .. Len(T)
    <3>1. Len(T) # 0
      <4> DEFINE E == Entry(R)
      <4>1. T \in Seq(E)
        OBVIOUS
      <4> HIDE DEF E
      <4> QED BY <1>5, <4>1, EmptySeq
    <3> QED BY <1>1, <3>1
  <2>2. T[1].kind # "row" /\ T[1].sequence \notin C /\ Len(T) <= 1 + T[1].count /\ T[1].count \in Nat
    BY <1>1, <1>5, <2>1 DEF Undecided
  <2>3. CASE ~Complete(T, 1)
    BY <1>2, <1>3, <2>1, <2>2, <2>3 DEF UnitsStep
  <2>4. CASE Complete(T, 1)
    <3>1. 1 + T[1].count = Len(T)
      BY <1>1, <2>2, <2>4 DEF Complete
    <3>2. f[Len(T) + 1] = << >>
      <4>1. Len(T) + 1 \in 1 .. Len(T) + 1 /\ Len(T) + 1 > Len(T)
        BY <1>1
      <4>2. f[Len(T) + 1] = UnitsStep(f, T, C, Len(T) + 1)
        BY <1>2, <4>1 DEF IsUnits
      <4> QED BY <4>1, <4>2 DEF UnitsStep
    <3>3. ~(1 + T[1].count < Len(T))
      BY <1>1, <3>1
    <3>4. f[1] = << >> \o f[1 + T[1].count + 1]
      BY <1>3, <2>1, <2>2, <2>4, <3>3 DEF UnitsStep
    <3>5. f[1] = << >> \o << >>
      BY <3>1, <3>2, <3>4
    <3> QED BY <1>2, <3>5
  <2> QED BY <2>3, <2>4
<1> QED BY <1>4, <1>5

LEMMA UndecidedPrefix ==
    ASSUME NEW R, NEW C, NEW T \in Seq(Entry(R)), Undecided(T, C), NEW n \in 0 .. Len(T)
    PROVE  Undecided(SubSeq(T, 1, n), C) /\ SubSeq(T, 1, n) \in Seq(Entry(R))
<1> DEFINE X == Entry(R)
<1>0. Len(T) \in Nat /\ \A i \in 1 .. Len(T) : T[i] \in X /\ T[i].count \in Nat
  BY EntryCounts
<1> HIDE DEF X
<1>1. T \in Seq(X) /\ Len(T) \in Nat /\ \A i \in 1 .. Len(T) : T[i] \in X
  BY <1>0 DEF X
<1> DEFINE P == SubSeq(T, 1, n)
<1>2. P \in Seq(X) /\ Len(P) = n /\ \A i \in 1 .. n : P[i] = T[i]
  BY <1>1
<1> HIDE DEF P
<1>3. ASSUME P # << >>
      PROVE  n # 0 /\ T # << >> /\ P[1] = T[1] /\ Len(P) <= Len(T)
  <2>1. n # 0
    BY <1>2, <1>3, EmptySeq
  <2>2. n \in 1 .. Len(T) /\ 1 \in 1 .. n
    BY <1>1, <2>1
  <2> QED BY <1>1, <1>2, <2>1, <2>2
<1>4. Undecided(P, C)
  <2> SUFFICES ASSUME P # << >>
               PROVE  P[1].kind = "bracket" /\ P[1].sequence \notin C /\ Len(P) <= 1 + P[1].count
    BY DEF Undecided
  <2>1. T # << >> /\ P[1] = T[1] /\ Len(P) <= Len(T)
    BY <1>3
  <2>2. T[1].kind = "bracket" /\ T[1].sequence \notin C /\ Len(T) <= 1 + T[1].count
    BY <2>1 DEF Undecided
  <2>3. Len(P) <= 1 + P[1].count
    <3> DEFINE c == 1 + T[1].count
    <3>1. Len(P) \in Nat /\ Len(T) \in Nat /\ Len(P) <= Len(T) /\ Len(T) <= c
      BY <1>1, <1>2, <2>1, <2>2
    <3>2. c \in Int
      <4>1. 1 \in 1 .. Len(T)
        BY <1>1, <2>1, EmptySeq
      <4> QED BY <1>0, <4>1
    <3> QED BY <2>1, <3>1, <3>2
  <2> QED BY <2>1, <2>2, <2>3
<1> QED BY <1>2, <1>4 DEF P, X

LEMMA CleanWhole ==
    ASSUME NEW X, NEW e \in Seq(X), \A i \in 1 .. Len(e) : e[i].kind # "torn"
    PROVE  Clean(e) = e
<1> DEFINE torn == {i \in DOMAIN e : e[i].kind = "torn"}
           S == torn \cup {Len(e) + 1}
           n == Len(e)
<1>1. n \in Nat /\ DOMAIN e = 1 .. n
  BY LenProperties
<1>2. S = {n + 1}
  BY <1>1
<1>3. Min(S) = n + 1
  <2> DEFINE z == n + 1
  <2>1. {z} \in SUBSET Int /\ z \in {z} /\ \A x \in {z} : z <= x
    BY <1>1
  <2>2. S = {z}
    BY <1>2
  <2> HIDE DEF S, z
  <2>3. Min({z}) = z
    BY <2>1, MinIs
  <2> QED BY <2>2, <2>3 DEF z
<1>4. Clean(e) = SubSeq(e, 1, Min(S) - 1)
  BY DEF Clean
<1> HIDE DEF S
<1>5. (n + 1) - 1 = n
  BY <1>1
<1>6. SubSeq(e, 1, n) = e
  BY <1>1
<1> QED BY <1>3, <1>4, <1>5, <1>6

----------------------------------------------------------------------------
\* The records of units.

\* The bracket of coordinate q and its rows are among the first n records.
BracketWithin(e, q, n) ==
    \E b \in 1 .. n : /\ e[b].kind = "bracket" /\ e[b].sequence = q
                      /\ b + e[b].count <= n

Untorn(e) == \A i \in 1 .. Len(e) : e[i].kind # "torn"

LEMMA UntornUnit ==
    ASSUME NEW R, NEW C, NEW u \in WholeUnits(R, C)
    PROVE  Untorn(EntriesOf(u)) /\ Len(EntriesOf(u)) > 0
<1> DEFINE h == EntriesOf(u)
           n == Len(u.rows)
<1>1. n \in Nat \ {0} /\ (Plain(u) => PlainShape(u)) /\ (u.bracket => BracketShape(u))
  BY WholeEntries, Zenon
<1>0. /\ \A r : RowEntry(r).kind # "torn"
      /\ \A q, c : BracketEntry(q, c).kind # "torn"
  BY DEF RowEntry, BracketEntry
<1>2. CASE Plain(u)
  <2>1. h = << RowEntry(u.rows[1]) >>
    BY <1>1, <1>2 DEF PlainShape
  <2>2. Len(h) = 1 /\ h[1] = RowEntry(u.rows[1])
    BY <2>1
  <2> HIDE DEF h
  <2> QED BY <1>0, <2>2 DEF h, Untorn
<1>3. CASE ~Plain(u)
  <2>1. u.bracket
    BY <1>3 DEF Plain
  <2>2. /\ Len(h) = n + 1 /\ h[1] = BracketEntry(u.sequence, n)
        /\ \A k \in 1 .. n : h[k + 1] = RowEntry(u.rows[k])
    BY <1>1, <2>1, Zenon DEF BracketShape
  <2> HIDE DEF h, n
  <2>3. \A i \in 1 .. Len(h) : i = 1 \/ (i - 1 \in 1 .. n /\ i = (i - 1) + 1)
    BY <1>1, <2>2
  <2>4. \A i \in 1 .. Len(h) : h[i].kind # "torn"
    <3> TAKE i \in 1 .. Len(h)
    <3>1. CASE i = 1
      BY <1>0, <2>2, <3>1
    <3>2. CASE i # 1
      <4>1. i - 1 \in 1 .. n /\ i = (i - 1) + 1
        BY <2>3, <3>2
      <4>2. h[(i - 1) + 1] = RowEntry(u.rows[i - 1])
        BY <2>2, <4>1
      <4> QED BY <1>0, <4>1, <4>2
    <3> QED BY <3>1, <3>2
  <2> QED BY <1>1, <2>2, <2>4 DEF h, Untorn
<1> QED BY <1>2, <1>3

LEMMA WithinMore ==
    ASSUME NEW R, NEW a \in Seq(Entry(R)), NEW h \in Seq(Entry(R)), NEW q, NEW n \in 0 .. Len(a)
    PROVE  /\ BracketWithin(a, q, n) <=> BracketWithin(a \o h, q, n)
           /\ BracketWithin(a, q, Len(a)) => BracketWithin(a \o h, q, Len(a \o h))
           /\ BracketWithin(h, q, Len(h)) => BracketWithin(a \o h, q, Len(a \o h))
           /\ Untorn(a) /\ Untorn(h) => Untorn(a \o h)
<1> DEFINE E == Entry(R)
           e == a \o h
           A == Len(a)
           H == Len(h)
<1>1. /\ A \in Nat /\ H \in Nat /\ Len(e) = A + H
      /\ (\A i \in 1 .. A : e[i] = a[i]) /\ \A i \in 1 .. H : e[A + i] = h[i]
  <2>1. a \in Seq(E) /\ h \in Seq(E)
    OBVIOUS
  <2> HIDE DEF E
  <2> QED BY <2>1, ConcatProperties, LenProperties
<1>2. (\A i \in 1 .. A : a[i].count \in Nat) /\ \A i \in 1 .. H : h[i].count \in Nat
  BY EntryCounts
<1> HIDE DEF e, A, H
<1>3. \A b \in 1 .. n : b \in 1 .. A
  BY <1>1 DEF A
<1>4. BracketWithin(a, q, n) <=> BracketWithin(e, q, n)
  BY <1>1, <1>3 DEF BracketWithin
<1>5. BracketWithin(a, q, A) => BracketWithin(e, q, Len(e))
  <2> SUFFICES ASSUME BracketWithin(a, q, A) PROVE BracketWithin(e, q, Len(e))
    OBVIOUS
  <2>1. PICK b \in 1 .. A : a[b].kind = "bracket" /\ a[b].sequence = q /\ b + a[b].count <= A
    BY DEF BracketWithin
  <2>2. e[b] = a[b] /\ b \in 1 .. Len(e) /\ a[b].count \in Nat
    BY <1>1, <1>2
  <2>3. b + e[b].count <= Len(e)
    BY <1>1, <2>1, <2>2
  <2> QED BY <2>1, <2>2, <2>3 DEF BracketWithin
<1>6. BracketWithin(h, q, H) => BracketWithin(e, q, Len(e))
  <2> SUFFICES ASSUME BracketWithin(h, q, H) PROVE BracketWithin(e, q, Len(e))
    OBVIOUS
  <2>1. PICK b \in 1 .. H : h[b].kind = "bracket" /\ h[b].sequence = q /\ b + h[b].count <= H
    BY DEF BracketWithin
  <2>2. e[A + b] = h[b] /\ A + b \in 1 .. Len(e) /\ h[b].count \in Nat
    BY <1>1, <1>2
  <2>3. A + b + e[A + b].count <= Len(e)
    BY <1>1, <2>1, <2>2
  <2> QED BY <2>1, <2>2, <2>3 DEF BracketWithin
<1>7. ASSUME Untorn(a), Untorn(h) PROVE Untorn(e)
  <2>1. \A i \in 1 .. Len(e) : i \in 1 .. A \/ (i - A \in 1 .. H /\ i = A + (i - A))
    BY <1>1
  <2>2. (\A i \in 1 .. A : a[i].kind # "torn") /\ \A i \in 1 .. H : h[i].kind # "torn"
    BY <1>7 DEF Untorn, A, H
  <2>3. \A i \in 1 .. Len(e) : e[i].kind # "torn"
    <3> TAKE i \in 1 .. Len(e)
    <3>1. CASE i \in 1 .. A
      BY <1>1, <2>2, <3>1
    <3>2. CASE i - A \in 1 .. H /\ i = A + (i - A)
      <4>1. e[A + (i - A)] = h[i - A]
        BY <1>1, <3>2
      <4> QED BY <2>2, <3>2, <4>1
    <3> QED BY <2>1, <3>1, <3>2
  <2> QED BY <2>3 DEF Untorn
<1> QED BY <1>4, <1>5, <1>6, <1>7 DEF e, A, H

LEMMA UnitWithin ==
    ASSUME NEW R, NEW C, NEW u \in WholeUnits(R, C), u.bracket
    PROVE  BracketWithin(EntriesOf(u), u.sequence, Len(EntriesOf(u)))
<1> DEFINE h == EntriesOf(u)
           n == Len(u.rows)
<1>1. n \in Nat \ {0} /\ BracketShape(u)
  BY WholeEntries, Zenon
<1>2. Len(h) = n + 1 /\ h[1] = BracketEntry(u.sequence, n)
  BY <1>1, Zenon DEF BracketShape
<1> HIDE DEF h, n
<1>3. h[1].kind = "bracket" /\ h[1].sequence = u.sequence /\ h[1].count = n
  BY <1>2 DEF BracketEntry
<1>4. 1 \in 1 .. Len(h) /\ 1 + h[1].count <= Len(h)
  BY <1>1, <1>2, <1>3
<1> QED BY <1>3, <1>4 DEF BracketWithin, h

(* The records of whole units: untorn, no fewer than the units, each       *)
(* bracket with its rows.                                                  *)
LEMMA EncodedWhole ==
    ASSUME NEW R, NEW C, NEW V \in Seq(WholeUnits(R, C))
    PROVE  LET e == Encoded(V)
           IN  /\ e \in Seq(Entry(R)) /\ Untorn(e) /\ V \in Seq(UnitType(R))
               /\ Len(V) <= Len(e)
               /\ \A i \in 1 .. Len(V) : V[i].bracket => BracketWithin(e, V[i].sequence, Len(e))
<1> DEFINE X == WholeUnits(R, C)
           E == Entry(R)
           All(v) == \A i \in 1 .. Len(v) :
                        v[i].bracket => BracketWithin(Encoded(v), v[i].sequence, Len(Encoded(v)))
           Good(v) == /\ Encoded(v) \in Seq(E) /\ Untorn(Encoded(v))
                      /\ Len(v) <= Len(Encoded(v)) /\ All(v)
           S == {v \in Seq(X) : Good(v)}
<1>1. << >> \in S
  <2>1. << >> \in Seq(X) /\ << >> \in Seq(E)
    BY EmptySeq
  <2>2. Untorn(<< >>) /\ All(<< >>) /\ Len(<< >>) <= Len(<< >>)
    BY DEF Untorn
  <2> HIDE DEF All
  <2>3. Good(<< >>)
    BY <2>1, <2>2, EncodedNone
  <2> HIDE DEF Good
  <2> QED BY <2>1, <2>3
<1>2. ASSUME NEW v \in S, NEW u \in X
      PROVE  Append(v, u) \in S
  <2> DEFINE a == Encoded(v)
             h == EntriesOf(u)
             g == Append(v, u)
             e == a \o h
  <2>1. v \in Seq(X) /\ Good(v)
    OBVIOUS
  <2>2. g \in Seq(X) /\ Encoded(g) = e
    <3> HIDE DEF X, Good
    <3> QED BY <2>1, EncodedMore, AppendProperties
  <2>3. /\ Len(v) \in Nat /\ Len(g) = Len(v) + 1 /\ (\A i \in 1 .. Len(v) : g[i] = v[i])
        /\ g[Len(v) + 1] = u
    <3> HIDE DEF X, Good
    <3> QED BY <2>1, AppendProperties, LenProperties
  <2>4. h \in Seq(E) /\ Untorn(h) /\ Len(h) > 0
    BY WholeEntries, UntornUnit, Zenon
  <2>5. a \in Seq(E) /\ Untorn(a) /\ Len(v) <= Len(a) /\ All(v)
    <3> HIDE DEF All
    <3> QED BY <2>1
  <2>6. e \in Seq(E) /\ Len(e) = Len(a) + Len(h) /\ Len(a) \in Nat /\ Len(h) \in Nat
    <3> HIDE DEF E, a, h
    <3> QED BY <2>4, <2>5, ConcatProperties, LenProperties
  <2>7. /\ Untorn(e)
        /\ \A q : BracketWithin(a, q, Len(a)) => BracketWithin(e, q, Len(e))
        /\ \A q : BracketWithin(h, q, Len(h)) => BracketWithin(e, q, Len(e))
    <3>1. Len(a) \in 0 .. Len(a)
      BY <2>6
    <3> HIDE DEF a, h
    <3> QED BY <2>4, <2>5, <3>1, WithinMore
  <2>8. All(g)
    <3> SUFFICES ASSUME NEW i \in 1 .. Len(g), g[i].bracket
                 PROVE  BracketWithin(e, g[i].sequence, Len(e))
      BY <2>2
    <3>1. CASE i \in 1 .. Len(v)
      <4>1. v[i] = g[i]
        BY <2>3, <3>1
      <4>2. BracketWithin(a, v[i].sequence, Len(a))
        BY <2>5, <3>1, <4>1
      <4> HIDE DEF a, e
      <4> QED BY <2>7, <4>1, <4>2
    <3>2. CASE i = Len(v) + 1
      <4>1. g[i] = u
        BY <2>3, <3>2
      <4>2. BracketWithin(h, u.sequence, Len(h))
        BY <4>1, UnitWithin
      <4> HIDE DEF h, e
      <4> QED BY <2>7, <4>1, <4>2
    <3> QED BY <2>3, <3>1, <3>2
  <2>9. Len(g) <= Len(e)
    <3> HIDE DEF a, h, g, e
    <3> QED BY <2>3, <2>4, <2>5, <2>6
  <2>10. Good(g)
    <3> HIDE DEF All, g, e
    <3> QED BY <2>2, <2>6, <2>7, <2>8, <2>9
  <2> HIDE DEF Good, X
  <2> QED BY <2>2, <2>10
<1>3. S = Seq(X)
  <2>1. S \in SUBSET Seq(X)
    OBVIOUS
  <2> HIDE DEF S, X
  <2> QED BY <1>1, <1>2, <2>1, SeqsFrom
<1>4. Good(V)
  <2> HIDE DEF Good
  <2> QED BY <1>3
<1>5. V \in Seq(UnitType(R))
  <2>1. X \subseteq UnitType(R)
    BY DEF WholeUnits
  <2> QED BY <2>1, SeqMonotonic
<1> QED BY <1>4, <1>5

----------------------------------------------------------------------------
\* A log cut short behind rows logged on their own.

\* The last p units are rows on their own.
TailPlain(V, p) == \A i \in 1 .. Len(V) : i > Len(V) - p => Plain(V[i])

\* What is left when the first k records survive: some units, whole, that
\* lack the last rows of V and none of its brackets.
CutsAt(V, k, R, C) ==
    \E W \in Seq(WholeUnits(R, C)), Y \in Seq(R) :
        /\ SubSeq(Encoded(V), 1, k) = Encoded(W)
        /\ Carried(V) = Carried(W) \o Y
        /\ Len(Y) = Len(Encoded(V)) - k
        /\ \A i \in 1 .. Len(V) : V[i].bracket => \E j \in 1 .. Len(W) : W[j] = V[i]

LEMMA OneFurther ==
    ASSUME NEW X, NEW a \in Seq(X), NEW b \in Seq(X), NEW x \in X
    PROVE  (a \o b) \o << x >> = a \o Append(b, x)
<1>1. b \o << x >> = Append(b, x)
  OBVIOUS
<1> DEFINE c == << x >>
<1>2. c \in Seq(X)
  OBVIOUS
<1> HIDE DEF c
<1>3. (a \o b) \o c = a \o (b \o c)
  BY <1>2, ConcatAssociative
<1> QED BY <1>1, <1>3 DEF c

LEMMA CarriedTyped ==
    ASSUME NEW R, NEW units \in Seq(UnitType(R))
    PROVE  Carried(units) \in Seq(R)
<1>1. WellFormed(EmptyShared, R) /\ Known(EmptyShared) /\ Reaches(EmptyShared, 0)
  BY EmptyFits
<1> DEFINE t == Replayed(EmptyShared, units)
<1>2. WellFormed(t, R)
  BY <1>1, ReplayedGrows
<1> HIDE DEF t
<1>3. t.buffer \in Seq(R)
  BY <1>2, FieldTypes DEF WellFormed
<1> QED BY <1>3 DEF Carried, t

LEMMA WholeCut ==
    ASSUME NEW R, NEW C, NEW V \in Seq(WholeUnits(R, C))
    PROVE  CutsAt(V, Len(Encoded(V)), R, C)
<1> DEFINE e == Encoded(V)
           X == WholeUnits(R, C)
<1>1. e \in Seq(Entry(R)) /\ V \in Seq(UnitType(R))
  BY EncodedWhole
<1>2. SubSeq(e, 1, Len(e)) = e
  <2> DEFINE E == Entry(R)
  <2>1. e \in Seq(E)
    BY <1>1
  <2> HIDE DEF E, e
  <2> QED BY <2>1
<1>3. Carried(V) \in Seq(R)
  BY <1>1, CarriedTyped
<1>4. Carried(V) = Carried(V) \o << >> /\ << >> \in Seq(R) /\ Len(<< >>) = 0
  BY <1>3, ConcatEmptySeq, EmptySeq
<1>5. Len(e) - Len(e) = 0
  <2>1. Len(e) \in Nat
    BY <1>1, EntryCounts
  <2> QED BY <2>1
<1> HIDE DEF e, X
<1>6. V \in Seq(X)
  BY DEF X
<1> QED BY <1>2, <1>4, <1>5, <1>6 DEF CutsAt, e, X

LEMMA PlainCut ==
    ASSUME NEW R, NEW C, NEW V \in Seq(WholeUnits(R, C)), NEW p \in 0 .. Len(V),
           TailPlain(V, p),
           NEW k \in Nat, Len(Encoded(V)) - p <= k, k <= Len(Encoded(V))
    PROVE  CutsAt(V, k, R, C)
<1> DEFINE X == WholeUnits(R, C)
           E == Entry(R)
           Good(v) == \A b \in 0 .. Len(v) : TailPlain(v, b) =>
                        \A n \in Nat : Len(Encoded(v)) - b <= n /\ n <= Len(Encoded(v))
                                         => CutsAt(v, n, R, C)
           S == {v \in Seq(X) : Good(v)}
<1>1. << >> \in S
  <2>1. << >> \in Seq(X)
    BY EmptySeq
  <2>2. CutsAt(<< >>, Len(Encoded(<< >>)), R, C)
    BY <2>1, WholeCut
  <2>3. Len(Encoded(<< >>)) = 0 /\ Len(<< >>) = 0
    BY EncodedNone
  <2>4. Good(<< >>)
    <3> SUFFICES ASSUME NEW b \in 0 .. Len(<< >>), NEW n \in Nat, n <= Len(Encoded(<< >>))
                 PROVE  CutsAt(<< >>, n, R, C)
      OBVIOUS
    <3>1. n = Len(Encoded(<< >>))
      BY <2>3
    <3> QED BY <2>2, <3>1
  <2> HIDE DEF Good
  <2> QED BY <2>1, <2>4
<1>2. ASSUME NEW v \in S, NEW u \in X
      PROVE  Append(v, u) \in S
  <2> DEFINE a == Encoded(v)
             h == EntriesOf(u)
             g == Append(v, u)
             e == a \o h
  <2>1. v \in Seq(X) /\ Good(v)
    OBVIOUS
  <2>2. g \in Seq(X) /\ Encoded(g) = e
    <3> HIDE DEF X, Good
    <3> QED BY <2>1, EncodedMore, AppendProperties
  <2>3. /\ Len(v) \in Nat /\ Len(g) = Len(v) + 1 /\ (\A i \in 1 .. Len(v) : g[i] = v[i])
        /\ g[Len(v) + 1] = u
    <3> HIDE DEF X, Good
    <3> QED BY <2>1, AppendProperties, LenProperties
  <2>4. h \in Seq(E) /\ (Plain(u) => PlainShape(u)) /\ u.rows \in Seq(R) /\ u.rows[1] \in R
    BY WholeEntries, Zenon
  <2>5. a \in Seq(E) /\ v \in Seq(UnitType(R))
    <3> HIDE DEF Good
    <3> QED BY <2>1, EncodedWhole
  <2>6. /\ e \in Seq(E) /\ Len(e) = Len(a) + Len(h) /\ Len(a) \in Nat /\ Len(h) \in Nat
        /\ \A i \in 1 .. Len(a) : e[i] = a[i]
    <3> HIDE DEF E, a, h
    <3> QED BY <2>4, <2>5, ConcatProperties, LenProperties
  <2>7. Carried(g) = Carried(v) \o u.rows /\ Carried(v) \in Seq(R)
    <3>1. u \in UnitType(R)
      BY DEF WholeUnits
    <3> QED BY <2>5, <3>1, CarriedMore
  <2>8. ASSUME NEW b \in 0 .. Len(g), TailPlain(g, b), NEW n \in Nat,
               Len(e) - b <= n, n <= Len(e)
        PROVE  CutsAt(g, n, R, C)
    <3>1. CASE n = Len(e)
      <4>1. CutsAt(g, Len(Encoded(g)), R, C)
        <5> HIDE DEF g
        <5> QED BY <2>2, WholeCut
      <4> QED BY <2>2, <3>1, <4>1
    <3>2. CASE n # Len(e)
      <4>1. b # 0 /\ b \in Nat /\ b - 1 \in 0 .. Len(v)
        <5> DEFINE l == Len(g)
                   z == Len(e)
        <5>1. b \in 0 .. l /\ z - b <= n /\ n <= z /\ n # z /\ l = Len(v) + 1 /\ z \in Nat
          BY <2>3, <2>6, <2>8, <3>2
        <5> HIDE DEF l, z
        <5> QED BY <2>3, <5>1
      <4>2. Plain(u)
        <5>1. Len(v) + 1 \in 1 .. Len(g) /\ Len(v) + 1 > Len(g) - b
          BY <2>3, <4>1
        <5> HIDE DEF g
        <5> QED BY <2>3, <2>8, <5>1 DEF TailPlain
      <4>3. TailPlain(v, b - 1)
        <5>1. \A i \in 1 .. Len(v) : i > Len(v) - (b - 1) =>
                 i \in 1 .. Len(g) /\ i > Len(g) - b /\ g[i] = v[i]
          BY <2>3, <4>1
        <5> HIDE DEF g
        <5> QED BY <2>8, <5>1 DEF TailPlain
      <4>4. PlainShape(u)
        BY <2>4, <4>2
      <4>5. Len(h) = 1 /\ u.rows = << u.rows[1] >>
        BY <4>4 DEF PlainShape
      <4>6. Len(a) - (b - 1) <= n /\ n <= Len(a)
        <5> HIDE DEF a, h, e, g
        <5> QED BY <2>3, <2>6, <2>8, <3>2, <4>1, <4>5
      <4>7. CutsAt(v, n, R, C)
        BY <2>1, <4>1, <4>3, <4>6
      <4>8. PICK W \in Seq(X), Y \in Seq(R) :
                /\ SubSeq(a, 1, n) = Encoded(W)
                /\ Carried(v) = Carried(W) \o Y
                /\ Len(Y) = Len(a) - n
                /\ \A i \in 1 .. Len(v) : v[i].bracket => \E j \in 1 .. Len(W) : W[j] = v[i]
        BY <4>7 DEF CutsAt
      <4> DEFINE row == u.rows[1]
                 Z == Append(Y, row)
      <4>9. Z \in Seq(R) /\ Len(Z) = Len(Y) + 1 /\ Y \o << row >> = Z
        BY <2>4, AppendProperties
      <4>10. SubSeq(e, 1, n) = Encoded(W)
        <5> HIDE DEF a, e, E
        <5>1. \A i \in 1 .. n : e[i] = a[i] /\ e[i] \in E
          <6>1. \A i \in 1 .. n : i \in 1 .. Len(a)
            BY <2>6, <4>6
          <6>2. \A i \in 1 .. Len(a) : a[i] \in E
            BY <2>5, ElementOfSeq
          <6> QED BY <2>6, <6>1, <6>2
        <5>2. SubSeq(e, 1, n) = [i \in 1 .. n |-> e[i]] /\ SubSeq(a, 1, n) = [i \in 1 .. n |-> a[i]]
          BY <2>5, <2>6, <4>6
        <5>3. [i \in 1 .. n |-> e[i]] = [i \in 1 .. n |-> a[i]]
          BY <5>1
        <5> QED BY <4>8, <5>2, <5>3
      <4>11. Carried(g) = Carried(W) \o Z
        <5>1. W \in Seq(UnitType(R))
          BY EncodedWhole
        <5>2. Carried(W) \in Seq(R)
          BY <5>1, CarriedTyped
        <5>4. Carried(g) = (Carried(W) \o Y) \o << row >>
          BY <2>7, <4>5, <4>8
        <5> HIDE DEF e, a, h, g, X, E, row
        <5>5. row \in R
          BY <2>4 DEF row
        <5>6. (Carried(W) \o Y) \o << row >> = Carried(W) \o Append(Y, row)
          BY <5>2, <5>5, OneFurther
        <5> QED BY <5>4, <5>6
      <4>12. Len(Z) = Len(e) - n
        <5> HIDE DEF Z, e, a, h
        <5> QED BY <2>6, <4>5, <4>8, <4>9
      <4>13. \A i \in 1 .. Len(g) : g[i].bracket => \E j \in 1 .. Len(W) : W[j] = g[i]
        <5> SUFFICES ASSUME NEW i \in 1 .. Len(g), g[i].bracket
                     PROVE  \E j \in 1 .. Len(W) : W[j] = g[i]
          OBVIOUS
        <5>1. i # Len(v) + 1
          <6> HIDE DEF g
          <6> QED BY <2>3, <4>2 DEF Plain
        <5>2. i \in 1 .. Len(v) /\ g[i] = v[i]
          BY <2>3, <5>1
        <5> QED BY <4>8, <5>2
      <4> HIDE DEF Z, e, g, X
      <4> QED BY <2>2, <4>9, <4>10, <4>11, <4>12, <4>13 DEF CutsAt, X
    <3> QED BY <3>1, <3>2
  <2>9. Good(g)
    <3> HIDE DEF e, g
    <3> QED BY <2>2, <2>8
  <2> HIDE DEF Good, X
  <2> QED BY <2>2, <2>9
<1>3. S = Seq(X)
  <2>1. S \in SUBSET Seq(X)
    OBVIOUS
  <2> HIDE DEF S, X
  <2> QED BY <1>1, <1>2, <2>1, SeqsFrom
<1>4. Good(V)
  <2> HIDE DEF Good
  <2> QED BY <1>3
<1> QED BY <1>4

----------------------------------------------------------------------------
\* Rows the segments already cover.

IsCount(f, units) ==
    f[0] = 0 /\ \A n \in 1 .. Len(units) : f[n] = f[n - 1] + Len(units[n].rows)

LEMMA CountExists ==
    ASSUME NEW units, Len(units) \in Nat, NEW c
    PROVE  \E f : /\ IsCount(f, units)
                  /\ Uncovered(units, c)
                       = SubSeq(units, Min({i \in DOMAIN units : f[i - 1] >= c}
                                             \cup {Len(units) + 1}), Len(units))
<1> DEFINE m == Len(units)
           Body(f, n) == [k \in 0 .. n |-> IF k = 0 THEN 0
                                           ELSE f[k - 1] + Len(units[k].rows)]
           S == {n \in 0 .. m : \E f : f = Body(f, n)}
<1>1. 0 \in S
  <2> DEFINE f == [k \in 0 .. 0 |-> 0]
  <2>1. f = Body(f, 0)
    OBVIOUS
  <2> HIDE DEF f
  <2>2. \E x : x = Body(x, 0)
    BY <2>1
  <2> QED BY <2>2
<1>2. ASSUME NEW n \in S, n < m
      PROVE  n + 1 \in S
  <2>1. PICK f : f = Body(f, n)
    OBVIOUS
  <2> DEFINE g == [k \in 0 .. n + 1 |-> IF k = n + 1 THEN f[n] + Len(units[n + 1].rows)
                                                ELSE f[k]]
  <2>2. n \in Nat /\ n + 1 \in 0 .. m
    BY <1>2
  <2>3. ASSUME NEW k \in 0 .. n + 1
        PROVE  g[k] = IF k = 0 THEN 0 ELSE g[k - 1] + Len(units[k].rows)
    <3>1. CASE k = n + 1
      <4>1. k # 0 /\ k - 1 = n /\ n \in 0 .. n + 1 /\ n # n + 1
        BY <2>2, <3>1
      <4>2. g[k] = f[n] + Len(units[n + 1].rows) /\ g[n] = f[n]
        BY <3>1, <4>1
      <4> QED BY <3>1, <4>1, <4>2
    <3>2. CASE k # n + 1
      <4>1. k \in 0 .. n /\ (k # 0 => k - 1 \in 0 .. n + 1 /\ k - 1 # n + 1)
        BY <2>2, <3>2
      <4>2. g[k] = f[k] /\ (k # 0 => g[k - 1] = f[k - 1])
        BY <3>2, <4>1
      <4>3. f[k] = Body(f, n)[k]
        BY <2>1
      <4>4. f[k] = IF k = 0 THEN 0 ELSE f[k - 1] + Len(units[k].rows)
        BY <4>1, <4>3
      <4> QED BY <4>2, <4>4
    <3> QED BY <3>1, <3>2
  <2>4. g = Body(g, n + 1)
    <3>1. g = [k \in 0 .. n + 1 |-> g[k]]
      OBVIOUS
    <3> HIDE DEF g
    <3> QED BY <2>3, <3>1
  <2> QED BY <2>2, <2>4
<1>3. m \in S
  <2>1. S \in SUBSET (0 .. m)
    OBVIOUS
  <2> HIDE DEF S
  <2>2. S = 0 .. m
    BY <1>1, <1>2, <2>1, NatsUpTo
  <2> QED BY <2>2
<1>4. PICK f0 : f0 = Body(f0, m)
  BY <1>3
<1> DEFINE Fix(f) == f = [n \in 0 .. Len(units) |->
                            IF n = 0 THEN 0 ELSE f[n - 1] + Len(units[n].rows)]
           rows == CHOOSE f : Fix(f)
           first(f) == Min({i \in DOMAIN units : f[i - 1] >= c} \cup {Len(units) + 1})
<1>5. Uncovered(units, c) = SubSeq(units, first(rows), Len(units))
  BY DEF Uncovered
<1>6. Fix(f0)
  BY <1>4, Zenon
<1>7. Fix(rows)
  <2> HIDE DEF Fix
  <2> QED BY <1>6
<1> DEFINE a == rows
<1>8. Fix(a) /\ Uncovered(units, c) = SubSeq(units, first(a), Len(units))
  BY <1>5, <1>7
<1> HIDE DEF a
<1>9. IsCount(a, units)
  <2>1. a = Body(a, m)
    BY <1>8, Zenon
  <2>2. \A k \in 0 .. m : a[k] = IF k = 0 THEN 0 ELSE a[k - 1] + Len(units[k].rows)
    <3> TAKE k \in 0 .. m
    <3>1. Body(a, m)[k] = IF k = 0 THEN 0 ELSE a[k - 1] + Len(units[k].rows)
      OBVIOUS
    <3> QED BY <2>1, <3>1
  <2>3. a[0] = 0 /\ \A k \in 1 .. m : k \in 0 .. m /\ k # 0
    BY <2>2
  <2> QED BY <2>2, <2>3 DEF IsCount
<1> QED BY <1>8, <1>9, Zenon

LEMMA CountsCarried ==
    ASSUME NEW R, NEW C, NEW V \in Seq(WholeUnits(R, C))
    PROVE  /\ Len(V) <= Len(Carried(V)) /\ Carried(V) \in Seq(R)
           /\ \A f : IsCount(f, V) =>
                \A n \in 0 .. Len(V) :
                   /\ f[n] \in Nat
                   /\ n < Len(V) => f[n] < Len(Carried(V))
<1> DEFINE X == WholeUnits(R, C)
           Counts(v, f) == /\ f[Len(v)] = Len(Carried(v))
                           /\ \A n \in 0 .. Len(v) :
                                 f[n] \in Nat /\ (n < Len(v) => f[n] < Len(Carried(v)))
           All(v) == \A f : IsCount(f, v) => Counts(v, f)
           Good(v) == Len(v) <= Len(Carried(v)) /\ Carried(v) \in Seq(R) /\ All(v)
           S == {v \in Seq(X) : Good(v)}
<1>1. << >> \in S
  <2>1. << >> \in Seq(X) /\ << >> \in Seq(R) /\ Carried(<< >>) = << >> /\ Len(<< >>) = 0
    BY EmptySeq, CarriedNone
  <2>2. ASSUME NEW f, IsCount(f, << >>) PROVE Counts(<< >>, f)
    <3>1. f[0] = 0
      BY <2>2 DEF IsCount
    <3> QED BY <2>1, <3>1
  <2> HIDE DEF Counts
  <2>3. All(<< >>)
    BY <2>2
  <2> HIDE DEF All
  <2>4. Len(<< >>) <= Len(Carried(<< >>)) /\ Carried(<< >>) \in Seq(R)
    <3> DEFINE a == Carried(<< >>)
    <3>1. a = << >>
      BY <2>1
    <3> HIDE DEF a
    <3>2. Len(<< >>) <= Len(a) /\ a \in Seq(R)
      BY <3>1, EmptySeq
    <3> QED BY <3>2 DEF a
  <2>5. Good(<< >>)
    BY <2>3, <2>4
  <2> HIDE DEF Good
  <2> QED BY <2>1, <2>5
<1>2. ASSUME NEW v \in S, NEW u \in X
      PROVE  Append(v, u) \in S
  <2> DEFINE g == Append(v, u)
  <2>1. v \in Seq(X) /\ Len(v) <= Len(Carried(v)) /\ Carried(v) \in Seq(R) /\ All(v)
    <3> HIDE DEF All
    <3> QED OBVIOUS
  <2>2. /\ g \in Seq(X) /\ Len(v) \in Nat /\ Len(g) = Len(v) + 1
        /\ (\A i \in 1 .. Len(v) : g[i] = v[i]) /\ g[Len(v) + 1] = u
    <3> HIDE DEF X
    <3> QED BY <2>1, AppendProperties, LenProperties
  <2>3. u.rows \in Seq(R) /\ Len(u.rows) \in Nat \ {0}
    BY WholeEntries, Zenon
  <2>4. Carried(g) = Carried(v) \o u.rows
    <3>1. v \in Seq(UnitType(R))
      <4> HIDE DEF All
      <4> QED BY <2>1, EncodedWhole
    <3>2. u \in UnitType(R)
      BY DEF WholeUnits
    <3> QED BY <3>1, <3>2, CarriedMore
  <2>5. Carried(g) \in Seq(R) /\ Len(Carried(g)) = Len(Carried(v)) + Len(u.rows) /\ Len(Carried(v)) \in Nat
    BY <2>1, <2>3, <2>4, ConcatProperties, LenProperties
  <2> HIDE DEF g
  <2>6. ASSUME NEW f, IsCount(f, g) PROVE Counts(g, f)
    <3>1. f[0] = 0 /\ \A n \in 1 .. Len(v) + 1 : f[n] = f[n - 1] + Len(g[n].rows)
      BY <2>2, <2>6 DEF IsCount
    <3>2. IsCount(f, v)
      <4>1. \A n \in 1 .. Len(v) : n \in 1 .. Len(v) + 1 /\ g[n] = v[n]
        BY <2>2
      <4>2. \A n \in 1 .. Len(v) : f[n] = f[n - 1] + Len(v[n].rows)
        BY <3>1, <4>1
      <4> QED BY <3>1, <4>2 DEF IsCount
    <3>3. Counts(v, f)
      <4> HIDE DEF Counts
      <4> QED BY <2>1, <3>2
    <3>4. f[Len(v) + 1] = f[Len(v)] + Len(u.rows)
      <4>1. Len(v) + 1 \in 1 .. Len(v) + 1 /\ (Len(v) + 1) - 1 = Len(v)
        BY <2>2
      <4> QED BY <2>2, <3>1, <4>1
    <3>5. f[Len(g)] = Len(Carried(g))
      BY <2>2, <2>5, <3>3, <3>4
    <3>6. \A n \in 0 .. Len(g) : n \in 0 .. Len(v) \/ n = Len(g)
      BY <2>2
    <3>7. \A n \in 0 .. Len(v) : f[n] \in Nat /\ f[n] < Len(Carried(g))
      <4> TAKE n \in 0 .. Len(v)
      <4>1. f[n] \in Nat /\ (n < Len(v) => f[n] < Len(Carried(v)))
            /\ f[Len(v)] = Len(Carried(v))
        BY <3>3
      <4>2. n < Len(v) \/ n = Len(v)
        BY <2>2
      <4> QED BY <2>3, <2>5, <4>1, <4>2
    <3>8. Len(Carried(g)) \in Nat
      BY <2>3, <2>5
    <3> QED BY <2>2, <3>5, <3>6, <3>7, <3>8
  <2>7. All(g)
    <3> HIDE DEF Counts
    <3> QED BY <2>6
  <2>8. Len(g) <= Len(Carried(g))
    BY <2>1, <2>2, <2>3, <2>5
  <2> HIDE DEF All, X
  <2> QED BY <2>2, <2>5, <2>7, <2>8 DEF g
<1>3. S = Seq(X)
  <2>1. S \in SUBSET Seq(X)
    OBVIOUS
  <2> HIDE DEF S, X
  <2> QED BY <1>1, <1>2, <2>1, SeqsFrom
<1>4. Good(V)
  <2> HIDE DEF Good
  <2> QED BY <1>3
<1> QED BY <1>4

LEMMA UncoveredWhole ==
    ASSUME NEW R, NEW C, NEW V \in Seq(WholeUnits(R, C)), NEW c \in Nat
    PROVE  /\ c = 0 => Uncovered(V, c) = V
           /\ c >= Len(Carried(V)) => Uncovered(V, c) = << >>
<1> DEFINE n == Len(V)
           X == WholeUnits(R, C)
<1>1. n \in Nat /\ DOMAIN V = 1 .. n /\ \A i \in 1 .. n : V[i] \in X
  <2> HIDE DEF X
  <2>1. V \in Seq(X)
    BY DEF X
  <2> QED BY <2>1, LenProperties, ElementOfSeq
<1>2. PICK f : /\ IsCount(f, V)
               /\ Uncovered(V, c) = SubSeq(V, Min({i \in DOMAIN V : f[i - 1] >= c} \cup {n + 1}), n)
  BY <1>1, CountExists
<1>3. \A k \in 0 .. n : f[k] \in Nat /\ (k < n => f[k] < Len(Carried(V)))
  BY <1>2, CountsCarried
<1>4. Len(Carried(V)) \in Nat
  BY CountsCarried, LenProperties
<1>5. \A i \in 1 .. n : i - 1 \in 0 .. n /\ i - 1 < n
  BY <1>1
<1> DEFINE S == {i \in DOMAIN V : f[i - 1] >= c} \cup {n + 1}
<1>6. ASSUME c = 0 PROVE Uncovered(V, c) = V
  <2>1. CASE n = 0
    <3>1. V = << >>
      BY <1>1, <2>1, EmptySeq
    <3>2. S = {1}
      BY <1>1, <2>1
    <3>3. Min(S) = 1
      <4>1. {1} \in SUBSET Int /\ 1 \in {1} /\ \A x \in {1} : 1 <= x
        OBVIOUS
      <4> HIDE DEF S
      <4> QED BY <3>2, <4>1, MinIs
    <3> HIDE DEF S
    <3>4. Uncovered(V, c) = SubSeq(V, 1, 0)
      BY <1>2, <2>1, <3>3 DEF S
    <3> QED BY <3>1, <3>4
  <2>2. CASE n # 0
    <3>1. 1 \in S /\ S \in SUBSET Int /\ \A x \in S : 1 <= x
      <4>1. 1 \in DOMAIN V /\ f[1 - 1] >= 0
        BY <1>1, <1>3, <1>5, <2>2
      <4> QED BY <1>1, <1>6, <4>1
    <3> HIDE DEF S
    <3>2. Min(S) = 1
      BY <3>1, MinIs
    <3>3. Uncovered(V, c) = SubSeq(V, 1, n)
      BY <1>2, <3>2 DEF S
    <3>4. SubSeq(V, 1, n) = V
      <4> HIDE DEF X
      <4>1. V \in Seq(X)
        BY DEF X
      <4> QED BY <1>1, <4>1
    <3> QED BY <3>3, <3>4
  <2> QED BY <2>1, <2>2
<1>7. ASSUME c >= Len(Carried(V)) PROVE Uncovered(V, c) = << >>
  <2>1. \A i \in 1 .. n : ~(f[i - 1] >= c)
    <3> TAKE i \in 1 .. n
    <3>1. f[i - 1] \in Nat /\ f[i - 1] < Len(Carried(V))
      BY <1>3, <1>5
    <3> QED BY <1>4, <1>7, <3>1
  <2>2. S = {n + 1}
    BY <1>1, <2>1
  <2>3. Min(S) = n + 1
    <3> DEFINE z == n + 1
    <3>1. {z} \in SUBSET Int /\ z \in {z} /\ \A x \in {z} : z <= x
      BY <1>1
    <3>2. S = {z}
      BY <2>2
    <3> HIDE DEF S, z
    <3>3. Min({z}) = z
      BY <3>1, MinIs
    <3> QED BY <3>2, <3>3 DEF z
  <2> HIDE DEF S
  <2>4. Uncovered(V, c) = SubSeq(V, n + 1, n)
    BY <1>2, <2>3 DEF S
  <2>5. SubSeq(V, n + 1, n) = << >>
    BY <1>1, SubSeqEmpty
  <2> QED BY <2>4, <2>5
<1> QED BY <1>6, <1>7

(* An open replays the whole units of a log that starts where the segments *)
(* end, and none of a log whose rows are all in segments.                  *)
LEMMA ReplaysWhole ==
    ASSUME NEW R, NEW d, NEW W \in Seq(WholeUnits(R, CommittedSupersessions(d))),
           NEW T \in Seq(Entry(R)), Undecided(T, CommittedSupersessions(d)), Untorn(T),
           d.wal.entries = Encoded(W) \o T, d.wal.present,
           d.wal.generation = d.manifest.generation,
           Extent(d) \in Nat, d.wal.base \in Nat
    PROVE  /\ Extent(d) = d.wal.base => ReplayUnits(d) = W
           /\ Extent(d) - d.wal.base >= Len(Carried(W)) => ReplayUnits(d) = << >>
<1> DEFINE C == CommittedSupersessions(d)
           a == Encoded(W)
           e == a \o T
           c == Max({0, Extent(d) - d.wal.base})
           U == UnitType(R)
<1>1. a \in Seq(Entry(R)) /\ Untorn(a) /\ W \in Seq(U)
  BY EncodedWhole
<1>2. e \in Seq(Entry(R)) /\ Untorn(e)
  <2> HIDE DEF a
  <2>1. Len(a) \in 0 .. Len(a)
    BY <1>1, EntryCounts
  <2>2. Untorn(e)
    BY <1>1, <2>1, WithinMore
  <2> DEFINE E == Entry(R)
  <2>3. a \in Seq(E) /\ T \in Seq(E)
    BY <1>1
  <2> HIDE DEF E
  <2>4. e \in Seq(E)
    BY <2>3, ConcatProperties
  <2> QED BY <2>2, <2>4 DEF E
<1>3. Clean(e) = e
  <2> HIDE DEF e
  <2> QED BY <1>2, CleanWhole DEF Untorn
<1>4. Units(e, C) = W \o Units(T, C)
  BY UnitsOfEncoded
<1>5. Units(T, C) = << >>
  BY UndecidedReplaysNone
<1>6. Units(e, C) = W
  <2> HIDE DEF U, e
  <2>1. W \o << >> = W
    BY <1>1, ConcatEmptySeq
  <2> QED BY <1>4, <1>5, <2>1
<1>7. ReplayUnits(d) = Uncovered(Units(Clean(d.wal.entries), C), c)
  BY DEF ReplayUnits
<1>8. ReplayUnits(d) = Uncovered(W, c)
  <2> HIDE DEF C, c, e
  <2>1. d.wal.entries = e
    BY DEF e
  <2> QED BY <1>3, <1>6, <1>7, <2>1
<1>9. /\ c \in Nat /\ (Extent(d) = d.wal.base => c = 0)
      /\ \A n \in Nat : Extent(d) - d.wal.base >= n => c >= n
  <2> DEFINE z == Extent(d) - d.wal.base
  <2>1. z \in Int /\ (Extent(d) = d.wal.base => z = 0)
    OBVIOUS
  <2> HIDE DEF z
  <2>2. c = IF z >= 0 THEN z ELSE 0
    <3>1. CASE z >= 0
      <4>1. {0, z} \in SUBSET Int /\ z \in {0, z} /\ \A x \in {0, z} : x <= z
        BY <2>1, <3>1
      <4>2. Max({0, z}) = z
        BY <4>1, MaxIs
      <4> QED BY <3>1, <4>2 DEF z
    <3>2. CASE ~(z >= 0)
      <4>1. {0, z} \in SUBSET Int /\ 0 \in {0, z} /\ \A x \in {0, z} : x <= 0
        BY <2>1, <3>2
      <4>2. Max({0, z}) = 0
        BY <4>1, MaxIs
      <4> QED BY <3>2, <4>2 DEF z
    <3> QED BY <3>1, <3>2
  <2> HIDE DEF c
  <2> QED BY <2>1, <2>2 DEF z
<1>10. Len(Carried(W)) \in Nat
  BY CountsCarried, LenProperties
<1> HIDE DEF c, C
<1>11. W \in Seq(WholeUnits(R, C))
  BY DEF C
<1> QED BY <1>8, <1>9, <1>10, <1>11, UncoveredWhole

----------------------------------------------------------------------------
\* The rows an open finds.

\* The live rows among the first m ids.
FirstRows(s, m) == {RowAt(s, id) : id \in {i \in Live(s) : i < m}}

LEMMA LatestAre ==
    ASSUME NEW r, NEW s, RowCount(r) \in Nat, RowCount(s) \in Nat, RowCount(r) <= RowCount(s),
           Dead(r) = Dead(s), \A id \in 0 .. RowCount(r) - 1 : RowAt(r, id) = RowAt(s, id)
    PROVE  Latest(r) = FirstRows(s, RowCount(r))
<1> DEFINE A == Live(r)
           B == {i \in Live(s) : i < RowCount(r)}
<1>1. A = B
  BY DEF Live, Ids
<1>2. \A id \in A : RowAt(r, id) = RowAt(s, id)
  BY DEF Live, Ids
<1>3. Latest(r) = {RowAt(r, id) : id \in A} /\ FirstRows(s, RowCount(r)) = {RowAt(s, id) : id \in B}
  BY DEF Latest, FirstRows
<1> HIDE DEF A, B
<1> QED BY <1>1, <1>2, <1>3

(* The recovered state: the segments' rows, then those of the replayed     *)
(* units; the tombstones of the delete logs; and where a bracket replays,  *)
(* a row born at its coordinate.                                           *)
LEMMA RecoveredRows ==
    ASSUME NEW R, NEW d, Sound(d, R), d.wal \in Log(R)
    PROVE  LET r == Recovered(d)
               F == FrozenRows(d)
               B == Carried(ReplayUnits(d))
           IN  /\ WellFormed(r, R) /\ Known(r)
               /\ F \in Seq([row : R, born : Nat]) /\ B \in Seq(R)
               /\ r.frozen = F /\ r.buffer = B
               /\ RowCount(r) = Len(F) + Len(B)
               /\ Dead(r) = DOMAIN Tombstones(d)
               /\ \A id \in 0 .. Len(F) + Len(B) - 1 :
                     RowAt(r, id) = IF id < Len(F) THEN F[id + 1].row ELSE B[id - Len(F) + 1]
               /\ \A i \in 1 .. Len(F) : Seen(r, F[i].born)
               /\ \A i \in DOMAIN ReplayUnits(d) :
                     LET u == ReplayUnits(d)[i]
                     IN  u.bracket /\ u.rows # << >> => Seen(r, u.sequence)
<1> DEFINE U == ReplayUnits(d)
           s == Loaded(d)
           r == Replayed(s, U)
           F == FrozenRows(d)
           B == Carried(U)
<1>1. U \in Seq(UnitType(R))
  BY ReplayUnitsTyped
<1>2. WellFormed(s, R) /\ Known(s) /\ Reaches(s, d.manifest.next)
  BY LoadedSound DEF Reaches
<1>3. s.frozen = F /\ s.buffer = << >> /\ s.tombs = Tombstones(d)
  <2> HIDE DEF s
  <2> QED BY LoadedFields DEF s
<1>4. F \in Seq([row : R, born : Nat])
  BY Zenon DEF Sound
<1>5. B \in Seq(R)
  BY <1>1, CarriedTyped
<1> HIDE DEF U, s
<1>6. WellFormed(r, R) /\ Known(r)
  BY <1>1, <1>2, ReplayedGrows, Zenon
<1>7. Extends(s, r, B) /\ KeepsBirths(s, r)
      /\ \A i \in DOMAIN U : U[i].bracket /\ U[i].rows # << >> => Seen(r, U[i].sequence)
  BY <1>1, <1>2, ReplayedCarries
<1> HIDE DEF r, F, B
<1>8. r.frozen = F /\ r.buffer = B /\ r.tombs = Tombstones(d)
  <2>1. r.frozen = s.frozen /\ r.buffer = s.buffer \o B /\ r.tombs = s.tombs
    BY <1>7 DEF Extends
  <2>2. << >> \o B = B
    BY <1>5, ConcatEmptySeq
  <2> QED BY <1>3, <2>1, <2>2
<1>9. RowCount(r) = Len(F) + Len(B) /\ Len(F) \in Nat /\ Len(B) \in Nat
  BY <1>4, <1>5, <1>8, LenProperties DEF RowCount
<1>10. \A id \in 0 .. Len(F) + Len(B) - 1 :
          RowAt(r, id) = IF id < Len(F) THEN F[id + 1].row ELSE B[id - Len(F) + 1]
  BY <1>8 DEF RowAt
<1>11. \A i \in 1 .. Len(F) : Seen(r, F[i].born)
  <2> TAKE i \in 1 .. Len(F)
  <2>1. i - 1 \in Ids(r) /\ i - 1 < Len(r.frozen) /\ (i - 1) + 1 = i
    BY <1>8, <1>9 DEF Ids
  <2>2. Born(r, i - 1) = F[i].born
    BY <1>8, <2>1 DEF Born
  <2> QED BY <2>1, <2>2 DEF Seen
<1>12. Dead(r) = DOMAIN Tombstones(d)
  BY <1>8 DEF Dead
<1>13. Recovered(d) = r
  BY DEF Recovered, r, s, U
<1> QED BY <1>4, <1>5, <1>6, <1>7, <1>8, <1>9, <1>10, <1>11, <1>12, <1>13 DEF B, F, U
=============================================================================
