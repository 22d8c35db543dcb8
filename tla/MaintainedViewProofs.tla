------------------------ MODULE MaintainedViewProofs ------------------------
(***************************************************************************)
(* What MaintainedView promises for every definition, width, source and    *)
(* bound.  Theorem StampsCovered holds of every kind of view; theorems     *)
(* SingleUnionExact, SplitExact and SingleConsoleExact are about the views *)
(* over one source, and rest on the bucket arithmetic at the limits of the *)
(* integer, which is proved first.                                         *)
(***************************************************************************)
EXTENDS MaintainedView, WellFoundedInduction, TLAPS

\* Sources are sequences of events.
Event == [key : OrderingKeys \union {Null}, symbol : Symbols \union {Null},
          kills : Nat, life : Nat]

SourcesInv ==
    /\ fact \in Seq(Event) /\ dimension \in Seq(Event)
    /\ saved \in [fact : Nat, dimension : Nat]
    /\ saved.fact <= Len(fact) /\ saved.dimension <= Len(dimension)
    /\ failures \in Nat

(* A mark counts no event that a flush has not made durable: so do the     *)
(* marks that may become the record, in memory, in the refresh under way   *)
(* and of earlier records, and the one the console took from it.           *)
Backed(m) ==
    /\ {"stamp", "width", "dimensionStamp"} \subseteq DOMAIN m
    /\ m.stamp \in Nat /\ m.stamp <= saved.fact
    /\ m.dimensionStamp \in Nat /\ m.dimensionStamp <= saved.dimension

MarksInv ==
    /\ Backed(mark) /\ Backed(record) /\ Backed(todo.mark) /\ Backed(console.mark)
    /\ \A r \in older : Backed(r)
    /\ "mark" \in DOMAIN console

StampInv == SourcesInv /\ MarksInv

LEMMA EventsType ==
    ASSUME NEW h \in Seq(Event), NEW keys \in SUBSET OrderingKeys,
           NEW symbols \in SUBSET (Symbols \union {Null}), failures \in Nat
    PROVE  Events(h, keys, symbols) \subseteq Event
<1>1. Rows(h) \ Killed(h) \subseteq Nat
  BY DEF Rows
<1>2. \A v \in Nat : [NoEvent EXCEPT !.kills = v] \in Event
  BY DEF NoEvent, Event
<1>3. \A k \in OrderingKeys, s \in Symbols \union {Null}, v \in Nat :
         [key |-> k, symbol |-> s, kills |-> v, life |-> failures] \in Event
  BY DEF Event
<1> HIDE DEF Event
<1> QED BY <1>1, <1>2, <1>3 DEF Events

LEMMA SourceKeys == FactKeys \in SUBSET OrderingKeys /\ DimensionKeys \in SUBSET OrderingKeys
BY KeysAssumption

\* The mark a refresh ends with is backed by the flushes it starts with.
LEMMA NowBacked ==
    ASSUME SourcesInv, saved' = Flushed,
           NEW m, {"stamp", "width", "dimensionStamp"} \subseteq DOMAIN m
    PROVE  /\ Now(m).stamp \in Nat /\ Now(m).stamp <= saved'.fact
           /\ Now(m).dimensionStamp \in Nat /\ Now(m).dimensionStamp <= saved'.dimension
           /\ {"stamp", "width", "dimensionStamp"} \subseteq DOMAIN Now(m)
           /\ DOMAIN Now(m) = DOMAIN m
BY DEF SourcesInv, Flushed, Now

\* What was backed stays so: flushes only add.
Further ==
    /\ saved \in [fact : Nat, dimension : Nat] /\ saved' \in [fact : Nat, dimension : Nat]
    /\ saved.fact <= saved'.fact /\ saved.dimension <= saved'.dimension

LEMMA BackedKeeps == ASSUME Further, NEW m, Backed(m) PROVE Backed(m)'
BY DEF Backed, Further

(* A step that only takes marks from where marks are, or one that stands   *)
(* for all a flush made durable, keeps every mark backed.                  *)
LEMMA MarksKeep ==
    ASSUME MarksInv, Further, older' \subseteq older \union {record},
           mark' = mark \/ mark' \in older \union {record} \/ mark' = todo.mark \/ Backed(mark)',
           record' = mark \/ record' \in older \union {record} \/ Backed(record)',
           todo'.mark = todo.mark \/ todo' = Idle \/ Backed(todo.mark)',
           console'.mark \in {console.mark, record, Fresh},
           "mark" \in DOMAIN console'
    PROVE  MarksInv'
<1>1. Backed(Fresh)'
  BY DEF Fresh, Backed, Further
<1>2. \A r \in older \union {record} : Backed(r)'
  BY BackedKeeps DEF MarksInv
<1>3. Backed(mark)' /\ Backed(record)' /\ Backed(console.mark)'
  BY <1>1, <1>2, BackedKeeps DEF MarksInv
<1>4. Backed(todo.mark)'
  BY <1>1, BackedKeeps DEF MarksInv, Idle
<1>5. (\A r \in older : Backed(r))'
  BY <1>2 DEF Backed
<1> QED BY <1>3, <1>4, <1>5 DEF MarksInv

\* What a loss of power may bring back was the record.
LEMMA OlderComes == ASSUME Next PROVE older' \subseteq older \union {record}
<1>1. CASE WriteFact \/ WriteDimension
  BY <1>1 DEF WriteFact, WriteDimension, view
<1>2. CASE BeginJoined \/ BeginSingle \/ BeginUnsized \/ BeginSizing \/ SizingFails
  BY <1>2 DEF BeginJoined, BeginSingle, BeginUnsized, BeginSizing, SizingFails
<1>3. CASE Replace \/ ReplaceFails \/ FlushView \/ WriteRecord \/ AdvanceFails
  BY <1>3 DEF Replace, ReplaceFails, FlushView, WriteRecord, AdvanceFails, OlderAfter
<1>4. CASE Crash
  BY <1>4 DEF Crash
<1>5. CASE OpenSources \/ OpenRecord \/ OpenTable \/ RefreshConsole
  BY <1>5 DEF OpenSources, OpenRecord, OpenTable, RefreshConsole, view
<1> QED BY <1>1, <1>2, <1>3, <1>4, <1>5 DEF Next

LEMMA StampInit == Init => StampInv
BY DEF Init, StampInv, SourcesInv, MarksInv, Backed, Fresh, Idle, Closed

\* The sources' part of a refresh.
LEMMA StartingFurther ==
    ASSUME SourcesInv, Starting, failures' \in Nat
    PROVE  SourcesInv' /\ Further /\ saved' = Flushed /\ UNCHANGED console
BY DEF SourcesInv, Starting, SavedByRefresh, Flushed, Further

\* A plan's mark is the mark it was given.
LEMMA PlanMark ==
    /\ \A m : PlanSingle(m).mark = Now(m)
    /\ \A m : Plan({}, {}, FALSE, Now(m)).mark = Now(m)
    /\ \E c : PlanAsOf.mark = [Now(mark) EXCEPT !.ceiling = c]
    /\ \E c : PlanStar.mark = [Now(mark) EXCEPT !.ceiling = c]
BY DEF PlanSingle, PlanAsOf, PlanStar, Plan

LEMMA RefreshingKeeps ==
    ASSUME StampInv, SourcesInv', Further, saved' = Flushed, UNCHANGED console, NEW m,
           {"stamp", "width", "dimensionStamp"} \subseteq DOMAIN m, NEW plan, Refreshing(plan),
           plan.mark = Now(m) \/ \E c : plan.mark = [Now(m) EXCEPT !.ceiling = c],
           mark' = mark \/ Backed(mark)', record' = record \/ Backed(record)',
           older' \subseteq older \union {record}
    PROVE  MarksInv'
<1>1. todo'.mark = Now(m) \/ \E c : todo'.mark = [Now(m) EXCEPT !.ceiling = c]
  BY DEF Refreshing
<1>2. /\ Now(m).stamp \in Nat /\ Now(m).stamp <= saved'.fact
      /\ Now(m).dimensionStamp \in Nat /\ Now(m).dimensionStamp <= saved'.dimension
      /\ {"stamp", "width", "dimensionStamp"} \subseteq DOMAIN Now(m)
  BY NowBacked DEF StampInv
<1>3. Backed(todo.mark)'
  BY <1>1, <1>2 DEF Backed
<1>4. console'.mark = console.mark /\ "mark" \in DOMAIN console'
  BY DEF StampInv, MarksInv
<1> QED BY <1>3, <1>4, MarksKeep DEF StampInv

\* A mark with the record's new width counts what the mark counted.
LEMMA WidthBacked ==
    ASSUME StampInv, Further, NEW w, NEW m, m = [mark EXCEPT !.width = w]
    PROVE  /\ {"stamp", "width", "dimensionStamp"} \subseteq DOMAIN m
           /\ m.stamp \in Nat /\ m.stamp <= saved'.fact
           /\ m.dimensionStamp \in Nat /\ m.dimensionStamp <= saved'.dimension
<1>1. DOMAIN m = DOMAIN mark /\ m.stamp = mark.stamp /\ m.dimensionStamp = mark.dimensionStamp
  OBVIOUS
<1> QED BY <1>1 DEF StampInv, MarksInv, Backed, Further

LEMMA WritesKeep ==
    ASSUME StampInv, WriteFact \/ WriteDimension
    PROVE  StampInv'
<1> USE DEF StampInv, SourcesInv
<1>1. \A e \in Event : Append(fact, e) \in Seq(Event) /\ Append(dimension, e) \in Seq(Event)
  BY DEF SourcesInv
<1>2. \A e \in Event : /\ Len(Append(fact, e)) = Len(fact) + 1
                       /\ Len(Append(dimension, e)) = Len(dimension) + 1
  BY DEF SourcesInv
<1>3. SourcesInv'
  <2>1. CASE WriteFact
    <3>1. PICK e \in Event : fact' = Append(fact, e)
      <4>1. Events(fact, FactKeys, IF Joined THEN Symbols ELSE {Null}) \subseteq Event
        <5>1. (IF Joined THEN Symbols ELSE {Null}) \in SUBSET (Symbols \union {Null})
          OBVIOUS
        <5> QED BY <5>1, EventsType, SourceKeys
      <4> QED BY <2>1, <4>1 DEF WriteFact
    <3>2. UNCHANGED <<dimension, saved, failures>>
      BY <2>1 DEF WriteFact
    <3> QED BY <1>1, <1>2, <3>1, <3>2
  <2>2. CASE WriteDimension
    <3>1. PICK e \in Event : dimension' = Append(dimension, e)
      <4>1. Events(dimension, DimensionKeys, Symbols) \subseteq Event
        BY EventsType, SourceKeys
      <4> QED BY <2>2, <4>1 DEF WriteDimension
    <3>2. UNCHANGED <<fact, saved, failures>>
      BY <2>2 DEF WriteDimension
    <3> QED BY <1>1, <1>2, <3>1, <3>2
  <2> QED BY <2>1, <2>2
<1>4. UNCHANGED <<saved, mark, record, older, todo, console>>
  BY DEF WriteFact, WriteDimension, view
<1>5. MarksInv'
  BY <1>4 DEF MarksInv, Backed
<1> QED BY <1>3, <1>5

LEMMA BeginsKeep ==
    ASSUME StampInv, BeginJoined \/ BeginSingle \/ BeginUnsized \/ BeginSizing
    PROVE  StampInv'
<1>0. Starting /\ failures' = failures
  BY DEF BeginJoined, BeginSingle, BeginUnsized, BeginSizing
<1>1. SourcesInv' /\ Further /\ saved' = Flushed /\ UNCHANGED console
  BY <1>0, StartingFurther DEF StampInv, SourcesInv
<1>2. /\ {"stamp", "width", "dimensionStamp"} \subseteq DOMAIN mark
      /\ older' \subseteq older \union {record}
  BY OlderComes DEF StampInv, MarksInv, Backed, Next
<1>3. CASE BeginJoined
  <2>1. UNCHANGED <<mark, record>>
    BY <1>3 DEF BeginJoined
  <2>2. CASE AsOfJoin
    <3>1. Refreshing(PlanAsOf)
      BY <1>3, <2>2 DEF BeginJoined
    <3>2. \E c : PlanAsOf.mark = [Now(mark) EXCEPT !.ceiling = c]
      BY PlanMark
    <3> QED BY <1>1, <1>2, <2>1, <3>1, <3>2, RefreshingKeeps DEF StampInv
  <2>3. CASE ~AsOfJoin
    <3>1. Refreshing(PlanStar)
      BY <1>3, <2>3 DEF BeginJoined
    <3>2. \E c : PlanStar.mark = [Now(mark) EXCEPT !.ceiling = c]
      BY PlanMark
    <3> QED BY <1>1, <1>2, <2>1, <3>1, <3>2, RefreshingKeeps DEF StampInv
  <2> QED BY <2>2, <2>3
<1>4. CASE BeginSingle
  <2>1. UNCHANGED <<mark, record>> /\ Refreshing(PlanSingle(mark))
    BY <1>4 DEF BeginSingle
  <2>2. PlanSingle(mark).mark = Now(mark)
    BY PlanMark
  <2> QED BY <1>1, <1>2, <2>1, <2>2, RefreshingKeeps DEF StampInv
<1>5. CASE BeginUnsized
  <2>1. UNCHANGED <<mark, record>> /\ Refreshing(Plan({}, {}, FALSE, Now(mark)))
    BY <1>5 DEF BeginUnsized
  <2>2. Plan({}, {}, FALSE, Now(mark)).mark = Now(mark)
    BY PlanMark
  <2> QED BY <1>1, <1>2, <2>1, <2>2, RefreshingKeeps DEF StampInv
<1>6. CASE BeginSizing
  <2>1. mark' = Sized /\ record' = Sized /\ Refreshing(PlanSingle(Sized))
    BY <1>6 DEF BeginSizing
  <2>2. PICK m : m = Sized
    OBVIOUS
  <2>3. PlanSingle(m).mark = Now(m)
    BY PlanMark
  <2>4. /\ {"stamp", "width", "dimensionStamp"} \subseteq DOMAIN m
        /\ m.stamp \in Nat /\ m.stamp <= saved'.fact
        /\ m.dimensionStamp \in Nat /\ m.dimensionStamp <= saved'.dimension
    BY <1>1, <2>2, WidthBacked DEF Sized
  <2>5. Backed(mark)' /\ Backed(record)'
    BY <2>1, <2>2, <2>4 DEF Backed
  <2> QED BY <1>1, <1>2, <2>1, <2>2, <2>3, <2>4, <2>5, RefreshingKeeps DEF StampInv
<1> QED BY <1>3, <1>4, <1>5, <1>6

LEMMA SizingFailsKeeps ==
    ASSUME StampInv, SizingFails
    PROVE  StampInv'
<1>0. /\ Starting /\ failures' = failures + 1 /\ mark' = Sized
      /\ UNCHANGED <<record, older, todo>>
  BY DEF SizingFails, Failing
<1>1. SourcesInv' /\ Further /\ UNCHANGED console
  BY <1>0, StartingFurther DEF StampInv, SourcesInv
<1>2. Backed(mark)'
  <2>1. PICK m : m = Sized
    OBVIOUS
  <2> QED BY <1>0, <1>1, <2>1, WidthBacked DEF Sized, Backed
<1>3. MarksInv'
  BY <1>0, <1>1, <1>2, MarksKeep DEF StampInv, MarksInv
<1> QED BY <1>1, <1>3 DEF StampInv

\* The steps that leave the sources alone take marks from where marks are.
LEMMA RefreshKeeps ==
    ASSUME StampInv, Replace \/ ReplaceFails \/ FlushView \/ WriteRecord \/ AdvanceFails
    PROVE  StampInv'
<1>1. UNCHANGED <<fact, dimension, saved, console>> /\ failures' \in Nat
  BY DEF Replace, ReplaceFails, FlushView, WriteRecord, AdvanceFails, Failing, sources,
         StampInv, SourcesInv
<1>2. SourcesInv' /\ Further
  BY <1>1 DEF StampInv, SourcesInv, Further
<1>3. /\ mark' = mark \/ mark' = todo.mark
      /\ record' = record \/ record' = mark
      /\ todo' = todo \/ todo' = Idle
      /\ older' \subseteq older \union {record}
  BY OlderComes DEF Next, Replace, ReplaceFails, FlushView, WriteRecord, AdvanceFails
<1>4. MarksInv'
  BY <1>1, <1>2, <1>3, MarksKeep DEF StampInv, MarksInv
<1> QED BY <1>2, <1>4 DEF StampInv

LEMMA CrashKeeps == ASSUME StampInv, Crash PROVE StampInv'
<1>1. PICK n \in saved.fact..Len(fact), k \in saved.dimension..Len(dimension) :
        fact' = SubSeq(fact, 1, n) /\ dimension' = SubSeq(dimension, 1, k)
  BY DEF Crash
<1>2. /\ mark' \in older \union {record} /\ record' = mark'
      /\ older' \subseteq older \union {record}
      /\ todo' = Idle /\ failures' = failures + 1 /\ saved' = saved
      /\ console' = console \/ console' = Closed
  BY DEF Crash, Failing
<1>3. n \in 0..Len(fact) /\ k \in 0..Len(dimension)
  BY DEF StampInv, SourcesInv
<1>4. /\ fact' \in Seq(Event) /\ Len(fact') = n
      /\ dimension' \in Seq(Event) /\ Len(dimension') = k
  BY <1>1, <1>3 DEF StampInv, SourcesInv
<1>5. SourcesInv' /\ Further
  BY <1>2, <1>4 DEF StampInv, SourcesInv, Further
<1>6. console'.mark \in {console.mark, Fresh} /\ "mark" \in DOMAIN console'
  BY <1>2 DEF Closed, StampInv, MarksInv
<1>7. MarksInv'
  BY <1>2, <1>5, <1>6, MarksKeep DEF StampInv
<1> QED BY <1>5, <1>7 DEF StampInv

\* The console takes its mark from the record.
LEMMA ConsoleKeeps ==
    ASSUME StampInv, OpenSources \/ OpenRecord \/ OpenTable \/ RefreshConsole
    PROVE  StampInv'
<1>1. UNCHANGED <<fact, dimension, saved, failures, mark, record, older, todo>>
  BY DEF OpenSources, OpenRecord, OpenTable, RefreshConsole, sources, view
<1>2. SourcesInv' /\ Further
  BY <1>1 DEF StampInv, SourcesInv, Further
<1>3. /\ "mark" \in DOMAIN console'
      /\ console'.mark = console.mark \/ console'.mark = record
  BY DEF OpenSources, OpenRecord, OpenTable, RefreshConsole, Sourced, StampInv, MarksInv
<1>4. MarksInv'
  BY <1>1, <1>2, <1>3, MarksKeep DEF StampInv, MarksInv
<1> QED BY <1>2, <1>4 DEF StampInv

LEMMA StampInvInductive == StampInv /\ [Next]_vars => StampInv'
<1> SUFFICES ASSUME StampInv, [Next]_vars PROVE StampInv'
  OBVIOUS
<1>1. CASE UNCHANGED vars
  BY <1>1 DEF vars, sources, view, StampInv, SourcesInv, MarksInv, Backed
<1> QED
  BY <1>1, WritesKeep, BeginsKeep, SizingFailsKeeps, RefreshKeeps, CrashKeeps, ConsoleKeeps
  DEF Next

(* What the record on disk says is covered survives any crash: neither its *)
(* stamps nor a console's count an event that no flush has made durable    *)
(* (refresh flushes both sources before it stamps).                        *)
THEOREM StampsCovered == Spec => []StampsCoverSavedEvents
<1>1. StampInv => StampsCoverSavedEvents
  BY DEF StampInv, MarksInv, Backed, StampsCoverSavedEvents
<1> QED BY <1>1, StampInit, StampInvInductive, PTL DEF Spec

----------------------------------------------------------------------------
\* Bucket arithmetic.

LEMMA Quotient ==
    ASSUME NEW n \in Nat, NEW w \in Nat \ {0}
    PROVE  /\ n \div w \in Nat
           /\ (n \div w) * w <= n
           /\ n < (n \div w) * w + w
OBVIOUS

LEMMA QuotientAtLeast ==
    ASSUME NEW n \in Nat, NEW w \in Nat \ {0}, NEW q \in Nat
    PROVE  q * w <= n <=> q <= n \div w
<1> DEFINE d == n \div w
<1>1. d \in Nat /\ d * w <= n /\ n < d * w + w
  BY Quotient
<1> HIDE DEF d
<1>2. ASSUME q <= d PROVE q * w <= n
  <2>1. q * w <= d * w
    BY <1>1, <1>2
  <2>2. q * w \in Int /\ d * w \in Int
    BY <1>1
  <2> QED BY <1>1, <2>1, <2>2
<1>3. ASSUME d + 1 <= q PROVE n < q * w
  <2>1. (d + 1) * w <= q * w
    BY <1>1, <1>3
  <2>2. q * w \in Int /\ d * w \in Int /\ (d + 1) * w = d * w + w
    BY <1>1
  <2> QED BY <1>1, <2>1, <2>2
<1>4. q * w \in Int
  OBVIOUS
<1>5. q <= d \/ d + 1 <= q
  BY <1>1
<1>6. ~(q <= d /\ d + 1 <= q)
  BY <1>1
<1> QED BY <1>1, <1>2, <1>3, <1>4, <1>5, <1>6 DEF d

LEMMA BucketType ==
    ASSUME NEW k \in OrderingKeys, NEW w \in Nat \ {0}
    PROVE  BucketOf(k, w) \in Int
<1>1. CASE k >= 0
  BY <1>1, Quotient DEF OrderingKeys, BucketOf
<1>2. CASE ~(k >= 0)
  <2>1. -k \in Nat
    BY <1>2 DEF OrderingKeys, MinKey
  <2> QED BY <1>2, <2>1, Quotient DEF BucketOf
<1> QED BY <1>1, <1>2

(* The bucket of a key, without division: i is at most its bucket, or at   *)
(* least, exactly from the edge on that truncation gives i.                *)
LEMMA BucketAtLeast ==
    ASSUME NEW k \in OrderingKeys, NEW w \in Nat \ {0}, NEW i \in Int
    PROVE  i <= BucketOf(k, w) <=> IF i > 0 THEN i * w <= k ELSE i * w - (w - 1) <= k
<1>0. k \in Int
  BY DEF OrderingKeys, MinKey
<1>1. CASE k >= 0
  <2>1. BucketOf(k, w) = k \div w /\ k \div w \in Nat
    BY <1>0, <1>1, Quotient DEF BucketOf
  <2>2. CASE i > 0
    BY <1>0, <1>1, <2>1, <2>2, QuotientAtLeast
  <2>3. CASE ~(i > 0)
    <3>1. -i \in Nat /\ (-i) * w \in Nat /\ i * w = -((-i) * w)
      BY <2>3
    <3> QED BY <1>0, <1>1, <2>1, <2>3, <3>1
  <2> QED BY <2>2, <2>3
<1>2. CASE ~(k >= 0)
  <2> DEFINE n == -k
             d == n \div w
  <2>1. n \in Nat /\ n > 0
    BY <1>0, <1>2
  <2>2. BucketOf(k, w) = -d /\ d \in Nat
    BY <1>2, <2>1, Quotient DEF BucketOf
  <2>3. CASE i > 0
    <3>1. i * w \in Nat
      BY <2>3
    <3> HIDE DEF d
    <3> QED BY <1>0, <1>2, <2>2, <2>3, <3>1
  <2>4. CASE ~(i > 0)
    <3>1. PICK j \in Nat : i = -j
      BY <2>4
    <3>2. i <= BucketOf(k, w) <=> ~(j + 1 <= d)
      <4> HIDE DEF d
      <4> QED BY <2>2, <3>1
    <3>3. j + 1 <= d <=> (j + 1) * w <= n
      BY <2>1, QuotientAtLeast
    <3>4. (j + 1) * w \in Int /\ (j + 1) * w = j * w + w /\ j * w \in Int /\ i * w = -(j * w)
      BY <3>1
    <3>5. ~((j + 1) * w <= n) <=> i * w - (w - 1) <= k
      <4>1. n = -k /\ n \in Int /\ i * w \in Int /\ w \in Int
        BY <2>1, <3>4
      <4> HIDE DEF n
      <4> QED BY <1>0, <3>4, <4>1
    <3> QED BY <2>4, <3>2, <3>3, <3>5
  <2> QED BY <2>3, <2>4
<1> QED BY <1>1, <1>2

LEMMA BucketAtMost ==
    ASSUME NEW k \in OrderingKeys, NEW w \in Nat \ {0}, NEW i \in Int
    PROVE  BucketOf(k, w) <= i <=> IF i < 0 THEN k <= i * w ELSE k <= i * w + (w - 1)
<1>1. k \in Int /\ i + 1 \in Int /\ BucketOf(k, w) \in Int /\ i * w \in Int
  BY BucketType DEF OrderingKeys, MinKey
<1>2. BucketOf(k, w) <= i <=> ~(i + 1 <= BucketOf(k, w))
  BY <1>1
<1>3. i + 1 <= BucketOf(k, w)
        <=> IF i + 1 > 0 THEN (i + 1) * w <= k ELSE (i + 1) * w - (w - 1) <= k
  BY <1>1, BucketAtLeast
<1>4. (i + 1) * w = i * w + w
  OBVIOUS
<1> QED BY <1>1, <1>2, <1>3, <1>4

(* The edges of a bucket that holds a key: saturation cuts off no key.     *)
LEMMA LowEdge ==
    ASSUME NEW w \in Nat \ {0}, NEW j \in OrderingKeys, NEW k \in OrderingKeys
    PROVE  BucketLow(BucketOf(j, w), w) <= k <=> BucketOf(j, w) <= BucketOf(k, w)
<1> DEFINE i == BucketOf(j, w)
<1>1. /\ j \in Int /\ j <= MaxKey /\ MinKey <= j /\ MaxKey \in Int /\ MinKey \in Int
      /\ k \in Int /\ k <= MaxKey /\ MinKey <= k /\ i \in Int /\ i * w \in Int
      /\ MinKey < 0 /\ MaxKey > 0
  BY MaxKeyAssumption, BucketType DEF OrderingKeys, MinKey
<1>2. /\ IF i > 0 THEN i * w <= j ELSE i * w - (w - 1) <= j
      /\ IF i < 0 THEN j <= i * w ELSE j <= i * w + (w - 1)
  <2>1. i <= i
    BY <1>1
  <2> QED BY <1>1, <2>1, BucketAtLeast, BucketAtMost
<1>3. i <= BucketOf(k, w) <=> IF i > 0 THEN i * w <= k ELSE i * w - (w - 1) <= k
  BY <1>1, BucketAtLeast
<1> HIDE DEF i
<1>4. CASE i > 0
  <2>1. i * w >= 0
    BY <1>1, <1>4
  <2>2. BucketLow(i, w) = i * w
    BY <1>1, <1>2, <1>4, <2>1 DEF BucketLow, Saturated
  <2> QED BY <1>3, <1>4, <2>2 DEF i
<1>5. CASE i = 0
  BY <1>1, <1>3, <1>5 DEF BucketLow, i
<1>6. CASE i < 0
  <2>1. i * w <= 0
    <3>1. PICK m \in Nat : i = -m
      BY <1>1, <1>6
    <3>2. m * w \in Nat /\ i * w = -(m * w)
      BY <3>1
    <3> QED BY <3>2
  <2>2. Saturated(i * w) = i * w
    BY <1>1, <1>2, <1>6, <2>1 DEF Saturated
  <2>3. i * w - (w - 1) <= 0
    BY <1>1, <2>1
  <2>4. BucketLow(i, w) = IF i * w - (w - 1) < MinKey THEN MinKey ELSE i * w - (w - 1)
    BY <1>1, <1>6, <2>2, <2>3 DEF BucketLow, Saturated
  <2> QED BY <1>1, <1>3, <1>6, <2>4 DEF i
<1> QED BY <1>1, <1>4, <1>5, <1>6

LEMMA HighEdge ==
    ASSUME NEW w \in Nat \ {0}, NEW j \in OrderingKeys, NEW k \in OrderingKeys
    PROVE  k <= BucketHigh(BucketOf(j, w), w) <=> BucketOf(k, w) <= BucketOf(j, w)
<1> DEFINE i == BucketOf(j, w)
<1>1. /\ j \in Int /\ j <= MaxKey /\ MinKey <= j /\ MaxKey \in Int /\ MinKey \in Int
      /\ k \in Int /\ k <= MaxKey /\ MinKey <= k /\ i \in Int /\ i * w \in Int
      /\ MinKey < 0 /\ MaxKey > 0
  BY MaxKeyAssumption, BucketType DEF OrderingKeys, MinKey
<1>2. /\ IF i > 0 THEN i * w <= j ELSE i * w - (w - 1) <= j
      /\ IF i < 0 THEN j <= i * w ELSE j <= i * w + (w - 1)
  <2>1. i <= i
    BY <1>1
  <2> QED BY <1>1, <2>1, BucketAtLeast, BucketAtMost
<1>3. BucketOf(k, w) <= i <=> IF i < 0 THEN k <= i * w ELSE k <= i * w + (w - 1)
  BY <1>1, BucketAtMost
<1> HIDE DEF i
<1>4. CASE i > 0
  <2>1. i * w >= 0
    BY <1>1, <1>4
  <2>2. Saturated(i * w) = i * w
    BY <1>1, <1>2, <1>4, <2>1 DEF Saturated
  <2>3. i * w + (w - 1) >= 0
    BY <1>1, <2>1
  <2>4. BucketHigh(i, w) = IF i * w + (w - 1) > MaxKey THEN MaxKey ELSE i * w + (w - 1)
    BY <1>1, <1>4, <2>2, <2>3 DEF BucketHigh, Saturated
  <2> QED BY <1>1, <1>3, <1>4, <2>4 DEF i
<1>5. CASE i = 0
  BY <1>1, <1>3, <1>5 DEF BucketHigh, i
<1>6. CASE i < 0
  <2>1. i * w <= 0
    <3>1. PICK m \in Nat : i = -m
      BY <1>1, <1>6
    <3>2. m * w \in Nat /\ i * w = -(m * w)
      BY <3>1
    <3> QED BY <3>2
  <2>2. BucketHigh(i, w) = i * w
    BY <1>1, <1>2, <1>6, <2>1 DEF BucketHigh, Saturated
  <2> QED BY <1>1, <1>3, <1>6, <2>2 DEF i
<1> QED BY <1>1, <1>4, <1>5, <1>6

----------------------------------------------------------------------------
\* Sets of integers with bounds.

LEMMA HasLeast ==
    ASSUME NEW S \in SUBSET Int, S # {}, NEW a \in Int, \A x \in S : a <= x
    PROVE  \E m \in S : \A x \in S : m <= x
<1> DEFINE T == {x - a : x \in S}
<1>1. T \subseteq Nat /\ T # {}
  <2>1. \A x \in S : x - a \in Nat
    <3> TAKE x \in S
    <3>1. x \in Int /\ a <= x
      OBVIOUS
    <3> QED BY <3>1
  <2>2. PICK x \in S : TRUE
    OBVIOUS
  <2>3. x - a \in T
    OBVIOUS
  <2> QED BY <2>1, <2>3
<1>2. PICK t \in T : \A y \in T : ~(<<y, t>> \in OpToRel(<, Nat))
  BY <1>1, NatLessThanWellFounded, WFMin
<1>3. PICK m \in S : t = m - a
  OBVIOUS
<1>4. ASSUME NEW x \in S PROVE m <= x
  <2>1. x - a \in T /\ x - a \in Nat /\ t \in Nat /\ x \in Int /\ m \in Int
    BY <1>1
  <2>2. ~(x - a < t)
    BY <1>2, <2>1 DEF OpToRel
  <2> QED BY <1>3, <2>1, <2>2
<1> QED BY <1>4

LEMMA HasGreatest ==
    ASSUME NEW S \in SUBSET Int, S # {}, NEW b \in Int, \A x \in S : x <= b
    PROVE  \E m \in S : \A x \in S : x <= m
<1> DEFINE T == {-x : x \in S}
<1>1. T \subseteq Int /\ T # {} /\ \A y \in T : -b <= y
  <2>1. \A x \in S : -x \in Int /\ -b <= -x
    <3> TAKE x \in S
    <3>1. x \in Int /\ x <= b
      OBVIOUS
    <3> QED BY <3>1
  <2>2. PICK x \in S : TRUE
    OBVIOUS
  <2>3. -x \in T
    OBVIOUS
  <2> QED BY <2>1, <2>3
<1>2. PICK t \in T : \A y \in T : t <= y
  <2> HIDE DEF T
  <2>1. -b \in Int
    OBVIOUS
  <2> QED BY <1>1, <2>1, HasLeast
<1>3. PICK m \in S : t = -m
  OBVIOUS
<1>4. ASSUME NEW x \in S PROVE x <= m
  <2>1. t <= -x
    BY <1>2
  <2>2. x \in Int /\ m \in Int
    OBVIOUS
  <2> QED BY <1>3, <2>1, <2>2
<1> QED BY <1>4

\* Every member lies in a maximal run, and a run holds members only.
LEMMA RunsCover ==
    ASSUME NEW S \in SUBSET OrderingKeys
    PROVE  Covered(ContiguousRuns(S)) = S
<1>0. S \subseteq Int /\ MinKey \in Int /\ MaxKey \in Int
      /\ \A x \in S : MinKey <= x /\ x <= MaxKey
  BY MaxKeyAssumption DEF OrderingKeys, MinKey
<1>1. Covered(ContiguousRuns(S)) \subseteq S
  BY DEF Covered, ContiguousRuns
<1>2. ASSUME NEW x \in S PROVE x \in Covered(ContiguousRuns(S))
  <2> DEFINE Low  == {l \in S : l <= x /\ l..x \subseteq S}
             High == {h \in S : x <= h /\ x..h \subseteq S}
  <2>1. x \in Int
    BY <1>0
  <2>2. x \in Low /\ x \in High
    <3>1. x..x \subseteq S
      BY <2>1
    <3> QED BY <2>1, <3>1
  <2>3. PICK l \in Low : \A y \in Low : l <= y
    BY <1>0, <2>2, HasLeast
  <2>4. PICK h \in High : \A y \in High : y <= h
    BY <1>0, <2>2, HasGreatest
  <2>5. l \in S /\ h \in S /\ l \in Int /\ h \in Int /\ l <= x /\ x <= h
        /\ l..x \subseteq S /\ x..h \subseteq S
    BY <1>0
  <2>6. l - 1 \notin S
    <3> SUFFICES ASSUME l - 1 \in S PROVE FALSE
      OBVIOUS
    <3>1. \A i \in (l - 1)..x : i = l - 1 \/ i \in l..x
      BY <2>1, <2>5
    <3>2. l - 1 \in Low
      BY <2>1, <2>5, <3>1
    <3> QED BY <2>3, <2>5, <3>2
  <2>7. h + 1 \notin S
    <3> SUFFICES ASSUME h + 1 \in S PROVE FALSE
      OBVIOUS
    <3>1. \A i \in x..(h + 1) : i = h + 1 \/ i \in x..h
      BY <2>1, <2>5
    <3>2. h + 1 \in High
      BY <2>1, <2>5, <3>1
    <3> QED BY <2>4, <2>5, <3>2
  <2>8. l..h \subseteq S
    <3>1. \A i \in l..h : i \in l..x \/ i \in x..h
      BY <2>1, <2>5
    <3> QED BY <2>5, <3>1
  <2>9. <<l, h>> \in ContiguousRuns(S)
    BY <2>1, <2>5, <2>6, <2>7, <2>8 DEF ContiguousRuns
  <2>10. x \in l..h
    BY <2>1, <2>5
  <2> QED BY <2>9, <2>10 DEF Covered
<1> QED BY <1>1, <1>2

LEMMA BucketInRange ==
    ASSUME NEW k \in OrderingKeys, NEW w \in Nat \ {0}
    PROVE  BucketOf(k, w) \in OrderingKeys
<1>1. /\ k \in Int /\ MinKey <= k /\ k <= MaxKey /\ MinKey \in Int /\ MaxKey \in Int
      /\ MinKey < 0 /\ MaxKey > 0 /\ BucketOf(k, w) \in Int
  BY MaxKeyAssumption, BucketType DEF OrderingKeys, MinKey
<1>2. MaxKey * w \in Int /\ MaxKey * w >= MaxKey
  BY <1>1
<1>3. MinKey * w \in Int /\ MinKey * w <= MinKey
  BY <1>1
<1>4. BucketOf(k, w) <= MaxKey
  BY <1>1, <1>2, BucketAtMost
<1>5. MinKey <= BucketOf(k, w)
  BY <1>1, <1>3, BucketAtLeast
<1> QED BY <1>1, <1>4, <1>5 DEF OrderingKeys

\* Runs of buckets read back the keys of those buckets and no others.
LEMMA RunsKeys ==
    ASSUME NEW w \in Nat \ {0}, NEW T \in SUBSET OrderingKeys,
           NEW k \in OrderingKeys
    PROVE  LET buckets == {BucketOf(t, w) : t \in T}
           IN  k \in KeysOf(ContiguousRuns(buckets), w) <=> BucketOf(k, w) \in buckets
<1> DEFINE buckets == {BucketOf(t, w) : t \in T}
           b == BucketOf(k, w)
<1>0. buckets \subseteq OrderingKeys /\ b \in Int /\ k \in Int
  BY BucketInRange, BucketType DEF OrderingKeys, MinKey
<1>1. ASSUME NEW run \in ContiguousRuns(buckets)
      PROVE  k \in BucketLow(run[1], w)..BucketHigh(run[2], w) <=> b \in run[1]..run[2]
  <2>1. PICK i \in T, j \in T : run[1] = BucketOf(i, w) /\ run[2] = BucketOf(j, w)
    BY DEF ContiguousRuns
  <2>2. BucketLow(run[1], w) <= k <=> run[1] <= b
    BY <2>1, LowEdge
  <2>3. k <= BucketHigh(run[2], w) <=> b <= run[2]
    BY <2>1, HighEdge
  <2>4. \A x, y : k \in x..y <=> (k \in Int /\ x <= k /\ k <= y)
    OBVIOUS
  <2> QED BY <1>0, <2>2, <2>3
<1>2. k \in KeysOf(ContiguousRuns(buckets), w)
        <=> \E run \in ContiguousRuns(buckets) : k \in BucketLow(run[1], w)..BucketHigh(run[2], w)
  <2> DEFINE ranges == {<<BucketLow(run[1], w), BucketHigh(run[2], w)>> :
                          run \in ContiguousRuns(buckets)}
  <2>1. k \in Covered(ranges) <=> \E range \in ranges : k \in range[1]..range[2]
    BY DEF Covered
  <2>2. \A run \in ContiguousRuns(buckets) :
          \E range \in ranges :
             range[1] = BucketLow(run[1], w) /\ range[2] = BucketHigh(run[2], w)
    <3> TAKE run \in ContiguousRuns(buckets)
    <3>1. <<BucketLow(run[1], w), BucketHigh(run[2], w)>> \in ranges
      OBVIOUS
    <3> QED BY <3>1
  <2>3. \A range \in ranges : \E run \in ContiguousRuns(buckets) :
          range[1] = BucketLow(run[1], w) /\ range[2] = BucketHigh(run[2], w)
    OBVIOUS
  <2>4. KeysOf(ContiguousRuns(buckets), w) = Covered(ranges)
    BY DEF KeysOf
  <2> HIDE DEF ranges
  <2> QED BY <2>1, <2>2, <2>3, <2>4
<1>3. b \in Covered(ContiguousRuns(buckets))
        <=> \E run \in ContiguousRuns(buckets) : b \in run[1]..run[2]
  BY DEF Covered
<1>4. Covered(ContiguousRuns(buckets)) = buckets
  BY <1>0, RunsCover
<1> HIDE DEF buckets, b
<1> QED BY <1>1, <1>2, <1>3, <1>4 DEF buckets, b

----------------------------------------------------------------------------
\* The union read.
\* The rows of a bucket, and the definition's answer by buckets.
RowOf(facts, b, w) ==
    [bucket |-> b,
     rows |-> {<<f, {}>> : f \in {g \in facts : BucketOf(g.key, w) = b}}]
Full(facts, w) == {RowOf(facts, b, w) : b \in {BucketOf(f.key, w) : f \in facts}}

Outside(rows, buckets) == {r \in rows : r.bucket \notin buckets}

Of(rows, buckets) == {r \in rows : r.bucket \in buckets}

TouchedBuckets(h, since, w) == {BucketOf(k, w) : k \in {r.key : r \in Touched(h, since)}}

\* Rows are the definition's answer over h, but for the buckets touched since.
Agrees(rows, h, since, w) ==
    Outside(rows, TouchedBuckets(h, since, w))
        = Outside(Full(LiveRows(h), w), TouchedBuckets(h, since, w))

\* The events no crash takes back.
Stored == SubSeq(fact, 1, saved.fact)

\* The widths a mark stands for: any, while none is chosen.
Widths(m) == IF Hidden /\ m.width = 0 THEN Nat \ {0} ELSE {Divide(m)}

Coherent(rows, m) == \A w \in Widths(m) : Agrees(rows, Stored, m.stamp, w)

RefreshInv ==
    /\ pc # "idle" =>
          /\ saved.fact = Len(fact)
          /\ todo.mark.stamp = Len(fact) /\ todo.mark.width = mark.width
    /\ pc = "replace" =>
          LET dirty == TouchedBuckets(fact, mark.stamp, Divide(mark)) IN
          /\ ~Unsized /\ todo.all = FALSE
          /\ Covered(todo.runs) = dirty
          /\ todo.fold = Of(Full(LiveRows(fact), Divide(mark)), dirty)
    /\ pc \in {"flush", "stamp"} =>
          \A w \in Widths(mark) : table = Full(LiveRows(fact), w)
    /\ pc = "stamp" => kept = table /\ mark = todo.mark

\* A view over one source whose width can neither part from its record nor be
\* lost with it.
Single == ~Joined /\ (Hidden => "width" \notin Faults /\ "lost" \notin Faults)

SizeInv ==
    /\ mark.width \in Nat /\ record.width = mark.width
    /\ Unsized => table = {} /\ kept = {}

ReadInv ==
    /\ dimension = <<>>
    /\ pc \in {"idle", "replace", "flush", "stamp"}
    /\ record.stamp <= mark.stamp
    /\ SizeInv
    /\ Coherent(table, mark) /\ Coherent(kept, record)
    /\ RefreshInv

\* What a loss of power may bring back covers no more than the record.
OlderInv == \A r \in older : r.width \in Nat /\ r.stamp <= record.stamp

----------------------------------------------------------------------------
\* Histories.

LEMMA LiveKeys ==
    ASSUME NEW h \in Seq(Event)
    PROVE  /\ \A i \in Rows(h) : i \in 1..Len(h) /\ h[i] \in Event /\ h[i].key \in OrderingKeys
           /\ \A f \in LiveRows(h) : f.key \in OrderingKeys
           /\ \A since : \A r \in Touched(h, since) : r.key \in OrderingKeys
<1>1. ASSUME NEW i \in Rows(h)
      PROVE  i \in 1..Len(h) /\ h[i] \in Event /\ h[i].key \in OrderingKeys
  <2>1. i \in 1..Len(h) /\ h[i] \in Event /\ h[i].key # Null
    BY DEF Rows
  <2> QED BY <2>1 DEF Event
<1>2. \A f \in LiveRows(h) : f.key \in OrderingKeys
  BY <1>1 DEF LiveRows
<1>3. \A since : \A r \in Touched(h, since) : r.key \in OrderingKeys
  BY <1>1 DEF Touched
<1> QED BY <1>1, <1>2, <1>3

LEMMA NoRows == LiveRows(<< >>) = {}
BY DEF LiveRows, Rows

\* h is what the longer history g began with.
Begins(h, g) ==
    /\ h \in Seq(Event) /\ g \in Seq(Event)
    /\ Len(h) <= Len(g) /\ \A i \in 1..Len(h) : g[i] = h[i]

\* A row the longer history no longer has, or has new, was touched there.
LEMMA TouchedWhereDifferent ==
    ASSUME NEW h, NEW g, Begins(h, g), NEW since \in Nat, since <= Len(h),
           NEW f, f \in LiveRows(h) <=> f \notin LiveRows(g)
    PROVE  \E r \in Touched(g, since) : r.key = f.key /\ r.symbol = f.symbol
<1>1. /\ DOMAIN h = 1..Len(h) /\ DOMAIN g = 1..Len(g) /\ Len(h) \in Nat /\ Len(g) \in Nat
      /\ Len(h) <= Len(g) /\ \A i \in 1..Len(h) : g[i] = h[i]
  BY DEF Begins
<1>2. CASE f \in LiveRows(h)
  <2>1. PICK i \in Rows(h) \ Killed(h) :
          f = [key |-> h[i].key, symbol |-> h[i].symbol, at |-> i, life |-> h[i].life]
    BY <1>2 DEF LiveRows
  <2>2. i \in 1..Len(h) /\ i \in 1..Len(g) /\ h[i].key # Null /\ g[i] = h[i]
    BY <1>1 DEF Rows
  <2>3. i \in Rows(g)
    BY <1>1, <2>2 DEF Rows
  <2>4. i \in Killed(g)
    BY <1>2, <2>1, <2>2, <2>3 DEF LiveRows
  <2>5. PICK j \in 1..Len(g) : g[j].kills = i
    BY <1>1, <2>4 DEF Killed
  <2>6. ~(j \in 1..Len(h))
    BY <1>1, <2>5 DEF Killed
  <2>7. j > since
    BY <1>1, <2>5, <2>6
  <2>8. g[i] \in Touched(g, since)
    BY <1>1, <2>3, <2>5, <2>7 DEF Touched
  <2> QED BY <2>1, <2>2, <2>8
<1>3. CASE f \in LiveRows(g)
  <2>1. PICK i \in Rows(g) \ Killed(g) :
          f = [key |-> g[i].key, symbol |-> g[i].symbol, at |-> i, life |-> g[i].life]
    BY <1>3 DEF LiveRows
  <2>2. i \in 1..Len(g) /\ g[i].key # Null
    BY <1>1 DEF Rows
  <2>3. ~(i \in 1..Len(h))
    <3> SUFFICES ASSUME i \in 1..Len(h) PROVE FALSE
      OBVIOUS
    <3>1. i \in Rows(h) /\ g[i] = h[i]
      BY <1>1, <2>2 DEF Rows
    <3>2. i \notin Killed(h)
      BY <1>1, <2>1 DEF Killed
    <3> QED BY <1>3, <2>1, <3>1, <3>2 DEF LiveRows
  <2>4. i > since
    BY <1>1, <2>2, <2>3
  <2>5. g[i] \in Touched(g, since)
    BY <2>1, <2>4 DEF Touched
  <2> QED BY <2>1, <2>5
<1> QED BY <1>2, <1>3

LEMMA TouchedGrows ==
    ASSUME NEW h, NEW g, Begins(h, g), NEW since
    PROVE  Touched(h, since) \subseteq Touched(g, since)
<1>1. /\ DOMAIN h = 1..Len(h) /\ DOMAIN g = 1..Len(g) /\ Len(h) \in Nat /\ Len(g) \in Nat
      /\ Len(h) <= Len(g) /\ \A i \in 1..Len(h) : g[i] = h[i]
  BY DEF Begins
<1>2. 1..Len(h) \subseteq 1..Len(g)
  BY <1>1
<1>3. \A i \in Rows(h) : i \in Rows(g) /\ g[i] = h[i]
  BY <1>1, <1>2 DEF Rows
<1> QED BY <1>1, <1>2, <1>3 DEF Touched

\* What agreed before agrees after any further events, with what they touch.
LEMMA AgreesLonger ==
    ASSUME NEW h, NEW g, Begins(h, g), NEW since \in Nat, since <= Len(h),
           NEW w, NEW rows, Agrees(rows, h, since, w)
    PROVE  Agrees(rows, g, since, w)
<1> DEFINE before == TouchedBuckets(h, since, w)
           after  == TouchedBuckets(g, since, w)
<1>1. before \subseteq after
  BY TouchedGrows DEF TouchedBuckets
<1>2. ASSUME NEW b, b \notin after
      PROVE  {f \in LiveRows(h) : BucketOf(f.key, w) = b}
                = {f \in LiveRows(g) : BucketOf(f.key, w) = b}
  <2>1. ASSUME NEW f, BucketOf(f.key, w) = b
        PROVE  f \in LiveRows(h) <=> f \in LiveRows(g)
    <3>1. ASSUME f \in LiveRows(h) <=> f \notin LiveRows(g) PROVE FALSE
      <4>1. PICK r \in Touched(g, since) : r.key = f.key
        BY <3>1, TouchedWhereDifferent
      <4> QED BY <1>2, <2>1, <4>1 DEF TouchedBuckets
    <3> QED BY <3>1
  <2> QED BY <2>1
<1>3. ASSUME NEW b, b \notin after
      PROVE  /\ RowOf(LiveRows(h), b, w) = RowOf(LiveRows(g), b, w)
             /\ (\E f \in LiveRows(h) : BucketOf(f.key, w) = b)
                  <=> (\E f \in LiveRows(g) : BucketOf(f.key, w) = b)
  BY <1>2, <1>3 DEF RowOf
<1>4. \A facts, b : RowOf(facts, b, w).bucket = b
  BY DEF RowOf
<1>5. Outside(Full(LiveRows(h), w), after) = Outside(Full(LiveRows(g), w), after)
  <2> HIDE DEF after
  <2> QED BY <1>3, <1>4 DEF Outside, Full
<1>6. Outside(rows, after) = Outside(Full(LiveRows(h), w), after)
  BY <1>1 DEF Agrees, Outside
<1> QED BY <1>5, <1>6 DEF Agrees

----------------------------------------------------------------------------
\* Folds over some buckets.

LEMMA NoMatch == \A f : MatchOf(f, {}) = {}
BY DEF MatchOf, Candidates

LEMMA FoldOfBuckets ==
    ASSUME NEW facts, NEW w, NEW keys, NEW buckets,
           \A f \in facts : f.key \in keys <=> BucketOf(f.key, w) \in buckets
    PROVE  Fold(facts, {}, keys, w) = Of(Full(facts, w), buckets)
<1> DEFINE chosen == {f \in facts : f.key \in keys}
           folded == {BucketOf(f.key, w) : f \in chosen}
<1>1. \A b : b \in folded <=> b \in buckets /\ \E f \in facts : BucketOf(f.key, w) = b
  OBVIOUS
<1>2. ASSUME NEW b \in buckets
      PROVE  {g \in chosen : BucketOf(g.key, w) = b} = {g \in facts : BucketOf(g.key, w) = b}
  OBVIOUS
<1>3. \A b \in buckets :
        [bucket |-> b,
         rows |-> {<<f, MatchOf(f, {})>> : f \in {g \in chosen : BucketOf(g.key, w) = b}}]
          = RowOf(facts, b, w)
  BY <1>2, NoMatch DEF RowOf
<1>4. Fold(facts, {}, keys, w) =
        {[bucket |-> b,
          rows |-> {<<f, MatchOf(f, {})>> : f \in {g \in chosen : BucketOf(g.key, w) = b}}] :
            b \in folded}
  BY DEF Fold
<1>5. Fold(facts, {}, keys, w) = {RowOf(facts, b, w) : b \in folded}
  <2> HIDE DEF folded, chosen
  <2> QED BY <1>1, <1>3, <1>4
<1>6. \A b : RowOf(facts, b, w).bucket = b
  BY DEF RowOf
<1> HIDE DEF folded
<1> QED BY <1>1, <1>5, <1>6 DEF Of, Full

LEMMA FoldOfAll ==
    ASSUME NEW h \in Seq(Event), NEW w
    PROVE  Fold(LiveRows(h), {}, OrderingKeys, w) = Full(LiveRows(h), w)
<1> DEFINE all == {BucketOf(f.key, w) : f \in LiveRows(h)}
<1>1. \A f \in LiveRows(h) : f.key \in OrderingKeys <=> BucketOf(f.key, w) \in all
  BY LiveKeys
<1>2. Fold(LiveRows(h), {}, OrderingKeys, w) = Of(Full(LiveRows(h), w), all)
  <2> HIDE DEF all
  <2> QED BY <1>1, FoldOfBuckets
<1>3. \A b : RowOf(LiveRows(h), b, w).bucket = b
  BY DEF RowOf
<1> QED BY <1>2, <1>3 DEF Of, Full

\* Over one source the dirty ranges are the touched keys.
LEMMA DirtyKeys ==
    ASSUME ~Joined, NEW h, NEW m
    PROVE  /\ Dirty(h, << >>, m) = {<<r.key, r.key>> : r \in Touched(h, m.stamp)}
           /\ LiveRanges(h, << >>, m) = Dirty(h, << >>, m)
BY DEF Joined, AsOfJoin, Dirty, LiveRanges

LEMMA BucketOne == ASSUME NEW k \in OrderingKeys PROVE BucketOf(k, 1) = k
<1>1. k \in Int
  BY DEF OrderingKeys, MinKey
<1>2. k <= BucketOf(k, 1) /\ BucketOf(k, 1) <= k
  BY <1>1, BucketAtLeast, BucketAtMost
<1> QED BY <1>1, <1>2, BucketType

LEMMA PointsCovered ==
    ASSUME NEW S \in SUBSET OrderingKeys
    PROVE  Covered({<<x, x>> : x \in S}) = S
<1>1. \A x \in S : x..x = {x}
  BY DEF OrderingKeys, MinKey
<1> DEFINE points == {<<x, x>> : x \in S}
<1>2. ASSUME NEW p \in points PROVE p[1]..p[2] \subseteq S
  <2>1. PICK x \in S : p = <<x, x>>
    OBVIOUS
  <2>2. p[1] = x /\ p[2] = x
    BY <2>1
  <2> HIDE DEF points
  <2> QED BY <1>1, <2>2
<1>3. ASSUME NEW x \in S PROVE \E p \in points : x \in p[1]..p[2]
  <2>1. PICK p \in points : p = <<x, x>>
    OBVIOUS
  <2>2. p[1] = x /\ p[2] = x
    BY <2>1
  <2> HIDE DEF points
  <2> QED BY <1>1, <2>2
<1> HIDE DEF points
<1>4. Covered(points) \subseteq S
  BY <1>2 DEF Covered
<1>5. S \subseteq Covered(points)
  BY <1>3 DEF Covered
<1> QED BY <1>4, <1>5 DEF points

(* The runs of the touched keys cover the touched buckets, and the keys    *)
(* they read back are those of these buckets.                              *)
LEMMA RunsOfTouched ==
    ASSUME NEW h \in Seq(Event), NEW since, NEW w \in Nat \ {0}
    PROVE  LET ranges == {<<r.key, r.key>> : r \in Touched(h, since)}
               runs   == Runs(ranges, w)
               dirty  == TouchedBuckets(h, since, w)
           IN  /\ Covered(runs) = dirty
               /\ Fold(LiveRows(h), {}, KeysOf(runs, w), w) = Of(Full(LiveRows(h), w), dirty)
<1> DEFINE T      == {r.key : r \in Touched(h, since)}
           ranges == {<<r.key, r.key>> : r \in Touched(h, since)}
           runs   == Runs(ranges, w)
           dirty  == TouchedBuckets(h, since, w)
<1>1. T \subseteq OrderingKeys
  BY LiveKeys
<1>2. dirty = {BucketOf(t, w) : t \in T} /\ dirty \subseteq OrderingKeys
  BY <1>1, BucketInRange DEF TouchedBuckets
<1>3. runs = ContiguousRuns(dirty)
  <2>1. CASE w = 1
    <3>1. Covered(ranges) = T
      <4>1. ranges = {<<x, x>> : x \in T}
        OBVIOUS
      <4> QED BY <1>1, <4>1, PointsCovered
    <3>2. dirty = T
      BY <1>1, <1>2, <2>1, BucketOne
    <3> QED BY <2>1, <3>1, <3>2 DEF Runs, MergedRanges
  <2>2. CASE w # 1
    <3> DEFINE points == {<<BucketOf(range[1], w), BucketOf(range[2], w)>> : range \in ranges}
    <3>1. points = {<<b, b>> : b \in dirty}
      <4>1. ranges = {<<t, t>> : t \in T}
        OBVIOUS
      <4> HIDE DEF T, ranges
      <4>2. \A range \in ranges : \E t \in T : range = <<t, t>>
        BY <4>1
      <4>3. \A t \in T : <<t, t>> \in ranges
        BY <4>1
      <4>6. \A t : <<t, t>>[1] = t /\ <<t, t>>[2] = t
        OBVIOUS
      <4>4. points = {<<BucketOf(t, w), BucketOf(t, w)>> : t \in T}
        <5>1. \A range \in ranges : \E t \in T : range[1] = t /\ range[2] = t
          BY <4>2, <4>6
        <5>2. \A t \in T : \E range \in ranges : range[1] = t /\ range[2] = t
          BY <4>3, <4>6
        <5> QED BY <5>1, <5>2
      <4>5. {<<BucketOf(t, w), BucketOf(t, w)>> : t \in T} = {<<b, b>> : b \in dirty}
        BY <1>2
      <4> QED BY <4>4, <4>5
    <3>2. Covered(points) = dirty
      BY <1>2, <3>1, PointsCovered
    <3> QED BY <2>2, <3>2 DEF Runs, BucketRuns, MergedRanges
  <2> QED BY <2>1, <2>2
<1>4. Covered(runs) = dirty
  BY <1>2, <1>3, RunsCover
<1>5. \A f \in LiveRows(h) : f.key \in KeysOf(runs, w) <=> BucketOf(f.key, w) \in dirty
  <2> TAKE f \in LiveRows(h)
  <2>1. f.key \in OrderingKeys
    BY LiveKeys
  <2> HIDE DEF T, runs
  <2> QED BY <1>1, <1>2, <1>3, <2>1, RunsKeys
<1>6. Fold(LiveRows(h), {}, KeysOf(runs, w), w) = Of(Full(LiveRows(h), w), dirty)
  <2> HIDE DEF runs, dirty
  <2> QED BY <1>5, FoldOfBuckets
<1> QED BY <1>4, <1>6

(* A union read of rows that agree but for what was touched is the         *)
(* definition's answer, whatever the stale buckets hold.                   *)
LEMMA UnionIsFull ==
    ASSUME ~Joined, NEW h \in Seq(Event), NEW m, NEW rows, ~(Hidden /\ m.width = 0),
           Divide(m) \in Nat \ {0}, Agrees(rows, h, m.stamp, Divide(m))
    PROVE  UnionRead(h, << >>, m, rows) = Full(LiveRows(h), Divide(m))
<1> DEFINE w     == Divide(m)
           dirty == TouchedBuckets(h, m.stamp, w)
           runs  == Runs(LiveRanges(h, << >>, m), w)
<1>1. /\ Covered(runs) = dirty
      /\ Fold(LiveRows(h), {}, KeysOf(runs, w), w) = Of(Full(LiveRows(h), w), dirty)
  BY RunsOfTouched, DirtyKeys
<1>2. UnionRead(h, << >>, m, rows)
        = {r \in rows : r.bucket \notin Covered(runs)}
             \union Fold(LiveRows(h), {}, KeysOf(runs, w), w)
  BY NoRows DEF UnionRead
<1>3. {r \in rows : r.bucket \notin dirty} = {r \in Full(LiveRows(h), w) : r.bucket \notin dirty}
  BY DEF Agrees, Outside
<1> HIDE DEF runs, dirty, w
<1>4. UnionRead(h, << >>, m, rows)
        = {r \in Full(LiveRows(h), w) : r.bucket \notin dirty}
             \union Of(Full(LiveRows(h), w), dirty)
  BY <1>1, <1>2, <1>3
<1>5. UnionRead(h, << >>, m, rows) = Full(LiveRows(h), w)
  BY <1>4 DEF Of
<1> QED BY <1>5 DEF w

----------------------------------------------------------------------------
\* Widths.

LEMMA MaxOne == ASSUME NEW n \in Nat \ {0} PROVE Max({n, 1}) = n
<1> DEFINE S == {n, 1}
<1>1. n \in S /\ \A y \in S : n >= y
  OBVIOUS
<1>2. \A x \in S : (\A y \in S : x >= y) => x = n
  OBVIOUS
<1> HIDE DEF S
<1>3. Max(S) = n
  BY <1>1, <1>2 DEF Max
<1> QED BY <1>3 DEF S

LEMMA DivideType ==
    ASSUME shape \in Shapes, NEW m, m.width \in Nat, ~(Hidden /\ m.width = 0)
    PROVE  Divide(m) \in Nat \ {0} /\ (Hidden => Divide(m) = m.width)
BY ShapesAssumption, MaxOne DEF Divide

LEMMA WidthsType ==
    ASSUME shape \in Shapes, NEW m, m.width \in Nat
    PROVE  Widths(m) \subseteq Nat \ {0} /\ Widths(m) # {}
BY DivideType DEF Widths

\* A width is a positive number.
LEMMA WidthType ==
    ASSUME NEW h \in Seq(Event), LiveRows(h) # {}
    PROVE  Width(LiveRows(h)) \in Nat \ {0}
<1> DEFINE keys == {r.key : r \in LiveRows(h)}
<1>1. /\ keys \in SUBSET Int /\ keys # {} /\ MinKey \in Int /\ MaxKey \in Int
      /\ \A k \in keys : MinKey <= k /\ k <= MaxKey
  BY LiveKeys, MaxKeyAssumption DEF OrderingKeys, MinKey
<1> HIDE DEF keys
<1>2. \E a \in keys : \A x \in keys : x <= a
  BY <1>1, HasGreatest
<1>3. \E a \in keys : \A x \in keys : a <= x
  BY <1>1, HasLeast
<1>4. Max(keys) \in keys /\ \A x \in keys : Max(keys) >= x
  <2>1. \E a \in keys : \A x \in keys : a >= x
    BY <1>1, <1>2
  <2> QED BY <2>1 DEF Max
<1>5. Min(keys) \in keys /\ \A x \in keys : Min(keys) <= x
  BY <1>3 DEF Min
<1>6. PICK span \in Nat \ {0} : span = Max(keys) - Min(keys) + 1
  <2>1. Max(keys) \in Int /\ Min(keys) \in Int
    BY <1>1, <1>4, <1>5
  <2>2. Min(keys) <= Max(keys)
    BY <1>4, <1>5
  <2> QED BY <2>1, <2>2
<1>7. span + Target - 1 \in Nat /\ 1 * Target <= span + Target - 1
  BY TargetAssumption
<1>8. 1 <= (span + Target - 1) \div Target /\ (span + Target - 1) \div Target \in Nat
  BY <1>7, TargetAssumption, QuotientAtLeast, Quotient
<1>9. Width(LiveRows(h)) = (span + Target - 1) \div Target
  BY <1>6 DEF Width, keys
<1> QED BY <1>8, <1>9

----------------------------------------------------------------------------
\* What is stored.

LEMMA StoredType ==
    ASSUME StampInv
    PROVE  /\ Stored \in Seq(Event) /\ Len(Stored) = saved.fact
           /\ Begins(Stored, fact)
           /\ saved.fact = Len(fact) => Stored = fact
<1>1. fact \in Seq(Event) /\ saved.fact \in Nat /\ saved.fact <= Len(fact)
  BY DEF StampInv, SourcesInv
<1> QED BY <1>1 DEF Stored, Begins

\* A flush only adds to what is stored.
LEMMA StoredBegins ==
    ASSUME StampInv, StampInv', saved.fact <= saved'.fact,
           \A i \in 1..saved.fact : fact'[i] = fact[i]
    PROVE  Begins(Stored, Stored')
<1>1. /\ fact \in Seq(Event) /\ saved.fact \in Nat /\ saved.fact <= Len(fact)
      /\ fact' \in Seq(Event) /\ saved'.fact \in Nat /\ saved'.fact <= Len(fact')
  BY DEF StampInv, SourcesInv
<1>2. /\ Stored \in Seq(Event) /\ Len(Stored) = saved.fact
      /\ \A i \in 1..saved.fact : Stored[i] = fact[i]
  BY <1>1 DEF Stored
<1>3. /\ Stored' \in Seq(Event) /\ Len(Stored') = saved'.fact
      /\ \A i \in 1..saved'.fact : Stored'[i] = fact'[i]
  BY <1>1 DEF Stored
<1> QED BY <1>1, <1>2, <1>3 DEF Begins

LEMMA CoherentKeeps ==
    ASSUME StampInv, StampInv', shape' = shape, Begins(Stored, Stored'),
           NEW rows, NEW m, m.stamp \in Nat, m.stamp <= saved.fact, Coherent(rows, m)
    PROVE  Coherent(rows, m)'
<1>1. Widths(m)' = Widths(m)
  BY DEF Widths, Hidden, Divide
<1>2. Len(Stored) = saved.fact
  BY StoredType
<1>3. \A w \in Widths(m) : Agrees(rows, Stored', m.stamp, w)
  BY <1>2, AgreesLonger DEF Coherent
<1> QED BY <1>1, <1>3 DEF Coherent

\* With nothing touched, what agrees is the answer itself, and conversely.
LEMMA AgreesFull ==
    ASSUME NEW h, NEW since, NEW w
    PROVE  /\ Agrees(Full(LiveRows(h), w), h, since, w)
           /\ \A rows : Agrees(rows, h, since, w) /\ TouchedBuckets(h, since, w) = {}
                           => rows = Full(LiveRows(h), w)
BY DEF Agrees, Outside

LEMMA NothingTouched ==
    ASSUME NEW h \in Seq(Event), NEW w
    PROVE  TouchedBuckets(h, Len(h), w) = {}
BY DEF TouchedBuckets, Touched, Rows

\* A refresh repairs what it takes out.
LEMMA Repaired ==
    ASSUME NEW rows, NEW h, NEW since, NEW w, Agrees(rows, h, since, w)
    PROVE  Outside(rows, TouchedBuckets(h, since, w))
             \union Of(Full(LiveRows(h), w), TouchedBuckets(h, since, w)) = Full(LiveRows(h), w)
BY DEF Agrees, Outside, Of

\* Half of a repair spoils nothing that was not touched.
LEMMA HalfRepaired ==
    ASSUME NEW rows, NEW h, NEW since, NEW w, Agrees(rows, h, since, w),
           NEW some, some \subseteq Of(Full(LiveRows(h), w), TouchedBuckets(h, since, w))
    PROVE  Agrees(rows \union some, h, since, w)
BY DEF Agrees, Outside, Of

LEMMA ReadInit == StampInv /\ Init => ReadInv
<1> SUFFICES ASSUME StampInv, Init PROVE ReadInv
  OBVIOUS
<1>1. Stored = << >>
  BY DEF Stored, Init
<1>2. \A w : Full({}, w) = {}
  BY DEF Full
<1>3. \A m : Coherent({}, m)
  BY <1>1, <1>2, NoRows DEF Coherent, Agrees, Outside
<1>4. SizeInv
  BY DEF Init, SizeInv, Fresh
<1>5. RefreshInv
  BY DEF Init, RefreshInv
<1> QED BY <1>3, <1>4, <1>5 DEF Init, ReadInv, Fresh

----------------------------------------------------------------------------
\* The steps.

LEMMA WriteReads ==
    ASSUME StampInv, StampInv', ReadInv, WriteFact
    PROVE  ReadInv'
<1>1. PICK e : fact' = Append(fact, e)
  BY DEF WriteFact
<1>2. UNCHANGED <<shape, dimension, saved, mark, record, table, kept, pc, todo>> /\ pc = "idle"
  BY DEF WriteFact, view
<1>3. /\ fact \in Seq(Event) /\ fact' \in Seq(Event)
      /\ saved.fact \in Nat /\ saved.fact <= Len(fact)
  BY DEF StampInv, SourcesInv
<1>4. \A i \in 1..saved.fact : fact'[i] = fact[i]
  BY <1>1, <1>3
<1>5. Begins(Stored, Stored')
  BY <1>2, <1>3, <1>4, StoredBegins
<1>6. \A m : m \in {mark, record} => m.stamp \in Nat /\ m.stamp <= saved.fact
  BY DEF StampInv, MarksInv, Backed
<1>7. Coherent(table, mark)' /\ Coherent(kept, record)'
  BY <1>2, <1>5, <1>6, CoherentKeeps DEF ReadInv
<1>8. RefreshInv'
  BY <1>2 DEF RefreshInv
<1>9. SizeInv'
  BY <1>2 DEF ReadInv, SizeInv, Unsized, Hidden
<1> QED BY <1>2, <1>7, <1>8, <1>9 DEF ReadInv

\* The plan of a refresh over one source.
LEMMA PlanSingleIs ==
    ASSUME StampInv, dimension = << >>, ~Joined, NEW m, "width" \in DOMAIN m,
           Divide(m) \in Nat \ {0}
    PROVE  LET p     == PlanSingle(m)
               dirty == TouchedBuckets(fact, m.stamp, Divide(m))
           IN  /\ p.all = FALSE /\ p.mark = Now(m) /\ Covered(p.runs) = dirty
               /\ p.fold = Of(Full(LiveRows(fact), Divide(m)), dirty)
<1> DEFINE w      == Divide(m)
           ranges == Dirty(fact, << >>, m)
           runs   == Runs(ranges, w)
           dirty  == TouchedBuckets(fact, m.stamp, w)
<1>1. Divide(Now(m)) = w
  BY DEF Divide, Now
<1>2. fact \in Seq(Event)
  BY DEF StampInv, SourcesInv
<1>3. Covered(runs) = dirty /\ Fold(LiveRows(fact), {}, KeysOf(runs, w), w)
                                  = Of(Full(LiveRows(fact), w), dirty)
  BY <1>2, RunsOfTouched, DirtyKeys
<1>4. PlanSingle(m) = [fold |-> Fold(LiveRows(fact), {}, KeysOf(runs, w), w),
                       runs |-> runs, all |-> FALSE, mark |-> Now(m)]
  BY <1>1, NoRows DEF PlanSingle, Plan
<1> QED BY <1>3, <1>4

\* A refresh that starts stores all events; what was coherent stays so.
LEMMA StartReads ==
    ASSUME StampInv, StampInv', ReadInv, Starting
    PROVE  /\ Stored' = fact /\ saved'.fact = Len(fact)
           /\ UNCHANGED <<shape, fact, dimension, table, kept>> /\ pc = "idle"
           /\ Coherent(table, mark)' \/ mark' # mark
           /\ Coherent(kept, record)' \/ record' # record
           /\ \A m : m.stamp \in Nat /\ m.stamp <= saved.fact =>
                 \A rows : Coherent(rows, m) =>
                    \A w \in Widths(m) : Agrees(rows, fact, m.stamp, w)
<1>1. /\ saved'.fact = Len(fact) /\ pc = "idle"
      /\ UNCHANGED <<shape, fact, dimension, table, kept>>
  BY DEF Starting, SavedByRefresh, Flushed
<1>2. Stored' = fact
  <2>1. fact' \in Seq(Event) /\ saved'.fact = Len(fact')
    BY <1>1 DEF StampInv, SourcesInv
  <2> QED BY <1>1, <2>1 DEF Stored
<1>3. Begins(Stored, Stored')
  BY <1>2, StoredType
<1>4. \A m : m \in {mark, record} => m.stamp \in Nat /\ m.stamp <= saved.fact
  BY DEF StampInv, MarksInv, Backed
<1>5. Coherent(table, mark)' \/ mark' # mark
  BY <1>1, <1>3, <1>4, CoherentKeeps DEF ReadInv
<1>6. Coherent(kept, record)' \/ record' # record
  BY <1>1, <1>3, <1>4, CoherentKeeps DEF ReadInv
<1>7. ASSUME NEW m, m.stamp \in Nat, m.stamp <= saved.fact, NEW rows, Coherent(rows, m),
             NEW w \in Widths(m)
      PROVE  Agrees(rows, fact, m.stamp, w)
  BY <1>2, <1>3, <1>7, StoredType, AgreesLonger DEF Coherent
<1> QED BY <1>1, <1>2, <1>5, <1>6, <1>7

LEMMA PlannedReads ==
    ASSUME StampInv, shape \in Shapes, ~Joined, dimension = << >>,
           UNCHANGED <<shape, fact, table>>, saved'.fact = Len(fact), Stored' = fact,
           NEW m, mark' = m, "width" \in DOMAIN m, "stamp" \in DOMAIN m,
           "dimensionStamp" \in DOMAIN m, m.width \in Nat,
           ~(Hidden /\ m.width = 0), Refreshing(PlanSingle(m)), Coherent(table, mark)'
    PROVE  RefreshInv'
<1> DEFINE w     == Divide(m)
           p     == PlanSingle(m)
           dirty == TouchedBuckets(fact, m.stamp, w)
<1>1. w \in Nat \ {0}
  BY DivideType
<1>2. /\ p.all = FALSE /\ p.mark = Now(m) /\ Covered(p.runs) = dirty
      /\ p.fold = Of(Full(LiveRows(fact), w), dirty)
  BY <1>1, PlanSingleIs
<1> HIDE DEF p
<1>3. todo' = p /\ pc' = IF p.fold = {} /\ p.runs = {} /\ ~p.all THEN "flush" ELSE "replace"
  BY DEF Refreshing, p
<1>4. Divide(mark)' = w /\ Widths(mark)' = {w} /\ ~Unsized'
  BY DEF Divide, Hidden, Widths, Unsized
<1>5. Now(m).stamp = Len(fact) /\ Now(m).width = m.width
  BY DEF Now
<1>6. Agrees(table, fact, m.stamp, w)
  BY <1>4 DEF Coherent
<1>7. pc' = "flush" => table' = Full(LiveRows(fact), w)
  <2> SUFFICES ASSUME p.runs = {} PROVE table = Full(LiveRows(fact), w)
    BY <1>3
  <2>1. dirty = {}
    BY <1>2 DEF Covered
  <2> QED BY <1>6, <2>1, AgreesFull
<1> HIDE DEF w
<1>8. pc' = "replace" =>
        LET touched == TouchedBuckets(fact', mark'.stamp, Divide(mark)') IN
        /\ ~Unsized' /\ todo'.all = FALSE
        /\ Covered(todo'.runs) = touched
        /\ todo'.fold = Of(Full(LiveRows(fact'), Divide(mark)'), touched)
  BY <1>2, <1>3, <1>4
<1>9. todo'.mark.stamp = Len(fact') /\ todo'.mark.width = mark'.width
  BY <1>2, <1>3, <1>5
<1>10. pc' \in {"flush", "stamp"} => \A v \in Widths(mark)' : table' = Full(LiveRows(fact'), v)
  BY <1>3, <1>4, <1>7
<1> QED BY <1>3, <1>8, <1>9, <1>10 DEF RefreshInv

LEMMA SingleReads ==
    ASSUME StampInv, StampInv', ReadInv, shape \in Shapes, ~Joined, BeginSingle
    PROVE  ReadInv'
<1>1. Starting /\ ~Unsized /\ UNCHANGED <<mark, record>> /\ Refreshing(PlanSingle(mark))
  BY DEF BeginSingle
<1>2. /\ Stored' = fact /\ saved'.fact = Len(fact)
      /\ UNCHANGED <<shape, fact, dimension, table, kept>>
      /\ Coherent(table, mark)' /\ Coherent(kept, record)'
  BY <1>1, StartReads
<1>3. {"stamp", "width", "dimensionStamp"} \subseteq DOMAIN mark
  BY DEF StampInv, MarksInv, Backed
<1>4. mark.width \in Nat /\ ~(Hidden /\ mark.width = 0)
  BY <1>1 DEF ReadInv, SizeInv, Unsized
<1>5. RefreshInv'
  <2>1. PICK m : m = mark
    OBVIOUS
  <2>2. mark' = m /\ Refreshing(PlanSingle(m))
    BY <1>1, <2>1
  <2> QED BY <1>2, <1>3, <1>4, <2>1, <2>2, PlannedReads DEF ReadInv
<1>6. pc' \in {"idle", "replace", "flush", "stamp"}
  BY <1>1 DEF Refreshing
<1>7. SizeInv'
  BY <1>1, <1>2 DEF ReadInv, SizeInv, Unsized, Hidden
<1> QED BY <1>1, <1>2, <1>5, <1>6, <1>7 DEF ReadInv

LEMMA UnsizedReads ==
    ASSUME StampInv, StampInv', ReadInv, shape \in Shapes, ~Joined, BeginUnsized
    PROVE  ReadInv'
<1>1. /\ Starting /\ Unsized /\ LiveRows(fact) = {} /\ UNCHANGED <<mark, record>>
      /\ Refreshing(Plan({}, {}, FALSE, Now(mark)))
  BY DEF BeginUnsized
<1>2. /\ Stored' = fact /\ saved'.fact = Len(fact)
      /\ UNCHANGED <<shape, fact, dimension, table, kept>>
      /\ Coherent(table, mark)' /\ Coherent(kept, record)'
  BY <1>1, StartReads
<1>3. \A w : Runs({}, w) = {} /\ KeysOf({}, w) = {}
  BY DEF Runs, MergedRanges, BucketRuns, ContiguousRuns, Covered, KeysOf
<1>4. \A w : Full({}, w) = {} /\ Fold({}, {}, {}, w) = {}
  BY DEF Full, Fold
<1> DEFINE p == Plan({}, {}, FALSE, Now(mark))
<1>5. p.fold = {} /\ p.runs = {} /\ p.all = FALSE /\ p.mark = Now(mark)
  <2>1. LiveRows(dimension) = {}
    BY NoRows DEF ReadInv
  <2> QED BY <1>1, <1>3, <1>4, <2>1 DEF Plan
<1> HIDE DEF p
<1>6. pc' = "flush" /\ todo' = p
  BY <1>1, <1>5 DEF Refreshing, p
<1>7. Now(mark).stamp = Len(fact) /\ Now(mark).width = mark.width
  BY DEF Now, StampInv, MarksInv, Backed
<1>8. table' = {}
  BY <1>1, <1>2 DEF ReadInv, SizeInv
<1>9. RefreshInv'
  BY <1>1, <1>2, <1>4, <1>5, <1>6, <1>7, <1>8 DEF RefreshInv
<1>10. SizeInv'
  BY <1>1, <1>2 DEF ReadInv, SizeInv, Unsized, Hidden
<1> QED BY <1>1, <1>2, <1>6, <1>9, <1>10 DEF ReadInv

LEMMA SizingReads ==
    ASSUME StampInv, StampInv', ReadInv, shape \in Shapes, ~Joined, BeginSizing
    PROVE  ReadInv'
<1>1. /\ Starting /\ Unsized /\ LiveRows(fact) # {} /\ mark' = Sized /\ record' = Sized
      /\ Refreshing(PlanSingle(Sized))
  BY DEF BeginSizing
<1>2. /\ Stored' = fact /\ saved'.fact = Len(fact)
      /\ UNCHANGED <<shape, fact, dimension, table, kept>>
  BY <1>1, StartReads
<1>3. /\ {"stamp", "width", "dimensionStamp"} \subseteq DOMAIN mark
      /\ mark.stamp \in Nat /\ mark.stamp <= saved.fact
  BY DEF StampInv, MarksInv, Backed
<1>4. PICK m : m = Sized
  OBVIOUS
<1>5. /\ DOMAIN m = DOMAIN mark /\ m.stamp = mark.stamp
      /\ m.width = Width(LiveRows(fact))
  BY <1>3, <1>4 DEF Sized
<1>6. m.width \in Nat \ {0}
  BY <1>1, <1>5, WidthType DEF StampInv, SourcesInv
<1>7. table = {} /\ kept = {} /\ Widths(mark) = Nat \ {0}
  BY <1>1 DEF ReadInv, SizeInv, Unsized, Widths
<1>8. Widths(m)' = {Divide(m)} /\ Divide(m) \in Nat \ {0}
  BY <1>2, <1>6, DivideType DEF Widths, Divide, Hidden
<1>9. \A w \in Nat \ {0} : Agrees({}, fact, mark.stamp, w)
  BY <1>1, <1>3, <1>7, StartReads DEF ReadInv
<1>10. Coherent(table, mark)' /\ Coherent(kept, record)'
  <2>1. mark' = m /\ record' = m /\ table' = {} /\ kept' = {}
    BY <1>1, <1>2, <1>4, <1>7
  <2>2. Widths(mark)' = {Divide(m)} /\ Widths(record)' = {Divide(m)}
    BY <1>8, <2>1
  <2> QED BY <1>2, <1>5, <1>8, <1>9, <2>1, <2>2 DEF Coherent
<1>11. RefreshInv'
  <2>1. mark' = m /\ Refreshing(PlanSingle(m))
    BY <1>1, <1>4
  <2> QED BY <1>2, <1>3, <1>5, <1>6, <1>10, <2>1, PlannedReads DEF ReadInv
<1>12. pc' \in {"idle", "replace", "flush", "stamp"}
  BY <1>1 DEF Refreshing
<1>13. SizeInv'
  BY <1>1, <1>2, <1>4, <1>6, <1>7 DEF SizeInv
<1>14. record'.stamp <= mark'.stamp
  BY <1>1, <1>3, <1>4, <1>5
<1> QED BY <1>2, <1>10, <1>11, <1>12, <1>13, <1>14 DEF ReadInv

\* What a refresh in progress has: all events stored, one width.
LEMMA Refreshed ==
    ASSUME StampInv, ReadInv, shape \in Shapes, pc # "idle"
    PROVE  /\ Stored = fact /\ fact \in Seq(Event)
           /\ \A rows, m :
                (\A w \in Widths(m) : rows = Full(LiveRows(fact), w)) => Coherent(rows, m)
           /\ \A m : m.width = mark.width => Widths(m) = Widths(mark)
           /\ ~Unsized => Widths(mark) = {Divide(mark)} /\ Divide(mark) \in Nat \ {0}
           /\ mark.width \in Nat /\ record.width = mark.width
           /\ todo.mark.stamp = Len(fact) /\ todo.mark.width = mark.width
<1>1. Stored = fact
  BY StoredType DEF ReadInv, RefreshInv
<1>2. ASSUME NEW rows, NEW m, \A w \in Widths(m) : rows = Full(LiveRows(fact), w)
      PROVE  Coherent(rows, m)
  BY <1>1, <1>2, AgreesFull DEF Coherent
<1>3. \A m : m.width = mark.width => Widths(m) = Widths(mark)
  BY DEF Widths, Divide
<1>4. ~Unsized => Widths(mark) = {Divide(mark)} /\ Divide(mark) \in Nat \ {0}
  BY DivideType DEF Widths, Unsized, ReadInv, SizeInv
<1> QED BY <1>1, <1>2, <1>3, <1>4 DEF ReadInv, SizeInv, RefreshInv, StampInv, SourcesInv

\* The touched buckets of an older stamp contain those of a newer one.
LEMMA OlderTouchesMore ==
    ASSUME NEW h \in Seq(Event), NEW s \in Nat, NEW t \in Nat, s <= t, NEW w
    PROVE  TouchedBuckets(h, t, w) \subseteq TouchedBuckets(h, s, w)
<1>1. DOMAIN h = 1..Len(h) /\ Rows(h) \subseteq 1..Len(h)
  BY DEF Rows
<1>2. Touched(h, t) \subseteq Touched(h, s)
  BY <1>1 DEF Touched
<1> QED BY <1>2 DEF TouchedBuckets

\* Rows added within the touched buckets keep the kept rows coherent.
LEMMA PartsReads ==
    ASSUME StampInv, ReadInv, shape \in Shapes, pc = "replace", NEW some, some \subseteq todo.fold
    PROVE  Coherent(table \union some, mark) /\ Coherent(table \union some, record)
<1> DEFINE w     == Divide(mark)
           dirty == TouchedBuckets(fact, mark.stamp, w)
<1>1. /\ Stored = fact /\ fact \in Seq(Event) /\ ~Unsized
      /\ Widths(mark) = {w} /\ Widths(record) = {w}
      /\ some \subseteq Of(Full(LiveRows(fact), w), dirty)
  BY Refreshed DEF ReadInv, RefreshInv
<1>2. Agrees(table, fact, mark.stamp, w)
  BY <1>1 DEF ReadInv, Coherent
<1>3. Agrees(table \union some, fact, mark.stamp, w)
  BY <1>1, <1>2, HalfRepaired
<1>4. dirty \subseteq TouchedBuckets(fact, record.stamp, w)
  <2>1. mark.stamp \in Nat /\ record.stamp \in Nat /\ record.stamp <= mark.stamp
    BY DEF StampInv, MarksInv, Backed, ReadInv
  <2> QED BY <1>1, <2>1, OlderTouchesMore
<1>5. Agrees(table \union some, fact, record.stamp, w)
  <2> HIDE DEF w
  <2> QED BY <1>3, <1>4 DEF Agrees, Outside
<1> QED BY <1>1, <1>3, <1>5 DEF Coherent

LEMMA ReplaceReads ==
    ASSUME StampInv, StampInv', ReadInv, shape \in Shapes, Replace
    PROVE  ReadInv'
<1> DEFINE w     == Divide(mark)
           dirty == TouchedBuckets(fact, mark.stamp, w)
<1>1. /\ pc = "replace" /\ pc' = "flush" /\ table' = Kept(table) \union todo.fold
      /\ UNCHANGED <<shape, fact, dimension, saved, mark, record, todo>>
  BY DEF Replace, sources
<1>2. /\ Stored = fact /\ ~Unsized /\ Widths(mark) = {w}
      /\ \A rows, m : (\A v \in Widths(m) : rows = Full(LiveRows(fact), v)) => Coherent(rows, m)
      /\ Widths(record) = Widths(mark)
      /\ todo.all = FALSE /\ Covered(todo.runs) = dirty
      /\ todo.fold = Of(Full(LiveRows(fact), w), dirty)
  BY <1>1, Refreshed DEF ReadInv, RefreshInv
<1>3. table' = Full(LiveRows(fact), w)
  <2>1. Agrees(table, fact, mark.stamp, w)
    BY <1>2 DEF ReadInv, Coherent
  <2>2. Kept(table) = Outside(table, dirty)
    BY <1>2 DEF Kept, Outside
  <2> HIDE DEF w
  <2> QED BY <1>1, <1>2, <2>1, <2>2, Repaired
<1>4. kept' = table' \/ \E some \in SUBSET todo.fold : kept' = table \union some
  BY DEF Replace, Inserted
<1>5. Coherent(table', mark) /\ Coherent(kept', record)
  <2>1. Coherent(table', mark) /\ Coherent(table', record)
    BY <1>2, <1>3
  <2>2. \A some \in SUBSET todo.fold : Coherent(table \union some, record)
    BY <1>1, PartsReads
  <2> QED BY <1>4, <2>1, <2>2
<1>6. Coherent(table, mark)' /\ Coherent(kept, record)'
  BY <1>1, <1>5 DEF Coherent, Stored, Widths, Hidden, Divide
<1>7. SizeInv'
  BY <1>1, <1>2 DEF ReadInv, SizeInv, Unsized, Hidden
<1>8. RefreshInv'
  <2>1. Widths(mark)' = {w}
    BY <1>1, <1>2 DEF Widths, Hidden, Divide
  <2>2. saved'.fact = Len(fact') /\ todo'.mark.stamp = Len(fact')
        /\ todo'.mark.width = mark'.width
    BY <1>1 DEF ReadInv, RefreshInv
  <2> HIDE DEF w
  <2> QED BY <1>1, <1>3, <2>1, <2>2 DEF RefreshInv
<1> QED BY <1>1, <1>6, <1>7, <1>8 DEF ReadInv

LEMMA ReplaceFailsReads ==
    ASSUME StampInv, StampInv', ReadInv, shape \in Shapes, ReplaceFails
    PROVE  ReadInv'
<1>1. /\ pc = "replace" /\ pc' = "idle" /\ kept' = table'
      /\ UNCHANGED <<shape, fact, dimension, saved, mark, record>>
      /\ \E some \in SUBSET todo.fold : table' = table \union some
  BY DEF ReplaceFails, sources, Inserted
<1>2. Coherent(table', mark) /\ Coherent(table', record)
  BY <1>1, PartsReads
<1>3. Coherent(table, mark)' /\ Coherent(kept, record)'
  BY <1>1, <1>2 DEF Coherent, Stored, Widths, Hidden, Divide
<1>4. ~Unsized
  BY <1>1 DEF ReadInv, RefreshInv
<1>5. SizeInv'
  BY <1>1, <1>4 DEF ReadInv, SizeInv, Unsized, Hidden
<1>6. RefreshInv'
  BY <1>1 DEF RefreshInv
<1> QED BY <1>1, <1>3, <1>5, <1>6 DEF ReadInv

LEMMA AdvanceReads ==
    ASSUME StampInv, StampInv', ReadInv, shape \in Shapes, FlushView \/ AdvanceFails
    PROVE  ReadInv'
<1>1. /\ pc \in {"flush", "stamp"} /\ mark' = todo.mark
      /\ UNCHANGED <<shape, fact, dimension, saved, record, table>>
      /\ kept' \in {kept, table}
      /\ pc' = "idle" \/ (pc' = "stamp" /\ kept' = table /\ todo' = todo)
  <2>1. CASE FlushView
    BY <2>1 DEF FlushView, sources
  <2>2. CASE AdvanceFails
    <3>1. /\ pc \in {"flush", "stamp"} /\ mark' = todo.mark /\ pc' = "idle"
          /\ UNCHANGED <<shape, sources, record, table, kept>>
      BY <2>2 DEF AdvanceFails
    <3> QED BY <3>1 DEF sources
  <2> QED BY <2>1, <2>2
<1>2. /\ Stored = fact
      /\ \A rows, m : (\A v \in Widths(m) : rows = Full(LiveRows(fact), v)) => Coherent(rows, m)
      /\ Widths(todo.mark) = Widths(mark) /\ Widths(record) = Widths(mark)
      /\ mark.width \in Nat /\ record.width = mark.width
      /\ todo.mark.stamp = Len(fact) /\ todo.mark.width = mark.width
  BY <1>1, Refreshed
<1>3. \A v \in Widths(mark) : table = Full(LiveRows(fact), v)
  BY <1>1 DEF ReadInv, RefreshInv
<1>4. Coherent(table, todo.mark) /\ Coherent(table, record) /\ Coherent(kept, record)
  BY <1>2, <1>3 DEF ReadInv
<1>5. Coherent(table', mark') /\ Coherent(kept', record')
  BY <1>1, <1>4
<1>6. Coherent(table, mark)' /\ Coherent(kept, record)'
  BY <1>1, <1>5 DEF Coherent, Stored, Widths, Hidden, Divide
<1>7. SizeInv'
  BY <1>1, <1>2 DEF ReadInv, SizeInv, Unsized, Hidden
<1>8. RefreshInv'
  <2>1. Widths(mark)' = Widths(mark)
    BY <1>1, <1>2 DEF Widths, Hidden, Divide
  <2>2. saved.fact = Len(fact)
    BY <1>1 DEF ReadInv, RefreshInv
  <2> QED BY <1>1, <1>2, <1>3, <2>1, <2>2 DEF RefreshInv
<1>9. record'.stamp <= mark'.stamp
  BY <1>1, <1>2 DEF StampInv, MarksInv, Backed, ReadInv, RefreshInv
<1> QED BY <1>1, <1>6, <1>7, <1>8, <1>9 DEF ReadInv

LEMMA RecordReads ==
    ASSUME StampInv, StampInv', ReadInv, shape \in Shapes, WriteRecord
    PROVE  ReadInv'
<1>1. /\ pc = "stamp" /\ pc' = "idle" /\ record' = mark
      /\ UNCHANGED <<shape, fact, dimension, saved, mark, table, kept>>
  BY DEF WriteRecord, sources
<1>2. kept = table /\ Coherent(table, mark) /\ SizeInv
  BY <1>1 DEF ReadInv, RefreshInv
<1>3. Coherent(table, mark)' /\ Coherent(kept, record)'
  BY <1>1, <1>2 DEF Coherent, Stored, Widths, Hidden, Divide
<1>4. SizeInv'
  BY <1>1, <1>2 DEF SizeInv, Unsized, Hidden
<1>5. RefreshInv'
  BY <1>1 DEF RefreshInv
<1>6. record'.stamp <= mark'.stamp
  BY <1>1 DEF StampInv, MarksInv, Backed
<1> QED BY <1>1, <1>3, <1>4, <1>5, <1>6 DEF ReadInv

(* Under the record a crash comes back with, rows are as coherent as under *)
(* the last one: an older stamp only folds more again.                     *)
LEMMA CrashCoherent ==
    ASSUME StampInv, StampInv', ReadInv, OlderInv, Single, Crash
    PROVE  /\ Stored' = Stored /\ record' = mark' /\ record'.width \in Nat
           /\ Hidden => record'.width = record.width
           /\ \A rows : Coherent(rows, record) => Coherent(rows, record)'
<1>1. PICK n \in saved.fact..Len(fact) : fact' = SubSeq(fact, 1, n) /\ saved' = saved
  BY DEF Crash
<1>2. /\ fact \in Seq(Event) /\ saved.fact \in Nat /\ saved.fact <= Len(fact)
      /\ n \in 0..Len(fact) /\ saved.fact <= n
  BY DEF StampInv, SourcesInv
<1>3. Stored' = Stored
  BY <1>1, <1>2 DEF Stored
<1>4. /\ record' = mark' /\ record' \in {record} \union older /\ shape' = shape
      /\ Misleads(record') => "lost" \in Faults
  BY DEF Crash
<1>5. /\ record.stamp \in Nat /\ record'.stamp \in Nat /\ record'.stamp <= record.stamp
      /\ record'.width \in Nat
  BY <1>4 DEF StampInv, MarksInv, Backed, OlderInv, ReadInv, SizeInv
<1>6. Hidden => record'.width = record.width
  BY <1>4 DEF Misleads, Single
<1>7. Widths(record') = Widths(record) /\ Widths(record)' = Widths(record')
  BY <1>4, <1>6 DEF Widths, Hidden, Divide
<1>8. ASSUME NEW rows, Coherent(rows, record) PROVE Coherent(rows, record)'
  <2> SUFFICES ASSUME NEW w \in Widths(record) PROVE Agrees(rows, Stored, record'.stamp, w)
    BY <1>3, <1>7 DEF Coherent
  <2>1. Agrees(rows, Stored, record.stamp, w)
    BY <1>8 DEF Coherent
  <2>2. TouchedBuckets(Stored, record.stamp, w) \subseteq TouchedBuckets(Stored, record'.stamp, w)
    BY <1>5, StoredType, OlderTouchesMore
  <2> QED BY <2>1, <2>2 DEF Agrees, Outside
<1> QED BY <1>3, <1>4, <1>5, <1>6, <1>8

LEMMA CrashReads ==
    ASSUME StampInv, StampInv', ReadInv, OlderInv, Single, Crash
    PROVE  ReadInv'
<1>1. PICK n \in saved.fact..Len(fact), k \in saved.dimension..Len(dimension) :
        fact' = SubSeq(fact, 1, n) /\ dimension' = SubSeq(dimension, 1, k)
  BY DEF Crash
<1>2. pc' = "idle" /\ table' = kept /\ UNCHANGED <<shape, saved, kept>>
  BY DEF Crash
<1>3. dimension' = << >>
  <2>1. dimension = << >> /\ Len(dimension) = 0
    BY DEF ReadInv
  <2>2. k = 0
    BY <2>1 DEF StampInv, SourcesInv
  <2> QED BY <1>1, <2>1, <2>2
<1>4. /\ record' = mark' /\ record'.width \in Nat
      /\ Hidden => record'.width = record.width
      /\ Coherent(kept, record)'
  <2>1. Coherent(kept, record)
    BY DEF ReadInv
  <2>2. /\ record' = mark' /\ record'.width \in Nat
        /\ Hidden => record'.width = record.width
        /\ \A rows : Coherent(rows, record) => Coherent(rows, record)'
    BY CrashCoherent
  <2>3. PICK rows : rows = kept
    OBVIOUS
  <2> QED BY <1>2, <2>1, <2>2, <2>3 DEF Coherent
<1>5. Coherent(table, mark)'
  BY <1>2, <1>4 DEF Coherent, Widths
<1>6. SizeInv'
  BY <1>2, <1>4 DEF ReadInv, SizeInv, Unsized, Hidden
<1>7. RefreshInv'
  BY <1>2 DEF RefreshInv
<1>8. record'.stamp <= mark'.stamp
  BY <1>4 DEF StampInv, MarksInv, Backed
<1> QED BY <1>2, <1>3, <1>4, <1>5, <1>6, <1>7, <1>8 DEF ReadInv

LEMMA ConsoleReads ==
    ASSUME ReadInv, OpenSources \/ OpenRecord \/ OpenTable \/ RefreshConsole
    PROVE  ReadInv'
<1>1. UNCHANGED <<shape, fact, dimension, saved, mark, record, table, kept, pc, todo>>
  BY DEF OpenSources, OpenRecord, OpenTable, RefreshConsole, sources, view
<1> QED
  BY <1>1 DEF ReadInv, SizeInv, Unsized, Hidden, RefreshInv, Coherent, Stored, Widths, Divide

\* Short of a crash the record only moves on, and a width it has stays.
LEMMA RecordMoves ==
    ASSUME StampInv, StampInv', ReadInv, ReadInv', [Next]_vars, ~SizingFails, ~Crash
    PROVE  /\ record.stamp <= record'.stamp
           /\ Hidden => record.width \in {0, record'.width}
<1>1. /\ record.stamp \in Nat /\ record.stamp <= mark.stamp /\ mark.stamp \in Nat
      /\ record.width = mark.width
  BY DEF ReadInv, SizeInv, StampInv, MarksInv, Backed
<1>2. CASE BeginSizing
  <2>1. record' = Sized /\ mark.width = 0
    BY <1>2 DEF BeginSizing, Unsized
  <2>2. Sized.stamp = mark.stamp
    BY DEF Sized
  <2> QED BY <1>1, <2>1, <2>2
<1>3. CASE WriteRecord
  BY <1>1, <1>3 DEF WriteRecord
<1>4. CASE record' = record
  BY <1>1, <1>4
<1>5. BeginSizing \/ WriteRecord \/ record' = record
  BY DEF vars, sources, view, Next, WriteFact, WriteDimension, BeginJoined, BeginSingle,
         BeginUnsized, Starting, Replace, FlushView, SizingFails,
         ReplaceFails, AdvanceFails, OpenSources, OpenRecord, OpenTable, RefreshConsole
<1> QED BY <1>2, <1>3, <1>4, <1>5

LEMMA OlderKeeps ==
    ASSUME StampInv, StampInv', ReadInv, ReadInv', OlderInv, [Next]_vars, ~SizingFails
    PROVE  OlderInv'
<1>1. CASE Crash
  <2>1. older' = {} \/ (older' = older /\ record' = record)
    BY <1>1 DEF Crash
  <2> QED BY <2>1 DEF OlderInv
<1>2. CASE ~Crash
  <2>1. older' \subseteq older \union {record}
    BY OlderComes DEF vars, view
  <2>2. /\ record.stamp <= record'.stamp /\ record.stamp \in Nat /\ record'.stamp \in Nat
        /\ record.width \in Nat /\ \A r \in older : r.stamp \in Nat
    BY <1>2, RecordMoves DEF StampInv, MarksInv, Backed, ReadInv, SizeInv
  <2>3. ASSUME NEW r \in older' PROVE r.width \in Nat /\ r.stamp <= record'.stamp
    <3>1. r.width \in Nat /\ r.stamp \in Nat /\ r.stamp <= record.stamp
      BY <2>1, <2>2 DEF OlderInv
    <3> QED BY <2>2, <3>1
  <2> QED BY <2>3 DEF OlderInv
<1> QED BY <1>1, <1>2

SingleInv == StampInv /\ shape \in Shapes /\ (Single => ReadInv /\ OlderInv)

LEMMA SingleInvInductive == SingleInv /\ [Next]_vars => SingleInv'
<1> SUFFICES ASSUME SingleInv, [Next]_vars PROVE SingleInv'
  OBVIOUS
<1>1. StampInv'
  BY StampInvInductive DEF SingleInv
<1>2. shape' = shape
  BY DEF vars, Next, WriteFact, WriteDimension, BeginJoined, BeginSingle, BeginUnsized,
         BeginSizing, Starting, Replace, FlushView, WriteRecord, SizingFails, ReplaceFails,
         AdvanceFails, Crash, OpenSources, OpenRecord, OpenTable, RefreshConsole
<1>3. ASSUME Single' PROVE ReadInv' /\ OlderInv'
  <2>1. /\ Single /\ StampInv /\ StampInv' /\ ReadInv /\ OlderInv /\ shape \in Shapes
        /\ ~Joined /\ (Hidden => "width" \notin Faults)
    BY <1>1, <1>2, <1>3 DEF SingleInv, Single, Joined, Hidden
  <2>2. ASSUME UNCHANGED vars PROVE ReadInv'
    BY <2>1, <2>2 DEF vars, sources, view, ReadInv, SizeInv, Unsized, Hidden, RefreshInv,
                      Coherent, Stored, Widths, Divide
  <2>3. ~WriteDimension /\ ~BeginJoined /\ ~SizingFails
    BY <2>1 DEF WriteDimension, BeginJoined, SizingFails, Failing, Unsized
  <2>4. ReadInv'
    <3>1. CASE Crash
      BY <2>1, <3>1, CrashReads
    <3> QED
      BY <2>1, <2>2, <2>3, <3>1, WriteReads, SingleReads, UnsizedReads, SizingReads,
         ReplaceReads, ReplaceFailsReads, AdvanceReads, RecordReads, ConsoleReads DEF Next
  <2> QED BY <2>1, <2>3, <2>4, OlderKeeps
<1> QED BY <1>1, <1>2, <1>3 DEF SingleInv

LEMMA SingleInvHolds == Spec => []SingleInv
<1>1. Init => SingleInv
  BY StampInit, ReadInit DEF SingleInv, OlderInv, Init
<1> QED BY <1>1, SingleInvInductive, PTL DEF Spec

\* At rest the union read is the definition's answer.
LEMMA UnionAtRest ==
    ASSUME SingleInv, Single, pc = "idle", ~(Hidden /\ mark.width = 0)
    PROVE  /\ Divide(mark) \in Nat \ {0}
           /\ UnionRead(fact, dimension, mark, table) = Full(LiveRows(fact), Divide(mark))
<1>1. StampInv /\ ReadInv /\ shape \in Shapes /\ ~Joined /\ dimension = << >>
  BY DEF SingleInv, Single, ReadInv
<1>2. fact \in Seq(Event) /\ mark.stamp \in Nat /\ mark.stamp <= saved.fact
  BY <1>1 DEF StampInv, SourcesInv, MarksInv, Backed
<1>3. Divide(mark) \in Nat \ {0} /\ Widths(mark) = {Divide(mark)}
  BY <1>1, DivideType DEF ReadInv, SizeInv, Widths
<1>4. Agrees(table, Stored, mark.stamp, Divide(mark))
  BY <1>1, <1>3 DEF ReadInv, Coherent
<1>5. Agrees(table, fact, mark.stamp, Divide(mark))
  BY <1>1, <1>2, <1>4, StoredType, AgreesLonger
<1>6. UnionRead(fact, << >>, mark, table) = Full(LiveRows(fact), Divide(mark))
  BY <1>1, <1>2, <1>3, <1>5, UnionIsFull
<1> QED BY <1>1, <1>3, <1>6

(* However stale a view over one source is, after any corrections of the   *)
(* source, any failed write of a refresh and any crash, those included     *)
(* that bring an earlier, unsynced record back over later rows, its union  *)
(* read is the answer of its definition (MaterializedView::query_union,    *)
(* refresh).  A running view is promised it as long as the record of its   *)
(* width can be written and a loss of power does not take it: without it   *)
(* the view may be sized twice.                                            *)
THEOREM SingleUnionExact == Spec => [](Single => UnionReadExact)
<1>1. ASSUME SingleInv, Single, pc = "idle" PROVE Exact(fact, dimension, mark, table)
  <2>1. dimension = << >> /\ fact \in Seq(Event)
    BY <1>1 DEF SingleInv, ReadInv, StampInv, SourcesInv
  <2>2. CASE Hidden /\ mark.width = 0
    BY <2>2 DEF Exact, UnionRead
  <2>3. CASE ~(Hidden /\ mark.width = 0)
    <3>1. UnionRead(fact, dimension, mark, table) = Full(LiveRows(fact), Divide(mark))
      BY <1>1, <2>3, UnionAtRest
    <3>2. Fold(LiveRows(fact), LiveRows(dimension), OrderingKeys, Divide(mark))
            = Full(LiveRows(fact), Divide(mark))
      BY <2>1, NoRows, FoldOfAll
    <3> QED BY <3>1, <3>2 DEF Exact
  <2> QED BY <2>2, <2>3
<1>2. SingleInv => (Single => UnionReadExact)
  BY <1>1 DEF UnionReadExact
<1> QED BY <1>2, SingleInvHolds, PTL

(* A cumulative read takes each row of the source once: as a partial of a  *)
(* bucket below the one its lower bound falls into, or from the source     *)
(* from that bucket's low edge on, wherever truncation and saturation put  *)
(* the edge (MaterializedView::query_cumulative).                          *)
THEOREM SplitExact ==
    Spec => [](Single => CumulativeReadExact)
<1>1. ASSUME SingleInv, Single PROVE CumulativeReadExact
  <2> SUFFICES ASSUME Hidden, pc = "idle", mark.width > 0, NEW floor \in OrderingKeys
               PROVE  LET below == BoundaryRows(UnionRead(fact, dimension, mark, table),
                                                floor, mark.width)
                          above == {<<r, {}>> : r \in AssembledRows(fact, floor, mark.width)}
                      IN  /\ (UNION {r.rows : r \in below}) \union above
                               = {<<r, {}>> : r \in LiveRows(fact)}
                          /\ \A r \in below : r.rows \intersect above = {}
    BY DEF CumulativeReadExact
  <2> DEFINE w     == mark.width
             all   == LiveRows(fact)
             index == BucketOf(floor, w)
             below == BoundaryRows(Full(all, w), floor, w)
             above == {<<r, {}>> : r \in AssembledRows(fact, floor, w)}
  <2>1. Single /\ shape \in Shapes
    BY <1>1 DEF SingleInv
  <2>2. w \in Nat \ {0} /\ Divide(mark) = w
    BY <1>1, <2>1, DivideType DEF SingleInv, ReadInv, SizeInv
  <2>3. UnionRead(fact, dimension, mark, table) = Full(all, w)
    BY <1>1, <2>1, <2>2, UnionAtRest
  <2>4. \A r \in all : r.key \in OrderingKeys
    BY <1>1, LiveKeys DEF SingleInv, StampInv, SourcesInv
  <2>5. ASSUME NEW r \in all
        PROVE  BucketLow(index, w) <= r.key <=> index <= BucketOf(r.key, w)
    BY <2>2, <2>4, LowEdge
  <2>6. \A r \in all : BucketOf(r.key, w) \in Int
    BY <2>2, <2>4, BucketType
  <2>7. index \in Int
    BY <2>2, BucketType
  <2>8. above = {<<r, {}>> : r \in {g \in all : index <= BucketOf(g.key, w)}}
    <3>1. AssembledRows(fact, floor, w) = {g \in all : index <= BucketOf(g.key, w)}
      <4> HIDE DEF w
      <4>1. \A r \in all : r.key \in Int /\ (r.key >= BucketLow(index, w)
                              <=> index <= BucketOf(r.key, w))
        BY <2>4, <2>5 DEF OrderingKeys, MinKey
      <4> QED BY <4>1 DEF AssembledRows
    <3> QED BY <3>1
  <2>9. UNION {r.rows : r \in below}
          = {<<r, {}>> : r \in {g \in all : BucketOf(g.key, w) < index}}
    <3> HIDE DEF w, all, index
    <3>1. \A p : p \in UNION {r.rows : r \in below}
            <=> \E r \in Full(all, w) : r.bucket < index /\ p \in r.rows
      BY DEF BoundaryRows, index
    <3>2. \A b : /\ RowOf(all, b, w).bucket = b
                 /\ RowOf(all, b, w).rows =
                      {<<f, {}>> : f \in {g \in all : BucketOf(g.key, w) = b}}
      BY DEF RowOf
    <3>3. \A p : p \in UNION {r.rows : r \in below}
            <=> \E g \in all : BucketOf(g.key, w) < index /\ p = <<g, {}>>
      <4> TAKE p
      <4>1. ASSUME NEW r \in Full(all, w), r.bucket < index, p \in r.rows
            PROVE  \E g \in all : BucketOf(g.key, w) < index /\ p = <<g, {}>>
        <5>1. PICK b : r = RowOf(all, b, w)
          BY <4>1 DEF Full
        <5>2. PICK g \in all : BucketOf(g.key, w) = b /\ p = <<g, {}>>
          BY <3>2, <4>1, <5>1
        <5> QED BY <3>2, <4>1, <5>1, <5>2
      <4>2. ASSUME NEW g \in all, BucketOf(g.key, w) < index, p = <<g, {}>>
            PROVE  \E r \in Full(all, w) : r.bucket < index /\ p \in r.rows
        <5>1. RowOf(all, BucketOf(g.key, w), w) \in Full(all, w)
          BY DEF Full
        <5>2. p \in RowOf(all, BucketOf(g.key, w), w).rows
          BY <3>2, <4>2
        <5> QED BY <3>2, <4>2, <5>1, <5>2
      <4> QED BY <3>1, <4>1, <4>2
    <3> QED BY <3>3
  <2> HIDE DEF all, w, index, below, above
  <2>10. \A g \in all : BucketOf(g.key, w) < index <=> ~(index <= BucketOf(g.key, w))
    BY <2>6, <2>7
  <2>11. (UNION {r.rows : r \in below}) \union above = {<<r, {}>> : r \in all}
    <3> DEFINE settled == UNION {r.rows : r \in below}
    <3>1. settled = {<<r, {}>> : r \in {g \in all : BucketOf(g.key, w) < index}}
      BY <2>9
    <3> HIDE DEF settled
    <3>2. settled \union above = {<<r, {}>> : r \in all}
      BY <2>8, <2>10, <3>1
    <3> QED BY <3>2 DEF settled
  <2>12. ASSUME NEW r \in below PROVE r.rows \intersect above = {}
    <3>1. r.rows \subseteq UNION {q.rows : q \in below}
      OBVIOUS
    <3>2. \A g, h : <<g, {}>> = <<h, {}>> => g = h
      OBVIOUS
    <3> QED BY <2>8, <2>9, <2>10, <3>1, <3>2
  <2> QED BY <2>3, <2>11, <2>12 DEF all, w, below, above
<1> QED BY <1>1, SingleInvHolds, PTL

----------------------------------------------------------------------------
\* The read-only console of a view over one source.

\* What a read-only open of the view table would find.
FlushedInv ==
    /\ Coherent(flushed, record)
    /\ Unsized => flushed = {}
    /\ pc = "stamp" => flushed = table

\* A mark whose rows are read, not recomputed, and its rows over a history.
Holds(rows, h, m) == ~(Hidden /\ m.width = 0) => Agrees(rows, h, m.stamp, Divide(m))

(* The record the console read is one the view had, at the width it still  *)
(* has; the rows it read are as coherent with that record as a reopen's.   *)
ConsoleInv ==
    /\ DOMAIN console = DOMAIN Closed
    /\ console.mark.width \in Nat
    /\ console.at \in {"marked", "open", "fresh"} =>
          /\ console.mark.stamp <= record.stamp
          /\ Hidden => console.mark.width \in {0, record.width}
    /\ console.at \in {"open", "fresh"} => Holds(console.table, Stored, console.mark)
    /\ console.at = "fresh" =>
          /\ console.fact \in Seq(Event) /\ console.dimension = << >>
          /\ Holds(console.table, console.fact, console.mark)

ShownInv == SingleInv /\ (Single => FlushedInv /\ ConsoleInv)

\* What a handle of a source shows: the stored events, and perhaps more kills.
LEMMA ShownBegins ==
    ASSUME StampInv
    PROVE  Begins(Stored, Shown(fact, saved.fact))
<1>1. /\ fact \in Seq(Event) /\ saved.fact \in Nat /\ saved.fact <= Len(fact)
      /\ DOMAIN fact = 1..Len(fact) /\ Len(fact) \in Nat
  BY DEF StampInv, SourcesInv
<1> DEFINE shown == Shown(fact, saved.fact)
<1>2. NoEvent \in Event
  BY DEF NoEvent, Event
<1>3. \A i \in 1..Len(fact) : fact[i] \in Event
  BY <1>1
<1>4. /\ shown = [i \in 1..Len(fact) |-> shown[i]]
      /\ \A i \in 1..Len(fact) : shown[i] \in {fact[i], NoEvent}
      /\ \A i \in 1..Len(fact) : i <= saved.fact => shown[i] = fact[i]
  BY <1>1 DEF Shown
<1> HIDE DEF shown
<1>5. \A i \in 1..Len(fact) : shown[i] \in Event
  BY <1>2, <1>3, <1>4
<1>6. shown \in Seq(Event) /\ Len(shown) = Len(fact)
  <2>1. shown \in [1..Len(fact) -> Event]
    BY <1>4, <1>5
  <2> QED BY <1>1, <2>1
<1>7. Stored \in Seq(Event) /\ Len(Stored) = saved.fact
  BY StoredType
<1>8. \A i \in 1..saved.fact : Stored[i] = fact[i]
  BY <1>1 DEF Stored
<1> QED BY <1>1, <1>4, <1>6, <1>7, <1>8 DEF Begins, shown

LEMMA NothingShown == \A n : Shown(<< >>, n) = << >>
<1>1. DOMAIN << >> = {}
  OBVIOUS
<1> QED BY <1>1 DEF Shown

LEMMA HoldsLonger ==
    ASSUME NEW h, NEW g, Begins(h, g), NEW m, m.stamp \in Nat, m.stamp <= Len(h),
           NEW rows, Holds(rows, h, m)
    PROVE  Holds(rows, g, m)
BY AgreesLonger DEF Holds

LEMMA ConsoleStays ==
    ASSUME StampInv, StampInv', ConsoleInv, UNCHANGED <<shape, console>>,
           Begins(Stored, Stored'), record.stamp <= record'.stamp,
           Hidden => record.width \in {0, record'.width}
    PROVE  ConsoleInv'
<1>1. console.mark.stamp \in Nat /\ console.mark.stamp <= saved.fact
  BY DEF StampInv, MarksInv, Backed
<1>2. Len(Stored) = saved.fact
  BY StoredType
<1>3. record.stamp \in Nat /\ record'.stamp \in Nat
  BY DEF StampInv, MarksInv, Backed
<1>4. Hidden' <=> Hidden
  BY DEF Hidden
<1>5. console.at \in {"open", "fresh"} => Holds(console.table, Stored', console.mark)
  BY <1>1, <1>2, HoldsLonger DEF ConsoleInv
<1>6. console.at \in {"open", "fresh"} => Holds(console.table, Stored, console.mark)'
  BY <1>5 DEF Holds, Hidden, Divide
<1>7. console.at = "fresh" => Holds(console.table, console.fact, console.mark)'
  BY DEF Holds, Hidden, Divide, ConsoleInv
<1>8. console.at \in {"marked", "open", "fresh"} =>
          /\ console.mark.stamp <= record'.stamp
          /\ Hidden => console.mark.width \in {0, record'.width}
  BY <1>1, <1>3 DEF ConsoleInv
<1>9. /\ DOMAIN console' = DOMAIN Closed /\ console'.mark.width \in Nat
      /\ console'.at = "fresh" => console'.fact \in Seq(Event) /\ console'.dimension = << >>
  BY DEF ConsoleInv
<1>10. Closed' = Closed
  BY DEF Closed, Fresh
<1> QED BY <1>4, <1>6, <1>7, <1>8, <1>9, <1>10 DEF ConsoleInv

LEMMA FlushedKeeps ==
    ASSUME StampInv, StampInv', FlushedInv, UNCHANGED <<shape, flushed, record>>,
           Begins(Stored, Stored'), Unsized' => Unsized, pc' # "stamp"
    PROVE  FlushedInv'
<1>1. record.stamp \in Nat /\ record.stamp <= saved.fact
  BY DEF StampInv, MarksInv, Backed
<1>2. Coherent(flushed, record)'
  BY <1>1, CoherentKeeps DEF FlushedInv
<1> QED BY <1>2 DEF FlushedInv

\* The histories stored before and after a step.
LEMMA StoredGrows ==
    ASSUME StampInv, StampInv', [Next]_vars
    PROVE  Begins(Stored, Stored')
<1>1. /\ fact \in Seq(Event) /\ saved.fact \in Nat /\ saved.fact <= Len(fact)
  BY DEF StampInv, SourcesInv
<1>2. CASE WriteFact
  <2>1. PICK e : fact' = Append(fact, e) /\ saved' = saved
    BY <1>2 DEF WriteFact
  <2>2. fact' \in Seq(Event)
    BY DEF StampInv, SourcesInv
  <2>3. \A i \in 1..saved.fact : fact'[i] = fact[i]
    BY <1>1, <2>1, <2>2
  <2> QED BY <1>1, <2>1, <2>3, StoredBegins
<1>3. CASE Starting
  BY <1>1, <1>3, StoredBegins DEF Starting, SavedByRefresh, Flushed
<1>4. CASE Crash
  <2>1. PICK n \in saved.fact..Len(fact) : fact' = SubSeq(fact, 1, n) /\ saved' = saved
    BY <1>4 DEF Crash
  <2>2. \A i \in 1..saved.fact : fact'[i] = fact[i]
    BY <1>1, <2>1
  <2> QED BY <1>1, <2>1, <2>2, StoredBegins
<1>5. CASE UNCHANGED <<fact, saved>>
  BY <1>1, <1>5, StoredBegins
<1>6. Starting \/ WriteFact \/ Crash \/ UNCHANGED <<fact, saved>>
  BY DEF vars, sources, view, Next, WriteFact, WriteDimension, BeginJoined, BeginSingle,
         BeginUnsized, BeginSizing, Replace, FlushView, WriteRecord, SizingFails,
         ReplaceFails, AdvanceFails, Crash, OpenSources, OpenRecord, OpenTable, RefreshConsole
<1> QED BY <1>2, <1>3, <1>4, <1>5, <1>6

\* A mark backed by stored events.
LEMMA StampsType ==
    ASSUME StampInv
    PROVE  /\ record.stamp \in Nat /\ record.stamp <= saved.fact
           /\ mark.stamp \in Nat /\ mark.stamp <= saved.fact
           /\ console.mark.stamp \in Nat /\ console.mark.stamp <= saved.fact
BY DEF StampInv, MarksInv, Backed

LEMMA ReplaceFlushes ==
    ASSUME StampInv, StampInv', ReadInv, ReadInv', FlushedInv, shape \in Shapes,
           Replace \/ ReplaceFails
    PROVE  FlushedInv'
<1> DEFINE w     == Divide(mark)
           dirty == TouchedBuckets(fact, mark.stamp, w)
<1>1. /\ pc = "replace" /\ pc' \in {"flush", "idle"}
      /\ UNCHANGED <<shape, fact, saved, mark, record>>
  BY DEF Replace, ReplaceFails, sources
<1>2. /\ Stored = fact /\ fact \in Seq(Event) /\ ~Unsized /\ Widths(record) = {w}
      /\ todo.all = FALSE /\ Covered(todo.runs) = dirty
      /\ \A rows, m : (\A v \in Widths(m) : rows = Full(LiveRows(fact), v)) => Coherent(rows, m)
  BY <1>1, Refreshed DEF ReadInv, RefreshInv
<1>3. dirty \subseteq TouchedBuckets(fact, record.stamp, w)
  <2>1. mark.stamp \in Nat /\ record.stamp \in Nat /\ record.stamp <= mark.stamp
    BY StampsType DEF ReadInv
  <2> QED BY <1>2, <2>1, OlderTouchesMore
<1>4. Coherent(Kept(flushed), record)
  <2>1. Kept(flushed) = Outside(flushed, dirty)
    BY <1>2 DEF Kept, Outside
  <2>2. Agrees(flushed, fact, record.stamp, w)
    BY <1>2 DEF FlushedInv, Coherent
  <2>3. Agrees(Outside(flushed, dirty), fact, record.stamp, w)
    <3> HIDE DEF dirty, w
    <3> QED BY <1>3, <2>2 DEF Agrees, Outside
  <2> QED BY <1>2, <2>1, <2>3 DEF Coherent
<1>5. flushed' \in {flushed, table', kept', Kept(flushed)}
  BY DEF Replace, ReplaceFails
<1>6. Coherent(kept', record)
  BY <1>1 DEF ReadInv, Coherent, Stored, Widths, Hidden, Divide
<1>7. Coherent(table', record)
  <2>1. CASE ReplaceFails
    BY <1>6, <2>1 DEF ReplaceFails
  <2>2. CASE Replace
    <3>1. /\ table' = Full(LiveRows(fact), w) /\ pc' = "flush"
      <4>1. pc' = "flush" /\ Widths(mark)' = {w} /\ fact' = fact
        BY <1>1, <1>2, <2>2, Refreshed DEF Replace, Widths, Hidden, Divide
      <4> QED BY <4>1 DEF ReadInv, RefreshInv
    <3> QED BY <1>2, <3>1
  <2> QED BY <2>1, <2>2
<1>8. Coherent(flushed', record)
  BY <1>4, <1>5, <1>6, <1>7 DEF FlushedInv
<1>9. Coherent(flushed, record)'
  BY <1>1, <1>8 DEF Coherent, Stored, Widths, Hidden, Divide
<1>10. ~Unsized'
  BY <1>1, <1>2 DEF Unsized, Hidden
<1> QED BY <1>1, <1>9, <1>10 DEF FlushedInv

LEMMA AdvanceFlushes ==
    ASSUME StampInv, StampInv', ReadInv, ReadInv', FlushedInv, shape \in Shapes,
           FlushView \/ WriteRecord \/ AdvanceFails
    PROVE  FlushedInv'
<1>1. /\ UNCHANGED <<shape, fact, saved, table>> /\ pc # "idle"
      /\ \/ flushed' = table /\ kept' = table
         \/ flushed' = flushed /\ UNCHANGED record /\ pc' = "idle" /\ mark' = todo.mark
  <2>1. CASE FlushView
    BY <2>1 DEF FlushView, sources
  <2>2. CASE WriteRecord
    <3>1. pc = "stamp" /\ UNCHANGED <<sources, shape, table, kept, flushed>>
      BY <2>2 DEF WriteRecord
    <3>2. flushed = table /\ kept = table
      BY <3>1 DEF FlushedInv, ReadInv, RefreshInv
    <3> QED BY <3>1, <3>2 DEF sources
  <2>3. CASE AdvanceFails
    <3>1. /\ UNCHANGED <<sources, shape, table, flushed, record>> /\ pc \in {"flush", "stamp"}
          /\ pc' = "idle" /\ mark' = todo.mark
      BY <2>3 DEF AdvanceFails
    <3> QED BY <3>1 DEF sources
  <2> QED BY <2>1, <2>2, <2>3
<1>2. CASE flushed' = table /\ kept' = table
  <2>1. Coherent(kept, record)' /\ (Unsized' => kept' = {})
    BY DEF ReadInv, SizeInv
  <2>2. flushed' = kept' /\ flushed' = table'
    BY <1>1, <1>2
  <2>3. Coherent(flushed, record)'
    BY <2>1, <2>2 DEF Coherent
  <2> QED BY <2>1, <2>2, <2>3 DEF FlushedInv
<1>3. CASE flushed' = flushed /\ UNCHANGED record /\ pc' = "idle" /\ mark' = todo.mark
  <2>1. Coherent(flushed, record)'
    BY <1>1, <1>3 DEF FlushedInv, Coherent, Stored, Widths, Hidden, Divide
  <2>2. Unsized' => Unsized
    BY <1>1, <1>3, Refreshed DEF Unsized, Hidden
  <2> QED BY <1>3, <2>1, <2>2 DEF FlushedInv
<1> QED BY <1>1, <1>2, <1>3

LEMMA SizingFlushes ==
    ASSUME StampInv, StampInv', ReadInv, ReadInv', FlushedInv, BeginSizing
    PROVE  FlushedInv'
<1>1. /\ Unsized /\ kept' = kept /\ flushed' = flushed /\ pc' \in {"flush", "replace"}
  BY DEF BeginSizing, Starting, Refreshing
<1>2. kept' = {} /\ flushed' = {}
  BY <1>1 DEF FlushedInv, ReadInv, SizeInv
<1>3. Coherent(kept, record)'
  BY DEF ReadInv
<1> QED BY <1>1, <1>2, <1>3 DEF FlushedInv, Coherent

LEMMA FlushedStep ==
    ASSUME StampInv, StampInv', ReadInv, ReadInv', OlderInv, FlushedInv, Single,
           shape \in Shapes, shape' = shape, [Next]_vars, ~BeginJoined, ~SizingFails
    PROVE  FlushedInv'
<1>1. Begins(Stored, Stored')
  BY StoredGrows
<1>2. CASE BeginSingle \/ BeginUnsized
  <2>1. UNCHANGED <<flushed, record, mark>> /\ pc' \in {"flush", "replace"}
    BY <1>2 DEF BeginSingle, BeginUnsized, Starting, Refreshing
  <2> QED BY <1>1, <2>1, FlushedKeeps DEF Unsized, Hidden
<1>3. CASE WriteFact \/ WriteDimension
  <2>1. UNCHANGED <<flushed, record, mark>> /\ pc' # "stamp"
    BY <1>3 DEF WriteFact, WriteDimension, view
  <2> QED BY <1>1, <2>1, FlushedKeeps DEF Unsized, Hidden
<1>4. CASE Crash
  <2>1. flushed' = flushed /\ pc' # "stamp" /\ record.width = mark.width
    BY <1>4 DEF Crash, ReadInv, SizeInv
  <2>2. /\ record' = mark' /\ (Hidden => record'.width = record.width)
        /\ \A rows : Coherent(rows, record) => Coherent(rows, record)'
    BY <1>4, CrashCoherent
  <2>3. PICK rows : rows = flushed
    OBVIOUS
  <2>4. Coherent(flushed, record)'
    BY <2>1, <2>2, <2>3 DEF FlushedInv, Coherent
  <2> QED BY <2>1, <2>2, <2>4 DEF FlushedInv, Unsized, Hidden
<1>5. CASE UNCHANGED <<sources, view>>
  BY <1>5 DEF sources, view, FlushedInv, Coherent, Stored, Widths, Unsized, Hidden, Divide
<1>6. CASE BeginSizing
  BY <1>6, SizingFlushes
<1>7. CASE Replace \/ ReplaceFails
  BY <1>7, ReplaceFlushes
<1>8. CASE FlushView \/ WriteRecord \/ AdvanceFails
  BY <1>8, AdvanceFlushes
<1> QED
  BY <1>2, <1>3, <1>4, <1>5, <1>6, <1>7, <1>8
  DEF Next, vars, OpenSources, OpenRecord, OpenTable, RefreshConsole

\* The console's own steps.
LEMMA ConsoleOpens ==
    ASSUME StampInv, StampInv', ReadInv, FlushedInv, ConsoleInv, shape \in Shapes,
           OpenSources \/ OpenRecord \/ OpenTable \/ RefreshConsole
    PROVE  ConsoleInv'
<1>1. UNCHANGED <<shape, fact, dimension, saved, mark, record, flushed>>
  BY DEF OpenSources, OpenRecord, OpenTable, RefreshConsole, sources, view
<1>2. Hidden' = Hidden /\ Stored' = Stored /\ Closed' = Closed
  BY <1>1 DEF Hidden, Stored, Closed, Fresh
<1>3. DOMAIN console = {"at", "fact", "dimension", "mark", "table"}
  BY DEF ConsoleInv, Closed
<1>4. \A rows, h, m : Holds(rows, h, m) => Holds(rows, h, m)'
  BY <1>1 DEF Holds, Hidden, Divide
<1>5. \A at : /\ DOMAIN Sourced(at) = DOMAIN console
             /\ Sourced(at).at = at /\ Sourced(at).fact = Shown(fact, saved.fact)
             /\ Sourced(at).dimension = Shown(dimension, saved.dimension)
             /\ Sourced(at).mark = console.mark /\ Sourced(at).table = console.table
  BY <1>3 DEF Sourced
<1>6. record.width \in Nat /\ record.stamp \in Nat
  BY StampsType DEF ReadInv, SizeInv
<1>7. CASE OpenSources
  <2>1. console' = Sourced("sourced")
    BY <1>7 DEF OpenSources
  <2> QED BY <1>2, <1>3, <1>5, <2>1 DEF ConsoleInv
<1>8. CASE OpenRecord
  <2>1. console' = [console EXCEPT !.at = "marked", !.mark = record]
    BY <1>8 DEF OpenRecord
  <2>2. DOMAIN console' = DOMAIN console /\ console'.at = "marked" /\ console'.mark = record
    BY <1>3, <2>1
  <2> QED BY <1>1, <1>2, <1>6, <2>2 DEF ConsoleInv
<1>9. CASE OpenTable
  <2>1. console.at = "marked" /\ console' = [console EXCEPT !.at = "open", !.table = flushed]
    BY <1>9 DEF OpenTable
  <2>2. /\ DOMAIN console' = DOMAIN console /\ console'.at = "open"
        /\ console'.mark = console.mark /\ console'.table = flushed
    BY <1>3, <2>1
  <2>3. ASSUME ~(Hidden /\ console.mark.width = 0)
        PROVE  Agrees(flushed, Stored, console.mark.stamp, Divide(console.mark))
    <3> DEFINE w == Divide(console.mark)
    <3>1. Widths(record) = {w}
      BY <2>1, <2>3 DEF ConsoleInv, Widths, Divide
    <3>2. Agrees(flushed, Stored, record.stamp, w)
      BY <3>1 DEF FlushedInv, Coherent
    <3>3. TouchedBuckets(Stored, record.stamp, w)
            \subseteq TouchedBuckets(Stored, console.mark.stamp, w)
      BY <2>1, StampsType, StoredType, OlderTouchesMore DEF ConsoleInv
    <3> HIDE DEF w
    <3>4. Agrees(flushed, Stored, console.mark.stamp, w)
      BY <3>2, <3>3 DEF Agrees, Outside
    <3> QED BY <3>4 DEF w
  <2>4. Holds(flushed, Stored, console.mark)
    BY <2>3 DEF Holds
  <2>5. Holds(flushed, Stored, console.mark)'
    BY <1>1, <1>2, <2>2, <2>4 DEF Holds, Hidden, Divide
  <2>6. Holds(console.table, Stored, console.mark)'
    BY <1>1, <2>2, <2>5
  <2> QED BY <1>1, <1>2, <2>1, <2>2, <2>6 DEF ConsoleInv
<1>10. CASE RefreshConsole
  <2>1. console.at \in {"open", "fresh"} /\ console' = Sourced("fresh")
    BY <1>10 DEF RefreshConsole
  <2>2. /\ DOMAIN console' = DOMAIN console /\ console'.at = "fresh"
        /\ console'.fact = Shown(fact, saved.fact)
        /\ console'.dimension = Shown(dimension, saved.dimension)
        /\ console'.mark = console.mark /\ console'.table = console.table
    BY <1>5, <2>1
  <2>3. /\ Begins(Stored, Shown(fact, saved.fact)) /\ Shown(fact, saved.fact) \in Seq(Event)
    BY ShownBegins DEF Begins
  <2>4. console'.dimension = << >>
    BY <2>2, NothingShown DEF ReadInv
  <2>5. Holds(console.table, Stored, console.mark)
    BY <2>1 DEF ConsoleInv
  <2>6. Holds(console.table, Shown(fact, saved.fact), console.mark)
    BY <2>3, <2>5, StampsType, StoredType, HoldsLonger
  <2>7. Holds(console.table, Stored, console.mark)'
    BY <1>1, <1>2, <2>2, <2>5 DEF Holds, Hidden, Divide
  <2>8. Holds(console.table, console.fact, console.mark)'
    BY <1>1, <2>2, <2>6 DEF Holds, Hidden, Divide
  <2>9. /\ console'.mark.width \in Nat /\ console'.mark.stamp <= record'.stamp
        /\ Hidden' => console'.mark.width \in {0, record'.width}
    BY <1>1, <1>2, <2>1, <2>2 DEF ConsoleInv
  <2>10. DOMAIN console' = DOMAIN Closed' /\ console'.fact \in Seq(Event)
    BY <1>2, <2>2, <2>3 DEF ConsoleInv
  <2> QED BY <2>2, <2>4, <2>7, <2>8, <2>9, <2>10 DEF ConsoleInv
<1> QED BY <1>7, <1>8, <1>9, <1>10

LEMMA ShownInit == StampInv /\ Init => FlushedInv /\ ConsoleInv
<1> SUFFICES ASSUME StampInv, Init PROVE FlushedInv /\ ConsoleInv
  OBVIOUS
<1>1. Coherent(kept, record) /\ flushed = kept
  BY ReadInit DEF ReadInv, Init
<1> QED BY <1>1 DEF Init, FlushedInv, ConsoleInv, Closed, Fresh

LEMMA ShownInvInductive == ShownInv /\ [Next]_vars => ShownInv'
<1> SUFFICES ASSUME ShownInv, [Next]_vars PROVE ShownInv'
  OBVIOUS
<1>1. SingleInv'
  BY SingleInvInductive DEF ShownInv
<1>2. shape' = shape
  BY DEF vars, Next, WriteFact, WriteDimension, BeginJoined, BeginSingle, BeginUnsized,
         BeginSizing, Starting, Replace, FlushView, WriteRecord, SizingFails, ReplaceFails,
         AdvanceFails, Crash, OpenSources, OpenRecord, OpenTable, RefreshConsole
<1>3. ASSUME Single' PROVE FlushedInv' /\ ConsoleInv'
  <2>1. /\ Single /\ StampInv /\ StampInv' /\ ReadInv /\ ReadInv' /\ shape \in Shapes
        /\ OlderInv /\ FlushedInv /\ ConsoleInv
    BY <1>1, <1>2, <1>3 DEF ShownInv, SingleInv, Single, Joined, Hidden
  <2>2. ~BeginJoined /\ ~SizingFails
    BY <2>1 DEF BeginJoined, SizingFails, Failing, Unsized, Single
  <2>3. FlushedInv'
    BY <1>2, <2>1, <2>2, FlushedStep
  <2>4. CASE console' = console /\ (Crash => record' = record)
    <3>1. Begins(Stored, Stored')
      BY <2>1, StoredGrows
    <3>2. record.stamp <= record'.stamp /\ (Hidden => record.width \in {0, record'.width})
      <4>1. record.stamp \in Nat
        BY <2>1 DEF StampInv, MarksInv, Backed
      <4>2. CASE Crash
        BY <2>4, <4>1, <4>2
      <4>3. CASE ~Crash
        BY <2>1, <2>2, <4>3, RecordMoves
      <4> QED BY <4>2, <4>3
    <3> QED BY <1>2, <2>1, <2>3, <2>4, <3>1, <3>2, ConsoleStays
  <2>5. CASE OpenSources \/ OpenRecord \/ OpenTable \/ RefreshConsole
    BY <2>1, <2>3, <2>5, ConsoleOpens
  <2>6. CASE console' = Closed
    BY <2>3, <2>6 DEF ConsoleInv, Closed, Fresh
  <2>7. CASE Crash
    <3>1. PICK r : record' = r /\ console' = IF r = record THEN console ELSE Closed
      BY <2>7 DEF Crash
    <3> QED BY <2>4, <2>6, <3>1
  <2>8. CASE ~Crash
    <3>1. \/ console' = console
          \/ OpenSources \/ OpenRecord \/ OpenTable \/ RefreshConsole
      BY <2>8
      DEF vars, Next, WriteFact, WriteDimension, BeginJoined, BeginSingle, BeginUnsized,
          BeginSizing, Starting, Replace, FlushView, WriteRecord, SizingFails, ReplaceFails,
          AdvanceFails
    <3> QED BY <2>4, <2>5, <2>8, <3>1
  <2> QED BY <2>7, <2>8
<1> QED BY <1>1, <1>2, <1>3 DEF ShownInv

(* A console of another process that has refreshed its tables once answers *)
(* a view over one source exactly, from a record and a view table it read  *)
(* at different instants, whatever the writer, its crashes and its failed  *)
(* writes did in between (MaterializedView::open_read_only,                *)
(* Console::refresh), of a running view while its width's record is        *)
(* written and kept.                                                       *)
THEOREM SingleConsoleExact == Spec => [](Single => RefreshedConsoleExact)
<1>1. Init => ShownInv
  BY StampInit, ReadInit, ShownInit DEF ShownInv, SingleInv, OlderInv, Init
<1>2. ASSUME ShownInv, Single, console.at = "fresh"
      PROVE  Exact(console.fact, console.dimension, console.mark, console.table)
  <2>1. /\ console.dimension = << >> /\ console.fact \in Seq(Event)
        /\ console.mark.width \in Nat /\ shape \in Shapes /\ ~Joined
        /\ Holds(console.table, console.fact, console.mark)
    BY <1>2 DEF ShownInv, ConsoleInv, SingleInv, Single
  <2>2. CASE Hidden /\ console.mark.width = 0
    BY <2>2 DEF Exact, UnionRead
  <2>3. CASE ~(Hidden /\ console.mark.width = 0)
    <3>1. UnionRead(console.fact, << >>, console.mark, console.table)
            = Full(LiveRows(console.fact), Divide(console.mark))
      BY <2>1, <2>3, DivideType, UnionIsFull DEF Holds
    <3>2. Fold(LiveRows(console.fact), LiveRows(console.dimension), OrderingKeys,
               Divide(console.mark))
            = Full(LiveRows(console.fact), Divide(console.mark))
      BY <2>1, NoRows, FoldOfAll
    <3> QED BY <2>1, <3>1, <3>2 DEF Exact
  <2> QED BY <2>2, <2>3
<1>3. ShownInv => (Single => RefreshedConsoleExact)
  BY <1>2 DEF RefreshedConsoleExact
<1> QED BY <1>1, <1>3, ShownInvInductive, PTL DEF Spec
----------------------------------------------------------------------------
(***************************************************************************)
(* The union read of the views over two sources, for every definition,     *)
(* history and bound: theorem JoinedUnionExact.  What makes it hold is     *)
(* that the key ranges a read or a refresh folds again contain every fact  *)
(* whose match may have changed, and go on containing it while both        *)
(* sources move on (MatchStays, LiveGrows).                                *)
(***************************************************************************)

----------------------------------------------------------------------------
\* Ranges and the buckets they reach.

Ranges == SUBSET {p \in OrderingKeys \X OrderingKeys : p[1] <= p[2]}

Buckets(ranges, w) == {BucketOf(k, w) : k \in Covered(ranges)}

LEMMA KeyType ==
    /\ MinKey \in Int /\ MaxKey \in Int /\ MinKey < 0 /\ 0 < MaxKey
    /\ \A k \in OrderingKeys : k \in Int /\ MinKey <= k /\ k <= MaxKey
    /\ \A k \in Int : MinKey <= k /\ k <= MaxKey => k \in OrderingKeys
BY MaxKeyAssumption DEF OrderingKeys, MinKey

LEMMA CoveredKeys ==
    ASSUME NEW ranges \in Ranges
    PROVE  Covered(ranges) \subseteq OrderingKeys
<1>1. ASSUME NEW p \in ranges PROVE p[1]..p[2] \subseteq OrderingKeys
  <2>1. p[1] \in OrderingKeys /\ p[2] \in OrderingKeys
    BY DEF Ranges
  <2> QED BY <2>1, KeyType
<1> QED BY <1>1 DEF Covered

LEMMA BucketMonotone ==
    ASSUME NEW j \in OrderingKeys, NEW k \in OrderingKeys, NEW w \in Nat \ {0}, j <= k
    PROVE  BucketOf(j, w) <= BucketOf(k, w)
<1> DEFINE i == BucketOf(j, w)
<1>1. i \in Int /\ j \in Int /\ k \in Int /\ i <= i
  BY BucketType, KeyType
<1> HIDE DEF i
<1>2. i * w \in Int /\ i * w - (w - 1) \in Int
  BY <1>1
<1>3. IF i > 0 THEN i * w <= j ELSE i * w - (w - 1) <= j
  BY <1>1, BucketAtLeast DEF i
<1>4. IF i > 0 THEN i * w <= k ELSE i * w - (w - 1) <= k
  BY <1>1, <1>2, <1>3
<1>5. i <= BucketOf(k, w)
  BY <1>1, <1>4, BucketAtLeast
<1> QED BY <1>5 DEF i

\* No bucket between those of two keys lacks a key between them.
LEMMA BucketHit ==
    ASSUME NEW low \in OrderingKeys, NEW high \in OrderingKeys, NEW w \in Nat \ {0},
           NEW b \in BucketOf(low, w)..BucketOf(high, w), low <= high
    PROVE  \E k \in low..high : BucketOf(k, w) = b
<1>1. low \in Int /\ high \in Int /\ b \in Int /\ b * w \in Int
      /\ BucketOf(low, w) \in Int /\ BucketOf(high, w) \in Int
  BY BucketType, KeyType
<1>2. CASE b = BucketOf(low, w) \/ b = BucketOf(high, w)
  BY <1>1, <1>2
<1>3. CASE BucketOf(low, w) < b /\ b < BucketOf(high, w)
  <2>1. low <= b * w
    <3>1. BucketOf(low, w) <= b - 1 /\ b - 1 \in Int
      BY <1>1, <1>3
    <3>2. IF b - 1 < 0 THEN low <= (b - 1) * w ELSE low <= (b - 1) * w + (w - 1)
      BY <3>1, BucketAtMost
    <3>3. (b - 1) * w = b * w - w
      BY <1>1
    <3> QED BY <1>1, <3>2, <3>3
  <2>2. b * w <= high
    <3>1. b + 1 <= BucketOf(high, w) /\ b + 1 \in Int
      BY <1>1, <1>3
    <3>2. IF b + 1 > 0 THEN (b + 1) * w <= high ELSE (b + 1) * w - (w - 1) <= high
      BY <3>1, BucketAtLeast
    <3>3. (b + 1) * w = b * w + w
      BY <1>1
    <3> QED BY <1>1, <3>2, <3>3
  <2>3. b * w \in OrderingKeys
    BY <1>1, <2>1, <2>2, KeyType
  <2>4. b <= BucketOf(b * w, w)
    <3>1. IF b > 0 THEN b * w <= b * w ELSE b * w - (w - 1) <= b * w
      BY <1>1
    <3> QED BY <1>1, <2>3, <3>1, BucketAtLeast
  <2>5. BucketOf(b * w, w) <= b
    <3>1. IF b < 0 THEN b * w <= b * w ELSE b * w <= b * w + (w - 1)
      BY <1>1
    <3> QED BY <1>1, <2>3, <3>1, BucketAtMost
  <2>6. BucketOf(b * w, w) = b
    BY <1>1, <2>3, <2>4, <2>5, BucketType
  <2> QED BY <1>1, <2>1, <2>2, <2>6
<1> QED BY <1>1, <1>2, <1>3

\* Runs reach the buckets of the ranges they are made from, whole.
LEMMA RunsOfRanges ==
    ASSUME NEW ranges \in Ranges, NEW w \in Nat \ {0}
    PROVE  /\ Covered(Runs(ranges, w)) = Buckets(ranges, w)
           /\ \A k \in OrderingKeys :
                 k \in KeysOf(Runs(ranges, w), w) <=> BucketOf(k, w) \in Buckets(ranges, w)
<1> DEFINE T == Covered(ranges)
           B == Buckets(ranges, w)
<1>1. T \subseteq OrderingKeys /\ B \subseteq OrderingKeys /\ B = {BucketOf(t, w) : t \in T}
  BY CoveredKeys, BucketInRange DEF Buckets
<1>2. Runs(ranges, w) = ContiguousRuns(B)
  <2>1. CASE w = 1
    <3>1. B = T
      BY <1>1, <2>1, BucketOne
    <3> QED BY <2>1, <3>1 DEF Runs, MergedRanges
  <2>2. CASE w # 1
    <3> DEFINE pairs == {<<BucketOf(p[1], w), BucketOf(p[2], w)>> : p \in ranges}
    <3>1. ASSUME NEW p \in ranges
          PROVE  BucketOf(p[1], w)..BucketOf(p[2], w) = {BucketOf(k, w) : k \in p[1]..p[2]}
      <4>1. p[1] \in OrderingKeys /\ p[2] \in OrderingKeys /\ p[1] <= p[2]
        BY DEF Ranges
      <4>2. p[1]..p[2] \subseteq OrderingKeys
        BY <4>1, KeyType
      <4>3. ASSUME NEW k \in p[1]..p[2]
            PROVE  BucketOf(k, w) \in BucketOf(p[1], w)..BucketOf(p[2], w)
        <5>1. BucketOf(p[1], w) <= BucketOf(k, w) /\ BucketOf(k, w) <= BucketOf(p[2], w)
          BY <4>1, <4>2, BucketMonotone, KeyType
        <5> QED BY <4>1, <4>2, <5>1, BucketType
      <4> QED BY <4>1, <4>3, BucketHit
    <3>2. Covered(pairs) = UNION {BucketOf(p[1], w)..BucketOf(p[2], w) : p \in ranges}
      <4>1. \A p \in ranges : \E q \in pairs : q[1] = BucketOf(p[1], w) /\ q[2] = BucketOf(p[2], w)
        <5> TAKE p \in ranges
        <5>1. PICK q \in pairs : q = <<BucketOf(p[1], w), BucketOf(p[2], w)>>
          OBVIOUS
        <5>2. q[1] = BucketOf(p[1], w) /\ q[2] = BucketOf(p[2], w)
          BY <5>1
        <5> HIDE DEF pairs
        <5> QED BY <5>2
      <4>2. \A q \in pairs : \E p \in ranges : q[1] = BucketOf(p[1], w) /\ q[2] = BucketOf(p[2], w)
        <5> TAKE q \in pairs
        <5>1. PICK p \in ranges : q = <<BucketOf(p[1], w), BucketOf(p[2], w)>>
          OBVIOUS
        <5>2. q[1] = BucketOf(p[1], w) /\ q[2] = BucketOf(p[2], w)
          BY <5>1
        <5> QED BY <5>2
      <4> HIDE DEF pairs
      <4>3. \A x : x \in Covered(pairs)
                     <=> \E p \in ranges : x \in BucketOf(p[1], w)..BucketOf(p[2], w)
        BY <4>1, <4>2 DEF Covered
      <4> QED BY <4>3
    <3>3. T = UNION {p[1]..p[2] : p \in ranges}
      BY DEF Covered
    <3> HIDE DEF T, B
    <3>4. Covered(pairs) = B
      BY <1>1, <3>1, <3>2, <3>3
    <3> QED BY <2>2, <3>4 DEF Runs, BucketRuns, MergedRanges
  <2> QED BY <2>1, <2>2
<1>3. Covered(ContiguousRuns(B)) = B
  BY <1>1, RunsCover
<1>4. \A k \in OrderingKeys : k \in KeysOf(ContiguousRuns(B), w) <=> BucketOf(k, w) \in B
  BY <1>1, RunsKeys
<1> QED BY <1>2, <1>3, <1>4

----------------------------------------------------------------------------
\* The keys that are folded again.

\* What the interval of a reference row holds: no later row of its symbol
\* stands between the row and the key.
Reaches(d, k, dims) ==
    /\ d.key <= k
    /\ \A e \in dims : e.symbol = d.symbol /\ e.key > d.key =>
          IF shape.kind = "before" THEN k <= e.key ELSE k < e.key

LEMMA Singleton == \A x \in Int : Max({x}) = x
<1> TAKE x \in Int
<1>1. \A y \in {x} : y = x
  OBVIOUS
<1>2. \E y \in {x} : \A z \in {x} : y >= z
  OBVIOUS
<1> QED BY <1>1, <1>2 DEF Max

LEMMA IntervalHolds ==
    ASSUME NEW d, d.key \in OrderingKeys, NEW dims, \A e \in dims : e.key \in OrderingKeys
    PROVE  /\ Interval(d, dims) \in OrderingKeys \X OrderingKeys
           /\ Interval(d, dims)[1] <= Interval(d, dims)[2]
           /\ \A k \in OrderingKeys :
                 k \in Interval(d, dims)[1]..Interval(d, dims)[2] <=> Reaches(d, k, dims)
<1> DEFINE later == {e.key : e \in {c \in dims : c.symbol = d.symbol /\ c.key > d.key}}
<1>1. \A x : x \in later <=> \E e \in dims : e.symbol = d.symbol /\ e.key > d.key /\ x = e.key
  OBVIOUS
<1>2. NextKey(d, dims) = IF later = {} THEN {} ELSE {Min(later)}
  BY DEF NextKey
<1> HIDE DEF later
<1>3. CASE later = {}
  <2>1. Interval(d, dims) = <<d.key, MaxKey>>
    BY <1>2, <1>3 DEF Interval
  <2>2. \A e \in dims : ~(e.symbol = d.symbol /\ e.key > d.key)
    BY <1>1, <1>3
  <2>3. \A k \in OrderingKeys : k \in d.key..MaxKey <=> Reaches(d, k, dims)
    BY <2>2, KeyType DEF Reaches
  <2>4. MaxKey \in OrderingKeys /\ d.key <= MaxKey
    BY KeyType
  <2> QED BY <2>1, <2>3, <2>4
<1>4. CASE later # {}
  <2>1. /\ later \in SUBSET Int /\ d.key \in Int
        /\ \A x \in later : d.key < x /\ d.key <= x /\ x \in OrderingKeys
    BY <1>1, KeyType
  <2>2. PICK n \in later : \A x \in later : n <= x
    BY <1>4, <2>1, HasLeast
  <2>3. Min(later) \in later /\ \A x \in later : Min(later) <= x
    BY <2>2 DEF Min
  <2> DEFINE next == Min(later)
             high == IF shape.kind = "before" THEN next ELSE next - 1
  <2>4. next \in OrderingKeys /\ next \in Int /\ d.key < next
    BY <2>1, <2>3
  <2>5. Interval(d, dims) = <<d.key, high>>
    <3>1. NextKey(d, dims) = {next} /\ Max({next}) = next
      BY <1>2, <1>4, <2>4, Singleton
    <3> HIDE DEF next
    <3> QED BY <3>1 DEF Interval
  <2>6. high \in OrderingKeys /\ d.key <= high
    <3> HIDE DEF next
    <3> QED BY <2>1, <2>4, KeyType
  <2>7. ASSUME NEW k \in OrderingKeys PROVE k \in d.key..high <=> Reaches(d, k, dims)
    <3>1. k \in Int
      BY KeyType
    <3>2. ASSUME k \in d.key..high PROVE Reaches(d, k, dims)
      <4>1. ASSUME NEW e \in dims, e.symbol = d.symbol, e.key > d.key
            PROVE  IF shape.kind = "before" THEN k <= e.key ELSE k < e.key
        <5>1. next <= e.key /\ e.key \in Int
          BY <1>1, <2>3, <4>1, KeyType
        <5> HIDE DEF next
        <5> QED BY <2>1, <2>4, <3>1, <3>2, <5>1
      <4>2. d.key <= k
        BY <2>1, <2>6, <3>1, <3>2
      <4> QED BY <4>1, <4>2 DEF Reaches
    <3>3. ASSUME Reaches(d, k, dims) PROVE k \in d.key..high
      <4>1. PICK e \in dims : e.symbol = d.symbol /\ e.key > d.key /\ next = e.key
        BY <1>1, <2>3
      <4>2. d.key <= k /\ IF shape.kind = "before" THEN k <= next ELSE k < next
        BY <3>3, <4>1 DEF Reaches
      <4> HIDE DEF next
      <4> QED BY <2>1, <2>4, <3>1, <4>2
    <3> QED BY <3>2, <3>3
  <2> HIDE DEF high, next
  <2> QED BY <2>1, <2>5, <2>6, <2>7
<1> QED BY <1>3, <1>4

DirtyKey(k, h, g, m) ==
    \/ \E r \in Touched(h, m.stamp) : r.key = k
    \/ /\ AsOfJoin
       /\ \E r \in Touched(g, m.dimensionStamp) : r.symbol # Null /\ Reaches(r, k, LiveRows(g))
    \/ shape.kind = "star" /\ Touched(g, m.dimensionStamp) # {}

LEMMA DirtyIs ==
    ASSUME NEW h \in Seq(Event), NEW g \in Seq(Event), NEW m
    PROVE  /\ Dirty(h, g, m) \in Ranges
           /\ \A k \in OrderingKeys : k \in Covered(Dirty(h, g, m)) <=> DirtyKey(k, h, g, m)
<1> DEFINE facts == Touched(h, m.stamp)
           reference == Touched(g, m.dimensionStamp)
           keys == {<<r.key, r.key>> : r \in facts}
           spans == {Interval(r, LiveRows(g)) : r \in {q \in reference : q.symbol # Null}}
<1>1. /\ \A r \in facts : r.key \in OrderingKeys
      /\ \A r \in reference : r.key \in OrderingKeys
      /\ \A e \in LiveRows(g) : e.key \in OrderingKeys
  BY LiveKeys
<1>2. keys \in Ranges /\ \A k \in OrderingKeys : k \in Covered(keys) <=> \E r \in facts : r.key = k
  <2>1. keys = {<<x, x>> : x \in {r.key : r \in facts}}
    OBVIOUS
  <2>2. Covered(keys) = {r.key : r \in facts}
    <3> DEFINE T == {r.key : r \in facts}
    <3>1. T \in SUBSET OrderingKeys
      BY <1>1
    <3> HIDE DEF T
    <3>2. Covered({<<x, x>> : x \in T}) = T
      BY <3>1, PointsCovered
    <3>3. keys = {<<x, x>> : x \in T}
      BY <2>1 DEF T
    <3> HIDE DEF keys
    <3> QED BY <3>2, <3>3 DEF T
  <2>3. keys \in Ranges
    <3>1. ASSUME NEW p \in keys PROVE p \in OrderingKeys \X OrderingKeys /\ p[1] <= p[2]
      <4>1. PICK r \in facts : p = <<r.key, r.key>>
        OBVIOUS
      <4>2. p[1] = r.key /\ p[2] = r.key /\ r.key \in OrderingKeys /\ r.key <= r.key
        BY <1>1, <4>1, KeyType
      <4> QED BY <4>1, <4>2
    <3> QED BY <3>1 DEF Ranges
  <2> QED BY <2>2, <2>3
<1>3. spans \in Ranges /\ \A k \in OrderingKeys :
         k \in Covered(spans)
            <=> \E r \in reference : r.symbol # Null /\ Reaches(r, k, LiveRows(g))
  <2>1. ASSUME NEW r \in reference
        PROVE  /\ Interval(r, LiveRows(g)) \in OrderingKeys \X OrderingKeys
               /\ Interval(r, LiveRows(g))[1] <= Interval(r, LiveRows(g))[2]
               /\ \A k \in OrderingKeys :
                     k \in Interval(r, LiveRows(g))[1]..Interval(r, LiveRows(g))[2]
                        <=> Reaches(r, k, LiveRows(g))
    <3> HIDE DEF reference
    <3> QED BY <1>1, IntervalHolds
  <2> HIDE DEF reference
  <2>2. spans \in Ranges
    BY <2>1 DEF Ranges
  <2>3. \A k : k \in Covered(spans)
           <=> \E r \in reference :
                 /\ r.symbol # Null
                 /\ k \in Interval(r, LiveRows(g))[1]..Interval(r, LiveRows(g))[2]
    BY DEF Covered
  <2> QED BY <2>1, <2>2, <2>3
<1>4. \A S, T, k : k \in Covered(S \union T) <=> k \in Covered(S) \/ k \in Covered(T)
  BY DEF Covered
<1>5. Everything \in Ranges /\ \A k \in OrderingKeys : k \in Covered(Everything)
  <2>1. MinKey \in OrderingKeys /\ MaxKey \in OrderingKeys /\ MinKey <= MaxKey
    BY KeyType
  <2>2. \A p \in Everything : p = <<MinKey, MaxKey>> /\ p[1] = MinKey /\ p[2] = MaxKey
    BY DEF Everything
  <2>3. Everything \in Ranges
    BY <2>1, <2>2 DEF Ranges
  <2>4. <<MinKey, MaxKey>> \in Everything
    BY DEF Everything
  <2>5. \A k \in OrderingKeys : k \in MinKey..MaxKey
    BY KeyType
  <2>6. \A k \in OrderingKeys : k \in Covered(Everything)
    BY <2>2, <2>4, <2>5 DEF Covered
  <2> QED BY <2>3, <2>6
<1>6. Dirty(h, g, m) = IF AsOfJoin THEN keys \union spans
                       ELSE IF shape.kind = "star" /\ reference # {} THEN Everything ELSE keys
  BY DEF Dirty, AsOfJoin
<1> HIDE DEF keys, spans
<1>7. CASE AsOfJoin
  <2>1. shape.kind # "star"
    BY <1>7 DEF AsOfJoin
  <2>2. keys \union spans \in Ranges
    BY <1>2, <1>3 DEF Ranges
  <2> QED BY <1>2, <1>3, <1>4, <1>6, <1>7, <2>1, <2>2 DEF DirtyKey
<1>8. CASE ~AsOfJoin /\ shape.kind = "star" /\ reference # {}
  BY <1>5, <1>6, <1>8 DEF DirtyKey
<1>9. CASE ~AsOfJoin /\ ~(shape.kind = "star" /\ reference # {})
  BY <1>2, <1>6, <1>9 DEF DirtyKey
<1> QED BY <1>7, <1>8, <1>9

LEMMA LiveIs ==
    ASSUME Joined, NEW h \in Seq(Event), NEW g \in Seq(Event), NEW m, m.ceiling \in OrderingKeys
    PROVE  /\ LiveRanges(h, g, m) \in Ranges
           /\ \A k \in OrderingKeys :
                 k \in Covered(LiveRanges(h, g, m)) <=> k >= m.ceiling \/ DirtyKey(k, h, g, m)
<1> DEFINE tail == {<<m.ceiling, MaxKey>>}
<1>1. \A p \in tail : p = <<m.ceiling, MaxKey>> /\ p[1] = m.ceiling /\ p[2] = MaxKey
  OBVIOUS
<1>2. <<m.ceiling, MaxKey>> \in tail
  OBVIOUS
<1>3. LiveRanges(h, g, m) = Dirty(h, g, m) \union tail
  BY DEF LiveRanges
<1> HIDE DEF tail
<1>4. tail \in Ranges
  <2>1. MaxKey \in OrderingKeys /\ m.ceiling <= MaxKey
    BY KeyType
  <2> QED BY <1>1, <2>1 DEF Ranges
<1>5. \A k \in OrderingKeys : k \in Covered(tail) <=> k >= m.ceiling
  <2>1. \A k : k \in Covered(tail) <=> k \in m.ceiling..MaxKey
    BY <1>1, <1>2 DEF Covered
  <2> QED BY <2>1, KeyType
<1>6. \A S, T, k : k \in Covered(S \union T) <=> k \in Covered(S) \/ k \in Covered(T)
  BY DEF Covered
<1>7. Dirty(h, g, m) \union tail \in Ranges
  BY <1>4, DirtyIs DEF Ranges
<1> QED BY <1>3, <1>5, <1>6, <1>7, DirtyIs

----------------------------------------------------------------------------
\* Matches over a longer history.

\* A reference row the two histories do not share was touched since.
LEMMA DifferentReference ==
    ASSUME NEW g, NEW g2, Begins(g, g2), NEW since \in Nat, since <= Len(g),
           NEW d, d \in LiveRows(g) <=> d \notin LiveRows(g2)
    PROVE  /\ d.key \in OrderingKeys
           /\ \E r \in Touched(g2, since) : r.key = d.key /\ r.symbol = d.symbol
<1>1. g \in Seq(Event) /\ g2 \in Seq(Event)
  BY DEF Begins
<1>2. d.key \in OrderingKeys
  <2>1. d \in LiveRows(g) \/ d \in LiveRows(g2)
    OBVIOUS
  <2> QED BY <1>1, <2>1, LiveKeys
<1> QED BY <1>2, TouchedWhereDifferent

\* The last key among some rows.
LEMMA LastRow ==
    ASSUME NEW C, C # {}, \A d \in C : d.key \in OrderingKeys
    PROVE  \E d \in C : \A e \in C : e.key <= d.key
<1> DEFINE K == {d.key : d \in C}
<1>1. K \in SUBSET Int /\ K # {} /\ \A x \in K : x <= MaxKey
  BY KeyType
<1>2. PICK n \in K : \A x \in K : x <= n
  <2> HIDE DEF K
  <2> QED BY <1>1, KeyType, HasGreatest
<1> QED BY <1>2

(* The match of a fact no interval reaches is what it was: a candidate that *)
(* came or went lies before one that stands.                                *)
LEMMA MatchStays ==
    ASSUME Joined, NEW g, NEW g2, Begins(g, g2), NEW since \in Nat, since <= Len(g),
           NEW f, f.key \in OrderingKeys,
           shape.kind = "star" => Touched(g2, since) = {},
           AsOfJoin => \A r \in Touched(g2, since) :
                          r.symbol # Null => ~Reaches(r, f.key, LiveRows(g2))
    PROVE  MatchOf(f, LiveRows(g)) = MatchOf(f, LiveRows(g2))
<1> DEFINE C  == Candidates(f, LiveRows(g))
           C2 == Candidates(f, LiveRows(g2))
<1>1. g \in Seq(Event) /\ g2 \in Seq(Event)
  BY DEF Begins
<1>2. CASE shape.kind = "star"
  <2>1. LiveRows(g) = LiveRows(g2)
    <3>1. ASSUME NEW d, d \in LiveRows(g) <=> d \notin LiveRows(g2) PROVE FALSE
      BY <1>2, <3>1, DifferentReference
    <3> QED BY <3>1
  <2> QED BY <2>1
<1>3. CASE AsOfJoin
  <2>1. /\ \A d \in C : d.key \in OrderingKeys /\ d.key \in Int
        /\ \A d \in C2 : d.key \in OrderingKeys /\ d.key \in Int
    <3>1. /\ \A d \in LiveRows(g) : d.key \in OrderingKeys
          /\ \A d \in LiveRows(g2) : d.key \in OrderingKeys
      BY <1>1, LiveKeys
    <3> QED BY <3>1, KeyType DEF Candidates
  <2>2. ASSUME NEW d, d \in C <=> d \notin C2
        PROVE  \E e \in C2 : d.key < e.key
    <3>1. d \in LiveRows(g) <=> d \notin LiveRows(g2)
      BY <2>2 DEF Candidates
    <3>2. /\ d.symbol = f.symbol /\ d.symbol # Null
          /\ \/ shape.kind = "asof" /\ d.key <= f.key
             \/ shape.kind = "before" /\ d.key < f.key
      BY <1>3, <2>2 DEF Candidates, AsOfJoin
    <3>3. PICK r \in Touched(g2, since) : r.key = d.key /\ r.symbol = d.symbol
      BY <3>1, DifferentReference
    <3>4. d.key \in Int /\ f.key \in Int
      BY <3>1, DifferentReference, KeyType
    <3>5. ~Reaches(r, f.key, LiveRows(g2)) /\ r.key <= f.key
      BY <1>3, <3>2, <3>3, <3>4
    <3>6. PICK e \in LiveRows(g2) :
             /\ e.symbol = r.symbol /\ e.key > r.key
             /\ ~(IF shape.kind = "before" THEN f.key <= e.key ELSE f.key < e.key)
      BY <3>5 DEF Reaches
    <3>7. e.key \in Int
      BY <1>1, LiveKeys, KeyType
    <3>8. e \in C2
      BY <1>3, <3>2, <3>3, <3>4, <3>6, <3>7 DEF Candidates, AsOfJoin
    <3> QED BY <3>3, <3>4, <3>6, <3>7, <3>8
  <2>3. C2 # {} => \E d \in C2 : \A e \in C2 : e.key <= d.key
    <3> HIDE DEF C2
    <3> QED BY <2>1, LastRow
  \* The last candidates are shared.
  <2>4. ASSUME NEW e \in C2, e \notin C
        PROVE  \E d \in C : d \in C2 /\ e.key < d.key
    <3>1. PICK d \in C2 : \A c \in C2 : c.key <= d.key
      BY <2>3
    <3> HIDE DEF C, C2
    <3>2. d \in C
      <4>1. ASSUME d \notin C PROVE FALSE
        <5>1. PICK c \in C2 : d.key < c.key
          BY <2>2, <4>1
        <5> QED BY <2>1, <3>1, <5>1
      <4> QED BY <4>1
    <3>3. PICK c \in C2 : e.key < c.key
      BY <2>2, <2>4
    <3> QED BY <2>1, <3>1, <3>2, <3>3
  <2>5. ASSUME NEW e \in C, e \notin C2
        PROVE  \E d \in C2 : e.key < d.key
    BY <2>2, <2>5
  <2> DEFINE last(S, d) == \A e \in S : e.key < d.key \/ (e.key = d.key /\ e.at <= d.at)
  <2>6. ASSUME NEW d \in C2, last(C2, d) PROVE d \in C /\ last(C, d)
    <3>1. d \in C
      <4>1. ASSUME d \notin C PROVE FALSE
        <5>1. PICK e \in C : e \in C2 /\ d.key < e.key
          BY <2>4, <4>1
        <5> HIDE DEF C, C2
        <5> QED BY <2>1, <2>6, <5>1
      <4> QED BY <4>1
    <3>2. ASSUME NEW e \in C PROVE e.key < d.key \/ (e.key = d.key /\ e.at <= d.at)
      <4>1. CASE e \in C2
        BY <2>6, <4>1
      <4>2. CASE e \notin C2
        <5>1. PICK c \in C2 : e.key < c.key
          BY <2>5, <4>2
        <5> HIDE DEF C, C2
        <5> QED BY <2>1, <2>6, <5>1
      <4> QED BY <4>1, <4>2
    <3> QED BY <3>1, <3>2
  <2>7. ASSUME NEW d \in C, last(C, d) PROVE d \in C2 /\ last(C2, d)
    <3>1. d \in C2
      <4>1. ASSUME d \notin C2 PROVE FALSE
        <5>1. PICK e \in C2 : d.key < e.key
          BY <2>5, <4>1
        <5>2. e \in C => FALSE
          <6> HIDE DEF C, C2
          <6> QED BY <2>1, <2>7, <5>1
        <5>3. PICK c \in C : e.key < c.key
          BY <2>4, <5>2
        <5> HIDE DEF C, C2
        <5> QED BY <2>1, <2>7, <5>1, <5>3
      <4> QED BY <4>1
    <3>2. ASSUME NEW e \in C2 PROVE e.key < d.key \/ (e.key = d.key /\ e.at <= d.at)
      <4>1. CASE e \in C
        BY <2>7, <4>1
      <4>2. CASE e \notin C
        <5>1. PICK c \in C : e.key < c.key
          BY <2>4, <4>2
        <5> HIDE DEF C, C2
        <5> QED BY <2>1, <2>7, <5>1
      <4> QED BY <4>1, <4>2
    <3> QED BY <3>1, <3>2
  <2>8. /\ MatchOf(f, LiveRows(g)) = {d \in C : last(C, d)}
        /\ MatchOf(f, LiveRows(g2)) = {d \in C2 : last(C2, d)}
    BY DEF MatchOf
  <2> HIDE DEF C, C2, last
  <2> QED BY <2>6, <2>7, <2>8
<1> QED BY <1>2, <1>3 DEF Joined, AsOfJoin

----------------------------------------------------------------------------
\* Folds with matches, bucket by bucket.

MatchedRow(facts, dims, b, w) ==
    [bucket |-> b,
     rows |-> {<<f, MatchOf(f, dims)>> : f \in {g \in facts : BucketOf(g.key, w) = b}}]

\* The definition's answer.
Answer(h, g) ==
    {MatchedRow(LiveRows(h), LiveRows(g), b, shape.divide) :
        b \in {BucketOf(f.key, shape.divide) : f \in LiveRows(h)}}

LEMMA FoldOfParts ==
    ASSUME NEW h \in Seq(Event), NEW g, NEW keys, NEW buckets,
           \A k \in OrderingKeys : k \in keys <=> BucketOf(k, shape.divide) \in buckets
    PROVE  Fold(LiveRows(h), LiveRows(g), keys, shape.divide) = Of(Answer(h, g), buckets)
<1> DEFINE facts  == LiveRows(h)
           w      == shape.divide
           chosen == {f \in facts : f.key \in keys}
           folded == {BucketOf(f.key, w) : f \in chosen}
<1>0. \A f \in facts : f.key \in keys <=> BucketOf(f.key, w) \in buckets
  BY LiveKeys
<1>1. \A b : b \in folded <=> b \in buckets /\ \E f \in facts : BucketOf(f.key, w) = b
  <2> HIDE DEF facts, w
  <2> QED BY <1>0
<1>2. ASSUME NEW b \in buckets
      PROVE  {f \in chosen : BucketOf(f.key, w) = b} = {f \in facts : BucketOf(f.key, w) = b}
  <2> HIDE DEF facts, w
  <2> QED BY <1>0
<1> HIDE DEF facts, w
<1>3. \A b \in buckets :
        [bucket |-> b,
         rows |-> {<<f, MatchOf(f, LiveRows(g))>> : f \in {e \in chosen : BucketOf(e.key, w) = b}}]
          = MatchedRow(facts, LiveRows(g), b, w)
  BY <1>2 DEF MatchedRow
<1>4. Fold(facts, LiveRows(g), keys, w) =
        {[bucket |-> b,
          rows |-> {<<f, MatchOf(f, LiveRows(g))>> :
                      f \in {e \in chosen : BucketOf(e.key, w) = b}}] : b \in folded}
  BY DEF Fold
<1>5. Fold(facts, LiveRows(g), keys, w) = {MatchedRow(facts, LiveRows(g), b, w) : b \in folded}
  <2> HIDE DEF folded, chosen
  <2> QED BY <1>1, <1>3, <1>4
<1>6. \A b : MatchedRow(facts, LiveRows(g), b, w).bucket = b
  BY DEF MatchedRow
<1>7. Answer(h, g)
        = {MatchedRow(facts, LiveRows(g), b, w) : b \in {BucketOf(f.key, w) : f \in facts}}
  BY DEF Answer, facts, w
<1> HIDE DEF folded
<1> QED BY <1>1, <1>5, <1>6, <1>7 DEF Of, facts, w

\* The buckets there are.
AllBuckets == {BucketOf(k, shape.divide) : k \in OrderingKeys}

LEMMA AnswerBuckets ==
    ASSUME NEW h \in Seq(Event), NEW g
    PROVE  /\ \A r \in Answer(h, g) : r.bucket \in AllBuckets
           /\ Fold(LiveRows(h), LiveRows(g), OrderingKeys, shape.divide) = Answer(h, g)
<1>1. ASSUME NEW r \in Answer(h, g) PROVE r.bucket \in AllBuckets
  BY LiveKeys DEF Answer, MatchedRow, AllBuckets
<1>2. \A k \in OrderingKeys : k \in OrderingKeys <=> BucketOf(k, shape.divide) \in AllBuckets
  BY DEF AllBuckets
<1>3. Fold(LiveRows(h), LiveRows(g), OrderingKeys, shape.divide) = Of(Answer(h, g), AllBuckets)
  <2> DEFINE all == AllBuckets
             keys == OrderingKeys
  <2> HIDE DEF all, keys
  <2>1. \A k \in OrderingKeys : k \in keys <=> BucketOf(k, shape.divide) \in all
    BY <1>2 DEF all, keys
  <2>2. Fold(LiveRows(h), LiveRows(g), keys, shape.divide) = Of(Answer(h, g), all)
    BY <2>1, FoldOfParts
  <2> QED BY <2>2 DEF all, keys
<1>4. Of(Answer(h, g), AllBuckets) = Answer(h, g)
  BY <1>1 DEF Of
<1> QED BY <1>1, <1>3, <1>4

----------------------------------------------------------------------------
\* What stays true of stored rows.

LiveBuckets(h, g, m) == Buckets(LiveRanges(h, g, m), shape.divide)

\* Rows are the definition's answer over h and g, but for what is folded live.
Current(rows, h, g, m) ==
    Outside(rows, LiveBuckets(h, g, m)) = Outside(Answer(h, g), LiveBuckets(h, g, m))

(* The keys a longer history folds again include those the shorter did: a  *)
(* row that cuts an interval short begins one of its own.                  *)
LEMMA LiveGrows ==
    ASSUME Joined, NEW h, NEW h2, Begins(h, h2), NEW g, NEW g2, Begins(g, g2),
           NEW m, m.ceiling \in OrderingKeys, m.dimensionStamp \in Nat, m.dimensionStamp <= Len(g)
    PROVE  LiveBuckets(h, g, m) \subseteq LiveBuckets(h2, g2, m)
<1>1. /\ h \in Seq(Event) /\ h2 \in Seq(Event) /\ g \in Seq(Event) /\ g2 \in Seq(Event)
  BY DEF Begins
<1> DEFINE since == m.dimensionStamp
<1>2. /\ Touched(h, m.stamp) \subseteq Touched(h2, m.stamp)
      /\ Touched(g, since) \subseteq Touched(g2, since)
  BY TouchedGrows
<1>3. ASSUME NEW k \in OrderingKeys, AsOfJoin, NEW r \in Touched(g, since), r.symbol # Null,
             Reaches(r, k, LiveRows(g))
      PROVE  \E q \in Touched(g2, since) : q.symbol # Null /\ Reaches(q, k, LiveRows(g2))
  <2> DEFINE E == {e \in LiveRows(g2) :
                     /\ e.symbol = r.symbol /\ e.key > r.key
                     /\ ~(IF shape.kind = "before" THEN k <= e.key ELSE k < e.key)}
  <2>1. /\ \A e \in LiveRows(g2) : e.key \in OrderingKeys /\ e.key \in Int
        /\ k \in Int /\ r.key \in Int
    BY <1>1, LiveKeys, KeyType
  <2>2. CASE E = {}
    <3>1. Reaches(r, k, LiveRows(g2))
      BY <1>3, <2>2 DEF Reaches
    <3> QED BY <1>2, <1>3, <3>1
  <2>3. CASE E # {}
    <3>1. \A d \in E : d.key \in OrderingKeys
      BY <2>1
    <3>2. PICK d \in E : \A e \in E : e.key <= d.key
      <4> HIDE DEF E
      <4> QED BY <2>3, <3>1, LastRow
    <3>3. d \notin LiveRows(g)
      BY <1>3 DEF Reaches
    <3>4. PICK q \in Touched(g2, since) : q.key = d.key /\ q.symbol = d.symbol
      BY <3>3, DifferentReference
    <3>5. ASSUME NEW e \in LiveRows(g2), e.symbol = q.symbol, e.key > q.key
          PROVE  IF shape.kind = "before" THEN k <= e.key ELSE k < e.key
      <4>1. e \notin E
        <5>1. d.key \in Int /\ e.key \in Int
          BY <2>1
        <5> HIDE DEF E
        <5> QED BY <3>2, <3>4, <3>5, <5>1
      <4>2. e.symbol = r.symbol /\ e.key > r.key
        <5>1. d.key \in Int /\ e.key \in Int
          BY <2>1
        <5> QED BY <2>1, <3>4, <3>5, <5>1
      <4> QED BY <4>1, <4>2
    <3>6. q.key <= k /\ q.symbol # Null
      BY <1>3, <2>1, <3>4
    <3>7. Reaches(q, k, LiveRows(g2))
      BY <3>5, <3>6 DEF Reaches
    <3> QED BY <3>6, <3>7
  <2> QED BY <2>2, <2>3
<1>4. ASSUME NEW k \in OrderingKeys, DirtyKey(k, h, g, m) PROVE DirtyKey(k, h2, g2, m)
  BY <1>2, <1>3, <1>4 DEF DirtyKey
<1>5. Covered(LiveRanges(h, g, m)) \subseteq Covered(LiveRanges(h2, g2, m))
  <2>1. Covered(LiveRanges(h, g, m)) \subseteq OrderingKeys
    BY <1>1, LiveIs, CoveredKeys
  <2> QED BY <1>1, <1>4, <2>1, LiveIs
<1> QED BY <1>5 DEF LiveBuckets, Buckets

LEMMA CurrentLonger ==
    ASSUME Joined, NEW h, NEW h2, Begins(h, h2), NEW g, NEW g2, Begins(g, g2),
           NEW m, m.ceiling \in OrderingKeys, m.stamp \in Nat, m.stamp <= Len(h),
           m.dimensionStamp \in Nat, m.dimensionStamp <= Len(g),
           NEW rows, Current(rows, h, g, m)
    PROVE  Current(rows, h2, g2, m)
<1> DEFINE w     == shape.divide
           after == LiveBuckets(h2, g2, m)
<1>0. h \in Seq(Event) /\ h2 \in Seq(Event) /\ g \in Seq(Event) /\ g2 \in Seq(Event)
  BY DEF Begins
<1>1. LiveBuckets(h, g, m) \subseteq after
  BY LiveGrows
<1>2. ASSUME NEW f, f.key \in OrderingKeys, BucketOf(f.key, w) \notin after
      PROVE  /\ f \in LiveRows(h) <=> f \in LiveRows(h2)
             /\ MatchOf(f, LiveRows(g)) = MatchOf(f, LiveRows(g2))
  <2>1. ~DirtyKey(f.key, h2, g2, m)
    <3>1. f.key \notin Covered(LiveRanges(h2, g2, m))
      BY <1>2 DEF LiveBuckets, Buckets
    <3> QED BY <1>0, <1>2, <3>1, LiveIs
  <2>2. f \in LiveRows(h) <=> f \in LiveRows(h2)
    <3>1. ASSUME f \in LiveRows(h) <=> f \notin LiveRows(h2) PROVE FALSE
      <4>1. PICK r \in Touched(h2, m.stamp) : r.key = f.key
        BY <3>1, TouchedWhereDifferent
      <4> QED BY <2>1, <4>1 DEF DirtyKey
    <3> QED BY <3>1
  <2>3. MatchOf(f, LiveRows(g)) = MatchOf(f, LiveRows(g2))
    <3>1. shape.kind = "star" => Touched(g2, m.dimensionStamp) = {}
      BY <2>1 DEF DirtyKey
    <3>2. AsOfJoin => \A r \in Touched(g2, m.dimensionStamp) :
                         r.symbol # Null => ~Reaches(r, f.key, LiveRows(g2))
      BY <2>1 DEF DirtyKey
    <3> QED BY <1>2, <3>1, <3>2, MatchStays
  <2> QED BY <2>2, <2>3
<1>3. \A f \in LiveRows(h) \union LiveRows(h2) : f.key \in OrderingKeys
  BY <1>0, LiveKeys
<1> HIDE DEF w, after
<1>4. ASSUME NEW b, b \notin after
      PROVE  /\ MatchedRow(LiveRows(h), LiveRows(g), b, w)
                  = MatchedRow(LiveRows(h2), LiveRows(g2), b, w)
             /\ (\E f \in LiveRows(h) : BucketOf(f.key, w) = b)
                  <=> (\E f \in LiveRows(h2) : BucketOf(f.key, w) = b)
  <2> DEFINE F  == {f \in LiveRows(h) : BucketOf(f.key, w) = b}
             F2 == {f \in LiveRows(h2) : BucketOf(f.key, w) = b}
  <2>1. F = F2
    <3>1. ASSUME NEW f PROVE f \in F <=> f \in F2
      BY <1>2, <1>3, <1>4
    <3> QED BY <3>1
  <2>2. \A f \in F : MatchOf(f, LiveRows(g)) = MatchOf(f, LiveRows(g2))
    BY <1>2, <1>3, <1>4
  <2>3. {<<f, MatchOf(f, LiveRows(g))>> : f \in F} = {<<f, MatchOf(f, LiveRows(g2))>> : f \in F2}
    <3> HIDE DEF F, F2
    <3> QED BY <2>1, <2>2
  <2>4. MatchedRow(LiveRows(h), LiveRows(g), b, w) = MatchedRow(LiveRows(h2), LiveRows(g2), b, w)
    BY <2>3 DEF MatchedRow
  <2>5. /\ (\E f \in LiveRows(h) : BucketOf(f.key, w) = b) <=> F # {}
        /\ (\E f \in LiveRows(h2) : BucketOf(f.key, w) = b) <=> F2 # {}
    OBVIOUS
  <2> HIDE DEF F, F2
  <2> QED BY <2>1, <2>4, <2>5
<1>5. \A facts, dims, b : MatchedRow(facts, dims, b, w).bucket = b
  BY DEF MatchedRow
<1>6. Outside(Answer(h, g), after) = Outside(Answer(h2, g2), after)
  <2>1. /\ Answer(h, g) = {MatchedRow(LiveRows(h), LiveRows(g), b, w) :
                             b \in {BucketOf(f.key, w) : f \in LiveRows(h)}}
        /\ Answer(h2, g2) = {MatchedRow(LiveRows(h2), LiveRows(g2), b, w) :
                               b \in {BucketOf(f.key, w) : f \in LiveRows(h2)}}
    BY DEF Answer, w
  <2> QED BY <1>4, <1>5, <2>1 DEF Outside
<1>7. Outside(rows, after) = Outside(Answer(h, g), after)
  BY <1>1 DEF Current, Outside
<1> QED BY <1>6, <1>7 DEF Current, after

\* An older mark folds again all that a newer one does.
LEMMA OlderIsCurrent ==
    ASSUME Joined, NEW h \in Seq(Event), NEW g \in Seq(Event), NEW m, NEW r,
           m.ceiling \in OrderingKeys, r.ceiling \in OrderingKeys, r.ceiling <= m.ceiling,
           m.stamp \in Nat, r.stamp \in Nat, r.stamp <= m.stamp,
           m.dimensionStamp \in Nat, r.dimensionStamp \in Nat,
           r.dimensionStamp <= m.dimensionStamp
    PROVE  \A rows : Current(rows, h, g, m) => Current(rows, h, g, r)
<1>1. \A i \in Seq(Event), n, k \in Nat : k <= n => Touched(i, n) \subseteq Touched(i, k)
  BY DEF Touched, Rows
<1>2. /\ Touched(h, m.stamp) \subseteq Touched(h, r.stamp)
      /\ Touched(g, m.dimensionStamp) \subseteq Touched(g, r.dimensionStamp)
  BY <1>1
<1>3. ASSUME NEW k \in OrderingKeys, DirtyKey(k, h, g, m) PROVE DirtyKey(k, h, g, r)
  BY <1>2, <1>3 DEF DirtyKey
<1>4. Covered(LiveRanges(h, g, m)) \subseteq Covered(LiveRanges(h, g, r))
  <2>1. Covered(LiveRanges(h, g, m)) \subseteq OrderingKeys
    BY LiveIs, CoveredKeys
  <2>2. \A k \in OrderingKeys : k >= m.ceiling => k >= r.ceiling
    BY KeyType
  <2> QED BY <1>3, <2>1, <2>2, LiveIs
<1>5. LiveBuckets(h, g, m) \subseteq LiveBuckets(h, g, r)
  BY <1>4 DEF LiveBuckets, Buckets
<1> QED BY <1>5 DEF Current, Outside

----------------------------------------------------------------------------
\* The union read and the refresh, by buckets.

LEMMA JoinDivide ==
    ASSUME Joined, shape \in Shapes
    PROVE  /\ shape.divide \in Nat \ {0} /\ ~Hidden
           /\ \A m : Divide(m) = shape.divide
BY ShapesAssumption DEF Joined, Hidden, Divide

\* What a plan folds and takes out, by buckets.
LEMMA PlannedRuns ==
    ASSUME Joined, shape \in Shapes, NEW h \in Seq(Event), NEW g, NEW ranges \in Ranges
    PROVE  /\ Covered(Runs(ranges, shape.divide)) = Buckets(ranges, shape.divide)
           /\ Fold(LiveRows(h), LiveRows(g), KeysOf(Runs(ranges, shape.divide), shape.divide),
                   shape.divide)
                = Of(Answer(h, g), Buckets(ranges, shape.divide))
<1> DEFINE keys == KeysOf(Runs(ranges, shape.divide), shape.divide)
           all  == Buckets(ranges, shape.divide)
<1>1. Covered(Runs(ranges, shape.divide)) = all
  BY JoinDivide, RunsOfRanges
<1>2. \A k \in OrderingKeys : k \in keys <=> BucketOf(k, shape.divide) \in all
  BY JoinDivide, RunsOfRanges
<1> HIDE DEF keys, all
<1>3. Fold(LiveRows(h), LiveRows(g), keys, shape.divide) = Of(Answer(h, g), all)
  BY <1>2, FoldOfParts
<1> QED BY <1>1, <1>3 DEF keys, all

LEMMA UnionIsAnswer ==
    ASSUME Joined, shape \in Shapes, NEW h \in Seq(Event), NEW g \in Seq(Event),
           NEW m, m.ceiling \in OrderingKeys, NEW rows, Current(rows, h, g, m)
    PROVE  UnionRead(h, g, m, rows) = Answer(h, g)
<1> DEFINE live == LiveRanges(h, g, m)
           runs == Runs(live, shape.divide)
           w    == shape.divide
<1>1. live \in Ranges
  BY LiveIs
<1>2. /\ Covered(runs) = LiveBuckets(h, g, m)
      /\ Fold(LiveRows(h), LiveRows(g), KeysOf(runs, w), w) = Of(Answer(h, g), LiveBuckets(h, g, m))
  <2> HIDE DEF live
  <2>1. /\ Covered(runs) = Buckets(live, w)
        /\ Fold(LiveRows(h), LiveRows(g), KeysOf(runs, w), w) = Of(Answer(h, g), Buckets(live, w))
    BY <1>1, PlannedRuns
  <2> QED BY <2>1 DEF LiveBuckets, live
<1>3. UnionRead(h, g, m, rows)
        = {r \in rows : r.bucket \notin Covered(runs)}
             \union Fold(LiveRows(h), LiveRows(g), KeysOf(runs, w), w)
  BY JoinDivide DEF UnionRead
<1> HIDE DEF runs, w, live
<1>4. UnionRead(h, g, m, rows)
        = Outside(Answer(h, g), LiveBuckets(h, g, m)) \union Of(Answer(h, g), LiveBuckets(h, g, m))
  BY <1>2, <1>3 DEF Current, Outside
<1> QED BY <1>4 DEF Outside, Of

\* Nothing is dirty under a mark that counts everything.
LEMMA NothingDirty ==
    ASSUME Joined, NEW h \in Seq(Event), NEW g \in Seq(Event), NEW m,
           m.stamp = Len(h), m.dimensionStamp = Len(g), m.ceiling \in OrderingKeys
    PROVE  \A k \in OrderingKeys : k \in Covered(LiveRanges(h, g, m)) <=> k >= m.ceiling
<1>1. Touched(h, m.stamp) = {} /\ Touched(g, m.dimensionStamp) = {}
  BY DEF Touched, Rows
<1> QED BY <1>1, LiveIs DEF DirtyKey

\* Adding answers spoils nothing.
LEMMA MoreIsCurrent ==
    ASSUME NEW rows, NEW h, NEW g, NEW m, Current(rows, h, g, m),
           NEW some, some \subseteq Answer(h, g)
    PROVE  Current(rows \union some, h, g, m)
BY DEF Current, Outside

(* What a refresh leaves: the rows of the buckets it takes out are gone,   *)
(* those of the buckets it folds are the answer's.                         *)
LEMMA ReplacedIsCurrent ==
    ASSUME Joined, NEW h \in Seq(Event), NEW g, NEW m, NEW rows, Current(rows, h, g, m),
           \A r \in rows : r.bucket \in AllBuckets,
           NEW gone, NEW folded, folded \subseteq gone, NEW m2,
           \A b \in AllBuckets : b \notin LiveBuckets(h, g, m2) =>
               b \in folded \/ (b \notin gone /\ b \notin LiveBuckets(h, g, m))
    PROVE  Current(Outside(rows, gone) \union Of(Answer(h, g), folded), h, g, m2)
<1> DEFINE live  == LiveBuckets(h, g, m)
           live2 == LiveBuckets(h, g, m2)
           all   == Answer(h, g)
<1>1. \A r \in all : r.bucket \in AllBuckets
  BY AnswerBuckets
<1>2. \A r : r.bucket \notin live => (r \in rows <=> r \in all)
  <2>1. Outside(rows, live) = Outside(all, live)
    BY DEF Current
  <2> HIDE DEF live, all
  <2> QED BY <2>1 DEF Outside
<1> HIDE DEF live, live2, all
<1>3. ASSUME NEW r, r.bucket \notin live2
      PROVE  r \in Outside(rows, gone) \union Of(all, folded) <=> r \in all
  <2>1. CASE r.bucket \in AllBuckets
    <3>1. r.bucket \in folded \/ (r.bucket \notin gone /\ r.bucket \notin live)
      BY <1>3, <2>1 DEF live, live2
    <3> QED BY <1>2, <3>1 DEF Outside, Of
  <2>2. CASE r.bucket \notin AllBuckets
    BY <1>1, <2>2 DEF Outside, Of
  <2> QED BY <2>1, <2>2
<1>4. Outside(Outside(rows, gone) \union Of(all, folded), live2) = Outside(all, live2)
  BY <1>3 DEF Outside
<1> QED BY <1>4 DEF Current, live2, all

----------------------------------------------------------------------------
\* The plans of a refresh over two sources.

LEMMA Clipped ==
    ASSUME NEW ranges \in Ranges, NEW new \in OrderingKeys
    PROVE  LET below == {<<r[1], Min({r[2], new - 1})>> : r \in {q \in ranges : q[1] < new}} IN
           /\ below \in Ranges
           /\ \A k \in OrderingKeys : k \in Covered(below) <=> k \in Covered(ranges) /\ k < new
<1> DEFINE low == {q \in ranges : q[1] < new}
           below == {<<r[1], Min({r[2], new - 1})>> : r \in low}
<1>0. \A r \in ranges : /\ r[1] \in OrderingKeys /\ r[2] \in OrderingKeys /\ r[1] <= r[2]
                        /\ r[1] \in Int /\ r[2] \in Int /\ new \in Int
  BY KeyType DEF Ranges
<1>1. ASSUME NEW r \in low
      PROVE  Min({r[2], new - 1}) = IF r[2] < new THEN r[2] ELSE new - 1
  <2> DEFINE n == IF r[2] < new THEN r[2] ELSE new - 1
             S == {r[2], new - 1}
  <2>1. n \in S /\ \A y \in S : n <= y
    BY <1>0
  <2>2. \A x \in S : (\A y \in S : x <= y) => x = n
    BY <1>0
  <2> HIDE DEF S, n
  <2>3. Min(S) = n
    BY <2>1, <2>2 DEF Min
  <2> QED BY <2>3 DEF S, n
<1>2. ASSUME NEW r \in low
      PROVE  <<r[1], Min({r[2], new - 1})>> = <<r[1], IF r[2] < new THEN r[2] ELSE new - 1>>
  BY <1>1
<1>3. \A p : p \in below <=> \E r \in low : p = <<r[1], IF r[2] < new THEN r[2] ELSE new - 1>>
  <2> HIDE DEF low
  <2> QED BY <1>2
<1>4. \A r \in low : r \in ranges /\ r[1] < new
  OBVIOUS
<1>5. \A r \in ranges : r[1] < new => r \in low
  OBVIOUS
<1> HIDE DEF low, below
<1>6. ASSUME NEW p \in below
      PROVE  \E r \in ranges : r[1] < new /\ p = <<p[1], p[2]>> /\ p[1] = r[1]
                               /\ p[2] = IF r[2] < new THEN r[2] ELSE new - 1
  BY <1>3, <1>4
<1>7. ASSUME NEW r \in ranges, r[1] < new
      PROVE  \E p \in below : p[1] = r[1] /\ p[2] = IF r[2] < new THEN r[2] ELSE new - 1
  <2>1. PICK p \in below : p = <<r[1], IF r[2] < new THEN r[2] ELSE new - 1>>
    BY <1>3, <1>5, <1>7
  <2> QED BY <2>1
<1>8. below \in Ranges
  <2>1. ASSUME NEW p \in below
        PROVE  p \in OrderingKeys \X OrderingKeys /\ p[1] <= p[2]
    <3>1. PICK r \in ranges : r[1] < new /\ p = <<p[1], p[2]>> /\ p[1] = r[1]
                              /\ p[2] = IF r[2] < new THEN r[2] ELSE new - 1
      BY <1>6
    <3>2. p[2] \in OrderingKeys /\ p[1] \in OrderingKeys /\ p[1] <= p[2]
      BY <1>0, <3>1, KeyType
    <3> QED BY <3>1, <3>2
  <2> QED BY <2>1 DEF Ranges
<1>9. ASSUME NEW k \in OrderingKeys, k \in Covered(below) PROVE k \in Covered(ranges) /\ k < new
  <2>1. PICK p \in below : k \in p[1]..p[2]
    BY <1>9 DEF Covered
  <2>2. PICK r \in ranges : r[1] < new /\ p[1] = r[1]
                            /\ p[2] = IF r[2] < new THEN r[2] ELSE new - 1
    BY <1>6
  <2>3. k \in r[1]..r[2] /\ k < new
    BY <1>0, <2>1, <2>2, KeyType
  <2> QED BY <2>3 DEF Covered
<1>10. ASSUME NEW k \in OrderingKeys, k \in Covered(ranges), k < new PROVE k \in Covered(below)
  <2>1. PICK r \in ranges : k \in r[1]..r[2]
    BY <1>10 DEF Covered
  <2>2. r[1] < new
    BY <1>0, <1>10, <2>1, KeyType
  <2>3. PICK p \in below : p[1] = r[1] /\ p[2] = IF r[2] < new THEN r[2] ELSE new - 1
    BY <1>7, <2>2
  <2>4. k \in p[1]..p[2]
    BY <1>0, <1>10, <2>1, <2>3, KeyType
  <2> QED BY <2>4 DEF Covered
<1> QED BY <1>8, <1>9, <1>10 DEF low, below

LEMMA Band ==
    ASSUME NEW low \in OrderingKeys, NEW high \in OrderingKeys
    PROVE  LET band == IF low < high THEN {<<low, high - 1>>} ELSE {} IN
           /\ band \in Ranges
           /\ \A k \in OrderingKeys : k \in Covered(band) <=> low <= k /\ k < high
<1>1. CASE low < high
  <2> DEFINE band == {<<low, high - 1>>}
  <2>1. \A p \in band : p = <<low, high - 1>> /\ p[1] = low /\ p[2] = high - 1
    OBVIOUS
  <2>2. \E p \in band : TRUE
    OBVIOUS
  <2> HIDE DEF band
  <2>3. low \in Int /\ high \in Int /\ high - 1 \in OrderingKeys /\ low <= high - 1
    BY <1>1, KeyType
  <2>4. band \in Ranges
    BY <2>1, <2>3 DEF Ranges
  <2>5. \A k : k \in Covered(band) <=> k \in low..(high - 1)
    BY <2>1, <2>2 DEF Covered
  <2>6. \A k \in OrderingKeys : k \in low..(high - 1) <=> low <= k /\ k < high
    BY <2>3, KeyType
  <2> QED BY <1>1, <2>4, <2>5, <2>6 DEF band
<1>2. CASE ~(low < high)
  <2>1. \A k \in OrderingKeys : ~(low <= k /\ k < high)
    BY <1>2, KeyType
  <2> QED BY <1>2, <2>1 DEF Covered, Ranges
<1> QED BY <1>1, <1>2

LEMMA CeilingType ==
    ASSUME Joined, shape \in Shapes, NEW g \in Seq(Event), LiveRows(g) # {}
    PROVE  Ceiling(LiveRows(g)) \in OrderingKeys
<1>1. CASE AsOfJoin
  <2> DEFINE keys == {d.key : d \in LiveRows(g)}
             w    == shape.divide
  <2>1. \A d \in LiveRows(g) : d.key \in OrderingKeys
    BY LiveKeys
  <2>2. PICK d \in LiveRows(g) : \A e \in LiveRows(g) : e.key <= d.key
    BY <2>1, LastRow
  <2>3. \E x \in keys : \A y \in keys : x >= y
    BY <2>2
  <2>4. Max(keys) \in OrderingKeys
    <3>1. Max(keys) \in keys
      <4> HIDE DEF keys
      <4> QED BY <2>3 DEF Max
    <3> QED BY <2>1, <3>1
  <2>5. PICK b \in Int : b = BucketOf(Max(keys), w)
    <3> HIDE DEF keys
    <3> QED BY <2>4, BucketType, JoinDivide
  <2>6. \A x \in Int : Saturated(x) \in OrderingKeys
    BY KeyType DEF Saturated
  <2>7. w \in 1..MaxKey
    BY ShapesAssumption
  <2>8. b * w \in Int /\ -(w - 1) \in OrderingKeys
    BY <2>7, KeyType DEF MinKey
  <2>9. BucketLow(b, w) \in OrderingKeys
    <3>1. Saturated(b * w) \in Int
      BY <2>6, <2>8, KeyType
    <3>2. Saturated(b * w) - (w - 1) \in Int
      BY <2>7, <3>1
    <3> HIDE DEF w
    <3> QED BY <2>6, <2>8, <3>2 DEF BucketLow
  <2>10. Ceiling(LiveRows(g)) = BucketLow(BucketOf(Max(keys), w), w)
    BY <1>1 DEF Ceiling
  <2> QED BY <2>5, <2>9, <2>10
<1>2. CASE ~AsOfJoin
  BY <1>2, KeyType DEF Ceiling
<1> QED BY <1>1, <1>2

(* What a refresh has planned, by the buckets it folds and takes out:      *)
(* every bucket the new mark calls current is folded, or was current and   *)
(* stays; while the ceiling does not fall, so is every bucket the old mark *)
(* calls current.                                                          *)
Plans(plan, h, g, m) ==
    LET gone == IF plan.all THEN AllBuckets ELSE Covered(plan.runs) IN
    \E folded \in SUBSET gone :
        /\ plan.fold = Of(Answer(h, g), folded)
        /\ \A b \in AllBuckets : b \notin LiveBuckets(h, g, plan.mark) =>
              b \in folded \/ (b \notin gone /\ b \notin LiveBuckets(h, g, m))
        /\ m.ceiling <= plan.mark.ceiling =>
              \A b \in AllBuckets : b \notin LiveBuckets(h, g, m) => b \in folded \/ b \notin gone

Mark == [stamp : Nat, width : Nat, dimensionStamp : Nat, ceiling : OrderingKeys]

\* A bucket is folded live when one of its keys is.
LEMMA BucketOfKeys ==
    ASSUME NEW ranges, Covered(ranges) \subseteq OrderingKeys, NEW b
    PROVE  b \in Buckets(ranges, shape.divide)
              <=> \E k \in OrderingKeys : BucketOf(k, shape.divide) = b /\ k \in Covered(ranges)
BY DEF Buckets

LEMMA LiveBucket ==
    ASSUME Joined, NEW h \in Seq(Event), NEW g \in Seq(Event), NEW m \in Mark, NEW b
    PROVE  b \in LiveBuckets(h, g, m)
              <=> \E k \in OrderingKeys : BucketOf(k, shape.divide) = b
                     /\ (k >= m.ceiling \/ k \in Covered(Dirty(h, g, m)))
<1>1. m.ceiling \in OrderingKeys
  BY DEF Mark
<1>2. /\ LiveRanges(h, g, m) \in Ranges
      /\ \A k \in OrderingKeys : k \in Covered(LiveRanges(h, g, m))
                                    <=> k >= m.ceiling \/ k \in Covered(Dirty(h, g, m))
  BY <1>1, LiveIs, DirtyIs
<1>3. Covered(LiveRanges(h, g, m)) \subseteq OrderingKeys
  BY <1>2, CoveredKeys
<1> QED BY <1>2, <1>3, BucketOfKeys DEF LiveBuckets

LEMMA SettledBucket ==
    ASSUME Joined, NEW h \in Seq(Event), NEW g \in Seq(Event), NEW m \in Mark,
           m.stamp = Len(h), m.dimensionStamp = Len(g), NEW b
    PROVE  b \in LiveBuckets(h, g, m)
              <=> \E k \in OrderingKeys : BucketOf(k, shape.divide) = b /\ k >= m.ceiling
<1>1. m.ceiling \in OrderingKeys
  BY DEF Mark
<1>2. /\ LiveRanges(h, g, m) \in Ranges
      /\ \A k \in OrderingKeys : k \in Covered(LiveRanges(h, g, m)) <=> k >= m.ceiling
  BY <1>1, LiveIs, NothingDirty
<1>3. Covered(LiveRanges(h, g, m)) \subseteq OrderingKeys
  BY <1>2, CoveredKeys
<1> QED BY <1>2, <1>3, BucketOfKeys DEF LiveBuckets

\* The sources and the view when a refresh plans.
Planning ==
    /\ Joined /\ shape \in Shapes
    /\ fact \in Seq(Event) /\ dimension \in Seq(Event)
    /\ mark \in Mark

LEMMA PlannedParts ==
    ASSUME Planning, NEW ranges \in Ranges, NEW victims \in Ranges, NEW all, NEW m,
           NEW plan, plan = Plan(ranges, victims, all, m)
    PROVE  /\ plan.fold = Of(Answer(fact, dimension), Buckets(ranges, shape.divide))
           /\ Covered(plan.runs) = Buckets(victims, shape.divide)
           /\ plan.mark = m
<1>1. Divide(m) = shape.divide
  BY JoinDivide DEF Planning
<1> QED BY <1>1, PlannedRuns DEF Planning, Plan

LEMMA EmptyRanges ==
    /\ {} \in Ranges /\ Covered({}) = {} /\ \A w : Buckets({}, w) = {}
BY DEF Ranges, Covered, Buckets

LEMMA NowMark ==
    ASSUME Planning, NEW c \in OrderingKeys
    PROVE  LET now == [Now(mark) EXCEPT !.ceiling = c] IN
           /\ now \in Mark /\ now.ceiling = c
           /\ now.stamp = Len(fact) /\ now.dimensionStamp = Len(dimension)
<1>1. Len(fact) \in Nat /\ Len(dimension) \in Nat /\ mark \in Mark
  BY DEF Planning
<1>2. Now(mark) \in Mark /\ Now(mark).stamp = Len(fact) /\ Now(mark).dimensionStamp = Len(dimension)
  BY <1>1 DEF Now, Mark
<1> QED BY <1>2 DEF Mark

LEMMA Ends == MinKey \in OrderingKeys /\ MaxKey \in OrderingKeys /\ MinKey <= MaxKey
BY KeyType

LEMMA PlanStarIs ==
    ASSUME Planning, ~AsOfJoin
    PROVE  PlanStar.mark \in Mark /\ PlanStar.mark.stamp = Len(fact)
           /\ PlanStar.mark.dimensionStamp = Len(dimension)
           /\ Plans(PlanStar, fact, dimension, mark)
<1> DEFINE dirty == Dirty(fact, dimension, mark)
           now == [Now(mark) EXCEPT !.ceiling = MaxKey]
           w   == shape.divide
<1>1. /\ now \in Mark /\ now.stamp = Len(fact) /\ now.dimensionStamp = Len(dimension)
      /\ now.ceiling = MaxKey
  BY Ends, NowMark
<1>2. dirty \in Ranges /\ Covered(dirty) \subseteq OrderingKeys
  BY DirtyIs, CoveredKeys DEF Planning
<1>3. Everything \in Ranges /\ Buckets(Everything, w) = AllBuckets
  <2>1. MinKey \in OrderingKeys /\ MaxKey \in OrderingKeys /\ MinKey <= MaxKey
        /\ MinKey..MaxKey = OrderingKeys
    BY KeyType DEF OrderingKeys
  <2>2. \A p \in Everything : p = <<MinKey, MaxKey>> /\ p[1] = MinKey /\ p[2] = MaxKey
    BY DEF Everything
  <2>3. \E p \in Everything : TRUE
    BY DEF Everything
  <2>4. Everything \in Ranges
    BY <2>1, <2>2 DEF Ranges
  <2>5. Covered(Everything) = OrderingKeys
    BY <2>1, <2>2, <2>3 DEF Covered
  <2> QED BY <2>4, <2>5 DEF Buckets, AllBuckets
<1> HIDE DEF dirty, now, w
<1>4. CASE mark.ceiling < MaxKey \/ dirty = Everything
  <2> DEFINE plan == Plan(Everything, {}, TRUE, now)
  <2>1. PlanStar = plan
    BY <1>4 DEF PlanStar, dirty, now
  <2>2. /\ plan.fold = Of(Answer(fact, dimension), AllBuckets)
        /\ plan.all = TRUE /\ plan.mark = now
    <3>1. plan.all = TRUE
      BY DEF Plan
    <3> HIDE DEF plan
    <3>2. plan = Plan(Everything, {}, TRUE, now)
      BY DEF plan
    <3> DEFINE all == TRUE
    <3> HIDE DEF all
    <3>3. plan = Plan(Everything, {}, all, now)
      BY <3>2 DEF all
    <3> QED BY <1>3, <3>1, <3>3, EmptyRanges, PlannedParts DEF w
  <2> HIDE DEF plan
  <2>3. Plans(plan, fact, dimension, mark)
    BY <2>2 DEF Plans
  <2> QED BY <1>1, <2>1, <2>2, <2>3
<1>5. CASE ~(mark.ceiling < MaxKey \/ dirty = Everything)
  <2> DEFINE plan == Plan(dirty, dirty, FALSE, now)
             folded == Buckets(dirty, w)
  <2>1. PlanStar = plan
    BY <1>5 DEF PlanStar, dirty, now
  <2>2. /\ plan.fold = Of(Answer(fact, dimension), folded)
        /\ Covered(plan.runs) = folded
        /\ plan.all = FALSE /\ plan.mark = now
    <3>1. plan.all = FALSE
      BY DEF Plan
    <3> HIDE DEF plan
    <3>2. plan = Plan(dirty, dirty, FALSE, now)
      BY DEF plan
    <3> DEFINE all == FALSE
    <3> HIDE DEF all
    <3>3. plan = Plan(dirty, dirty, all, now)
      BY <3>2 DEF all
    <3> QED BY <1>2, <3>1, <3>3, PlannedParts DEF w
  <2> HIDE DEF plan, folded
  <2>3. ASSUME NEW b \in AllBuckets, b \notin LiveBuckets(fact, dimension, now), b \notin folded
        PROVE  b \notin LiveBuckets(fact, dimension, mark)
    <3> SUFFICES ASSUME b \in LiveBuckets(fact, dimension, mark) PROVE FALSE
      OBVIOUS
    <3>1. PICK k \in OrderingKeys :
             BucketOf(k, w) = b /\ (k >= mark.ceiling \/ k \in Covered(dirty))
      BY LiveBucket DEF Planning, w, dirty
    <3>2. k \notin Covered(dirty)
      BY <1>2, <2>3, <3>1, BucketOfKeys DEF folded, w
    <3>3. ~(k >= MaxKey)
      BY <1>1, <2>3, <3>1, SettledBucket DEF Planning, w
    <3>4. mark.ceiling \in OrderingKeys
      BY DEF Planning, Mark
    <3> QED BY <1>5, <3>1, <3>2, <3>3, <3>4, KeyType
  <2>4. Plans(plan, fact, dimension, mark)
    BY <2>2, <2>3 DEF Plans
  <2> QED BY <1>1, <2>1, <2>2, <2>4
<1> QED BY <1>4, <1>5

LEMMA PlanAsOfIs ==
    ASSUME Planning, AsOfJoin
    PROVE  PlanAsOf.mark \in Mark /\ PlanAsOf.mark.stamp = Len(fact)
           /\ PlanAsOf.mark.dimensionStamp = Len(dimension)
           /\ Plans(PlanAsOf, fact, dimension, mark)
<1> DEFINE dims == LiveRows(dimension)
           w    == shape.divide
           old  == mark.ceiling
<1>1. old \in OrderingKeys /\ old \in Int
  BY KeyType DEF Planning, Mark
<1>2. CASE dims = {}
  <2> DEFINE now  == [Now(mark) EXCEPT !.ceiling = MinKey]
             plan == Plan({}, {}, mark.ceiling > MinKey, now)
  <2>1. PlanAsOf = plan
    BY <1>2 DEF PlanAsOf
  <2>2. /\ now \in Mark /\ now.stamp = Len(fact) /\ now.dimensionStamp = Len(dimension)
        /\ now.ceiling = MinKey
    BY Ends, NowMark
  <2> HIDE DEF now
  <2>3. /\ plan.fold = Of(Answer(fact, dimension), {})
        /\ Covered(plan.runs) = {}
        /\ plan.all = (mark.ceiling > MinKey) /\ plan.mark = now
    <3>1. plan.all = (mark.ceiling > MinKey)
      BY DEF Plan
    <3> HIDE DEF plan
    <3>2. plan = Plan({}, {}, mark.ceiling > MinKey, now)
      BY DEF plan
    <3> DEFINE all == mark.ceiling > MinKey
    <3> HIDE DEF all
    <3>3. plan = Plan({}, {}, all, now)
      BY <3>2 DEF all
    <3> QED BY <3>1, <3>3, EmptyRanges, PlannedParts
  <2> HIDE DEF plan
  <2>4. \A b \in AllBuckets : b \in LiveBuckets(fact, dimension, now)
    <3> TAKE b \in AllBuckets
    <3>1. PICK k \in OrderingKeys : BucketOf(k, w) = b
      BY DEF AllBuckets
    <3>2. k >= MinKey
      BY KeyType
    <3> QED BY <2>2, <3>1, <3>2, SettledBucket DEF Planning
  <2>5. old <= MinKey => ~plan.all
    <3>1. ~(old <= MinKey /\ old > MinKey)
      BY <1>1, KeyType
    <3> HIDE DEF old
    <3>2. plan.all = (old > MinKey)
      BY <2>3 DEF old
    <3> QED BY <3>1, <3>2
  <2>6. Plans(plan, fact, dimension, mark)
    <3>1. {} \in SUBSET (IF plan.all THEN AllBuckets ELSE Covered(plan.runs))
      OBVIOUS
    <3> QED BY <2>2, <2>3, <2>4, <2>5, <3>1 DEF Plans
  <2> QED BY <2>1, <2>2, <2>3, <2>6
<1>3. CASE dims # {}
  <2> DEFINE new == Ceiling(dims)
             now == [Now(mark) EXCEPT !.ceiling = new]
             dirty  == Dirty(fact, dimension, mark)
             below  == {<<r[1], Min({r[2], new - 1})>> : r \in {q \in dirty : q[1] < new}}
             rising == IF old < new THEN {<<old, new - 1>>} ELSE {}
             falling == IF new < old THEN {<<new, old - 1>>} ELSE {}
             ranges  == below \union rising
             victims   == Victims(below, old, new)
             plan    == Plan(ranges, victims, FALSE, now)
  <2>1. PlanAsOf = plan
    BY <1>3 DEF PlanAsOf
  <2>2. new \in OrderingKeys /\ new \in Int
    BY <1>3, CeilingType, KeyType DEF Planning
  <2> HIDE DEF new
  <2>3. /\ now \in Mark /\ now.stamp = Len(fact) /\ now.dimensionStamp = Len(dimension)
        /\ now.ceiling = new
    BY <2>2, NowMark
  <2>4. dirty \in Ranges
    BY DirtyIs DEF Planning
  <2> HIDE DEF now, dirty
  <2>5. /\ below \in Ranges
        /\ \A k \in OrderingKeys : k \in Covered(below) <=> k \in Covered(dirty) /\ k < new
    BY <2>2, <2>4, Clipped
  <2>6. /\ rising \in Ranges
        /\ \A k \in OrderingKeys : k \in Covered(rising) <=> old <= k /\ k < new
    BY <1>1, <2>2, Band
  <2>7. /\ falling \in Ranges
        /\ \A k \in OrderingKeys : k \in Covered(falling) <=> new <= k /\ k < old
    BY <1>1, <2>2, Band
  <2>8. victims = ranges \union falling
    BY DEF Victims
  <2> HIDE DEF below, rising, falling
  <2>9. \A S, T, k : k \in Covered(S \union T) <=> k \in Covered(S) \/ k \in Covered(T)
    BY DEF Covered
  <2>10. /\ ranges \in Ranges
         /\ \A k \in OrderingKeys : k \in Covered(ranges)
               <=> (k < new /\ (k \in Covered(dirty) \/ old <= k))
    BY <2>5, <2>6, <2>9 DEF Ranges
  <2> HIDE DEF ranges, victims
  <2>11. /\ victims \in Ranges
         /\ \A k \in OrderingKeys : k \in Covered(victims)
               <=> k \in Covered(ranges) \/ (new <= k /\ k < old)
    BY <2>7, <2>8, <2>9, <2>10 DEF Ranges
  <2> DEFINE folded == Buckets(ranges, w)
             gone   == Buckets(victims, w)
  <2>12. /\ plan.fold = Of(Answer(fact, dimension), folded)
         /\ Covered(plan.runs) = gone
         /\ plan.all = FALSE /\ plan.mark = now
    <3>1. plan.all = FALSE
      BY DEF Plan
    <3> HIDE DEF plan
    <3>2. plan = Plan(ranges, victims, FALSE, now)
      BY DEF plan
    <3> DEFINE all == FALSE
    <3> HIDE DEF all
    <3>3. plan = Plan(ranges, victims, all, now)
      BY <3>2 DEF all
    <3> QED BY <2>10, <2>11, <3>1, <3>3, PlannedParts
  <2>13. /\ \A b : b \in folded
               <=> \E k \in OrderingKeys : BucketOf(k, w) = b /\ k \in Covered(ranges)
         /\ \A b : b \in gone
               <=> \E k \in OrderingKeys : BucketOf(k, w) = b /\ k \in Covered(victims)
    <3>1. Covered(ranges) \subseteq OrderingKeys /\ Covered(victims) \subseteq OrderingKeys
      BY <2>10, <2>11, CoveredKeys
    <3> QED BY <3>1, BucketOfKeys
  <2>14. /\ \A b : b \in LiveBuckets(fact, dimension, mark)
               <=> \E k \in OrderingKeys : BucketOf(k, w) = b
                      /\ (k >= old \/ k \in Covered(dirty))
         /\ \A b : b \in LiveBuckets(fact, dimension, now)
               <=> \E k \in OrderingKeys : BucketOf(k, w) = b /\ k >= new
    BY <2>3, LiveBucket, SettledBucket DEF Planning, dirty
  <2> HIDE DEF plan, folded, gone, w, old
  <2>15. folded \subseteq gone
    BY <2>11, <2>13
  <2>16. \A k \in OrderingKeys : k \in Int
    BY KeyType
  <2>17. ASSUME NEW b \in AllBuckets, b \notin LiveBuckets(fact, dimension, now), b \notin folded
         PROVE  b \notin gone /\ b \notin LiveBuckets(fact, dimension, mark)
    <3>1. \A k \in OrderingKeys : BucketOf(k, w) = b =>
              k < new /\ k \notin Covered(ranges)
      BY <2>2, <2>13, <2>14, <2>16, <2>17
    <3>2. \A k \in OrderingKeys : BucketOf(k, w) = b =>
              k < old /\ k \notin Covered(dirty) /\ k \notin Covered(victims)
      BY <1>1, <2>2, <2>10, <2>11, <2>16, <3>1
    <3> QED BY <1>1, <2>13, <2>14, <2>16, <3>2
  <2>18. ASSUME old <= new PROVE gone \subseteq folded
    BY <1>1, <2>2, <2>11, <2>13, <2>16, <2>18
  <2>19. Plans(plan, fact, dimension, mark)
    BY <2>3, <2>12, <2>15, <2>17, <2>18 DEF Plans, old
  <2> QED BY <2>1, <2>3, <2>12, <2>19
<1> QED BY <1>2, <1>3

----------------------------------------------------------------------------
\* The invariant.

\* The dimension's events no crash takes back.
StoredDims == SubSeq(dimension, 1, saved.dimension)

(* No crash falls into a lowering of the ceiling, or takes the record of   *)
(* one.  A failed advance leaves the record behind the mark in memory, so  *)
(* one failure is tolerated, and a crash after it is the second.           *)
Tolerated ==
    /\ "lowering" \notin Faults /\ "lost" \notin Faults
    /\ "advance" \notin Faults \/ failures <= 1
MayCrash ==
    /\ "lowering" \notin Faults /\ "lost" \notin Faults
    /\ "advance" \notin Faults \/ failures = 0

JoinRefreshInv ==
    /\ pc # "idle" =>
          /\ saved.fact = Len(fact) /\ saved.dimension = Len(dimension)
          /\ todo.mark.stamp = Len(fact) /\ todo.mark.dimensionStamp = Len(dimension)
    /\ pc = "replace" => Plans(todo, fact, dimension, mark)
    /\ pc \in {"flush", "stamp"} /\ Tolerated => Current(table, Stored, StoredDims, todo.mark)
    /\ pc = "stamp" => mark = todo.mark /\ kept = table

(* The rows in memory are current under the mark in memory, and the rows a *)
(* reopen finds under the record it finds, unless the refresh under way    *)
(* lowers the ceiling.                                                     *)
JoinInv ==
    /\ pc \in {"idle", "replace", "flush", "stamp"}
    /\ mark \in Mark /\ record \in Mark /\ todo.mark \in Mark
    /\ \A r \in table \union kept : r.bucket \in AllBuckets
    /\ pc \in {"idle", "replace"} /\ Tolerated => Current(table, Stored, StoredDims, mark)
    /\ MayCrash /\ pc # "stamp" => record = mark
    /\ MayCrash /\ ~Lowering =>
          /\ Current(kept, Stored, StoredDims, record)
          /\ pc = "flush" => Current(table, Stored, StoredDims, record)
    /\ JoinRefreshInv

\* What a loss of power may bring back covers no more than the record.
JoinOlderInv ==
    \A r \in older : /\ r \in Mark /\ r.stamp <= record.stamp
                     /\ r.dimensionStamp <= record.dimensionStamp

JoinedInv == StampInv /\ shape \in Shapes /\ (Joined => JoinInv /\ JoinOlderInv)

\* Only the definition and the arguments decide.
LEMMA SameMatches ==
    ASSUME shape' = shape
    PROVE  /\ \A f, dims : (MatchOf(f, dims))' = MatchOf(f, dims)
           /\ \A d, dims : (Interval(d, dims))' = Interval(d, dims)
           /\ Joined' = Joined /\ AsOfJoin' = AsOfJoin
<1>1. \A f, dims : (Candidates(f, dims))' = Candidates(f, dims)
  BY DEF Candidates
<1>2. \A f, dims : (MatchOf(f, dims))' = MatchOf(f, dims)
  BY <1>1 DEF MatchOf
<1>3. \A d, dims : (Interval(d, dims))' = Interval(d, dims)
  BY DEF Interval
<1> QED BY <1>2, <1>3 DEF Joined, AsOfJoin

LEMMA SameBuckets ==
    ASSUME shape' = shape
    PROVE  /\ \A h, g, m : (LiveBuckets(h, g, m))' = LiveBuckets(h, g, m)
           /\ \A h, g : (Answer(h, g))' = Answer(h, g)
           /\ AllBuckets' = AllBuckets
<1>1. \A h, g, m : (Dirty(h, g, m))' = Dirty(h, g, m)
  BY SameMatches DEF Dirty
<1>2. \A h, g, m : (LiveRanges(h, g, m))' = LiveRanges(h, g, m)
  BY <1>1, SameMatches DEF LiveRanges
<1>3. \A h, g, m : (LiveBuckets(h, g, m))' = LiveBuckets(h, g, m)
  BY <1>2 DEF LiveBuckets
<1>4. \A facts, dims, b, w :
         (MatchedRow(facts, dims, b, w))' = MatchedRow(facts, dims, b, w)
  BY SameMatches DEF MatchedRow
<1>5. \A h, g : (Answer(h, g))' = Answer(h, g)
  BY <1>4 DEF Answer
<1> QED BY <1>3, <1>5 DEF AllBuckets

LEMMA SameCurrent ==
    ASSUME shape' = shape
    PROVE  /\ \A rows, h, g, m : (Current(rows, h, g, m))' <=> Current(rows, h, g, m)
           /\ \A plan, h, g, m : (Plans(plan, h, g, m))' <=> Plans(plan, h, g, m)
<1>1. \A rows, h, g, m : (Current(rows, h, g, m))' <=> Current(rows, h, g, m)
  BY SameBuckets DEF Current
<1>2. \A plan, h, g, m : (Plans(plan, h, g, m))' <=> Plans(plan, h, g, m)
  BY SameBuckets DEF Plans
<1> QED BY <1>1, <1>2

LEMMA StoredDimsType ==
    ASSUME StampInv
    PROVE  /\ StoredDims \in Seq(Event) /\ Len(StoredDims) = saved.dimension
           /\ Begins(StoredDims, dimension)
           /\ saved.dimension = Len(dimension) => StoredDims = dimension
<1>1. /\ dimension \in Seq(Event) /\ saved.dimension \in Nat
      /\ saved.dimension <= Len(dimension)
  BY DEF StampInv, SourcesInv
<1> QED BY <1>1 DEF StoredDims, Begins

LEMMA StoredDimsGrow ==
    ASSUME StampInv, StampInv', [Next]_vars
    PROVE  Begins(StoredDims, StoredDims')
<1>1. /\ dimension \in Seq(Event) /\ saved.dimension \in Nat
      /\ saved.dimension <= Len(dimension)
      /\ dimension' \in Seq(Event) /\ saved'.dimension \in Nat
      /\ saved'.dimension <= Len(dimension')
  BY DEF StampInv, SourcesInv
<1>2. ASSUME saved.dimension <= saved'.dimension,
             \A i \in 1..saved.dimension : dimension'[i] = dimension[i]
      PROVE  Begins(StoredDims, StoredDims')
  <2>1. /\ StoredDims \in Seq(Event) /\ Len(StoredDims) = saved.dimension
        /\ \A i \in 1..saved.dimension : StoredDims[i] = dimension[i]
    BY <1>1 DEF StoredDims
  <2>2. /\ StoredDims' \in Seq(Event) /\ Len(StoredDims') = saved'.dimension
        /\ \A i \in 1..saved'.dimension : StoredDims'[i] = dimension'[i]
    BY <1>1 DEF StoredDims
  <2> QED BY <1>1, <1>2, <2>1, <2>2 DEF Begins
<1>3. CASE WriteDimension
  <2>1. PICK e : dimension' = Append(dimension, e) /\ saved' = saved
    BY <1>3 DEF WriteDimension
  <2>2. \A i \in 1..saved.dimension : dimension'[i] = dimension[i]
    BY <1>1, <2>1
  <2> QED BY <1>1, <1>2, <2>1, <2>2
<1>4. CASE Starting
  BY <1>1, <1>2, <1>4 DEF Starting, SavedByRefresh, Flushed
<1>5. CASE Crash
  <2>1. PICK k \in saved.dimension..Len(dimension) :
           dimension' = SubSeq(dimension, 1, k) /\ saved' = saved
    BY <1>5 DEF Crash
  <2>2. \A i \in 1..saved.dimension : dimension'[i] = dimension[i]
    BY <1>1, <2>1
  <2> QED BY <1>1, <1>2, <2>1, <2>2
<1>6. CASE UNCHANGED <<dimension, saved>>
  BY <1>1, <1>2, <1>6
<1>7. Starting \/ WriteDimension \/ Crash \/ UNCHANGED <<dimension, saved>>
  BY DEF vars, sources, view, Next, WriteFact, WriteDimension, BeginJoined, BeginSingle,
         BeginUnsized, BeginSizing, Replace, FlushView, WriteRecord, SizingFails,
         ReplaceFails, AdvanceFails, Crash, OpenSources, OpenRecord, OpenTable, RefreshConsole
<1> QED BY <1>3, <1>4, <1>5, <1>6, <1>7

\* Before and after a step of a join view.
JoinStep ==
    /\ StampInv /\ StampInv' /\ Joined /\ JoinInv
    /\ shape \in Shapes /\ shape' = shape
    /\ Begins(Stored, Stored') /\ Begins(StoredDims, StoredDims')

\* Rows stay current over what is stored.
LEMMA StaysCurrent ==
    ASSUME JoinStep, NEW m \in Mark, m.stamp <= saved.fact, m.dimensionStamp <= saved.dimension,
           NEW rows, Current(rows, Stored, StoredDims, m)
    PROVE  Current(rows, Stored', StoredDims', m)
<1>1. /\ m.ceiling \in OrderingKeys /\ m.stamp \in Nat /\ m.dimensionStamp \in Nat
      /\ m.stamp <= Len(Stored) /\ m.dimensionStamp <= Len(StoredDims)
  BY StoredType, StoredDimsType DEF JoinStep, Mark
<1> QED BY <1>1, CurrentLonger DEF JoinStep

LEMMA MarksCovered ==
    ASSUME StampInv
    PROVE  \A m \in {mark, record, todo.mark} :
              m.stamp <= saved.fact /\ m.dimensionStamp <= saved.dimension
BY DEF StampInv, MarksInv, Backed

\* The view stays and no refresh is under way.
LEMMA IdleJoin ==
    ASSUME JoinStep, pc = "idle", UNCHANGED <<mark, record, table, kept, pc, todo, failures>>
    PROVE  JoinInv'
<1>1. AllBuckets' = AllBuckets /\ Mark' = Mark
  BY SameBuckets DEF JoinStep, Mark
<1>2. Tolerated' = Tolerated /\ MayCrash' = MayCrash /\ ~Lowering /\ ~Lowering'
  BY DEF Tolerated, MayCrash, Lowering
<1>3. ASSUME Tolerated PROVE Current(table, Stored, StoredDims, mark)'
  <2>1. Current(table, Stored', StoredDims', mark)
    BY <1>3, MarksCovered, StaysCurrent DEF JoinStep, JoinInv
  <2> QED BY <2>1, SameCurrent DEF JoinStep
<1>4. ASSUME MayCrash PROVE Current(kept, Stored, StoredDims, record)'
  <2>1. Current(kept, Stored', StoredDims', record)
    BY <1>2, <1>4, MarksCovered, StaysCurrent DEF JoinStep, JoinInv
  <2> QED BY <2>1, SameCurrent DEF JoinStep
<1>5. JoinRefreshInv'
  BY DEF JoinRefreshInv
<1> QED BY <1>1, <1>2, <1>3, <1>4, <1>5 DEF JoinStep, JoinInv

LEMMA QuietJoin ==
    ASSUME JoinStep, UNCHANGED <<fact, dimension, saved>>,
           UNCHANGED <<mark, record, table, kept, pc, todo, failures>>
    PROVE  JoinInv'
<1>1. AllBuckets' = AllBuckets /\ Mark' = Mark /\ Stored' = Stored /\ StoredDims' = StoredDims
  BY SameBuckets DEF JoinStep, Mark, Stored, StoredDims
<1>2. Tolerated' = Tolerated /\ MayCrash' = MayCrash /\ Lowering' = Lowering
  BY SameMatches DEF JoinStep, Tolerated, MayCrash, Lowering
<1>3. /\ Current(table, Stored, StoredDims, mark) => Current(table, Stored, StoredDims, mark)'
      /\ Current(kept, Stored, StoredDims, record) => Current(kept, Stored, StoredDims, record)'
      /\ Current(table, Stored, StoredDims, record) => Current(table, Stored, StoredDims, record)'
      /\ Current(table, Stored, StoredDims, todo.mark)
            => Current(table, Stored, StoredDims, todo.mark)'
  BY <1>1, SameCurrent DEF JoinStep
<1>5. Plans(todo, fact, dimension, mark) => Plans(todo, fact, dimension, mark)'
  BY SameCurrent DEF JoinStep
<1>4. JoinRefreshInv'
  BY <1>2, <1>3, <1>5 DEF JoinStep, JoinInv, JoinRefreshInv
<1> QED BY <1>1, <1>2, <1>3, <1>4 DEF JoinStep, JoinInv

\* What a plan does to rows that are current.
LEMMA PlanApplied ==
    ASSUME Joined, NEW h \in Seq(Event), NEW g, NEW plan, NEW m, Plans(plan, h, g, m),
           NEW rows, Current(rows, h, g, m), \A r \in rows : r.bucket \in AllBuckets,
           NEW left, left = IF plan.all THEN {} ELSE Outside(rows, Covered(plan.runs))
    PROVE  /\ Current(left \union plan.fold, h, g, plan.mark)
           /\ m.ceiling <= plan.mark.ceiling => Current(left \union plan.fold, h, g, m)
           /\ plan.fold \subseteq Answer(h, g)
<1> DEFINE gone == IF plan.all THEN AllBuckets ELSE Covered(plan.runs)
<1>1. left = Outside(rows, gone)
  BY DEF Outside
<1>2. PICK folded \in SUBSET gone :
        /\ plan.fold = Of(Answer(h, g), folded)
        /\ \A b \in AllBuckets : b \notin LiveBuckets(h, g, plan.mark) =>
              b \in folded \/ (b \notin gone /\ b \notin LiveBuckets(h, g, m))
        /\ m.ceiling <= plan.mark.ceiling =>
              \A b \in AllBuckets : b \notin LiveBuckets(h, g, m) => b \in folded \/ b \notin gone
  BY DEF Plans
<1> HIDE DEF gone
<1>3. folded \subseteq gone
  OBVIOUS
<1>4. Current(Outside(rows, gone) \union Of(Answer(h, g), folded), h, g, plan.mark)
  BY <1>2, <1>3, ReplacedIsCurrent
<1>5. ASSUME m.ceiling <= plan.mark.ceiling
      PROVE  Current(Outside(rows, gone) \union Of(Answer(h, g), folded), h, g, m)
  <2>1. \A b \in AllBuckets : b \notin LiveBuckets(h, g, m) =>
           b \in folded \/ (b \notin gone /\ b \notin LiveBuckets(h, g, m))
    BY <1>2, <1>5
  <2> QED BY <1>3, <2>1, ReplacedIsCurrent
<1>6. plan.fold \subseteq Answer(h, g)
  BY <1>2 DEF Of
<1> QED BY <1>1, <1>2, <1>4, <1>5, <1>6

\* A refresh that has nothing to write.
LEMMA EmptyPlan ==
    ASSUME Joined, NEW h \in Seq(Event), NEW g, NEW plan, NEW m, Plans(plan, h, g, m),
           NEW rows, Current(rows, h, g, m), \A r \in rows : r.bucket \in AllBuckets,
           plan.fold = {}, plan.runs = {}, ~plan.all
    PROVE  Current(rows, h, g, plan.mark)
<1>1. Outside(rows, Covered(plan.runs)) = rows
  BY EmptyRanges DEF Outside
<1>2. Current(rows \union plan.fold, h, g, plan.mark)
  BY <1>1, PlanApplied
<1>3. rows \union plan.fold = rows
  OBVIOUS
<1> QED BY <1>2, <1>3

LEMMA BeginJoin ==
    ASSUME JoinStep, BeginJoined
    PROVE  JoinInv'
<1> DEFINE plan == IF AsOfJoin THEN PlanAsOf ELSE PlanStar
<1>1. /\ pc = "idle" /\ todo' = plan /\ saved' = Flushed
      /\ pc' = IF plan.fold = {} /\ plan.runs = {} /\ ~plan.all THEN "flush" ELSE "replace"
      /\ UNCHANGED <<fact, dimension, mark, record, table, kept, failures>>
  BY DEF BeginJoined, Starting, Refreshing, SavedByRefresh
<1>2. /\ fact \in Seq(Event) /\ dimension \in Seq(Event) /\ Planning
  BY DEF JoinStep, StampInv, SourcesInv, JoinInv, Planning
<1>3. /\ saved'.fact = Len(fact) /\ saved'.dimension = Len(dimension)
      /\ Stored' = fact /\ StoredDims' = dimension
  <2>1. saved'.fact = Len(fact) /\ saved'.dimension = Len(dimension)
    BY <1>1 DEF Flushed
  <2> QED
    BY <1>1, <2>1, StoredType, StoredDimsType
    DEF JoinStep, Stored, StoredDims, StampInv, SourcesInv
<1>4. /\ plan.mark \in Mark /\ plan.mark.stamp = Len(fact)
      /\ plan.mark.dimensionStamp = Len(dimension)
      /\ Plans(plan, fact, dimension, mark)
  BY <1>2, PlanAsOfIs, PlanStarIs
<1> HIDE DEF plan
<1>5. AllBuckets' = AllBuckets /\ Mark' = Mark
  BY SameBuckets DEF JoinStep, Mark
<1>6. Tolerated' = Tolerated /\ MayCrash' = MayCrash /\ ~Lowering /\ (MayCrash => Tolerated)
  BY <1>1 DEF Tolerated, MayCrash, Lowering, JoinStep, StampInv, SourcesInv
<1>7. ASSUME Tolerated PROVE Current(table, fact, dimension, mark)
  BY <1>1, <1>3, <1>7, MarksCovered, StaysCurrent DEF JoinStep, JoinInv
<1>8. ASSUME MayCrash PROVE record = mark /\ Current(kept, fact, dimension, record)
  BY <1>1, <1>3, <1>6, <1>8, MarksCovered, StaysCurrent DEF JoinStep, JoinInv
<1>9. ASSUME Tolerated, pc' = "flush" PROVE Current(table, fact, dimension, plan.mark)
  <2>1. plan.fold = {} /\ plan.runs = {} /\ ~plan.all
    BY <1>1, <1>9
  <2> QED BY <1>2, <1>4, <1>7, <1>9, <2>1, EmptyPlan DEF JoinStep, JoinInv
<1>10. Tolerated => Current(table, Stored, StoredDims, mark)'
  BY <1>1, <1>3, <1>7, SameCurrent DEF JoinStep
<1>11. MayCrash => /\ Current(kept, Stored, StoredDims, record)'
                   /\ Current(table, Stored, StoredDims, record)'
  BY <1>1, <1>3, <1>6, <1>7, <1>8, SameCurrent DEF JoinStep
<1>12. JoinRefreshInv'
  <2>1. (pc = "replace" => Plans(todo, fact, dimension, mark))'
    BY <1>1, <1>4, SameCurrent DEF JoinStep
  <2>2. (pc = "flush" /\ Tolerated => Current(table, Stored, StoredDims, todo.mark))'
    BY <1>1, <1>3, <1>6, <1>9, SameCurrent DEF JoinStep
  <2> QED BY <1>1, <1>3, <1>4, <2>1, <2>2 DEF JoinRefreshInv
<1> QED
  BY <1>1, <1>4, <1>5, <1>6, <1>8, <1>10, <1>11, <1>12 DEF JoinStep, JoinInv

\* What holds while a refresh writes.
LEMMA Writing ==
    ASSUME JoinStep, pc # "idle"
    PROVE  /\ Stored = fact /\ StoredDims = dimension /\ fact \in Seq(Event)
           /\ dimension \in Seq(Event)
           /\ Lowering <=> ~(record.ceiling <= todo.mark.ceiling)
           /\ MayCrash => Tolerated
<1>1. record.ceiling \in Int /\ todo.mark.ceiling \in Int
  <2>1. record.ceiling \in OrderingKeys /\ todo.mark.ceiling \in OrderingKeys
    BY DEF JoinStep, JoinInv, Mark
  <2> QED BY <2>1, KeyType
<1>2. Stored = fact /\ StoredDims = dimension
  BY StoredType, StoredDimsType DEF JoinStep, JoinInv, JoinRefreshInv
<1>3. Lowering <=> ~(record.ceiling <= todo.mark.ceiling)
  BY <1>1 DEF Lowering, JoinStep
<1>4. MayCrash => Tolerated
  BY DEF Tolerated, MayCrash
<1> QED BY <1>2, <1>3, <1>4 DEF JoinStep, StampInv, SourcesInv

LEMMA ReplaceJoin ==
    ASSUME JoinStep, Replace
    PROVE  JoinInv'
<1>1. /\ pc = "replace" /\ pc' = "flush" /\ table' = Kept(table) \union todo.fold
      /\ UNCHANGED <<fact, dimension, saved, mark, record, todo, failures>>
      /\ kept' = table' \/ \E some \in SUBSET todo.fold : kept' = table \union some
  BY DEF Replace, sources, Inserted
<1>2. /\ Stored = fact /\ StoredDims = dimension /\ fact \in Seq(Event)
      /\ Stored' = fact /\ StoredDims' = dimension
      /\ Lowering <=> ~(record.ceiling <= todo.mark.ceiling)
      /\ MayCrash => Tolerated
  BY <1>1, Writing DEF Stored, StoredDims
<1>3. /\ AllBuckets' = AllBuckets /\ Mark' = Mark
      /\ Tolerated' = Tolerated /\ MayCrash' = MayCrash /\ Lowering' = Lowering
  BY <1>1, SameBuckets, SameMatches DEF JoinStep, Mark, Tolerated, MayCrash, Lowering
<1>4. Plans(todo, fact, dimension, mark)
  BY <1>1 DEF JoinStep, JoinInv, JoinRefreshInv
<1>5. todo.fold \subseteq Answer(fact, dimension)
  BY <1>4 DEF Plans, Of
<1>6. Kept(table) = IF todo.all THEN {} ELSE Outside(table, Covered(todo.runs))
  BY DEF Kept, Outside
<1>7. ASSUME Tolerated
      PROVE  /\ Current(table, fact, dimension, mark)
             /\ Current(table', fact, dimension, todo.mark)
             /\ mark.ceiling <= todo.mark.ceiling => Current(table', fact, dimension, mark)
  <2>1. Current(table, fact, dimension, mark)
    BY <1>1, <1>2, <1>7 DEF JoinStep, JoinInv
  <2> QED BY <1>1, <1>2, <1>4, <1>6, <2>1, PlanApplied DEF JoinStep, JoinInv
<1>8. ASSUME MayCrash, ~Lowering
      PROVE  Current(table', fact, dimension, record) /\ Current(kept', fact, dimension, record)
  <2>1. record = mark
    BY <1>1, <1>8 DEF JoinStep, JoinInv
  <2>2. Current(table', fact, dimension, record)
    BY <1>2, <1>7, <1>8, <2>1
  <2>3. \A some \in SUBSET todo.fold : Current(table \union some, fact, dimension, record)
    BY <1>2, <1>5, <1>7, <1>8, <2>1, MoreIsCurrent
  <2> QED BY <1>1, <2>2, <2>3
<1>9. \A r \in table' \union kept' : r.bucket \in AllBuckets
  <2>1. \A r \in todo.fold : r.bucket \in AllBuckets
    BY <1>2, <1>5, AnswerBuckets
  <2>2. table' \union kept' \subseteq table \union todo.fold
    BY <1>1 DEF Kept
  <2> QED BY <2>1, <2>2 DEF JoinStep, JoinInv
<1>10. MayCrash /\ ~Lowering => /\ Current(kept, Stored, StoredDims, record)'
                                /\ Current(table, Stored, StoredDims, record)'
  BY <1>1, <1>2, <1>8, SameCurrent DEF JoinStep
<1>11. Tolerated => Current(table, Stored, StoredDims, todo.mark)'
  BY <1>1, <1>2, <1>7, SameCurrent DEF JoinStep
<1>12. JoinRefreshInv'
  BY <1>1, <1>3, <1>11 DEF JoinStep, JoinInv, JoinRefreshInv
<1> QED BY <1>1, <1>3, <1>9, <1>10, <1>12 DEF JoinStep, JoinInv

LEMMA ReplaceFailsJoin ==
    ASSUME JoinStep, ReplaceFails
    PROVE  JoinInv'
<1>1. /\ pc = "replace" /\ pc' = "idle" /\ todo' = Idle /\ kept' = table'
      /\ UNCHANGED <<fact, dimension, saved, mark, record>> /\ failures' = failures + 1
      /\ \E some \in SUBSET todo.fold : table' = table \union some
  BY DEF ReplaceFails, Failing, sources, Inserted
<1>2. /\ Stored = fact /\ StoredDims = dimension /\ fact \in Seq(Event)
      /\ Stored' = fact /\ StoredDims' = dimension
  BY <1>1, Writing DEF Stored, StoredDims
<1>3. /\ AllBuckets' = AllBuckets /\ Mark' = Mark
      /\ (Tolerated' => Tolerated) /\ (MayCrash' => MayCrash /\ Tolerated)
  BY <1>1, SameBuckets
  DEF JoinStep, Mark, Tolerated, MayCrash, StampInv, SourcesInv
<1>4. todo.fold \subseteq Answer(fact, dimension)
  BY <1>1 DEF JoinStep, JoinInv, JoinRefreshInv, Plans, Of
<1>5. ASSUME Tolerated PROVE Current(table', fact, dimension, mark)
  <2>1. Current(table, fact, dimension, mark)
    BY <1>1, <1>2, <1>5 DEF JoinStep, JoinInv
  <2> QED BY <1>1, <1>4, <2>1, MoreIsCurrent
<1>6. Tolerated => Current(table, Stored, StoredDims, mark)'
  BY <1>1, <1>2, <1>5, SameCurrent DEF JoinStep
<1>7. MayCrash => record = mark
  BY <1>1 DEF JoinStep, JoinInv
<1>8. MayCrash /\ Tolerated => Current(kept, Stored, StoredDims, record)'
  BY <1>1, <1>2, <1>5, <1>7, SameCurrent DEF JoinStep
<1>9. \A r \in table' \union kept' : r.bucket \in AllBuckets
  <2>1. \A r \in todo.fold : r.bucket \in AllBuckets
    BY <1>2, <1>4, AnswerBuckets
  <2> QED BY <1>1, <2>1 DEF JoinStep, JoinInv
<1>10. todo'.mark \in Mark
  BY <1>1, Ends DEF Idle, Fresh, Mark
<1>11. JoinRefreshInv'
  BY <1>1 DEF JoinRefreshInv
<1> QED BY <1>1, <1>3, <1>6, <1>7, <1>8, <1>9, <1>10, <1>11 DEF JoinStep, JoinInv

\* The mark moves on in memory, with the view table on disk or without.
LEMMA FlushJoin ==
    ASSUME JoinStep, FlushView
    PROVE  JoinInv'
<1>1. /\ pc = "flush" /\ pc' = "stamp" /\ mark' = todo.mark /\ kept' = table
      /\ UNCHANGED <<fact, dimension, saved, record, table, todo, failures>>
  BY DEF FlushView, sources
<1>2. /\ Stored' = Stored /\ StoredDims' = StoredDims
      /\ AllBuckets' = AllBuckets /\ Mark' = Mark
      /\ Tolerated' = Tolerated /\ MayCrash' = MayCrash /\ Lowering' = Lowering
  BY <1>1, SameBuckets, SameMatches
  DEF JoinStep, Mark, Tolerated, MayCrash, Lowering, Stored, StoredDims
<1>3. MayCrash /\ ~Lowering => Current(kept, Stored, StoredDims, record)'
  BY <1>1, <1>2, SameCurrent DEF JoinStep, JoinInv
<1>4. Tolerated => Current(table, Stored, StoredDims, todo.mark)'
  BY <1>1, <1>2, SameCurrent DEF JoinStep, JoinInv, JoinRefreshInv
<1>5. JoinRefreshInv'
  BY <1>1, <1>2, <1>4 DEF JoinStep, JoinInv, JoinRefreshInv
<1> QED BY <1>1, <1>2, <1>3, <1>5 DEF JoinStep, JoinInv

LEMMA AdvanceFailsJoin ==
    ASSUME JoinStep, AdvanceFails
    PROVE  JoinInv'
<1>1. /\ pc \in {"flush", "stamp"} /\ pc' = "idle" /\ mark' = todo.mark /\ todo' = Idle
      /\ UNCHANGED <<fact, dimension, saved, record, table, kept>>
      /\ failures' = failures + 1 /\ "advance" \in Faults
  BY DEF AdvanceFails, Failing, sources
<1>2. /\ Stored' = Stored /\ StoredDims' = StoredDims
      /\ AllBuckets' = AllBuckets /\ Mark' = Mark
  BY <1>1, SameBuckets DEF JoinStep, Mark, Stored, StoredDims
<1>3. (Tolerated' => Tolerated) /\ ~MayCrash'
  BY <1>1 DEF Tolerated, MayCrash, JoinStep, StampInv, SourcesInv
<1>4. Tolerated => Current(table, Stored, StoredDims, mark)'
  BY <1>1, <1>2, SameCurrent DEF JoinStep, JoinInv, JoinRefreshInv
<1>5. todo'.mark \in Mark
  BY <1>1, Ends DEF Idle, Fresh, Mark
<1>6. JoinRefreshInv'
  BY <1>1 DEF JoinRefreshInv
<1> QED BY <1>1, <1>2, <1>3, <1>4, <1>5, <1>6 DEF JoinStep, JoinInv

LEMMA RecordJoin ==
    ASSUME JoinStep, WriteRecord
    PROVE  JoinInv'
<1>1. /\ pc = "stamp" /\ pc' = "idle" /\ record' = mark /\ todo' = Idle
      /\ UNCHANGED <<fact, dimension, saved, mark, table, kept, failures>>
  BY DEF WriteRecord, sources
<1>2. /\ Stored' = Stored /\ StoredDims' = StoredDims
      /\ AllBuckets' = AllBuckets /\ Mark' = Mark
      /\ Tolerated' = Tolerated /\ MayCrash' = MayCrash /\ (MayCrash => Tolerated)
  BY <1>1, SameBuckets, Writing DEF JoinStep, Mark, Tolerated, MayCrash, Stored, StoredDims
<1>3. mark = todo.mark /\ kept = table
  BY <1>1 DEF JoinStep, JoinInv, JoinRefreshInv
<1>4. Tolerated => Current(table, Stored, StoredDims, mark)
  BY <1>1, <1>3 DEF JoinStep, JoinInv, JoinRefreshInv
<1>5. Tolerated => /\ Current(table, Stored, StoredDims, mark)'
                   /\ Current(kept, Stored, StoredDims, record)'
  BY <1>1, <1>2, <1>3, <1>4, SameCurrent DEF JoinStep
<1>6. todo'.mark \in Mark
  BY <1>1, Ends DEF Idle, Fresh, Mark
<1>7. JoinRefreshInv'
  BY <1>1 DEF JoinRefreshInv
<1> QED BY <1>1, <1>2, <1>5, <1>6, <1>7 DEF JoinStep, JoinInv

LEMMA CrashJoin ==
    ASSUME JoinStep, JoinOlderInv, Crash
    PROVE  JoinInv'
<1>1. PICK n \in saved.fact..Len(fact), k \in saved.dimension..Len(dimension) :
        fact' = SubSeq(fact, 1, n) /\ dimension' = SubSeq(dimension, 1, k)
  BY DEF Crash
<1>2. /\ pc' = "idle" /\ table' = kept /\ todo' = Idle
      /\ UNCHANGED <<saved, kept>> /\ failures' = failures + 1
      /\ Lowering => "lowering" \in Faults
      /\ mark' = record' /\ record' \in {record} \union older
      /\ Misleads(record') => "lost" \in Faults
  BY DEF Crash, Failing
<1>3. /\ fact \in Seq(Event) /\ saved.fact \in Nat /\ saved.fact <= Len(fact)
      /\ dimension \in Seq(Event) /\ saved.dimension \in Nat
      /\ saved.dimension <= Len(dimension)
  BY DEF JoinStep, StampInv, SourcesInv
<1>4. Stored' = Stored
  <2>1. n \in 0..Len(fact) /\ saved.fact <= n
    BY <1>3
  <2> QED BY <1>1, <1>2, <1>3, <2>1 DEF Stored
<1>5. StoredDims' = StoredDims
  <2>1. k \in 0..Len(dimension) /\ saved.dimension <= k
    BY <1>3
  <2> QED BY <1>1, <1>2, <1>3, <2>1 DEF StoredDims
<1>6. AllBuckets' = AllBuckets /\ Mark' = Mark
  BY SameBuckets DEF JoinStep, Mark
<1>7. (Tolerated' => MayCrash /\ ~Lowering) /\ (MayCrash' => Tolerated')
  BY <1>2 DEF Tolerated, MayCrash, JoinStep, StampInv, SourcesInv
<1>8. /\ record \in Mark /\ record' \in Mark
      /\ record'.stamp <= record.stamp /\ record'.dimensionStamp <= record.dimensionStamp
  BY <1>2 DEF JoinStep, JoinInv, JoinOlderInv, Mark
<1>9. ASSUME MayCrash, ~Lowering PROVE Current(kept, Stored, StoredDims, record')
  <2>1. Current(kept, Stored, StoredDims, record)
    BY <1>9 DEF JoinStep, JoinInv
  <2>2. record.ceiling \in Int /\ record'.ceiling \in Int
    <3>1. record.ceiling \in OrderingKeys /\ record'.ceiling \in OrderingKeys
      BY <1>8 DEF Mark
    <3> QED BY <3>1, KeyType
  <2>3. record'.ceiling <= record.ceiling
    BY <1>2, <1>9, <2>2 DEF Misleads, MayCrash
  <2>4. Stored \in Seq(Event) /\ StoredDims \in Seq(Event) /\ Joined
    BY StoredType, StoredDimsType DEF JoinStep
  <2>5. PICK m, r : m = record /\ r = record'
    OBVIOUS
  <2>6. \A rows : Current(rows, Stored, StoredDims, m) => Current(rows, Stored, StoredDims, r)
    BY <1>8, <2>3, <2>4, <2>5, OlderIsCurrent DEF Mark
  <2> QED BY <2>1, <2>5, <2>6
<1>10. MayCrash /\ ~Lowering => /\ Current(table, Stored, StoredDims, mark)'
                                /\ Current(kept, Stored, StoredDims, record)'
  BY <1>2, <1>4, <1>5, <1>9, SameCurrent DEF JoinStep
<1>11. todo'.mark \in Mark
  BY <1>2, Ends DEF Idle, Fresh, Mark
<1>12. JoinRefreshInv'
  BY <1>2 DEF JoinRefreshInv
<1>13. \A r \in table' \union kept' : r.bucket \in AllBuckets
  BY <1>2 DEF JoinStep, JoinInv
<1> QED BY <1>2, <1>6, <1>7, <1>8, <1>10, <1>11, <1>12, <1>13 DEF JoinInv

LEMMA OlderJoin ==
    ASSUME JoinStep, JoinOlderInv, [Next]_vars, ~BeginSizing
    PROVE  JoinOlderInv'
<1>1. Mark' = Mark
  BY SameBuckets DEF JoinStep, Mark
<1>2. CASE Crash
  <2>1. older' = {} \/ (older' = older /\ record' = record)
    BY <1>2 DEF Crash
  <2> QED BY <1>1, <2>1 DEF JoinOlderInv
<1>3. CASE ~Crash
  <2>1. older' \subseteq older \union {record}
    BY OlderComes DEF vars, view
  <2>2. /\ record \in Mark /\ record.stamp \in Nat /\ record.stamp <= saved.fact
        /\ record.dimensionStamp \in Nat /\ record.dimensionStamp <= saved.dimension
    BY DEF JoinStep, JoinInv, StampInv, MarksInv, Backed
  <2>3. \/ record' = record
        \/ record'.stamp = saved.fact /\ record'.dimensionStamp = saved.dimension
    <3>1. CASE WriteRecord
      BY <3>1 DEF WriteRecord, JoinStep, JoinInv, JoinRefreshInv
    <3>2. CASE ~WriteRecord
      BY <1>3, <3>2 DEF vars, sources, view, Next, WriteFact, WriteDimension, BeginJoined,
         BeginSingle, BeginUnsized, Starting, Replace, FlushView, SizingFails, ReplaceFails,
         AdvanceFails, OpenSources, OpenRecord, OpenTable, RefreshConsole
    <3> QED BY <3>1, <3>2
  <2>4. ASSUME NEW r \in older'
        PROVE  /\ r \in Mark /\ r.stamp <= record'.stamp
               /\ r.dimensionStamp <= record'.dimensionStamp
    <3>1. /\ r \in Mark /\ r.stamp <= record.stamp
          /\ r.dimensionStamp <= record.dimensionStamp
      BY <2>1, <2>2 DEF JoinOlderInv
    <3>2. r.stamp \in Nat /\ r.dimensionStamp \in Nat
      BY <3>1 DEF Mark
    <3>3. saved.fact \in Nat /\ saved.dimension \in Nat
      BY DEF JoinStep, StampInv, SourcesInv
    <3> QED BY <2>2, <2>3, <3>1, <3>2, <3>3
  <2> QED BY <1>1, <2>4 DEF JoinOlderInv
<1> QED BY <1>2, <1>3

LEMMA JoinInit == StampInv /\ Init /\ Joined => JoinInv
<1> SUFFICES ASSUME StampInv, Init, Joined PROVE JoinInv
  OBVIOUS
<1>1. Stored = << >> /\ StoredDims = << >>
  BY DEF Init, Stored, StoredDims
<1>2. Fresh \in Mark /\ Idle.mark = Fresh
  BY Ends DEF Fresh, Idle, Mark
<1>3. \A m : Current({}, << >>, << >>, m)
  BY NoRows DEF Current, Outside, Answer
<1> QED BY <1>1, <1>2, <1>3 DEF Init, JoinInv, JoinRefreshInv

LEMMA JoinedInvInductive == JoinedInv /\ [Next]_vars => JoinedInv'
<1> SUFFICES ASSUME JoinedInv, [Next]_vars PROVE JoinedInv'
  OBVIOUS
<1>1. StampInv'
  BY StampInvInductive DEF JoinedInv
<1>2. shape' = shape
  BY DEF vars, Next, WriteFact, WriteDimension, BeginJoined, BeginSingle, BeginUnsized,
         BeginSizing, Starting, Replace, FlushView, WriteRecord, SizingFails, ReplaceFails,
         AdvanceFails, Crash, OpenSources, OpenRecord, OpenTable, RefreshConsole
<1>3. ASSUME Joined' PROVE JoinInv' /\ JoinOlderInv'
  <2>1. JoinStep /\ JoinOlderInv
    <3>1. StampInv /\ StampInv' /\ Joined /\ JoinInv /\ JoinOlderInv /\ shape \in Shapes
      BY <1>1, <1>2, <1>3, SameMatches DEF JoinedInv
    <3> QED BY <1>2, <3>1, StoredGrows, StoredDimsGrow DEF JoinStep
  <2>2. ~BeginSingle /\ ~BeginUnsized /\ ~BeginSizing /\ ~SizingFails
    BY <2>1 DEF JoinStep, Joined, BeginSingle, BeginUnsized, BeginSizing, SizingFails,
                Unsized, Hidden
  <2>3. ASSUME WriteFact \/ WriteDimension PROVE JoinInv'
    <3>1. pc = "idle" /\ UNCHANGED <<mark, record, table, kept, pc, todo, failures>>
      BY <2>3 DEF WriteFact, WriteDimension, view
    <3> QED BY <2>1, <3>1, IdleJoin
  <2>4. ASSUME OpenSources \/ OpenRecord \/ OpenTable \/ RefreshConsole \/ UNCHANGED vars
        PROVE  JoinInv'
    <3>1. /\ UNCHANGED <<fact, dimension, saved>>
          /\ UNCHANGED <<mark, record, table, kept, pc, todo, failures>>
      BY <2>4 DEF OpenSources, OpenRecord, OpenTable, RefreshConsole, vars, sources, view
    <3> QED BY <2>1, <3>1, QuietJoin
  <2>5. JoinInv'
    BY <2>1, <2>2, <2>3, <2>4, BeginJoin, ReplaceJoin, ReplaceFailsJoin, FlushJoin,
       AdvanceFailsJoin, RecordJoin, CrashJoin DEF Next
  <2> QED BY <2>1, <2>2, <2>5, OlderJoin
<1> QED BY <1>1, <1>2, <1>3 DEF JoinedInv

(* However stale a view over a fact table and a dimension is, after any    *)
(* corrections of either and any crash, those included that bring an       *)
(* earlier, unsynced record back over later rows, its union read is the    *)
(* answer of its definition (MaterializedView::query_joined,               *)
(* refresh_joined, refresh_star).  Out of the promise are crashes while a  *)
(* refresh lowers the ceiling, losses of power that take the record of a   *)
(* lowering, and two failures where a refresh's last writes are among what *)
(* fails: such a write leaves a lowered ceiling in memory only, and the    *)
(* crash comes as the second.                                              *)
THEOREM JoinedUnionExact == Spec => [](Joined /\ Tolerated => UnionReadExact)
<1>1. Init => JoinedInv
  BY StampInit, JoinInit DEF JoinedInv, JoinOlderInv, Init
<1>2. ASSUME JoinedInv, Joined, Tolerated, pc = "idle"
      PROVE  Exact(fact, dimension, mark, table)
  <2>1. /\ StampInv /\ shape \in Shapes /\ mark \in Mark
        /\ Current(table, Stored, StoredDims, mark)
    BY <1>2 DEF JoinedInv, JoinInv
  <2>2. fact \in Seq(Event) /\ dimension \in Seq(Event)
    BY <2>1 DEF StampInv, SourcesInv
  <2>3. /\ mark.ceiling \in OrderingKeys /\ mark.stamp \in Nat /\ mark.dimensionStamp \in Nat
        /\ mark.stamp <= Len(Stored) /\ mark.dimensionStamp <= Len(StoredDims)
    BY <2>1, StoredType, StoredDimsType, MarksCovered DEF Mark
  <2>4. Current(table, fact, dimension, mark)
    BY <1>2, <2>1, <2>3, StoredType, StoredDimsType, CurrentLonger
  <2>5. UnionRead(fact, dimension, mark, table) = Answer(fact, dimension)
    BY <1>2, <2>1, <2>2, <2>3, <2>4, UnionIsAnswer
  <2>6. Fold(LiveRows(fact), LiveRows(dimension), OrderingKeys, Divide(mark))
          = Answer(fact, dimension)
    BY <1>2, <2>1, <2>2, AnswerBuckets, JoinDivide
  <2> QED BY <2>5, <2>6 DEF Exact
<1>3. JoinedInv => (Joined /\ Tolerated => UnionReadExact)
  BY <1>2 DEF UnionReadExact
<1> QED BY <1>1, <1>3, JoinedInvInductive, PTL DEF Spec
=============================================================================
