------------------------- MODULE SegmentCacheProofs -------------------------
(***************************************************************************)
(* What SegmentCache promises whatever the number of readers, the sizes of *)
(* the segments and the budget: theorems LocksHeldInPlace, DecodedOnce,    *)
(* CurrentReadable and CountNeverUnderReports.                             *)
(***************************************************************************)
EXTENDS SegmentCache, FiniteSetTheorems, WellFoundedInduction, TLAPS

\* The variables that are functions of threads or slots.
Fields ==
    /\ pc \in [Threads -> Labels]
    /\ goal \in [Threads -> Nat]
    /\ snap \in [Threads -> SUBSET Nat]
    /\ pins \in [Threads -> SUBSET Nat]
    /\ holder \in [Files -> Threads \union {None}]
    /\ install \in [compacting : BOOLEAN, segments : SUBSET Nat,
                    history : SUBSET Nat, todo : SUBSET Nat]

(* The files behind the store: those of the layout and of what the writer  *)
(* is about to adopt are there.                                            *)
StoreInv ==
    /\ written \in 0 .. Len(Sizes)
    /\ files \subseteq 1 .. written
    /\ install.todo \subseteq Adopting
    /\ CurrentFaultable

(* From its commit to its swap the writer does nothing but build the slots *)
(* it will adopt: it removes no file meanwhile, and a flush holds no view. *)
WriterInv ==
    /\ pc[Writer] = "building" => Adopting # {}
    /\ Adopting # {} =>
         /\ pc[Writer] \in {"building", "counting", "evicting"}
         /\ pc[Writer] \in {"counting", "evicting"} => goal[Writer] \in Adopting
         /\ ~install.compacting => pins[Writer] = {}

(* Where a thread is in a view call says what it holds: the slot's lock    *)
(* while it reads, the cache's while it evicts, and the slot's Arc until   *)
(* the segment is decoded and pinned.                                      *)
CallInv ==
    /\ \A f \in Files : holder[f] # None => pc[holder[f]] = "reading" /\ goal[holder[f]] = f
    /\ evictor # None => evictor \in Threads /\ pc[evictor] = "evicting"
    /\ \A t \in Threads :
          /\ pins[t] \subseteq snap[t]
          /\ snap[t] \subseteq 1 .. written
          /\ pc[t] = "idle" => pins[t] = {}
          /\ pc[t] \in {"locking", "reading"} => goal[t] \in snap[t]
          /\ pc[t] = "counting" => goal[t] \in 1 .. written
          /\ pc[t] = "reading" => holder[goal[t]] = t
          /\ pc[t] = "evicting" => evictor = t

CacheInv ==
    /\ Fields
    /\ StoreInv
    /\ CallInv
    /\ cached \subseteq 1 .. written
    /\ OneDecodedCopy
    /\ resident \in Nat

----------------------------------------------------------------------------
\* Numbers and sets of them.

LEMMA SizeType ==
    /\ Len(Sizes) \in Nat
    /\ \A f \in 1 .. Len(Sizes) : Sizes[f] \in Nat
BY SizesAssumption

LEMMA ThreadsApart == Writer \in Threads /\ None \notin Threads /\ Writer \notin Readers
BY WriterAssumption DEF Threads

LEMMA OpenedType == Opened \in 0 .. Len(Sizes)
BY OpenedAssumption

LEMMA Least ==
    ASSUME NEW S \in SUBSET Nat, S # {}
    PROVE  \E x \in S : \A y \in S : x <= y
<1>1. PICK x \in S : \A y \in S : ~(<<y, x>> \in OpToRel(<, Nat))
  BY NatLessThanWellFounded, WFMin
<1>2. \A y \in S : x <= y
  <2> TAKE y \in S
  <2>1. ~(y < x)
    BY <1>1 DEF OpToRel
  <2> QED BY <2>1
<1> QED BY <1>2

\* A nonempty set of file numbers has its least one among its members.
LEMMA MinIsMember ==
    ASSUME NEW S \in SUBSET Nat, S # {}
    PROVE  Min(S) \in S
BY Least DEF Min

LEMMA NatsUpTo ==
    ASSUME NEW m \in Nat, NEW S \in SUBSET (0 .. m), 0 \in S,
           \A n \in S : n < m => n + 1 \in S
    PROVE  S = 0 .. m
<1> DEFINE T == (0 .. m) \ S
<1>1. SUFFICES ASSUME T # {} PROVE FALSE
  OBVIOUS
<1>2. T \in SUBSET Nat
  OBVIOUS
<1>3. PICK x \in T : \A y \in T : x <= y
  <2> HIDE DEF T
  <2> QED BY <1>1, <1>2, Least
<1>4. x \in 0 .. m /\ x # 0 /\ x - 1 \in 0 .. m /\ x - 1 < m
  OBVIOUS
<1>5. x - 1 \in S
  BY <1>3, <1>4
<1> QED BY <1>4, <1>5

\* Files are numbered in the order they are written: a generation of new
\* ones, counted from the last number, ends at its greatest.
LEMMA NextNumbers ==
    ASSUME NEW w \in Nat, NEW top \in Nat, NEW S \in SUBSET (w + 1 .. top),
           S # {}, S = w + 1 .. w + Cardinality(S)
    PROVE  Max(S) \in w + 1 .. top /\ S = w + 1 .. Max(S)
<1>1. IsFiniteSet(S)
  <2>1. IsFiniteSet(w + 1 .. top)
    BY FS_Interval
  <2> QED BY <2>1, FS_Subset
<1> DEFINE n == Cardinality(S)
<1>2. n \in Nat
  BY <1>1, FS_CardinalityType
<1>3. S = w + 1 .. w + n
  OBVIOUS
<1> HIDE DEF n
<1>4. n > 0
  BY <1>2, <1>3
<1>5. w + n \in S /\ \A y \in S : w + n >= y
  BY <1>2, <1>3, <1>4
<1>6. \A x \in S : (\A y \in S : x >= y) => x = w + n
  BY <1>2, <1>3, <1>5
<1>7. Max(S) = w + n
  BY <1>5, <1>6 DEF Max
<1> QED BY <1>3, <1>5, <1>7

LEMMA SaturatingType ==
    ASSUME NEW a \in Int
    PROVE  Max({a, 0}) \in Nat /\ Max({a, 0}) >= a
<1> DEFINE S == {a, 0}
<1>1. \E x \in S : \A y \in S : x >= y
  <2>1. CASE a >= 0
    BY <2>1
  <2>2. CASE ~(a >= 0)
    BY <2>2
  <2> QED BY <2>1, <2>2
<1>2. Max(S) \in S /\ \A y \in S : Max(S) >= y
  <2> HIDE DEF S
  <2> QED BY <1>1 DEF Max
<1> QED BY <1>2

----------------------------------------------------------------------------
\* Steps that leave the store alone.

LEMMA StoreAlone ==
    ASSUME CacheInv, UNCHANGED store
    PROVE  StoreInv'
BY DEF CacheInv, StoreInv, store, CurrentFaultable, Adopting

LEMMA CacheInit == Init => CacheInv
<1> SUFFICES ASSUME Init PROVE CacheInv
  OBVIOUS
<1>1. Fields
  BY ThreadsApart DEF Init, Fields, Labels, Nothing
<1>2. Opened \in Nat /\ Opened \in 0 .. Len(Sizes)
  BY OpenedType, SizeType
<1>3. StoreInv
  BY <1>2, ThreadsApart DEF Init, StoreInv, CurrentFaultable, Adopting, Nothing
<1>4. CallInv
  BY DEF Init, CallInv
<1> QED BY <1>1, <1>3, <1>4 DEF Init, CacheInv, OneDecodedCopy

LEMMA MintKeeps == ASSUME NEW r \in Readers PROVE CacheInv /\ Mint(r) => CacheInv'
<1> SUFFICES ASSUME CacheInv, Mint(r) PROVE CacheInv'
  OBVIOUS
<1>1. r \in Threads /\ r # Writer
  BY ThreadsApart DEF Threads
<1>2. /\ Fields /\ StoreInv /\ CallInv
      /\ live \union history \subseteq 1 .. written /\ written \in Nat
  <2>1. Fields /\ StoreInv /\ CallInv
    BY DEF CacheInv
  <2>2. /\ live \subseteq files /\ history \subseteq files
        /\ files \subseteq 1 .. written /\ written \in 0 .. Len(Sizes)
    BY <2>1 DEF StoreInv, CurrentFaultable
  <2>3. live \union history \subseteq 1 .. written
    BY <2>2
  <2>4. written \in Nat
    BY <2>2, SizeType
  <2> QED BY <2>1, <2>3, <2>4
<1>3. Fields'
  BY <1>1, <1>2 DEF Fields, Mint, Goto, Labels, store
<1>4. StoreInv'
  BY <1>1, <1>2, StoreAlone DEF Mint, Goto, Fields
<1>5. CallInv'
  BY <1>1, <1>2 DEF Mint, Goto, Fields, CallInv, cache, store
<1> QED BY <1>3, <1>4, <1>5 DEF Mint, CacheInv, OneDecodedCopy, cache, store

LEMMA DropViewsKeeps ==
    ASSUME NEW r \in Readers PROVE CacheInv /\ DropViews(r) => CacheInv'
<1> SUFFICES ASSUME CacheInv, DropViews(r) PROVE CacheInv'
  OBVIOUS
<1>1. r \in Threads
  BY DEF Threads
<1>2. Fields /\ StoreInv /\ CallInv
  BY DEF CacheInv
<1>3. Fields'
  BY <1>1, <1>2 DEF Fields, DropViews, store
<1>4. StoreInv'
  BY StoreAlone DEF DropViews
<1>5. CallInv'
  BY <1>1, <1>2 DEF DropViews, Fields, CallInv, cache, store
<1>6. OneDecodedCopy'
  BY <1>1, <1>2 DEF CacheInv, DropViews, Fields, OneDecodedCopy
<1> QED BY <1>3, <1>4, <1>5, <1>6 DEF DropViews, CacheInv, cache, store

LEMMA DropSnapshotKeeps ==
    ASSUME NEW r \in Readers PROVE CacheInv /\ DropSnapshot(r) => CacheInv'
<1> SUFFICES ASSUME CacheInv, DropSnapshot(r) PROVE CacheInv'
  OBVIOUS
<1>1. r \in Threads /\ r # Writer
  BY ThreadsApart DEF Threads
<1>2. Fields /\ StoreInv /\ CallInv
  BY DEF CacheInv
<1>3. Fields'
  BY <1>1, <1>2 DEF Fields, DropSnapshot, Goto, Labels, store
<1>4. StoreInv'
  BY <1>1, <1>2, StoreAlone DEF DropSnapshot, Goto, Fields
<1>5. CallInv'
  BY <1>1, <1>2 DEF DropSnapshot, Goto, Fields, CallInv, cache, store
<1>6. OneDecodedCopy'
  BY <1>1, <1>2 DEF CacheInv, DropSnapshot, Fields, OneDecodedCopy
<1> QED BY <1>3, <1>4, <1>5, <1>6 DEF DropSnapshot, CacheInv, cache, store

\* The touch: the handle keeps the slot's Arc.
LEMMA ViewKeeps ==
    ASSUME NEW t \in Threads, NEW f \in Files
    PROVE  CacheInv /\ View(t, f) => CacheInv'
<1> SUFFICES ASSUME CacheInv, View(t, f) PROVE CacheInv'
  OBVIOUS
<1>1. Fields /\ StoreInv /\ CallInv /\ f \in Nat
  BY DEF CacheInv, Files
<1>2. Fields'
  BY <1>1 DEF Fields, View, Goto, Labels, store
<1>3. StoreInv'
  BY <1>1, ThreadsApart, StoreAlone DEF View, Goto, Fields
<1>4. CallInv'
  BY <1>1 DEF View, Goto, Fields, CallInv, cache, store
<1> QED BY <1>2, <1>3, <1>4 DEF View, CacheInv, OneDecodedCopy, cache, store

LEMMA LockKeeps == ASSUME NEW t \in Threads PROVE CacheInv /\ Lock(t) => CacheInv'
<1> SUFFICES ASSUME CacheInv, Lock(t) PROVE CacheInv'
  OBVIOUS
<1> DEFINE f == goal[t]
<1>1. /\ Fields /\ StoreInv /\ CallInv
      /\ pc[t] = "locking" /\ f \in snap[t] /\ f \in Files /\ f \in Nat
      /\ holder[f] = None /\ t # None
  <2>1. Fields /\ StoreInv /\ CallInv /\ pc[t] = "locking" /\ holder[f] = None
    BY DEF CacheInv, Lock
  <2>2. f \in snap[t] /\ f \in 1 .. written /\ written \in 0 .. Len(Sizes)
    BY <2>1 DEF CallInv, StoreInv
  <2> QED BY <2>1, <2>2, SizeType, ThreadsApart DEF Files
<1> HIDE DEF f
<1>2. CASE f \in cached /\ pins' = [pins EXCEPT ![t] = @ \union {f}]
           /\ Done(t, "ready") /\ UNCHANGED holder
  <2>1. Fields'
    BY <1>1, <1>2 DEF Fields, Lock, Done, Goto, Labels, store
  <2>2. StoreInv'
    BY <1>1, <1>2, ThreadsApart, StoreAlone DEF Lock, Done, Goto, Fields
  <2>3. CallInv'
    BY <1>1, <1>2 DEF Lock, Done, Goto, Fields, CallInv, cache, store
  <2>4. OneDecodedCopy'
    BY <1>1, <1>2 DEF Lock, CacheInv, Fields, OneDecodedCopy
  <2> QED BY <2>1, <2>2, <2>3, <2>4 DEF Lock, CacheInv, cache, store
<1>3. CASE f \notin cached /\ holder' = [holder EXCEPT ![f] = t]
           /\ Goto(t, "reading") /\ UNCHANGED <<goal, pins>>
  <2>1. Fields'
    BY <1>1, <1>3 DEF Fields, Lock, Goto, Labels, store
  <2>2. StoreInv'
    BY <1>1, <1>3, ThreadsApart, StoreAlone DEF Lock, Goto, Fields
  <2>3. CallInv'
    <3>1. /\ pc' = [pc EXCEPT ![t] = "reading"] /\ holder' = [holder EXCEPT ![f] = t]
          /\ UNCHANGED <<written, evictor, goal, snap, pins>> /\ goal[t] = f
      BY <1>3 DEF Lock, Goto, cache, store, f
    <3>2. ASSUME NEW u \in Threads, pc[u] = "reading"
          PROVE  goal[u] # f /\ u # t
      BY <1>1, <3>2, ThreadsApart DEF CallInv
    <3>3. \A g \in Files : holder'[g] # None =>
             pc'[holder'[g]] = "reading" /\ goal'[holder'[g]] = g
      <4> SUFFICES ASSUME NEW g \in Files, holder'[g] # None
                   PROVE  pc'[holder'[g]] = "reading" /\ goal'[holder'[g]] = g
        OBVIOUS
      <4>1. CASE g = f
        BY <1>1, <3>1, <4>1 DEF Fields
      <4>2. CASE g # f
        <5>1. holder'[g] = holder[g] /\ holder[g] \in Threads
          BY <1>1, <3>1, <4>2 DEF Fields
        <5>2. pc[holder[g]] = "reading" /\ goal[holder[g]] = g
          BY <1>1, <5>1 DEF CallInv
        <5> QED BY <1>1, <3>1, <5>1, <5>2 DEF Fields
      <4> QED BY <4>1, <4>2
    <3>4. evictor' # None => evictor' \in Threads /\ pc'[evictor'] = "evicting"
      BY <1>1, <3>1 DEF CallInv, Fields
    <3>5. ASSUME NEW u \in Threads
          PROVE  /\ pins'[u] \subseteq snap'[u]
                 /\ snap'[u] \subseteq 1 .. written'
                 /\ pc'[u] = "idle" => pins'[u] = {}
                 /\ pc'[u] \in {"locking", "reading"} => goal'[u] \in snap'[u]
                 /\ pc'[u] = "counting" => goal'[u] \in 1 .. written'
                 /\ pc'[u] = "reading" => holder'[goal'[u]] = u
                 /\ pc'[u] = "evicting" => evictor' = u
      <4>1. CASE u = t
        BY <1>1, <3>1, <4>1 DEF CallInv, Fields
      <4>2. CASE u # t
        <5>1. pc'[u] = pc[u]
          BY <1>1, <3>1, <4>2 DEF Fields
        <5>2. pc[u] = "reading" => holder'[goal[u]] = holder[goal[u]]
          BY <1>1, <3>1, <3>2 DEF Fields
        <5> QED BY <1>1, <3>1, <5>1, <5>2 DEF CallInv
      <4> QED BY <4>1, <4>2
    <3> QED BY <3>3, <3>4, <3>5 DEF CallInv
  <2>4. OneDecodedCopy'
    BY <1>3 DEF Lock, CacheInv, OneDecodedCopy
  <2> QED BY <2>1, <2>2, <2>3, <2>4 DEF Lock, CacheInv, cache, store
<1> QED BY <1>2, <1>3 DEF Lock, f

\* The fault is over: the slot is decoded and the thread holds the segment.
LEMMA DecodeKeeps == ASSUME NEW t \in Threads PROVE CacheInv /\ Decode(t) => CacheInv'
<1> SUFFICES ASSUME CacheInv, Decode(t) PROVE CacheInv'
  OBVIOUS
<1> DEFINE f == goal[t]
<1>1. /\ Fields /\ StoreInv /\ CallInv
      /\ pc[t] = "reading" /\ f \in snap[t] /\ f \in 1 .. written /\ f \in Files
      /\ holder[f] = t /\ t # None
  <2>1. Fields /\ StoreInv /\ CallInv /\ pc[t] = "reading"
    BY DEF CacheInv, Decode
  <2>2. /\ f \in snap[t] /\ f \in 1 .. written /\ written \in 0 .. Len(Sizes)
        /\ holder[f] = t
    BY <2>1 DEF CallInv, StoreInv
  <2> QED BY <2>1, <2>2, SizeType, ThreadsApart DEF Files
<1>2. /\ cached' = cached \union {f} /\ pins' = [pins EXCEPT ![t] = @ \union {f}]
      /\ holder' = [holder EXCEPT ![f] = None]
      /\ pc' = [pc EXCEPT ![t] = "counting"] /\ goal[t] = f
      /\ UNCHANGED <<store, cache, goal, snap>>
  BY DEF Decode, Goto
<1> HIDE DEF f
<1>3. Fields'
  BY <1>1, <1>2 DEF Fields, Labels, store
<1>4. StoreInv'
  BY <1>1, <1>2, StoreAlone DEF Fields
<1>5. CallInv'
  <2>1. \A g \in Files : holder'[g] # None =>
             pc'[holder'[g]] = "reading" /\ goal'[holder'[g]] = g
    <3> SUFFICES ASSUME NEW g \in Files, holder'[g] # None
                 PROVE  pc'[holder'[g]] = "reading" /\ goal'[holder'[g]] = g
      OBVIOUS
    <3>1. g # f /\ holder'[g] = holder[g] /\ holder[g] \in Threads
      BY <1>1, <1>2 DEF Fields
    <3>2. pc[holder[g]] = "reading" /\ goal[holder[g]] = g
      BY <3>1 , <1>1 DEF CallInv
    <3>3. holder[g] # t
      BY <1>2, <3>1, <3>2
    <3> QED BY <1>1, <1>2, <3>1, <3>2, <3>3 DEF Fields
  <2>2. evictor' # None => evictor' \in Threads /\ pc'[evictor'] = "evicting"
    BY <1>1, <1>2 DEF CallInv, Fields, cache
  <2>3. ASSUME NEW u \in Threads
        PROVE  /\ pins'[u] \subseteq snap'[u]
               /\ snap'[u] \subseteq 1 .. written'
               /\ pc'[u] = "idle" => pins'[u] = {}
               /\ pc'[u] \in {"locking", "reading"} => goal'[u] \in snap'[u]
               /\ pc'[u] = "counting" => goal'[u] \in 1 .. written'
               /\ pc'[u] = "reading" => holder'[goal'[u]] = u
               /\ pc'[u] = "evicting" => evictor' = u
    <3>1. CASE u = t
      BY <1>1, <1>2, <3>1 DEF CallInv, Fields, store
    <3>2. CASE u # t
      <4>1. pc'[u] = pc[u] /\ pins'[u] = pins[u]
        BY <1>1, <1>2, <3>2 DEF Fields
      <4>2. pc[u] = "reading" => goal[u] # f
        BY <1>1, <3>2 DEF CallInv
      <4>3. pc[u] = "reading" => holder'[goal[u]] = holder[goal[u]]
        BY <1>1, <1>2, <4>2 DEF Fields
      <4> QED BY <1>1, <1>2, <4>1, <4>3 DEF CallInv, store, cache
    <3> QED BY <3>1, <3>2
  <2> QED BY <2>1, <2>2, <2>3 DEF CallInv
<1>6. OneDecodedCopy'
  BY <1>1, <1>2 DEF CacheInv, Fields, OneDecodedCopy
<1> QED BY <1>1, <1>2, <1>3, <1>4, <1>5, <1>6 DEF CacheInv, store, cache

\* The fault failed: the guard's drop frees the slot.
LEMMA NotFoundKeeps == ASSUME NEW t \in Threads PROVE CacheInv /\ NotFound(t) => CacheInv'
<1> SUFFICES ASSUME CacheInv, NotFound(t) PROVE CacheInv'
  OBVIOUS
<1> DEFINE f == goal[t]
<1>1. /\ Fields /\ StoreInv /\ CallInv
      /\ pc[t] = "reading" /\ f \in Files /\ holder[f] = t /\ t # None
  <2>1. Fields /\ StoreInv /\ CallInv /\ pc[t] = "reading"
    BY DEF CacheInv, NotFound
  <2>2. f \in 1 .. written /\ written \in 0 .. Len(Sizes) /\ holder[f] = t
    BY <2>1 DEF CallInv, StoreInv
  <2> QED BY <2>1, <2>2, SizeType, ThreadsApart DEF Files
<1>2. /\ holder' = [holder EXCEPT ![f] = None]
      /\ pc' = [pc EXCEPT ![t] = "failed"] /\ goal' = [goal EXCEPT ![t] = 0]
      /\ goal[t] = f
      /\ UNCHANGED <<store, cached, cache, snap, pins>>
  BY DEF NotFound, Done, Goto
<1> HIDE DEF f
<1>3. Fields'
  BY <1>1, <1>2 DEF Fields, Labels, store
<1>4. StoreInv'
  BY <1>1, <1>2, StoreAlone DEF Fields
<1>5. CallInv'
  <2>1. \A g \in Files : holder'[g] # None =>
             pc'[holder'[g]] = "reading" /\ goal'[holder'[g]] = g
    <3> SUFFICES ASSUME NEW g \in Files, holder'[g] # None
                 PROVE  pc'[holder'[g]] = "reading" /\ goal'[holder'[g]] = g
      OBVIOUS
    <3>1. g # f /\ holder'[g] = holder[g] /\ holder[g] \in Threads
      BY <1>1, <1>2 DEF Fields
    <3>2. pc[holder[g]] = "reading" /\ goal[holder[g]] = g
      BY <3>1 , <1>1 DEF CallInv
    <3>3. holder[g] # t
      BY <1>2, <3>1, <3>2
    <3> QED BY <1>1, <1>2, <3>1, <3>2, <3>3 DEF Fields
  <2>2. evictor' # None => evictor' \in Threads /\ pc'[evictor'] = "evicting"
    BY <1>1, <1>2 DEF CallInv, Fields, cache
  <2>3. ASSUME NEW u \in Threads
        PROVE  /\ pins'[u] \subseteq snap'[u]
               /\ snap'[u] \subseteq 1 .. written'
               /\ pc'[u] = "idle" => pins'[u] = {}
               /\ pc'[u] \in {"locking", "reading"} => goal'[u] \in snap'[u]
               /\ pc'[u] = "counting" => goal'[u] \in 1 .. written'
               /\ pc'[u] = "reading" => holder'[goal'[u]] = u
               /\ pc'[u] = "evicting" => evictor' = u
    <3>1. CASE u = t
      BY <1>1, <1>2, <3>1 DEF CallInv, Fields, store
    <3>2. CASE u # t
      <4>1. pc'[u] = pc[u] /\ goal'[u] = goal[u]
        BY <1>1, <1>2, <3>2 DEF Fields
      <4>2. pc[u] = "reading" => goal[u] # f
        BY <1>1, <3>2 DEF CallInv
      <4>3. pc[u] = "reading" => holder'[goal[u]] = holder[goal[u]]
        BY <1>1, <1>2, <4>2 DEF Fields
      <4> QED BY <1>1, <1>2, <4>1, <4>3 DEF CallInv, store, cache
    <3> QED BY <3>1, <3>2
  <2> QED BY <2>1, <2>2, <2>3 DEF CallInv
<1> QED BY <1>2, <1>3, <1>4, <1>5 DEF CacheInv, OneDecodedCopy, store, cache

\* SegmentCache::admit: the cache's lock, taken when it is free.
LEMMA CountKeeps == ASSUME NEW t \in Threads PROVE CacheInv /\ Count(t) => CacheInv'
<1> SUFFICES ASSUME CacheInv, Count(t) PROVE CacheInv'
  OBVIOUS
<1>1. /\ Fields /\ StoreInv /\ CallInv
      /\ pc[t] = "counting" /\ evictor = None /\ t # None
      /\ UNCHANGED <<store, cached, holder, recency, snap, pins>>
      /\ resident' = resident + Sizes[goal[t]]
  BY ThreadsApart DEF CacheInv, Count
<1>2. resident' \in Nat
  <2>1. goal[t] \in 1 .. written /\ written \in 0 .. Len(Sizes)
    BY <1>1 DEF CallInv, StoreInv
  <2>2. goal[t] \in 1 .. Len(Sizes)
    BY <2>1, SizeType
  <2> QED BY <1>1, <2>2, SizeType DEF CacheInv
<1>3. /\ pc' = [pc EXCEPT ![t] = pc'[t]]
      /\ pc'[t] \in {"building", "ready", "evicting"}
      /\ goal' \in [Threads -> Nat] /\ \A u \in Threads : u # t => goal'[u] = goal[u]
      /\ pc'[t] = "evicting" => evictor' = t
      /\ pc'[t] # "evicting" => evictor' = None
  <2>1. CASE Done(t, Admitted(t)) /\ UNCHANGED <<evictor, queue>>
    BY <1>1, <2>1 DEF Done, Goto, Admitted, Fields
  <2>2. CASE evictor' = t /\ Goto(t, "evicting") /\ UNCHANGED goal
    BY <1>1, <2>2 DEF Goto, Fields
  <2> QED BY <2>1, <2>2 DEF Count
<1>4. \A u \in Threads : u # t => pc'[u] = pc[u]
  BY <1>1, <1>3 DEF Fields
<1>5. Fields'
  <2>1. pc' \in [Threads -> Labels]
    BY <1>1, <1>3 DEF Fields, Labels
  <2> QED BY <1>1, <1>3, <2>1 DEF Fields, store
<1>6. StoreInv'
  BY <1>1, <1>3, <1>4, ThreadsApart, StoreAlone
<1>7. CallInv'
  <2>1. \A g \in Files : holder'[g] # None =>
             pc'[holder'[g]] = "reading" /\ goal'[holder'[g]] = g
    <3> SUFFICES ASSUME NEW g \in Files, holder[g] # None
                 PROVE  pc'[holder[g]] = "reading" /\ goal'[holder[g]] = g
      BY <1>1
    <3>1. holder[g] \in Threads
      BY <1>1 DEF Fields
    <3>2. pc[holder[g]] = "reading" /\ goal[holder[g]] = g
      BY <1>1 DEF CallInv
    <3> QED BY <1>1, <1>3, <1>4, <3>1, <3>2
  <2>2. evictor' # None => evictor' \in Threads /\ pc'[evictor'] = "evicting"
    BY <1>1, <1>3
  <2>3. ASSUME NEW u \in Threads
        PROVE  /\ pins'[u] \subseteq snap'[u]
               /\ snap'[u] \subseteq 1 .. written'
               /\ pc'[u] = "idle" => pins'[u] = {}
               /\ pc'[u] \in {"locking", "reading"} => goal'[u] \in snap'[u]
               /\ pc'[u] = "counting" => goal'[u] \in 1 .. written'
               /\ pc'[u] = "reading" => holder'[goal'[u]] = u
               /\ pc'[u] = "evicting" => evictor' = u
    <3>1. CASE u = t
      BY <1>1, <1>3, <3>1 DEF CallInv, store
    <3>2. CASE u # t
      <4>1. pc[u] # "evicting"
        BY <1>1, ThreadsApart DEF CallInv
      <4> QED BY <1>1, <1>3, <1>4, <3>2, <4>1 DEF CallInv, store
    <3> QED BY <3>1, <3>2
  <2> QED BY <2>1, <2>2, <2>3 DEF CallInv
<1> QED BY <1>1, <1>2, <1>5, <1>6, <1>7 DEF CacheInv, OneDecodedCopy, store

\* SegmentSlot::evict: what is pinned stays.
LEMMA TryEvictKeeps == ASSUME NEW t \in Threads PROVE CacheInv /\ TryEvict(t) => CacheInv'
<1> SUFFICES ASSUME CacheInv, TryEvict(t) PROVE CacheInv'
  OBVIOUS
<1> DEFINE f == Head(queue)
<1>1. /\ Fields /\ StoreInv /\ CallInv
      /\ UNCHANGED <<store, holder, evictor, pc, goal, snap, pins>>
      /\ \/ /\ Evictable(f) /\ cached' = cached \ {f}
            /\ resident' = Max({resident - Sizes[f], 0})
         \/ UNCHANGED <<cached, resident>>
  BY DEF CacheInv, TryEvict
<1> HIDE DEF f
<1>2. Fields' /\ StoreInv' /\ CallInv'
  <2>1. Fields'
    BY <1>1 DEF Fields, store
  <2>2. StoreInv'
    BY <1>1, StoreAlone
  <2>3. CallInv'
    BY <1>1 DEF CallInv, store
  <2> QED BY <2>1, <2>2, <2>3
<1>3. CASE Evictable(f) /\ cached' = cached \ {f}
           /\ resident' = Max({resident - Sizes[f], 0})
  <2>1. OneDecodedCopy'
    BY <1>1, <1>3 DEF CacheInv, OneDecodedCopy, Evictable, Pinned
  <2>2. resident' \in Nat
    <3>1. f \in 1 .. written /\ written \in 0 .. Len(Sizes)
      BY <1>1, <1>3 DEF CacheInv, StoreInv, Evictable
    <3>2. f \in 1 .. Len(Sizes)
      BY <3>1, SizeType
    <3>3. resident - Sizes[f] \in Int
      BY <3>2, SizeType DEF CacheInv
    <3> QED BY <1>3, <3>3, SaturatingType
  <2> QED BY <1>1, <1>2, <1>3, <2>1, <2>2 DEF CacheInv, store
<1>4. CASE UNCHANGED <<cached, resident>>
  BY <1>1, <1>2, <1>4 DEF CacheInv, OneDecodedCopy, store
<1> QED BY <1>1, <1>3, <1>4

LEMMA LeaveKeeps == ASSUME NEW t \in Threads PROVE CacheInv /\ Leave(t) => CacheInv'
<1> SUFFICES ASSUME CacheInv, Leave(t) PROVE CacheInv'
  OBVIOUS
<1>1. /\ Fields /\ StoreInv /\ CallInv
      /\ pc[t] = "evicting" /\ evictor = t /\ evictor' = None
      /\ UNCHANGED <<store, cached, holder, resident, snap, pins>>
      /\ pc' = [pc EXCEPT ![t] = Admitted(t)] /\ goal' = [goal EXCEPT ![t] = 0]
      /\ Admitted(t) \in {"building", "ready"}
  BY DEF CacheInv, CallInv, Leave, Done, Goto, Admitted
<1>2. Fields'
  BY <1>1 DEF Fields, Labels, store
<1>3. StoreInv'
  BY <1>1, ThreadsApart, StoreAlone DEF Fields
<1>4. CallInv'
  <2>1. \A g \in Files : holder'[g] # None =>
             pc'[holder'[g]] = "reading" /\ goal'[holder'[g]] = g
    <3> SUFFICES ASSUME NEW g \in Files, holder[g] # None
                 PROVE  pc'[holder[g]] = "reading" /\ goal'[holder[g]] = g
      BY <1>1
    <3>1. holder[g] \in Threads
      BY <1>1 DEF Fields
    <3>2. pc[holder[g]] = "reading" /\ goal[holder[g]] = g
      BY <1>1 DEF CallInv
    <3> QED BY <1>1, <3>1, <3>2 DEF Fields
  <2>2. ASSUME NEW u \in Threads
        PROVE  /\ pins'[u] \subseteq snap'[u]
               /\ snap'[u] \subseteq 1 .. written'
               /\ pc'[u] = "idle" => pins'[u] = {}
               /\ pc'[u] \in {"locking", "reading"} => goal'[u] \in snap'[u]
               /\ pc'[u] = "counting" => goal'[u] \in 1 .. written'
               /\ pc'[u] = "reading" => holder'[goal'[u]] = u
               /\ pc'[u] = "evicting" => evictor' = u
    <3>1. CASE u = t
      BY <1>1, <3>1 DEF CallInv, Fields, store
    <3>2. CASE u # t
      <4>1. pc'[u] = pc[u] /\ goal'[u] = goal[u] /\ pc[u] # "evicting"
        BY <1>1, <3>2 DEF Fields, CallInv
      <4> QED BY <1>1, <4>1 DEF CallInv, store
    <3> QED BY <3>1, <3>2
  <2> QED BY <1>1, <2>1, <2>2 DEF CallInv
<1> QED BY <1>1, <1>2, <1>3, <1>4 DEF CacheInv, OneDecodedCopy, store

----------------------------------------------------------------------------
\* The writer.

\* What its steps do to a call's facts when only its own place changes.
LEMMA WriterMoves ==
    ASSUME CacheInv, NEW label \in Labels, pc[Writer] \notin {"reading", "evicting"},
           label \notin {"locking", "reading", "counting", "evicting"},
           label = "idle" => pins[Writer] = {},
           pc' = [pc EXCEPT ![Writer] = label],
           UNCHANGED <<holder, evictor, goal, snap, pins>>,
           written \in Nat, written' \in Nat, written <= written'
    PROVE  CallInv'
<1>1. Fields /\ CallInv /\ Writer \in Threads
  BY ThreadsApart DEF CacheInv
<1>2. \A g \in Files : holder'[g] # None =>
             pc'[holder'[g]] = "reading" /\ goal'[holder'[g]] = g
  BY <1>1 DEF CallInv, Fields
<1>3. evictor' # None => evictor' \in Threads /\ pc'[evictor'] = "evicting"
  BY <1>1 DEF CallInv, Fields
<1>4. \A i \in 1 .. written : i \in 1 .. written'
  OBVIOUS
<1>5. ASSUME NEW u \in Threads
      PROVE  /\ pins'[u] \subseteq snap'[u]
             /\ snap'[u] \subseteq 1 .. written'
             /\ pc'[u] = "idle" => pins'[u] = {}
             /\ pc'[u] \in {"locking", "reading"} => goal'[u] \in snap'[u]
             /\ pc'[u] = "counting" => goal'[u] \in 1 .. written'
             /\ pc'[u] = "reading" => holder'[goal'[u]] = u
             /\ pc'[u] = "evicting" => evictor' = u
  <2>1. CASE u = Writer
    BY <1>1, <1>4, <2>1 DEF CallInv, Fields
  <2>2. CASE u # Writer
    <3>1. pc'[u] = pc[u]
      BY <1>1, <2>2 DEF Fields
    <3> QED BY <1>1, <1>4, <3>1 DEF CallInv
  <2> QED BY <2>1, <2>2
<1> QED BY <1>2, <1>3, <1>5 DEF CallInv

\* Store::flush, the file and the manifest.
LEMMA FlushKeeps == CacheInv /\ Flush => CacheInv'
<1> SUFFICES ASSUME CacheInv, Flush PROVE CacheInv'
  OBVIOUS
<1> DEFINE f == written + 1
<1>1. /\ Fields /\ StoreInv /\ CallInv /\ Writer \in Threads
      /\ pc[Writer] = "idle" /\ written \in Nat /\ written < Len(Sizes)
      /\ f \in Nat /\ f \in 0 .. Len(Sizes) /\ written <= f
      /\ files' = files \union {f} /\ written' = f
      /\ install' = [Nothing EXCEPT !.segments = {f}, !.todo = {f}]
      /\ pc' = [pc EXCEPT ![Writer] = "building"]
      /\ UNCHANGED <<live, history, cached, holder, recency, cache, goal, snap, pins>>
  BY SizeType, ThreadsApart DEF CacheInv, StoreInv, Flush, Goto
<1>2. 1 .. f = (1 .. written) \union {f}
  BY <1>1
<1>3. install' = [compacting |-> FALSE, segments |-> {f}, history |-> {}, todo |-> {f}]
  BY <1>1 DEF Nothing
<1> HIDE DEF f
<1>4. Fields'
  <2>1. pc' \in [Threads -> Labels]
    BY <1>1 DEF Fields, Labels
  <2>2. install' \in [compacting : BOOLEAN, segments : SUBSET Nat,
                      history : SUBSET Nat, todo : SUBSET Nat]
    <3>1. {f} \in SUBSET Nat /\ {} \in SUBSET Nat /\ FALSE \in BOOLEAN
      BY <1>1
    <3> QED BY <1>3, <3>1
  <2> QED BY <1>1, <2>1, <2>2 DEF Fields
<1>5. StoreInv'
  <2>1. pc'[Writer] = "building"
    BY <1>1 DEF Fields
  <2>2. (Adopting)' = {f} /\ install'.todo = {f}
    BY <1>3 DEF Adopting
  <2>3. live \union history \subseteq files /\ files \subseteq 1 .. written
    BY <1>1 DEF StoreInv, CurrentFaultable
  <2> QED BY <1>1, <1>2, <2>1, <2>2, <2>3 DEF StoreInv, CurrentFaultable
<1>6. CallInv'
  BY <1>1, WriterMoves DEF cache, Labels
<1> QED BY <1>1, <1>2, <1>4, <1>5, <1>6 DEF CacheInv, OneDecodedCopy, cache

\* Store::compact begins: handles on every segment.
LEMMA CompactKeeps == CacheInv /\ Compact => CacheInv'
<1> SUFFICES ASSUME CacheInv, Compact PROVE CacheInv'
  OBVIOUS
<1>1. /\ Fields /\ StoreInv /\ CallInv /\ Writer \in Threads
      /\ pc[Writer] = "idle"
      /\ snap' = [snap EXCEPT ![Writer] = live]
      /\ pc' = [pc EXCEPT ![Writer] = "ready"]
      /\ UNCHANGED <<store, cached, holder, recency, cache, goal, pins>>
  BY ThreadsApart DEF CacheInv, Compact, Goto
<1>2. /\ live \subseteq 1 .. written /\ live \subseteq Nat
  <2>1. live \subseteq files /\ files \subseteq 1 .. written
    BY <1>1 DEF StoreInv, CurrentFaultable
  <2> QED BY <2>1
<1>3. Fields'
  BY <1>1, <1>2 DEF Fields, Labels, store
<1>4. StoreInv'
  BY <1>1, StoreAlone DEF Fields
<1>5. CallInv'
  <2>1. UNCHANGED <<holder, evictor, goal, pins, written>>
    BY <1>1 DEF cache, store
  <2>2. /\ pc'[Writer] = "ready" /\ snap'[Writer] = live
        /\ \A t \in Threads \ {Writer} : pc'[t] = pc[t] /\ snap'[t] = snap[t]
        /\ \A t : pc'[t] = pc[t] \/ t = Writer
    BY <1>1 DEF Fields
  <2>3. \A f \in Files : holder'[f] # None => pc'[holder'[f]] = "reading" /\ goal'[holder'[f]] = f
    BY <1>1, <2>1, <2>2 DEF CallInv
  <2>4. evictor' # None => evictor' \in Threads /\ pc'[evictor'] = "evicting"
    BY <1>1, <2>1, <2>2 DEF CallInv
  <2>5. pins[Writer] = {}
    BY <1>1 DEF CallInv
  <2>6. ASSUME NEW t \in Threads
        PROVE  /\ pins'[t] \subseteq snap'[t] /\ snap'[t] \subseteq 1 .. written'
               /\ pc'[t] = "idle" => pins'[t] = {}
               /\ pc'[t] \in {"locking", "reading"} => goal'[t] \in snap'[t]
               /\ pc'[t] = "counting" => goal'[t] \in 1 .. written'
               /\ pc'[t] = "reading" => holder'[goal'[t]] = t
               /\ pc'[t] = "evicting" => evictor' = t
    <3>1. CASE t = Writer
      BY <1>2, <2>1, <2>2, <2>5, <3>1
    <3>2. CASE t # Writer
      BY <1>1, <2>1, <2>2, <3>2 DEF CallInv
    <3> QED BY <3>1, <3>2
  <2> QED BY <2>3, <2>4, <2>6 DEF CallInv
<1> QED BY <1>1, <1>3, <1>4, <1>5 DEF CacheInv, OneDecodedCopy, cache, store

\* The next generation is numbered on from the last file.
LEMMA CommitKeeps == CacheInv /\ Commit => CacheInv'
<1> SUFFICES ASSUME CacheInv, Commit PROVE CacheInv'
  OBVIOUS
<1>1. /\ Fields /\ StoreInv /\ CallInv /\ Writer \in Threads
      /\ pc[Writer] = "ready"
      /\ written \in Nat /\ Len(Sizes) \in Nat
      /\ pc' = [pc EXCEPT ![Writer] = "building"]
      /\ UNCHANGED <<live, history, cached, holder, recency, cache, goal, snap, pins>>
  BY SizeType, ThreadsApart DEF CacheInv, StoreInv, Commit, Goto
<1>2. PICK segments \in SUBSET (written + 1 .. Len(Sizes)),
           dead \in SUBSET (written + 1 .. Len(Sizes)) :
        /\ segments \union dead = written + 1 .. written + Cardinality(segments \union dead)
        /\ segments \union dead # {}
        /\ files' = files \union segments \union dead
        /\ written' = Max(segments \union dead)
        /\ install' = [compacting |-> TRUE, segments |-> segments, history |-> dead,
                       todo |-> segments \union dead]
  BY DEF Commit
<1> DEFINE S == segments \union dead
<1>3. written' \in written + 1 .. Len(Sizes) /\ S = written + 1 .. written'
  <2>1. S \in SUBSET (written + 1 .. Len(Sizes))
    OBVIOUS
  <2> QED BY <1>1, <1>2, <2>1, NextNumbers
<1>4. /\ written' \in Nat /\ written <= written' /\ written' \in 0 .. Len(Sizes)
      /\ 1 .. written' = (1 .. written) \union S
  BY <1>1, <1>3
<1>5. Fields'
  <2>1. pc' \in [Threads -> Labels]
    BY <1>1 DEF Fields, Labels
  <2>2. /\ segments \in SUBSET Nat /\ dead \in SUBSET Nat /\ S \in SUBSET Nat
    BY <1>1, <1>2
  <2>3. install' \in [compacting : BOOLEAN, segments : SUBSET Nat,
                      history : SUBSET Nat, todo : SUBSET Nat]
    BY <1>2, <2>2
  <2> QED BY <1>1, <2>1, <2>3 DEF Fields
<1>6. StoreInv'
  <2>1. pc'[Writer] = "building"
    BY <1>1 DEF Fields
  <2>2. (Adopting)' = S /\ install'.todo = S
    BY <1>2 DEF Adopting
  <2>3. live \union history \subseteq files /\ files \subseteq 1 .. written
    BY <1>1 DEF StoreInv, CurrentFaultable
  <2>4. files' = files \union S
    BY <1>2
  <2> HIDE DEF S
  <2> QED BY <1>1, <1>4, <2>1, <2>2, <2>3, <2>4 DEF StoreInv, CurrentFaultable
<1>7. CallInv'
  BY <1>1, <1>4, WriterMoves DEF cache, Labels
<1> QED BY <1>1, <1>4, <1>5, <1>6, <1>7 DEF CacheInv, OneDecodedCopy, cache

\* A slot is built decoded, and nobody holds its segment yet.
LEMMA BuildKeeps == CacheInv /\ Build => CacheInv'
<1> SUFFICES ASSUME CacheInv, Build PROVE CacheInv'
  OBVIOUS
<1> DEFINE f == Min(install.todo)
<1>1. /\ Fields /\ StoreInv /\ CallInv /\ Writer \in Threads
      /\ pc[Writer] = "building" /\ install.todo # {}
      /\ install' = [install EXCEPT !.todo = @ \ {f}]
      /\ cached' = cached \union {f}
      /\ goal' = [goal EXCEPT ![Writer] = f]
      /\ pc' = [pc EXCEPT ![Writer] = "counting"]
      /\ UNCHANGED <<files, written, live, history, holder, cache, snap, pins>>
  BY ThreadsApart DEF CacheInv, Build, Goto
<1>2. f \in install.todo
  BY <1>1, MinIsMember DEF Fields
<1> HIDE DEF f
<1>3. f \in 1 .. written /\ f \in Nat
  BY <1>1, <1>2 DEF StoreInv, CurrentFaultable
<1>4. /\ install'.segments = install.segments /\ install'.history = install.history
      /\ install'.todo = install.todo \ {f}
      /\ install' \in [compacting : BOOLEAN, segments : SUBSET Nat,
                       history : SUBSET Nat, todo : SUBSET Nat]
  BY <1>1 DEF Fields
<1>5. Fields'
  BY <1>1, <1>3, <1>4 DEF Fields, Labels
<1>6. StoreInv'
  <2>1. pc'[Writer] = "counting" /\ (Adopting)' = Adopting
    BY <1>1, <1>4 DEF Fields, Adopting
  <2> QED BY <1>1, <1>4, <2>1 DEF StoreInv, CurrentFaultable
<1>7. CallInv'
  <2>1. \A g \in Files : holder'[g] # None =>
             pc'[holder'[g]] = "reading" /\ goal'[holder'[g]] = g
    BY <1>1 DEF CallInv, Fields
  <2>2. evictor' # None => evictor' \in Threads /\ pc'[evictor'] = "evicting"
    BY <1>1 DEF CallInv, Fields, cache
  <2>3. ASSUME NEW u \in Threads
        PROVE  /\ pins'[u] \subseteq snap'[u]
               /\ snap'[u] \subseteq 1 .. written'
               /\ pc'[u] = "idle" => pins'[u] = {}
               /\ pc'[u] \in {"locking", "reading"} => goal'[u] \in snap'[u]
               /\ pc'[u] = "counting" => goal'[u] \in 1 .. written'
               /\ pc'[u] = "reading" => holder'[goal'[u]] = u
               /\ pc'[u] = "evicting" => evictor' = u
    <3>1. CASE u = Writer
      BY <1>1, <1>3, <3>1 DEF CallInv, Fields
    <3>2. CASE u # Writer
      <4>1. pc'[u] = pc[u] /\ goal'[u] = goal[u]
        BY <1>1, <3>2 DEF Fields
      <4> QED BY <1>1, <4>1 DEF CallInv, cache
    <3> QED BY <3>1, <3>2
  <2> QED BY <2>1, <2>2, <2>3 DEF CallInv
<1> QED BY <1>1, <1>3, <1>5, <1>6, <1>7 DEF CacheInv, OneDecodedCopy, cache

\* The swap adopts files that are there.
LEMMA AdoptKeeps == CacheInv /\ WriterInv /\ Adopt => CacheInv'
<1> SUFFICES ASSUME CacheInv, WriterInv, Adopt PROVE CacheInv'
  OBVIOUS
<1> DEFINE label == IF install.compacting THEN "cleaning" ELSE "idle"
<1>1. /\ Fields /\ StoreInv /\ CallInv /\ Writer \in Threads
      /\ pc[Writer] = "building" /\ Adopting # {}
      /\ live' = IF install.compacting THEN install.segments ELSE live \union install.segments
      /\ history' = history \union install.history
      /\ install' = Nothing
      /\ pc' = [pc EXCEPT ![Writer] = label]
      /\ UNCHANGED <<files, written, cached, holder, recency, cache, goal, snap, pins>>
  BY ThreadsApart DEF CacheInv, WriterInv, Adopt, Goto
<1>2. /\ label \in Labels
      /\ label \notin {"locking", "reading", "counting", "evicting"}
      /\ label = "idle" => pins[Writer] = {}
  BY <1>1 DEF WriterInv, Labels
<1> HIDE DEF label
<1>3. Fields'
  <2>1. Nothing \in [compacting : BOOLEAN, segments : SUBSET Nat,
                     history : SUBSET Nat, todo : SUBSET Nat]
    BY DEF Nothing
  <2> QED BY <1>1, <1>2, <2>1 DEF Fields
<1>4. StoreInv'
  <2>1. (Adopting)' = {} /\ install'.todo = {}
    BY <1>1 DEF Adopting, Nothing
  <2>2. live' \union history' \subseteq files
    BY <1>1 DEF StoreInv, CurrentFaultable, Adopting
  <2> QED BY <1>1, <2>1, <2>2 DEF StoreInv, CurrentFaultable
<1>5. CallInv'
  <2>1. written \in Nat /\ written <= written
    BY <1>1, SizeType DEF StoreInv
  <2> QED BY <1>1, <1>2, <2>1, WriterMoves DEF cache
<1> QED BY <1>1, <1>3, <1>4, <1>5 DEF CacheInv, OneDecodedCopy, cache

\* Nothing is being adopted while the old generations go.
LEMMA RemoveStaleKeeps == CacheInv /\ WriterInv /\ RemoveStale => CacheInv'
<1> SUFFICES ASSUME CacheInv, WriterInv, RemoveStale PROVE CacheInv'
  OBVIOUS
<1>1. /\ Fields /\ StoreInv /\ CallInv /\ Adopting = {}
      /\ UNCHANGED <<written, live, history, install, cached, holder, cache, pc, goal,
                     snap, pins>>
  BY DEF CacheInv, WriterInv, RemoveStale
<1>2. PICK f \in Stale : files' = files \ {f}
  BY DEF RemoveStale
<1>3. Fields'
  BY <1>1 DEF Fields
<1>4. StoreInv'
  BY <1>1, <1>2 DEF StoreInv, CurrentFaultable, Stale, Adopting
<1>5. CallInv'
  BY <1>1 DEF CallInv, cache
<1> QED BY <1>1, <1>3, <1>4, <1>5 DEF CacheInv, OneDecodedCopy, cache

LEMMA CompactedKeeps == CacheInv /\ Compacted => CacheInv'
<1> SUFFICES ASSUME CacheInv, Compacted PROVE CacheInv'
  OBVIOUS
<1>1. /\ Fields /\ StoreInv /\ CallInv /\ Writer \in Threads
      /\ pc[Writer] = "cleaning"
      /\ snap' = [snap EXCEPT ![Writer] = {}]
      /\ pins' = [pins EXCEPT ![Writer] = {}]
      /\ pc' = [pc EXCEPT ![Writer] = "idle"]
      /\ UNCHANGED <<store, cached, holder, recency, cache, goal>>
  BY ThreadsApart DEF CacheInv, Compacted, Goto
<1>2. Fields'
  BY <1>1 DEF Fields, Labels, store
<1>3. StoreInv'
  BY <1>1, StoreAlone
<1>4. CallInv'
  BY <1>1 DEF Fields, CallInv, cache, store
<1>5. OneDecodedCopy'
  BY <1>1 DEF CacheInv, Fields, OneDecodedCopy
<1> QED BY <1>1, <1>2, <1>3, <1>4, <1>5 DEF CacheInv, cache, store

\* Nobody else moves the writer, and of its own steps only the commit of a
\* layout and the swap begin and end an adoption.
LEMMA WriterAlone ==
    ASSUME CacheInv, WriterInv, UNCHANGED store,
           \/ /\ pc'[Writer] = pc[Writer] /\ goal'[Writer] = goal[Writer]
              /\ pins'[Writer] = pins[Writer]
           \/ /\ pc[Writer] \notin {"building", "counting", "evicting"}
              /\ pc'[Writer] # "building"
           \/ /\ pc[Writer] \in {"counting", "evicting"}
              /\ pins'[Writer] = pins[Writer]
              /\ \/ pc'[Writer] = "evicting" /\ goal'[Writer] = goal[Writer]
                 \/ pc'[Writer] = Admitted(Writer)
    PROVE  WriterInv'
<1>1. UNCHANGED install /\ (Adopting)' = Adopting
  BY DEF store, Adopting
<1> QED BY <1>1 DEF WriterInv, Admitted

LEMMA WriterInvStep == CacheInv /\ WriterInv /\ Next => WriterInv'
<1> SUFFICES ASSUME CacheInv, WriterInv, Next PROVE WriterInv'
  OBVIOUS
<1> USE ThreadsApart
<1>1. Fields
  BY DEF CacheInv
<1>2. ASSUME NEW t \in Threads, Step(t) PROVE WriterInv'
  <2>1. CASE Lock(t)
    <3>1. pc[t] = "locking" /\ UNCHANGED store
          /\ \/ pins' = [pins EXCEPT ![t] = @ \union {goal[t]}] /\ Done(t, "ready")
             \/ Goto(t, "reading") /\ UNCHANGED <<goal, pins>>
      BY <2>1 DEF Lock
    <3> QED BY <1>1, <3>1, WriterAlone DEF Fields, Done, Goto
  <2>2. CASE Decode(t)
    BY <1>1, <2>2, WriterAlone DEF Decode, Fields, Goto
  <2>3. CASE NotFound(t)
    BY <1>1, <2>3, WriterAlone DEF NotFound, Fields, Done, Goto
  <2>4. CASE Count(t)
    <3>1. pc[t] = "counting" /\ UNCHANGED <<store, pins>>
          /\ \/ Done(t, Admitted(t))
             \/ Goto(t, "evicting") /\ UNCHANGED goal
      BY <2>4 DEF Count
    <3>2. CASE t = Writer
      BY <1>1, <3>1, <3>2, WriterAlone DEF Fields, Done, Goto
    <3>3. CASE t # Writer
      BY <1>1, <3>1, <3>3, WriterAlone DEF Fields, Done, Goto
    <3> QED BY <3>2, <3>3
  <2>5. CASE TryEvict(t)
    BY <2>5, WriterAlone DEF TryEvict
  <2>6. CASE Leave(t)
    BY <1>1, <2>6, WriterAlone DEF Leave, Fields, Done, Goto
  <2> QED BY <1>2, <2>1, <2>2, <2>3, <2>4, <2>5, <2>6 DEF Step
<1>3. ASSUME NEW r \in Readers,
             Mint(r) \/ DropViews(r) \/ DropSnapshot(r) \/ \E f \in Files : View(r, f)
      PROVE  WriterInv'
  <2>1. r # Writer /\ r \in Threads
    BY DEF Threads
  <2>2. UNCHANGED store
    BY <1>3 DEF Mint, DropViews, DropSnapshot, View
  <2>3. pc'[Writer] = pc[Writer] /\ goal'[Writer] = goal[Writer]
        /\ pins'[Writer] = pins[Writer]
    BY <1>1, <1>3, <2>1 DEF Mint, DropViews, DropSnapshot, View, Goto, Fields
  <2> QED BY <2>2, <2>3, WriterAlone
<1>4. CASE \E f \in Files : View(Writer, f)
  BY <1>1, <1>4, WriterAlone DEF View, Goto, Fields
<1>5. CASE Flush
  <2>1. pc[Writer] = "idle" /\ pc'[Writer] = "building" /\ pins' = pins
        /\ install' = [Nothing EXCEPT !.segments = {written + 1}, !.todo = {written + 1}]
    BY <1>1, <1>5 DEF Flush, Goto, Fields
  <2>2. (Adopting)' # {}
    BY <2>1 DEF Adopting, Nothing
  <2>3. pins[Writer] = {}
    BY <2>1 DEF CacheInv, CallInv
  <2> QED BY <2>1, <2>2, <2>3 DEF WriterInv
<1>6. CASE Compact
  BY <1>1, <1>6, WriterAlone DEF Compact, Goto, Fields
<1>7. CASE Commit
  <2>1. pc'[Writer] = "building"
    BY <1>1, <1>7 DEF Commit, Goto, Fields
  <2>2. (Adopting)' # {} /\ install'.compacting
    BY <1>7 DEF Commit, Adopting
  <2> QED BY <2>1, <2>2 DEF WriterInv
<1>8. CASE Build
  <2>1. /\ pc[Writer] = "building" /\ pc'[Writer] = "counting" /\ install.todo # {}
        /\ goal'[Writer] = Min(install.todo) /\ pins' = pins
        /\ install' = [install EXCEPT !.todo = @ \ {Min(install.todo)}]
    BY <1>1, <1>8 DEF Build, Goto, Fields
  <2>2. Min(install.todo) \in Adopting
    <3>1. install.todo \in SUBSET Nat /\ install.todo \subseteq Adopting
      BY <1>1 DEF Fields, CacheInv, StoreInv
    <3> QED BY <2>1, <3>1, MinIsMember
  <2>3. (Adopting)' = Adopting /\ install'.compacting = install.compacting
    BY <1>1, <2>1 DEF Adopting, Fields
  <2> QED BY <2>1, <2>2, <2>3 DEF WriterInv
<1>9. CASE Adopt
  <2>1. (Adopting)' = {} /\ pc'[Writer] # "building"
    BY <1>1, <1>9 DEF Adopt, Adopting, Nothing, Goto, Fields
  <2> QED BY <2>1 DEF WriterInv
<1>10. CASE RemoveStale
  BY <1>10 DEF RemoveStale, WriterInv, Adopting
<1>11. CASE Compacted
  BY <1>1, <1>11, WriterAlone DEF Compacted, Goto, Fields
<1> QED BY <1>2, <1>3, <1>4, <1>5, <1>6, <1>7, <1>8, <1>9, <1>10, <1>11
        DEF Next, Finishing

LEMMA CacheInvInductive == Spec => [](CacheInv /\ WriterInv)
<1>1. Init => CacheInv /\ WriterInv
  BY CacheInit, ThreadsApart DEF Init, WriterInv, Adopting, Nothing
<1>2. CacheInv /\ WriterInv /\ [Next]_vars => (CacheInv /\ WriterInv)'
  <2> SUFFICES ASSUME CacheInv, WriterInv, [Next]_vars PROVE (CacheInv /\ WriterInv)'
    OBVIOUS
  <2>1. CASE UNCHANGED vars
    <3>1. UNCHANGED <<store, cached, holder, recency, cache, pc, goal, snap, pins>>
      BY <2>1 DEF vars
    <3>2. Fields' /\ StoreInv' /\ CallInv' /\ OneDecodedCopy' /\ WriterInv'
      BY <3>1 DEF CacheInv, Fields, StoreInv, CallInv, OneDecodedCopy, WriterInv,
                  store, cache, CurrentFaultable, Adopting
    <3> QED BY <3>1, <3>2 DEF CacheInv, store, cache
  <2>2. CASE Next
    <3>1. ASSUME NEW t \in Threads, Step(t) PROVE CacheInv'
      BY <3>1, LockKeeps, DecodeKeeps, NotFoundKeeps, CountKeeps, TryEvictKeeps,
         LeaveKeeps DEF Step
    <3>2. ASSUME NEW r \in Readers,
                 Mint(r) \/ DropViews(r) \/ DropSnapshot(r) \/ \E f \in Files : View(r, f)
          PROVE  CacheInv'
      <4>1. r \in Threads
        BY DEF Threads
      <4> QED BY <3>2, <4>1, MintKeeps, DropViewsKeeps, DropSnapshotKeeps, ViewKeeps
    <3>3. ASSUME Flush \/ Compact \/ Finishing PROVE CacheInv'
      BY <3>3, ThreadsApart, FlushKeeps, CompactKeeps, ViewKeeps, CommitKeeps, BuildKeeps,
         AdoptKeeps, RemoveStaleKeeps, CompactedKeeps DEF Finishing
    <3>4. CacheInv'
      BY <2>2, <3>1, <3>2, <3>3 DEF Next
    <3>5. WriterInv'
      BY <2>2, WriterInvStep
    <3> QED BY <3>4, <3>5
  <2> QED BY <2>1, <2>2
<1> QED BY <1>1, <1>2, PTL DEF Spec

----------------------------------------------------------------------------

(* Whoever waits for a lock waits for a thread inside the section it       *)
(* guards: a slot's lock is held exactly by the thread that reads the      *)
(* slot's file and the cache's by the one that evicts, each by one thread  *)
(* at a time, and none holds one outside (SegmentSlot::segment drops the   *)
(* slot's guard before SegmentCache::admit takes the cache's).             *)
THEOREM LocksHeldInPlace ==
    Spec => [](/\ \A f \in Files, t \in Threads :
                     holder[f] = t <=> pc[t] = "reading" /\ goal[t] = f
               /\ \A t \in Threads : evictor = t <=> pc[t] = "evicting")
<1> DEFINE P == /\ \A f \in Files, t \in Threads :
                     holder[f] = t <=> pc[t] = "reading" /\ goal[t] = f
                /\ \A t \in Threads : evictor = t <=> pc[t] = "evicting"
<1>1. CacheInv => P
  BY ThreadsApart DEF CacheInv, CallInv
<1>2. CacheInv /\ WriterInv => P
  BY <1>1
<1> HIDE DEF P
<1>3. Spec => []P
  BY <1>2, CacheInvInductive, PTL
<1> QED BY <1>3 DEF P

(* A segment is in memory at most once, for any number of readers, sizes   *)
(* and budget: eviction never parts a slot from a decoded segment that     *)
(* some thread still holds, so no later view decodes a second copy         *)
(* (SegmentSlot::evict).                                                   *)
THEOREM DecodedOnce == Spec => []OneDecodedCopy
<1>1. CacheInv /\ WriterInv => OneDecodedCopy
  BY DEF CacheInv
<1> QED BY <1>1, CacheInvInductive, PTL

(* Every segment and history segment a snapshot minted now would name has  *)
(* its file: flush and compact write a file before they adopt its slot,    *)
(* and the cleanup behind a compaction removes nothing the layout names,   *)
(* for it runs when nothing is left to adopt (Store::flush, compact).      *)
THEOREM CurrentReadable == Spec => []CurrentFaultable
<1>1. CacheInv /\ WriterInv => CurrentFaultable
  BY DEF CacheInv, StoreInv
<1> QED BY <1>1, CacheInvInductive, PTL

----------------------------------------------------------------------------
\* Sums over finite sets, as Total computes them.

LEMMA Subsets ==
    ASSUME NEW S, IsFiniteSet(S), NEW T \in SUBSET S
    PROVE  /\ IsFiniteSet(T) /\ Cardinality(T) \in Nat
           /\ \A x \in T : Cardinality(T \ {x}) = Cardinality(T) - 1
           /\ Cardinality(T) = 0 <=> T = {}
<1>1. IsFiniteSet(T)
  BY FS_Subset
<1>2. Cardinality(T) \in Nat
  BY <1>1, FS_CardinalityType
<1>3. \A x \in T : Cardinality(T \ {x}) = Cardinality(T) - 1
  BY <1>1, FS_RemoveElement
<1>4. Cardinality(T) = 0 <=> T = {}
  BY <1>1, FS_EmptySet
<1> QED BY <1>1, <1>2, <1>3, <1>4

\* What a subset has if every one smaller by a member has it, all have.
LEMMA SubsetInduction ==
    ASSUME NEW S, IsFiniteSet(S), NEW Q,
           \A T \in SUBSET S : (\A x \in T : T \ {x} \in Q) => T \in Q
    PROVE  SUBSET S \subseteq Q
<1> DEFINE Bad == (SUBSET S) \ Q
           Counts == {Cardinality(T) : T \in Bad}
<1>1. SUFFICES ASSUME Bad # {} PROVE FALSE
  OBVIOUS
<1>2. Counts \in SUBSET Nat /\ Counts # {}
  <2>1. \A T \in Bad : Cardinality(T) \in Nat
    BY Subsets
  <2> QED BY <1>1, <2>1
<1>3. PICK n \in Counts : \A m \in Counts : n <= m
  <2> HIDE DEF Counts
  <2> QED BY <1>2, Least
<1>4. PICK T \in Bad : Cardinality(T) = n
  BY <1>3
<1>5. PICK x \in T : T \ {x} \notin Q
  <2>1. T \in SUBSET S /\ T \notin Q
    BY <1>4
  <2> HIDE DEF Counts
  <2> QED BY <2>1
<1>6. T \ {x} \in Bad
  BY <1>4, <1>5
<1>7. Cardinality(T \ {x}) = n - 1 /\ n \in Nat
  BY <1>2, <1>3, <1>4, <1>5, Subsets
<1>8. Cardinality(T \ {x}) \in Counts
  BY <1>6
<1> HIDE DEF Counts
<1> QED BY <1>3, <1>7, <1>8

Chosen(s) == CHOOSE x \in s : TRUE

\* f is the table of sums the recursion fills over the subsets of S.
Sums(f, w, S) ==
    f = [s \in SUBSET S |-> IF s = {} THEN 0 ELSE w[Chosen(s)] + f[s \ {Chosen(s)}]]

LEMMA TotalIs ==
    ASSUME NEW w, NEW S
    PROVE  Total(w, S) = (CHOOSE f : Sums(f, w, S))[S]
BY DEF Total, MapThenSumSet, MapThenFoldSet, Sums, Chosen

LEMMA ChosenIn == ASSUME NEW s, s # {} PROVE Chosen(s) \in s
BY DEF Chosen

\* The table exists: it is filled for the subsets of up to n members, one
\* size after the other.
LEMMA SumsExist ==
    ASSUME NEW S, IsFiniteSet(S), NEW w
    PROVE  \E f : Sums(f, w, S)
<1> DEFINE Upto(n) == {s \in SUBSET S : Cardinality(s) <= n}
           Body(f, n) == [s \in Upto(n) |-> IF s = {} THEN 0
                                            ELSE w[Chosen(s)] + f[s \ {Chosen(s)}]]
           m == Cardinality(S)
           N == {n \in 0 .. m : \E f : f = Body(f, n)}
<1>1. m \in Nat
  BY Subsets
<1>2. 0 \in N
  <2> DEFINE f == [s \in Upto(0) |-> 0]
  <2>1. \A s \in Upto(0) : s = {}
    <3> TAKE s \in Upto(0)
    <3>1. Cardinality(s) = 0
      BY Subsets
    <3> QED BY <3>1, Subsets
  <2>2. f = Body(f, 0)
    BY <2>1
  <2> HIDE DEF f
  <2>3. \E x : x = Body(x, 0)
    <3> HIDE DEF Upto
    <3> QED BY <2>2
  <2> HIDE DEF Upto
  <2>4. 0 \in 0 .. m
    BY <1>1
  <2> HIDE DEF m
  <2> QED BY <2>3, <2>4
<1>3. ASSUME NEW n \in N, n < m
      PROVE  n + 1 \in N
  <2>1. PICK f : f = Body(f, n)
    OBVIOUS
  <2> DEFINE g == Body(f, n + 1)
  <2>2. n \in Nat /\ n + 1 \in 0 .. m
    BY <1>1, <1>3
  <2>3. ASSUME NEW s \in Upto(n)
        PROVE  s \in Upto(n + 1) /\ g[s] = f[s]
    <3>1. s \in Upto(n + 1)
      BY <2>2, Subsets
    <3>2. f[s] = Body(f, n)[s]
      BY <2>1
    <3> QED BY <3>1, <3>2
  <2>4. ASSUME NEW s \in Upto(n + 1), s # {}
        PROVE  s \ {Chosen(s)} \in Upto(n)
    <3>1. Chosen(s) \in s
      BY <2>4, ChosenIn
    <3>2. Cardinality(s \ {Chosen(s)}) = Cardinality(s) - 1 /\ Cardinality(s) \in Nat
      BY <3>1, Subsets
    <3> QED BY <2>2, <3>2
  <2>5. \A s \in Upto(n + 1) : g[s] = IF s = {} THEN 0
                                      ELSE w[Chosen(s)] + g[s \ {Chosen(s)}]
    <3> TAKE s \in Upto(n + 1)
    <3>1. g[s] = IF s = {} THEN 0 ELSE w[Chosen(s)] + f[s \ {Chosen(s)}]
      OBVIOUS
    <3>2. s # {} => g[s \ {Chosen(s)}] = f[s \ {Chosen(s)}]
      BY <2>3, <2>4
    <3> HIDE DEF g
    <3> QED BY <3>1, <3>2
  <2>6. g = Body(g, n + 1)
    <3>1. g = [s \in Upto(n + 1) |-> g[s]]
      OBVIOUS
    <3> HIDE DEF g, Upto
    <3> QED BY <2>5, <3>1
  <2> HIDE DEF g
  <2>7. \E x : x = Body(x, n + 1)
    BY <2>6
  <2> QED BY <2>2, <2>7
<1>4. N = 0 .. m
  <2>1. N \in SUBSET (0 .. m)
    OBVIOUS
  <2> HIDE DEF N, m
  <2> QED BY <1>1, <1>2, <1>3, <2>1, NatsUpTo
<1>5. PICK f : f = Body(f, m)
  <2>1. m \in N
    <3> HIDE DEF N, m
    <3> QED BY <1>1, <1>4
  <2> QED BY <2>1
<1>6. Upto(m) = SUBSET S
  <2>1. ASSUME NEW s \in SUBSET S PROVE Cardinality(s) <= m
    BY FS_Subset
  <2> QED BY <2>1
<1>7. f = [s \in SUBSET S |-> IF s = {} THEN 0 ELSE w[Chosen(s)] + f[s \ {Chosen(s)}]]
  <2> HIDE DEF Upto, m, N
  <2> QED BY <1>5, <1>6
<1> QED BY <1>7 DEF Sums

LEMMA SumsAgree ==
    ASSUME NEW S, NEW T \in SUBSET S, IsFiniteSet(T), NEW w, NEW v, NEW f, NEW g,
           Sums(f, w, S), Sums(g, v, T), \A x \in T : w[x] = v[x]
    PROVE  f[T] = g[T]
<1> DEFINE Q == {U \in SUBSET T : f[U] = g[U]}
<1>1. ASSUME NEW U \in SUBSET T, \A x \in U : U \ {x} \in Q
      PROVE  U \in Q
  <2>1. /\ f[U] = IF U = {} THEN 0 ELSE w[Chosen(U)] + f[U \ {Chosen(U)}]
        /\ g[U] = IF U = {} THEN 0 ELSE v[Chosen(U)] + g[U \ {Chosen(U)}]
    <3>1. U \in SUBSET S
      OBVIOUS
    <3>2. f[U] = IF U = {} THEN 0 ELSE w[Chosen(U)] + f[U \ {Chosen(U)}]
      BY <3>1 DEF Sums
    <3>3. g[U] = IF U = {} THEN 0 ELSE v[Chosen(U)] + g[U \ {Chosen(U)}]
      BY DEF Sums
    <3> QED BY <3>2, <3>3
  <2>2. U # {} => Chosen(U) \in U
    BY ChosenIn
  <2> QED BY <1>1, <2>1, <2>2
<1>2. SUBSET T \subseteq Q
  <2> HIDE DEF Q
  <2> QED BY <1>1, SubsetInduction
<1> QED BY <1>2

LEMMA TotalTable ==
    ASSUME NEW S, IsFiniteSet(S), NEW w
    PROVE  \E f : Sums(f, w, S) /\ \A T \in SUBSET S : Total(w, T) = f[T]
<1>1. PICK f : Sums(f, w, S)
  BY SumsExist
<1>2. ASSUME NEW T \in SUBSET S
      PROVE  Total(w, T) = f[T]
  <2>1. IsFiniteSet(T)
    BY Subsets
  <2> DEFINE g == CHOOSE g : Sums(g, w, T)
  <2>2. Sums(g, w, T)
    BY <2>1, SumsExist
  <2>3. Total(w, T) = g[T]
    BY TotalIs
  <2> HIDE DEF g
  <2>4. f[T] = g[T]
    BY <1>1, <2>1, <2>2, SumsAgree
  <2> QED BY <2>3, <2>4
<1> QED BY <1>1, <1>2

LEMMA TotalStep ==
    ASSUME NEW S, IsFiniteSet(S), NEW w
    PROVE  /\ Total(w, {}) = 0
           /\ \A T \in SUBSET S :
                 T # {} => Total(w, T) = w[Chosen(T)] + Total(w, T \ {Chosen(T)})
<1>1. PICK f : Sums(f, w, S) /\ \A T \in SUBSET S : Total(w, T) = f[T]
  BY TotalTable
<1>2. ASSUME NEW T \in SUBSET S
      PROVE  f[T] = IF T = {} THEN 0 ELSE w[Chosen(T)] + f[T \ {Chosen(T)}]
  BY <1>1 DEF Sums
<1>3. Total(w, {}) = 0
  BY <1>1, <1>2
<1>4. ASSUME NEW T \in SUBSET S, T # {}
      PROVE  Total(w, T) = w[Chosen(T)] + Total(w, T \ {Chosen(T)})
  <2>1. T \ {Chosen(T)} \in SUBSET S
    OBVIOUS
  <2>2. Total(w, T) = f[T] /\ Total(w, T \ {Chosen(T)}) = f[T \ {Chosen(T)}]
    BY <1>1, <2>1
  <2> QED BY <1>2, <1>4, <2>2
<1> QED BY <1>3, <1>4

LEMMA TotalType ==
    ASSUME NEW S, IsFiniteSet(S), NEW w, \A x \in S : w[x] \in Nat
    PROVE  \A T \in SUBSET S : Total(w, T) \in Nat
<1> DEFINE Q == {T \in SUBSET S : Total(w, T) \in Nat}
<1>1. ASSUME NEW T \in SUBSET S, \A x \in T : T \ {x} \in Q
      PROVE  T \in Q
  <2>1. CASE T = {}
    <3>1. Total(w, {}) = 0
      BY TotalStep
    <3> QED BY <2>1, <3>1
  <2>2. CASE T # {}
    <3>1. Chosen(T) \in T
      BY <2>2, ChosenIn
    <3>2. Total(w, T \ {Chosen(T)}) \in Nat /\ w[Chosen(T)] \in Nat
      BY <1>1, <3>1
    <3>3. Total(w, T) = w[Chosen(T)] + Total(w, T \ {Chosen(T)})
      BY <2>2, TotalStep
    <3> QED BY <3>2, <3>3
  <2> QED BY <2>1, <2>2
<1>2. SUBSET S \subseteq Q
  <2> HIDE DEF Q
  <2> QED BY <1>1, SubsetInduction
<1> QED BY <1>2

\* A sum may be taken in any order.
LEMMA TotalRemove ==
    ASSUME NEW S, IsFiniteSet(S), NEW w, \A x \in S : w[x] \in Nat
    PROVE  \A T \in SUBSET S : \A x \in T : Total(w, T) = w[x] + Total(w, T \ {x})
<1> DEFINE Q == {T \in SUBSET S : \A x \in T : Total(w, T) = w[x] + Total(w, T \ {x})}
<1>1. ASSUME NEW T \in SUBSET S, \A x \in T : T \ {x} \in Q
      PROVE  T \in Q
  <2>1. ASSUME NEW x \in T
        PROVE  Total(w, T) = w[x] + Total(w, T \ {x})
    <3> DEFINE c == Chosen(T)
    <3>1. c \in T
      BY ChosenIn
    <3>2. Total(w, T) = w[c] + Total(w, T \ {c})
      BY TotalStep
    <3> HIDE DEF c
    <3>3. CASE c = x
      BY <3>2, <3>3
    <3>4. CASE c # x
      <4>1. T \ {c} \in Q /\ T \ {x} \in Q /\ x \in T \ {c} /\ c \in T \ {x}
        BY <1>1, <3>1, <3>4
      <4>2. Total(w, T \ {c}) = w[x] + Total(w, (T \ {c}) \ {x})
        BY <4>1
      <4>3. Total(w, T \ {x}) = w[c] + Total(w, (T \ {x}) \ {c})
        BY <4>1
      <4>4. (T \ {c}) \ {x} = (T \ {x}) \ {c} /\ (T \ {x}) \ {c} \in SUBSET S
        OBVIOUS
      <4>5. Total(w, (T \ {x}) \ {c}) \in Nat
        BY <4>4, TotalType
      <4>6. w[x] \in Nat /\ w[c] \in Nat
        BY <3>1
      <4> QED BY <3>2, <4>2, <4>3, <4>4, <4>5, <4>6
    <3> QED BY <3>3, <3>4
  <2> QED BY <2>1
<1>2. SUBSET S \subseteq Q
  <2> HIDE DEF Q
  <2> QED BY <1>1, SubsetInduction
<1> QED BY <1>2

LEMMA TotalAgrees ==
    ASSUME NEW S, IsFiniteSet(S), NEW w, NEW v, \A x \in S : w[x] = v[x]
    PROVE  Total(w, S) = Total(v, S)
<1>1. PICK f : Sums(f, w, S) /\ \A T \in SUBSET S : Total(w, T) = f[T]
  BY TotalTable
<1>2. PICK g : Sums(g, v, S) /\ \A T \in SUBSET S : Total(v, T) = g[T]
  BY TotalTable
<1>3. f[S] = g[S]
  <2>1. S \in SUBSET S
    OBVIOUS
  <2> QED BY <1>1, <1>2, <2>1, SumsAgree
<1> QED BY <1>1, <1>2, <1>3

LEMMA TotalGrows ==
    ASSUME NEW S, IsFiniteSet(S), NEW w, \A x \in S : w[x] \in Nat
    PROVE  \A T \in SUBSET S : Total(w, T) <= Total(w, S)
<1> DEFINE Q == {U \in SUBSET S : \A T \in SUBSET U : Total(w, T) <= Total(w, U)}
<1>0. \A T \in SUBSET S : Total(w, T) \in Nat
  BY TotalType
<1>1. ASSUME NEW U \in SUBSET S, \A x \in U : U \ {x} \in Q
      PROVE  U \in Q
  <2>1. ASSUME NEW T \in SUBSET U
        PROVE  Total(w, T) <= Total(w, U)
    <3>1. CASE T = U
      BY <1>0, <3>1
    <3>2. CASE T # U
      <4>1. PICK x \in U : x \notin T
        BY <3>2
      <4>2. Total(w, T) <= Total(w, U \ {x})
        <5>1. T \in SUBSET (U \ {x}) /\ U \ {x} \in Q
          BY <1>1, <4>1
        <5> QED BY <5>1
      <4>3. Total(w, U) = w[x] + Total(w, U \ {x})
        BY <4>1, TotalRemove
      <4>4. w[x] \in Nat /\ Total(w, U \ {x}) \in Nat /\ Total(w, T) \in Nat
        BY <1>0, <4>1
      <4> QED BY <4>2, <4>3, <4>4
    <3> QED BY <3>1, <3>2
  <2> QED BY <2>1
<1>2. SUBSET S \subseteq Q
  <2> HIDE DEF Q
  <2> QED BY <1>1, SubsetInduction
<1>3. S \in SUBSET S
  OBVIOUS
<1> QED BY <1>2, <1>3

LEMMA TotalAdd ==
    ASSUME NEW S, IsFiniteSet(S), NEW w, NEW x, \A y \in S \union {x} : w[y] \in Nat
    PROVE  /\ Total(w, S) \in Nat
           /\ Total(w, S \union {x}) <= Total(w, S) + w[x]
           /\ x \notin S => Total(w, S \union {x}) = Total(w, S) + w[x]
<1> DEFINE U == S \union {x}
<1>1. IsFiniteSet(U)
  BY FS_AddElement
<1>2. U \in SUBSET U /\ x \in U /\ S \in SUBSET U /\ w[x] \in Nat
  OBVIOUS
<1>3. /\ \A T \in SUBSET U : Total(w, T) \in Nat
      /\ Total(w, S) <= Total(w, U)
  <2> HIDE DEF U
  <2>1. \A T \in SUBSET U : Total(w, T) \in Nat
    BY <1>1, TotalType DEF U
  <2>2. Total(w, S) <= Total(w, U)
    BY <1>1, <1>2, TotalGrows DEF U
  <2> QED BY <2>1, <2>2
<1>4. CASE x \in S
  <2>1. U = S
    BY <1>4
  <2> HIDE DEF U
  <2>2. Total(w, S) \in Nat
    BY <1>2, <1>3
  <2> QED BY <1>2, <1>4, <2>1, <2>2 DEF U
<1>5. CASE x \notin S
  <2>1. U \ {x} = S
    BY <1>5
  <2>2. Total(w, U) = w[x] + Total(w, U \ {x})
    <3>1. \A y \in U : w[y] \in Nat
      OBVIOUS
    <3> HIDE DEF U
    <3> QED BY <1>1, <1>2, <3>1, TotalRemove
  <2>3. Total(w, S) \in Nat
    BY <1>2, <1>3
  <2>4. Total(w, U) = Total(w, S) + w[x]
    BY <1>2, <2>1, <2>2, <2>3
  <2>5. Total(w, U) <= Total(w, S) + w[x]
    BY <1>2, <2>3, <2>4
  <2> QED BY <2>3, <2>4, <2>5
<1> QED BY <1>4, <1>5

----------------------------------------------------------------------------
\* Lists of slots.

\* What Listed keeps of a list are members of S and of the list's own set.
LEMMA ListedType ==
    ASSUME NEW X, NEW list \in Seq(X), NEW S
    PROVE  Listed(list, S) \in Seq(X \intersect S)
<1> DEFINE m == Len(list)
           Next1(prev, n) == IF list[n] \in S THEN Append(prev, list[n]) ELSE prev
           Body(f, n) == [k \in 0 .. n |-> IF k = 0 THEN <<>> ELSE Next1(f[k - 1], k)]
           N == {n \in 0 .. m : \E f : f = Body(f, n)}
           Good(f) == {k \in 0 .. m : f[k] \in Seq(X \intersect S)}
<1>1. m \in Nat
  OBVIOUS
<1>2. 0 \in N
  <2> DEFINE f == [k \in 0 .. 0 |-> <<>>]
  <2>1. f = Body(f, 0)
    OBVIOUS
  <2> HIDE DEF f
  <2>2. \E x : x = Body(x, 0)
    BY <2>1
  <2> QED BY <1>1, <2>2
<1>3. ASSUME NEW n \in N, n < m
      PROVE  n + 1 \in N
  <2>1. PICK f : f = Body(f, n)
    OBVIOUS
  <2> DEFINE g == [k \in 0 .. n + 1 |-> IF k = n + 1 THEN Next1(f[n], n + 1) ELSE f[k]]
  <2>2. n \in Nat /\ n + 1 \in 0 .. m
    BY <1>1, <1>3
  <2>3. ASSUME NEW k \in 0 .. n + 1
        PROVE  g[k] = IF k = 0 THEN <<>> ELSE Next1(g[k - 1], k)
    <3> HIDE DEF Next1, N
    <3>1. CASE k = n + 1
      <4>1. k # 0 /\ k - 1 = n /\ n \in 0 .. n + 1 /\ n # n + 1
        BY <2>2, <3>1
      <4>2. g[k] = Next1(f[n], n + 1) /\ g[n] = f[n]
        BY <3>1, <4>1
      <4> QED BY <3>1, <4>1, <4>2
    <3>2. CASE k # n + 1
      <4>1. k \in 0 .. n /\ (k # 0 => k - 1 \in 0 .. n + 1 /\ k - 1 # n + 1)
        BY <2>2, <3>2
      <4>2. g[k] = f[k] /\ (k # 0 => g[k - 1] = f[k - 1])
        BY <3>2, <4>1
      <4>3. f[k] = Body(f, n)[k]
        BY <2>1
      <4>4. f[k] = IF k = 0 THEN <<>> ELSE Next1(f[k - 1], k)
        BY <4>1, <4>3
      <4> QED BY <4>2, <4>4
    <3> QED BY <3>1, <3>2
  <2>4. g = Body(g, n + 1)
    <3>1. g = [k \in 0 .. n + 1 |-> g[k]]
      OBVIOUS
    <3> HIDE DEF g, Next1
    <3> QED BY <2>3, <3>1
  <2> HIDE DEF g
  <2>5. \E x : x = Body(x, n + 1)
    BY <2>4
  <2> QED BY <2>2, <2>5
<1>4. N = 0 .. m
  <2>1. N \in SUBSET (0 .. m)
    OBVIOUS
  <2> HIDE DEF N, m
  <2> QED BY <1>1, <1>2, <1>3, <2>1, NatsUpTo
<1> DEFINE f == CHOOSE f : f = Body(f, m)
<1>5. f = Body(f, m)
  <2>1. m \in N
    <3> HIDE DEF N, m
    <3> QED BY <1>1, <1>4
  <2>2. \E x : x = Body(x, m)
    BY <2>1
  <2> HIDE DEF m, Body
  <2> QED BY <2>2
<1>6. Listed(list, S) = f[m]
  BY DEF Listed
<1> HIDE DEF f
<1>7. Good(f) = 0 .. m
  <2>1. 0 \in Good(f)
    <3>1. f[0] = Body(f, m)[0] /\ 0 \in 0 .. m
      BY <1>1, <1>5
    <3>2. f[0] = <<>>
      <4> HIDE DEF m, Next1, Good
      <4> QED BY <3>1
    <3>3. f[0] \in Seq(X \intersect S)
      <4> HIDE DEF Good
      <4> QED BY <3>2
    <3> HIDE DEF m
    <3> QED BY <3>1, <3>3
  <2>2. ASSUME NEW n \in Good(f), n < m
        PROVE  n + 1 \in Good(f)
    <3>1. n + 1 \in 0 .. m /\ (n + 1) - 1 = n /\ n + 1 # 0 /\ n + 1 \in 1 .. m
      BY <1>1, <2>2
    <3>2. f[n + 1] = Body(f, m)[n + 1]
      BY <1>5
    <3>3. f[n + 1] = Next1(f[n], n + 1)
      <4> HIDE DEF Next1, m, Good
      <4> QED BY <3>1, <3>2
    <3>4. list[n + 1] \in X
      BY <3>1
    <3>5. f[n] \in Seq(X \intersect S)
      OBVIOUS
    <3>6. Next1(f[n], n + 1) \in Seq(X \intersect S)
      <4>1. CASE list[n + 1] \in S
        BY <3>4, <3>5, <4>1
      <4>2. CASE list[n + 1] \notin S
        BY <3>5, <4>2
      <4> QED BY <4>1, <4>2
    <3> HIDE DEF Next1, m
    <3> QED BY <3>1, <3>3, <3>6
  <2>3. Good(f) \in SUBSET (0 .. m)
    OBVIOUS
  <2> HIDE DEF Good, m
  <2> QED BY <1>1, <2>1, <2>2, <2>3, NatsUpTo
<1>8. m \in Good(f)
  <2> HIDE DEF Good, m
  <2> QED BY <1>1, <1>7
<1> QED BY <1>6, <1>8

LEMMA MembersOf ==
    ASSUME NEW X, NEW list \in Seq(X)
    PROVE  ToSet(list) \subseteq X
BY DEF ToSet

LEMMA HeadAndTail ==
    ASSUME NEW X, NEW list \in Seq(X), list # <<>>
    PROVE  /\ Head(list) \in ToSet(list) /\ Head(list) \in X
           /\ Tail(list) \in Seq(X) /\ ToSet(Tail(list)) \subseteq ToSet(list)
<1>1. Len(list) \in Nat \ {0}
  OBVIOUS
<1>2. Head(list) = list[1] /\ 1 \in 1 .. Len(list)
  BY <1>1
<1>3. /\ Tail(list) \in Seq(X) /\ Len(Tail(list)) = Len(list) - 1
      /\ \A i \in 1 .. Len(list) - 1 : Tail(list)[i] = list[i + 1]
  BY <1>1
<1>4. Head(list) \in ToSet(list) /\ Head(list) \in X
  BY <1>2 DEF ToSet
<1>5. ASSUME NEW x \in ToSet(Tail(list))
      PROVE  x \in ToSet(list)
  <2>1. PICK i \in 1 .. Len(list) - 1 : x = Tail(list)[i]
    BY <1>3 DEF ToSet
  <2>2. i + 1 \in 1 .. Len(list) /\ x = list[i + 1]
    BY <1>1, <1>3, <2>1
  <2> QED BY <2>2 DEF ToSet
<1> QED BY <1>3, <1>4, <1>5

----------------------------------------------------------------------------
\* What is counted, what is waiting to be, and what is retained.

\* The list and the count of SegmentCache: only slots are listed, and the
\* count with what waits to be counted covers what the slots retain.
CoverInv ==
    /\ recency \in Seq(Files)
    /\ queue \in Seq(Files)
    /\ CountCoversRetained

\* The bytes of the threads that p places before their count.
Due(p, g) ==
    LET counting == {t \in Threads : p[t] = "counting"}
    IN  Total([t \in counting |-> Sizes[g[t]]], counting)

LEMMA UncountedIsDue == Uncounted = Due(pc, goal) /\ (Uncounted)' = Due(pc', goal')
BY DEF Uncounted, Due

LEMMA ThreadsFinite == IsFiniteSet(Threads)
<1>1. Threads = Readers \union {Writer} /\ IsFiniteSet(Readers)
  BY ReadersAssumption DEF Threads
<1> QED BY <1>1, FS_AddElement

LEMMA DueType ==
    ASSUME NEW p, NEW g, \A t \in Threads : p[t] = "counting" => g[t] \in Files
    PROVE  Due(p, g) \in Nat
<1> DEFINE C == {t \in Threads : p[t] = "counting"}
           w == [t \in C |-> Sizes[g[t]]]
<1>1. IsFiniteSet(C)
  <2>1. C \in SUBSET Threads
    OBVIOUS
  <2> HIDE DEF C
  <2> QED BY <2>1, ThreadsFinite, FS_Subset
<1>2. \A t \in C : w[t] \in Nat
  BY SizeType DEF Files
<1>3. C \in SUBSET C
  OBVIOUS
<1>4. Total(w, C) \in Nat
  <2> HIDE DEF w, C
  <2> QED BY <1>1, <1>2, <1>3, TotalType
<1> QED BY <1>4 DEF Due

LEMMA DueSame ==
    ASSUME NEW p, NEW g, NEW q, NEW h,
           \A t \in Threads : /\ q[t] = "counting" <=> p[t] = "counting"
                              /\ p[t] = "counting" => h[t] = g[t]
    PROVE  Due(q, h) = Due(p, g)
<1> DEFINE C == {t \in Threads : p[t] = "counting"}
           D == {t \in Threads : q[t] = "counting"}
<1>1. D = C
  OBVIOUS
<1>2. [t \in D |-> Sizes[h[t]]] = [t \in C |-> Sizes[g[t]]]
  BY <1>1
<1> QED BY <1>1, <1>2 DEF Due

\* One more thread waits for its bytes to be counted.
LEMMA DueOneMore ==
    ASSUME NEW p, NEW g, NEW q, NEW h, NEW u \in Threads,
           p[u] # "counting", q[u] = "counting", h[u] \in Files,
           \A t \in Threads : p[t] = "counting" => g[t] \in Files,
           \A t \in Threads \ {u} : /\ q[t] = "counting" <=> p[t] = "counting"
                                    /\ p[t] = "counting" => h[t] = g[t]
    PROVE  Due(q, h) = Due(p, g) + Sizes[h[u]]
<1> DEFINE C == {t \in Threads : p[t] = "counting"}
           D == {t \in Threads : q[t] = "counting"}
           v == [t \in C |-> Sizes[g[t]]]
           w == [t \in D |-> Sizes[h[t]]]
<1>1. D = C \union {u} /\ u \notin C /\ C \in SUBSET Threads
  OBVIOUS
<1>2. IsFiniteSet(C)
  <2> HIDE DEF C
  <2> QED BY <1>1, ThreadsFinite, FS_Subset
<1>3. \A t \in C : v[t] = w[t]
  BY <1>1
<1>4. w[u] = Sizes[h[u]]
  BY <1>1
<1>5. \A t \in C \union {u} : w[t] \in Nat
  <2>1. \A f \in Files : Sizes[f] \in Nat
    BY SizeType DEF Files
  <2>2. \A t \in C : w[t] = Sizes[g[t]] /\ g[t] \in Files
    BY <1>1
  <2> HIDE DEF w, C
  <2> QED BY <1>4, <2>1, <2>2
<1>6. Due(p, g) = Total(v, C) /\ Due(q, h) = Total(w, D)
  BY DEF Due
<1> HIDE DEF C, D, v, w
<1>7. Total(w, D) = Total(w, C) + w[u]
  BY <1>1, <1>2, <1>5, TotalAdd
<1>8. Total(v, C) = Total(w, C)
  BY <1>2, <1>3, TotalAgrees
<1> QED BY <1>4, <1>6, <1>7, <1>8

\* What a set of slots weighs.
LEMMA SizeGrows ==
    ASSUME NEW R, NEW Q, R \subseteq Q, Q \subseteq Files
    PROVE  Size(R) \in Nat /\ Size(Q) \in Nat /\ Size(R) <= Size(Q)
<1>1. IsFiniteSet(Q)
  <2>1. IsFiniteSet(Files)
    BY SizeType, FS_Interval DEF Files
  <2> QED BY <2>1, FS_Subset
<1>2. \A f \in Q : Sizes[f] \in Nat
  BY SizeType DEF Files
<1>3. R \in SUBSET Q /\ Q \in SUBSET Q
  OBVIOUS
<1>4. \A T \in SUBSET Q : Total(Sizes, T) \in Nat
  BY <1>1, <1>2, TotalType
<1>5. \A T \in SUBSET Q : Total(Sizes, T) <= Total(Sizes, Q)
  BY <1>1, <1>2, TotalGrows
<1> QED BY <1>3, <1>4, <1>5 DEF Size

LEMMA SizeAdd ==
    ASSUME NEW R, NEW Q, NEW f \in Files, R \subseteq Q \union {f}, Q \subseteq Files
    PROVE  Size(R) \in Nat /\ Size(Q) \in Nat /\ Size(R) <= Size(Q) + Sizes[f]
<1>1. IsFiniteSet(Q)
  <2>1. IsFiniteSet(Files)
    BY SizeType, FS_Interval DEF Files
  <2> QED BY <2>1, FS_Subset
<1>2. \A y \in Q \union {f} : Sizes[y] \in Nat
  BY SizeType DEF Files
<1>3. Size(Q \union {f}) <= Size(Q) + Sizes[f]
  BY <1>1, <1>2, TotalAdd DEF Size
<1>4. Q \union {f} \subseteq Files
  OBVIOUS
<1>5. /\ Size(R) \in Nat /\ Size(Q \union {f}) \in Nat
      /\ Size(R) <= Size(Q \union {f})
  BY <1>4, SizeGrows
<1>6. Size(Q) \in Nat
  BY SizeGrows
<1>7. Sizes[f] \in Nat
  BY <1>2
<1> QED BY <1>3, <1>5, <1>6, <1>7

LEMMA SizeDrop ==
    ASSUME NEW R, NEW Q, NEW f \in Q, R \subseteq Q \ {f}, Q \subseteq Files
    PROVE  Size(R) \in Nat /\ Size(Q) \in Nat /\ Size(R) + Sizes[f] <= Size(Q)
<1>1. IsFiniteSet(Q)
  <2>1. IsFiniteSet(Files)
    BY SizeType, FS_Interval DEF Files
  <2> QED BY <2>1, FS_Subset
<1>2. \A y \in Q : Sizes[y] \in Nat
  BY SizeType DEF Files
<1>3. Size(Q) = Sizes[f] + Size(Q \ {f})
  <2>1. Q \in SUBSET Q
    OBVIOUS
  <2> QED BY <1>1, <1>2, <2>1, TotalRemove DEF Size
<1>4. Q \ {f} \subseteq Files
  OBVIOUS
<1>5. /\ Size(R) \in Nat /\ Size(Q \ {f}) \in Nat /\ Size(R) <= Size(Q \ {f})
  BY <1>4, SizeGrows
<1>6. Size(Q) \in Nat
  BY SizeGrows
<1>7. Sizes[f] \in Nat
  BY <1>2
<1> QED BY <1>3, <1>5, <1>6, <1>7

LEMMA CoverFacts ==
    ASSUME CacheInv
    PROVE  /\ 1 .. written \subseteq Files /\ Retained \subseteq Files
           /\ resident \in Nat /\ Uncounted \in Nat /\ Size(Retained) \in Nat
           /\ \A t \in Threads : pc[t] = "counting" => goal[t] \in Files
<1>1. 1 .. written \subseteq Files
  BY SizeType DEF CacheInv, StoreInv, Files
<1>2. cached \subseteq 1 .. written
  BY DEF CacheInv
<1>3. Retained \subseteq Files
  BY <1>1, <1>2 DEF Retained
<1>4. \A t \in Threads : pc[t] = "counting" => goal[t] \in Files
  BY <1>1 DEF CacheInv, CallInv
<1>5. Uncounted \in Nat
  BY <1>4, DueType, UncountedIsDue
<1>6. Size(Retained) \in Nat
  BY <1>3, SizeGrows
<1> QED BY <1>1, <1>3, <1>4, <1>5, <1>6 DEF CacheInv

\* A step that decodes nothing and neither counts nor uncounts.
LEMMA CoverKept ==
    ASSUME CacheInv, CoverInv, cached' \subseteq cached, (Alive)' \subseteq Alive,
           resident' = resident,
           \A t \in Threads : /\ pc'[t] = "counting" <=> pc[t] = "counting"
                              /\ pc[t] = "counting" => goal'[t] = goal[t]
    PROVE  CountCoversRetained'
<1>1. (Retained)' \subseteq Retained
  BY DEF Retained
<1>2. Size((Retained)') <= Size(Retained) /\ Size((Retained)') \in Nat
  BY <1>1, CoverFacts, SizeGrows
<1>3. (Uncounted)' = Uncounted
  BY DueSame, UncountedIsDue
<1>4. (Size(Retained))' = Size((Retained)')
  OBVIOUS
<1> QED BY <1>2, <1>3, <1>4, CoverFacts DEF CoverInv, CountCoversRetained

\* Thread t goes on to the count of f.
Filled(q, h, p, g, t, f) == q = [p EXCEPT ![t] = "counting"] /\ h = [g EXCEPT ![t] = f]

LEMMA DueFilled ==
    ASSUME NEW p \in [Threads -> Labels], NEW g \in [Threads -> Nat],
           NEW t \in Threads, NEW f \in Files, p[t] # "counting",
           \A u \in Threads : p[u] = "counting" => g[u] \in Files,
           NEW q, NEW h, Filled(q, h, p, g, t, f)
    PROVE  Due(q, h) = Due(p, g) + Sizes[f]
<1>1. q[t] = "counting" /\ h[t] = f
  BY DEF Filled
<1>2. \A u \in Threads \ {t} : /\ q[u] = "counting" <=> p[u] = "counting"
                               /\ p[u] = "counting" => h[u] = g[u]
  BY DEF Filled
<1>3. h[t] \in Files
  BY <1>1
<1>4. Due(q, h) = Due(p, g) + Sizes[h[t]]
  BY <1>1, <1>2, <1>3, DueOneMore
<1> QED BY <1>1, <1>4

\* A slot is filled, and the thread that fills it goes on to its count.
LEMMA CoverFilled ==
    ASSUME CacheInv, CoverInv, NEW t \in Threads, NEW f \in Files,
           cached' = cached \union {f}, (Alive)' \subseteq Alive \union {f},
           resident' = resident, pc[t] # "counting",
           Filled(pc', goal', pc, goal, t, f)
    PROVE  CountCoversRetained'
<1>1. (Retained)' \subseteq Retained \union {f}
  BY DEF Retained
<1>2. /\ Size((Retained)') <= Size(Retained) + Sizes[f]
      /\ Size((Retained)') \in Nat
  BY <1>1, CoverFacts, SizeAdd
<1>3. (Uncounted)' = Uncounted + Sizes[f]
  <2>1. pc \in [Threads -> Labels] /\ goal \in [Threads -> Nat]
    BY DEF CacheInv, Fields
  <2>2. \A u \in Threads : pc[u] = "counting" => goal[u] \in Files
    BY CoverFacts
  <2>3. Due(pc', goal') = Due(pc, goal) + Sizes[f]
    BY <2>1, <2>2, DueFilled
  <2> QED BY <2>3, UncountedIsDue
<1>4. Sizes[f] \in Nat
  BY SizeType DEF Files
<1>5. (Size(Retained))' = Size((Retained)')
  OBVIOUS
<1> QED BY <1>2, <1>3, <1>4, <1>5, CoverFacts DEF CoverInv, CountCoversRetained

LEMMA TouchedType ==
    ASSUME recency \in Seq(Files), NEW f \in Files
    PROVE  Touched(f) \in Seq(Files)
<1>1. Listed(recency, Files \ {f}) \in Seq(Files \intersect (Files \ {f}))
  BY ListedType
<1>2. Listed(recency, Files \ {f}) \in Seq(Files)
  BY <1>1
<1> QED BY <1>2 DEF Touched

LEMMA InitCovers == Init => CoverInv
<1> SUFFICES ASSUME Init PROVE CoverInv
  OBVIOUS
<1>1. recency \in Seq(Files)
  <2>1. recency = [f \in 1 .. Opened |-> f] /\ Opened \in Nat
    BY OpenedType, SizeType DEF Init
  <2>2. \A f \in 1 .. Opened : f \in Files
    BY OpenedType, SizeType DEF Files
  <2> QED BY <2>1, <2>2
<1>2. queue \in Seq(Files)
  BY DEF Init
<1>3. Retained = {} /\ resident = 0
  BY DEF Init, Retained
<1>4. Size(Retained) = 0
  <2>1. IsFiniteSet({})
    BY FS_EmptySet
  <2> QED BY <1>3, <2>1, TotalStep DEF Size
<1>5. Uncounted \in Nat
  <2>1. \A t \in Threads : pc[t] # "counting"
    BY DEF Init
  <2> QED BY <2>1, DueType, UncountedIsDue
<1> QED BY <1>1, <1>2, <1>3, <1>4, <1>5 DEF CoverInv, CountCoversRetained

\* The count: what waited is counted, and the eviction's candidates are the
\* slots that are still there.
LEMMA CountCovers ==
    ASSUME CacheInv, CoverInv, NEW t \in Threads, Count(t)
    PROVE  CoverInv'
<1>1. /\ pc[t] = "counting" /\ resident' = resident + Sizes[goal[t]]
      /\ cached' = cached /\ recency' = recency
      /\ UNCHANGED <<live, history, install, snap>>
  BY DEF Count, store
<1>2. /\ pc'[t] # "counting"
      /\ \A u \in Threads \ {t} : pc'[u] = pc[u] /\ goal'[u] = goal[u]
  BY <1>1 DEF Count, Done, Goto, Admitted, CacheInv, Fields
<1>3. queue' \in Seq(Files) /\ ToSet(queue') \subseteq Alive
  <2>1. CASE queue' = queue
    BY <2>1 DEF CoverInv, Alive
  <2>2. CASE queue' = Listed(recency, Alive)
    <3>1. queue' \in Seq(Files \intersect Alive)
      BY <2>2, ListedType DEF CoverInv
    <3> HIDE DEF Alive
    <3>2. queue' \in Seq(Files)
      BY <3>1
    <3>3. ToSet(queue') \subseteq Files \intersect Alive
      BY <3>1, MembersOf
    <3> QED BY <3>2, <3>3
  <2> QED BY <2>1, <2>2 DEF Count
<1>4. (Alive)' \subseteq Alive
  <2>1. (Alive)' = live \union history \union (Adopting \ install.todo)
                   \union (UNION {snap[u] : u \in Threads}) \union ToSet(queue')
    BY <1>1 DEF Alive, Adopting
  <2>2. live \union history \union (Adopting \ install.todo)
                   \union (UNION {snap[u] : u \in Threads}) \subseteq Alive
    BY DEF Alive
  <2> QED BY <1>3, <2>1, <2>2
<1>5. (Retained)' \subseteq Retained
  BY <1>1, <1>4 DEF Retained
<1>6. Size((Retained)') <= Size(Retained) /\ Size((Retained)') \in Nat
  BY <1>5, CoverFacts, SizeGrows
<1>7. Uncounted = (Uncounted)' + Sizes[goal[t]] /\ (Uncounted)' \in Nat
  <2>1. \A u \in Threads : pc'[u] = "counting" => goal'[u] \in Files
    BY <1>2, CoverFacts
  <2>2. Due(pc, goal) = Due(pc', goal') + Sizes[goal[t]]
    BY <1>1, <1>2, <2>1, CoverFacts, DueOneMore
  <2> QED BY <2>1, <2>2, UncountedIsDue, DueType
<1>8. Sizes[goal[t]] \in Nat
  BY <1>1, CoverFacts, SizeType DEF Files
<1>9. (Size(Retained))' = Size((Retained)')
  OBVIOUS
<1>10. CountCoversRetained'
  BY <1>1, <1>6, <1>7, <1>8, <1>9, CoverFacts DEF CoverInv, CountCoversRetained
<1> QED BY <1>1, <1>3, <1>10 DEF CoverInv

\* An eviction frees what it takes off the count, and no more.
LEMMA TryEvictCovers ==
    ASSUME CacheInv, CoverInv, NEW t \in Threads, TryEvict(t)
    PROVE  CoverInv'
<1> DEFINE f == Head(queue)
<1>1. /\ queue # <<>> /\ queue' = Tail(queue) /\ recency' = recency
      /\ UNCHANGED <<live, history, install, snap, pc, goal>>
      /\ queue \in Seq(Files)
  BY DEF TryEvict, store, CoverInv
<1>2. /\ f \in ToSet(queue) /\ f \in Files
      /\ queue' \in Seq(Files) /\ ToSet(queue') \subseteq ToSet(queue)
  BY <1>1, HeadAndTail
<1>3. (Alive)' \subseteq Alive
  <2>1. (Alive)' = live \union history \union (Adopting \ install.todo)
                   \union (UNION {snap[u] : u \in Threads}) \union ToSet(queue')
    BY <1>1 DEF Alive, Adopting
  <2> QED BY <1>2, <2>1 DEF Alive
<1>4. f \in Alive
  BY <1>2 DEF Alive
<1>5. CASE UNCHANGED <<cached, resident>>
  <2>1. CountCoversRetained'
    <3>1. \A u \in Threads : pc'[u] = pc[u] /\ goal'[u] = goal[u]
      BY <1>1
    <3> QED BY <1>3, <1>5, <3>1, CoverKept
  <2> QED BY <1>1, <1>2, <2>1 DEF CoverInv
<1>6. CASE Evictable(f) /\ cached' = cached \ {f} /\ resident' = Max({resident - Sizes[f], 0})
  <2> HIDE DEF f
  <2>1. f \in Retained /\ (Retained)' \subseteq Retained \ {f}
    BY <1>3, <1>4, <1>6 DEF Evictable, Retained
  <2>2. Size((Retained)') + Sizes[f] <= Size(Retained) /\ Size((Retained)') \in Nat
    BY <2>1, CoverFacts, SizeDrop
  <2>3. Sizes[f] \in Nat
    BY <1>2, SizeType DEF Files
  <2>4. resident' \in Nat /\ resident' >= resident - Sizes[f]
    <3>1. resident - Sizes[f] \in Int
      BY <2>3, CoverFacts
    <3> QED BY <1>6, <3>1, SaturatingType
  <2>5. (Uncounted)' = Uncounted
    BY <1>1 DEF Uncounted
  <2>6. (Size(Retained))' = Size((Retained)')
    OBVIOUS
  <2>7. CountCoversRetained'
    BY <2>2, <2>3, <2>4, <2>5, <2>6, CoverFacts DEF CoverInv, CountCoversRetained
  <2> QED BY <1>1, <1>2, <2>7 DEF CoverInv
<1> QED BY <1>5, <1>6 DEF TryEvict

LEMMA CoverStep == CacheInv /\ WriterInv /\ CoverInv /\ Next => CoverInv'
<1> SUFFICES ASSUME CacheInv, WriterInv, CoverInv, Next PROVE CoverInv'
  OBVIOUS
<1> USE ThreadsApart
<1>1. Fields
  BY DEF CacheInv
<1>2. ASSUME NEW t \in Threads, NEW f \in Files, View(t, f) PROVE CoverInv'
  <2>1. CountCoversRetained'
    <3>1. cached' = cached /\ resident' = resident /\ (Alive)' = Alive
      BY <1>2 DEF View, store, cache, Alive, Adopting
    <3>2. \A u \in Threads : /\ pc'[u] = "counting" <=> pc[u] = "counting"
                             /\ pc[u] = "counting" => goal'[u] = goal[u]
      BY <1>1, <1>2 DEF View, Goto, Fields
    <3> QED BY <3>1, <3>2, CoverKept
  <2>2. recency' \in Seq(Files) /\ queue' = queue
    BY <1>2, TouchedType DEF View, CoverInv, cache
  <2> QED BY <2>1, <2>2 DEF CoverInv
<1>3. ASSUME NEW t \in Threads, Step(t) PROVE CoverInv'
  <2>1. CASE Lock(t)
    <3>1. cached' = cached /\ resident' = resident /\ (Alive)' = Alive
          /\ recency' = recency /\ queue' = queue
      BY <2>1 DEF Lock, store, cache, Alive, Adopting
    <3>2. pc[t] = "locking" /\ pc' \in {[pc EXCEPT ![t] = "ready"], [pc EXCEPT ![t] = "reading"]}
          /\ (goal' = goal \/ goal' = [goal EXCEPT ![t] = 0])
      BY <2>1 DEF Lock, Done, Goto
    <3>3. \A u \in Threads : /\ pc'[u] = "counting" <=> pc[u] = "counting"
                             /\ pc[u] = "counting" => goal'[u] = goal[u]
      BY <1>1, <3>2 DEF Fields
    <3> QED BY <3>1, <3>3, CoverKept DEF CoverInv
  <2>2. CASE Decode(t)
    <3>1. /\ pc[t] = "reading" /\ cached' = cached \union {goal[t]}
          /\ resident' = resident /\ recency' = recency /\ queue' = queue
          /\ pc' = [pc EXCEPT ![t] = "counting"] /\ goal' = goal
      BY <2>2 DEF Decode, Goto, cache
    <3>2. (Alive)' = Alive
      BY <2>2 DEF Decode, store, cache, Alive, Adopting
    <3>3. goal[t] \in Files
      BY <3>1, CoverFacts DEF CacheInv, CallInv
    <3>4. Filled(pc', goal', pc, goal, t, goal[t])
      BY <1>1, <3>1 DEF Filled, Fields
    <3> QED BY <3>1, <3>2, <3>3, <3>4, CoverFilled DEF CoverInv
  <2>3. CASE NotFound(t)
    <3>1. cached' = cached /\ resident' = resident /\ (Alive)' = Alive
          /\ recency' = recency /\ queue' = queue
      BY <2>3 DEF NotFound, store, cache, Alive, Adopting
    <3>2. \A u \in Threads : /\ pc'[u] = "counting" <=> pc[u] = "counting"
                             /\ pc[u] = "counting" => goal'[u] = goal[u]
      BY <1>1, <2>3 DEF NotFound, Done, Goto, Fields
    <3> QED BY <3>1, <3>2, CoverKept DEF CoverInv
  <2>4. CASE Count(t)
    BY <2>4, CountCovers
  <2>5. CASE TryEvict(t)
    BY <2>5, TryEvictCovers
  <2>6. CASE Leave(t)
    <3>1. cached' = cached /\ resident' = resident /\ recency' = recency /\ queue' = <<>>
      BY <2>6 DEF Leave
    <3>2. (Alive)' \subseteq Alive
      <4>1. ToSet(<<>>) = {}
        BY DEF ToSet
      <4>2. (Alive)' = live \union history \union (Adopting \ install.todo)
                       \union (UNION {snap[u] : u \in Threads}) \union ToSet(<<>>)
        BY <2>6 DEF Leave, store, Alive, Adopting
      <4> QED BY <4>1, <4>2 DEF Alive
    <3>3. \A u \in Threads : /\ pc'[u] = "counting" <=> pc[u] = "counting"
                             /\ pc[u] = "counting" => goal'[u] = goal[u]
      BY <1>1, <2>6 DEF Leave, Done, Goto, Admitted, Fields
    <3>4. queue' \in Seq(Files)
      BY <3>1
    <3> QED BY <3>1, <3>2, <3>3, <3>4, CoverKept DEF CoverInv
  <2> QED BY <1>3, <2>1, <2>2, <2>3, <2>4, <2>5, <2>6 DEF Step
<1>4. ASSUME NEW r \in Readers,
             Mint(r) \/ DropViews(r) \/ DropSnapshot(r)
      PROVE  CoverInv'
  <2>1. r \in Threads
    BY DEF Threads
  <2>2. cached' = cached /\ resident' = resident /\ recency' = recency /\ queue' = queue
        /\ UNCHANGED <<live, history, install, goal>>
    BY <1>4 DEF Mint, DropViews, DropSnapshot, store, cache
  <2>3. \A u \in Threads : pc'[u] = "counting" <=> pc[u] = "counting"
    BY <1>1, <1>4, <2>1 DEF Mint, DropViews, DropSnapshot, Goto, Fields
  <2>4. \A u \in Threads : snap'[u] \subseteq snap[u] \union live \union history
    BY <1>1, <1>4, <2>1 DEF Mint, DropViews, DropSnapshot, Fields
  <2>5. (Alive)' \subseteq Alive
    BY <2>2, <2>4 DEF Alive, Adopting
  <2> QED BY <2>2, <2>3, <2>5, CoverKept DEF CoverInv
<1>5. CASE \E f \in Files : View(Writer, f)
  BY <1>2, <1>5
<1>6. CASE Flush
  <2>1. pc[Writer] = "idle" /\ pc' = [pc EXCEPT ![Writer] = "building"]
        /\ UNCHANGED <<live, history, cached, recency, resident, queue, goal, snap>>
        /\ install' = [Nothing EXCEPT !.segments = {written + 1}, !.todo = {written + 1}]
    BY <1>6 DEF Flush, Goto, cache
  <2>2. (Alive)' \subseteq Alive
    BY <2>1 DEF Alive, Adopting, Nothing
  <2>3. \A u \in Threads : pc'[u] = "counting" <=> pc[u] = "counting"
    BY <1>1, <2>1 DEF Fields
  <2> QED BY <2>1, <2>2, <2>3, CoverKept DEF CoverInv
<1>7. CASE Compact
  <2>1. pc[Writer] = "idle" /\ pc' = [pc EXCEPT ![Writer] = "ready"]
        /\ UNCHANGED <<live, history, install, cached, recency, resident, queue, goal>>
        /\ snap' = [snap EXCEPT ![Writer] = live]
    BY <1>7 DEF Compact, Goto, cache, store
  <2>2. \A u \in Threads : snap'[u] \subseteq snap[u] \union live
    BY <1>1, <2>1 DEF Fields
  <2>3. (Alive)' \subseteq Alive
    BY <2>1, <2>2 DEF Alive, Adopting
  <2>4. \A u \in Threads : pc'[u] = "counting" <=> pc[u] = "counting"
    BY <1>1, <2>1 DEF Fields
  <2> QED BY <2>1, <2>3, <2>4, CoverKept DEF CoverInv
<1>8. CASE Commit
  <2>1. pc[Writer] = "ready" /\ pc' = [pc EXCEPT ![Writer] = "building"]
        /\ UNCHANGED <<live, history, cached, recency, resident, queue, goal, snap>>
        /\ (Adopting)' = install'.todo
    BY <1>8 DEF Commit, Goto, cache, Adopting
  <2>2. (Alive)' \subseteq Alive
    BY <2>1 DEF Alive
  <2>3. \A u \in Threads : pc'[u] = "counting" <=> pc[u] = "counting"
    BY <1>1, <2>1 DEF Fields
  <2> QED BY <2>1, <2>2, <2>3, CoverKept DEF CoverInv
<1>9. CASE Build
  <2> DEFINE f == Min(install.todo)
  <2>1. /\ pc[Writer] = "building" /\ install.todo # {}
        /\ install' = [install EXCEPT !.todo = @ \ {f}]
        /\ cached' = cached \union {f}
        /\ recency' = Touched(f)
        /\ goal' = [goal EXCEPT ![Writer] = f]
        /\ pc' = [pc EXCEPT ![Writer] = "counting"]
        /\ UNCHANGED <<live, history, resident, queue, snap>>
    BY <1>9 DEF Build, Goto, cache
  <2>2. f \in install.todo
    BY <1>1, <2>1, MinIsMember DEF Fields
  <2> HIDE DEF f
  <2>3. f \in Files
    <3>1. install.todo \subseteq Adopting /\ Adopting \subseteq files /\ files \subseteq 1 .. written
      BY DEF CacheInv, StoreInv, CurrentFaultable
    <3> QED BY <2>2, <3>1, CoverFacts
  <2>4. (Adopting)' = Adopting /\ install'.todo = install.todo \ {f}
    BY <1>1, <2>1 DEF Fields, Adopting
  <2>5. (Alive)' \subseteq Alive \union {f}
    BY <2>1, <2>4 DEF Alive
  <2>6. Filled(pc', goal', pc, goal, Writer, f)
    BY <2>1 DEF Filled
  <2>7. CountCoversRetained'
    BY <2>1, <2>3, <2>5, <2>6, CoverFilled
  <2>8. recency' \in Seq(Files)
    BY <2>1, <2>3, TouchedType DEF CoverInv
  <2> QED BY <2>1, <2>7, <2>8 DEF CoverInv
<1>10. CASE Adopt
  <2>1. /\ pc[Writer] = "building" /\ install.todo = {}
        /\ live' \subseteq live \union install.segments
        /\ history' = history \union install.history
        /\ install' = Nothing
        /\ UNCHANGED <<cached, recency, resident, queue, goal, snap>>
        /\ pc' \in {[pc EXCEPT ![Writer] = "cleaning"], [pc EXCEPT ![Writer] = "idle"]}
    BY <1>10 DEF Adopt, Goto, cache
  <2>2. (Alive)' \subseteq Alive
    <3>1. (Adopting)' = {} /\ Adopting \ install.todo = Adopting
      BY <2>1 DEF Adopting, Nothing
    <3>2. live' \union history' \subseteq live \union history \union (Adopting \ install.todo)
      BY <2>1, <3>1 DEF Adopting
    <3>3. (Alive)' = live' \union history' \union {}
                     \union (UNION {snap[u] : u \in Threads}) \union ToSet(queue)
      BY <2>1, <3>1 DEF Alive
    <3> QED BY <3>2, <3>3 DEF Alive
  <2>3. \A u \in Threads : pc'[u] = "counting" <=> pc[u] = "counting"
    BY <1>1, <2>1 DEF Fields
  <2> QED BY <2>1, <2>2, <2>3, CoverKept DEF CoverInv
<1>11. CASE RemoveStale
  <2>1. UNCHANGED <<live, history, install, cached, recency, resident, queue, pc, goal, snap>>
    BY <1>11 DEF RemoveStale, cache
  <2>2. (Alive)' = Alive
    BY <2>1 DEF Alive, Adopting
  <2> QED BY <2>1, <2>2, CoverKept DEF CoverInv
<1>12. CASE Compacted
  <2>1. /\ pc[Writer] = "cleaning" /\ pc' = [pc EXCEPT ![Writer] = "idle"]
        /\ snap' = [snap EXCEPT ![Writer] = {}]
        /\ UNCHANGED <<live, history, install, cached, recency, resident, queue, goal>>
    BY <1>12 DEF Compacted, Goto, cache, store
  <2>2. \A u \in Threads : snap'[u] \subseteq snap[u]
    BY <1>1, <2>1 DEF Fields
  <2>3. (Alive)' \subseteq Alive
    BY <2>1, <2>2 DEF Alive, Adopting
  <2>4. \A u \in Threads : pc'[u] = "counting" <=> pc[u] = "counting"
    BY <1>1, <2>1 DEF Fields
  <2> QED BY <2>1, <2>3, <2>4, CoverKept DEF CoverInv
<1> QED
  <2>1. ASSUME NEW r \in Readers, \E f \in Files : View(r, f)
        PROVE  CoverInv'
    <3>1. r \in Threads
      BY DEF Threads
    <3> QED BY <1>2, <2>1, <3>1
  <2> QED BY <1>3, <1>4, <1>5, <1>6, <1>7, <1>8, <1>9, <1>10, <1>11, <1>12, <2>1
          DEF Next, Finishing

----------------------------------------------------------------------------

(* The budget is never overrun unseen: the count of resident bytes, with   *)
(* what threads have decoded and are about to count, covers every byte the *)
(* slots retain, for any number of readers, sizes and budget, whatever     *)
(* eviction takes a slot between its registration and its count, and       *)
(* though the subtraction saturates (SegmentCache::admit, which counts     *)
(* after the slot is filled, and the eviction it runs).                    *)
THEOREM CountNeverUnderReports == Spec => []CountCoversRetained
<1> DEFINE Inv == CacheInv /\ WriterInv /\ CoverInv
<1>1. Init => CoverInv
  BY InitCovers
<1>2. CacheInv /\ WriterInv /\ CoverInv /\ [Next]_vars => CoverInv'
  <2> SUFFICES ASSUME CacheInv, WriterInv, CoverInv, [Next]_vars PROVE CoverInv'
    OBVIOUS
  <2>1. CASE UNCHANGED vars
    BY <2>1 DEF vars, store, cache, CoverInv, CountCoversRetained, Retained, Alive,
                Adopting, Uncounted
  <2>2. CASE Next
    BY <2>2, CoverStep
  <2> QED BY <2>1, <2>2
<1>3. CoverInv => CountCoversRetained
  BY DEF CoverInv
<1> QED BY <1>1, <1>2, <1>3, CacheInvInductive, PTL DEF Spec
=============================================================================
