---------------------------- MODULE SegmentCache ----------------------------
(***************************************************************************)
(* The residency cache of one store (SegmentCache, SegmentSlot): decoded   *)
(* segments retained under a byte budget, faulted in from their files and  *)
(* evicted least recently used, while reader threads hold snapshots and    *)
(* views, and the writer flushes and compacts.                             *)
(*                                                                         *)
(* A slot is named by its file; files are numbered in the order they are   *)
(* written, and no name is written twice.  A view call is several steps:   *)
(* the touch, the slot's lock, the read and decode, the wait for the       *)
(* cache's lock, and one step for each slot the eviction tries.  The       *)
(* writer's own views (compaction reads every segment) and the slots it    *)
(* builds already decoded go through the same steps.                       *)
(***************************************************************************)
EXTENDS Integers, FiniteSetsExt, SequencesExt

CONSTANTS
    Readers,   \* threads that hold a StoreReader
    Writer,    \* the thread that owns the Store
    None,      \* no thread: a lock that is free
    Sizes,     \* the decoded footprint of each file's segment
    Opened,    \* the files the open found, named by the manifest
    Budget     \* SegmentCache.budget

ASSUME WriterAssumption == Writer \notin Readers /\ None \notin Readers \union {Writer}
ASSUME ReadersAssumption == IsFiniteSet(Readers)
ASSUME SizesAssumption == Sizes \in Seq(Nat \ {0})
ASSUME OpenedAssumption == Opened \in 0..Len(Sizes)
ASSUME BudgetAssumption == Budget \in Nat

Threads == Readers \union {Writer}
Files == 1..Len(Sizes)   \* bound: the files ever written

VARIABLES
    files,     \* the segment and history objects in the backend
    written,   \* how many were ever written
    live,      \* Shared.segments
    history,   \* Shared.history
    install,   \* what a flush or a compaction is about to adopt
    cached,    \* the slots whose state is decoded
    holder,    \* who holds each slot's lock
    recency,   \* the registered slots, least recently touched first
    resident,  \* SegmentCache.resident
    evictor,   \* who holds the cache's lock
    queue,     \* the candidates its eviction has yet to try
    pc,        \* where each thread is in its operation
    goal,      \* the slot its view call, or its construction, is about
    snap,      \* the slots its handles keep alive
    pins       \* the slots whose decoded segment it holds

store == <<files, written, live, history, install>>
cache == <<resident, evictor, queue>>
vars == <<store, cached, holder, recency, cache, pc, goal, snap, pins>>

Nothing == [compacting |-> FALSE, segments |-> {}, history |-> {}, todo |-> {}]

Adopting == install.segments \union install.history

\* The slots some Arc keeps: the rest are dropped, decoded segment and all.
Alive == live \union history \union (Adopting \ install.todo)
         \union (UNION {snap[t] : t \in Threads}) \union ToSet(queue)

Retained == cached \intersect Alive

Total(bytes, s) == MapThenSumSet(LAMBDA x : bytes[x], s)

Size(s) == Total(Sizes, s)

\* Arc::strong_count(segment) > 1.
Pinned(f) == \E t \in Threads : f \in pins[t]

\* A touch that registers the slot once more.
TouchedAgain(f) == Append(recency, f)

\* What of a list of slots is in S, in the order of the list.
Listed(list, S) ==
    LET upto[n \in 0..Len(list)] ==
          IF n = 0 THEN <<>>
          ELSE IF list[n] \in S THEN Append(upto[n - 1], list[n]) ELSE upto[n - 1]
    IN  upto[Len(list)]

Touched(f) == Append(Listed(recency, Files \ {f}), f)

Goto(t, label) == pc' = [pc EXCEPT ![t] = label]

Done(t, label) == Goto(t, label) /\ goal' = [goal EXCEPT ![t] = 0]

----------------------------------------------------------------------------

\* Store::open with a recorded layout: lazy slots, nothing decoded.
Init ==
    /\ files = 1..Opened
    /\ written = Opened
    /\ live = 1..Opened
    /\ history = {}
    /\ install = Nothing
    /\ cached = {}
    /\ holder = [f \in Files |-> None]
    /\ recency = [f \in 1..Opened |-> f]
    /\ resident = 0
    /\ evictor = None
    /\ queue = <<>>
    /\ pc = [t \in Threads |-> "idle"]
    /\ goal = [t \in Threads |-> 0]
    /\ snap = [t \in Threads |-> {}]
    /\ pins = [t \in Threads |-> {}]

\* StoreReader::knowledge_snapshot: handles, not decoded segments.
Mint(r) ==
    /\ pc[r] = "idle"
    /\ snap' = [snap EXCEPT ![r] = live \union history]
    /\ Goto(r, "ready")
    /\ UNCHANGED <<store, cached, holder, recency, cache, goal, pins>>

\* The query ends and drops its views; the snapshot lives on.
DropViews(r) ==
    /\ pc[r] = "ready"
    /\ pins[r] # {}
    /\ pins' = [pins EXCEPT ![r] = {}]
    /\ UNCHANGED <<store, cached, holder, recency, cache, pc, goal, snap>>

\* The snapshot goes, or the query failed and its error is returned.
DropSnapshot(r) ==
    /\ pc[r] \in {"ready", "failed"}
    /\ snap' = [snap EXCEPT ![r] = {}]
    /\ pins' = [pins EXCEPT ![r] = {}]
    /\ Goto(r, "idle")
    /\ UNCHANGED <<store, cached, holder, recency, cache, goal>>

----------------------------------------------------------------------------

\* SegmentHandle::view, SegmentSlot::segment: the touch.
View(t, f) ==
    /\ pc[t] = "ready"
    /\ f \in snap[t] \ pins[t]
    /\ recency' = Touched(f)
    /\ goal' = [goal EXCEPT ![t] = f]
    /\ Goto(t, "locking")
    /\ UNCHANGED <<store, cached, holder, cache, snap, pins>>

\* The slot's lock, and the decoded segment if it is there.
Lock(t) ==
    LET f == goal[t] IN
    /\ pc[t] = "locking"
    /\ holder[f] = None
    /\ \/ /\ f \in cached
          /\ pins' = [pins EXCEPT ![t] = @ \union {f}]
          /\ Done(t, "ready")
          /\ UNCHANGED holder
       \/ /\ f \notin cached
          /\ holder' = [holder EXCEPT ![f] = t]
          /\ Goto(t, "reading")
          /\ UNCHANGED <<goal, pins>>
    /\ UNCHANGED <<store, cached, recency, cache, snap>>

\* A fault that keeps the slot's lock after its decode.
DecodeStillLocked(t) ==
    /\ pc[t] = "reading"
    /\ goal[t] \in files
    /\ cached' = cached \union {goal[t]}
    /\ pins' = [pins EXCEPT ![t] = @ \union {goal[t]}]
    /\ Goto(t, "counting")
    /\ UNCHANGED <<store, holder, recency, cache, goal, snap>>

\* backend.read finds the file: the slot is filled and its lock dropped.
Decode(t) ==
    LET f == goal[t] IN
    /\ pc[t] = "reading"
    /\ f \in files
    /\ cached' = cached \union {f}
    /\ pins' = [pins EXCEPT ![t] = @ \union {f}]
    /\ holder' = [holder EXCEPT ![f] = None]
    /\ Goto(t, "counting")
    /\ UNCHANGED <<store, recency, cache, goal, snap>>

\* A failed fault that keeps the slot's lock.
NotFoundStillLocked(t) ==
    /\ pc[t] = "reading"
    /\ goal[t] \notin files
    /\ Done(t, "failed")
    /\ UNCHANGED <<store, cached, holder, recency, cache, snap, pins>>

\* backend.read returns NotFound; the guard's drop releases the lock.
NotFound(t) ==
    LET f == goal[t] IN
    /\ pc[t] = "reading"
    /\ f \notin files
    /\ holder' = [holder EXCEPT ![f] = None]
    /\ Done(t, "failed")
    /\ UNCHANGED <<store, cached, recency, cache, snap, pins>>

\* Where admit returns to: the view call or the construction of a slot.
Admitted(t) == IF goal[t] \in Adopting THEN "building" ELSE "ready"

\* SegmentCache::admit: count the bytes; over budget, list the candidates.
Count(t) ==
    LET now == resident + Sizes[goal[t]] IN
    /\ pc[t] = "counting"
    /\ evictor = None
    /\ resident' = now
    /\ \/ /\ now <= Budget
          /\ Done(t, Admitted(t))
          /\ UNCHANGED <<evictor, queue>>
       \/ /\ now > Budget
          /\ evictor' = t
          /\ queue' = Listed(recency, Alive)
          /\ Goto(t, "evicting")
          /\ UNCHANGED goal
    /\ UNCHANGED <<store, cached, holder, recency, snap, pins>>

\* An eviction that does not ask whether the segment is in use, and one that
\* counts an empty slot as freed.
EvictableInUse(f) == holder[f] = None /\ f \in cached
EvictableEmpty(f) == holder[f] = None /\ ~Pinned(f)

\* SegmentSlot::evict: the decoded segment goes unless the slot is mid-fault
\* (try_lock), empty, or pinned.
Evictable(f) == holder[f] = None /\ f \in cached /\ ~Pinned(f)

TryEvict(t) ==
    LET f == Head(queue) IN
    /\ pc[t] = "evicting"
    /\ resident > Budget
    /\ queue # <<>>
    /\ queue' = Tail(queue)
    /\ \/ /\ Evictable(f)
          /\ cached' = cached \ {f}
          /\ resident' = Max({resident - Sizes[f], 0})
       \/ /\ ~Evictable(f)
          /\ UNCHANGED <<cached, resident>>
    /\ UNCHANGED <<store, holder, recency, evictor, pc, goal, snap, pins>>

Leave(t) ==
    /\ pc[t] = "evicting"
    /\ resident <= Budget \/ queue = <<>>
    /\ evictor' = None
    /\ queue' = <<>>
    /\ Done(t, Admitted(t))
    /\ UNCHANGED <<store, cached, holder, recency, resident, snap, pins>>

----------------------------------------------------------------------------


\* Store::flush: the segment and the manifest that names it are published.
Flush ==
    /\ pc[Writer] = "idle"
    /\ written < Len(Sizes)
    /\ files' = files \union {written + 1}
    /\ written' = written + 1
    /\ install' = [Nothing EXCEPT !.segments = {written + 1}, !.todo = {written + 1}]
    /\ Goto(Writer, "building")
    /\ UNCHANGED <<live, history, cached, holder, recency, cache, goal, snap, pins>>

\* Store::compact: every segment is viewed, and held until compact returns.
Compact ==
    /\ pc[Writer] = "idle"
    /\ written < Len(Sizes)
    /\ live # {}
    /\ snap' = [snap EXCEPT ![Writer] = live]
    /\ Goto(Writer, "ready")
    /\ UNCHANGED <<store, cached, holder, recency, cache, goal, pins>>

\* The next generation is written and committed: no segment if every row is
\* dead, a history segment if any is.
Commit ==
    /\ pc[Writer] = "ready"
    /\ pins[Writer] = snap[Writer]
    /\ \E segments, dead \in SUBSET (written + 1 .. Len(Sizes)) :
          /\ Cardinality(segments) <= 1 /\ Cardinality(dead) <= 1
          /\ segments \union dead = written + 1 .. written + Cardinality(segments \union dead)
          /\ segments # {} \/ dead # {}
          /\ segments \intersect dead = {}
          /\ \A f \in segments, g \in dead : f < g
          /\ files' = files \union segments \union dead
          /\ written' = Max(segments \union dead)
          /\ install' = [compacting |-> TRUE, segments |-> segments, history |-> dead,
                         todo |-> segments \union dead]
    /\ Goto(Writer, "building")
    /\ UNCHANGED <<live, history, cached, holder, recency, cache, goal, snap, pins>>

\* SegmentSlot::resident: registered, decoded, then admitted.
Build ==
    /\ pc[Writer] = "building"
    /\ install.todo # {}
    /\ LET f == Min(install.todo) IN
          /\ install' = [install EXCEPT !.todo = @ \ {f}]
          /\ cached' = cached \union {f}
          /\ recency' = Touched(f)
          /\ goal' = [goal EXCEPT ![Writer] = f]
    /\ Goto(Writer, "counting")
    /\ UNCHANGED <<files, written, live, history, holder, cache, snap, pins>>

\* The swap under the store's lock.
Adopt ==
    /\ pc[Writer] = "building"
    /\ install.todo = {}
    /\ live' = IF install.compacting THEN install.segments ELSE live \union install.segments
    /\ history' = history \union install.history
    /\ install' = Nothing
    /\ Goto(Writer, IF install.compacting THEN "cleaning" ELSE "idle")
    /\ UNCHANGED <<files, written, cached, holder, recency, cache, goal, snap, pins>>

\* A cleanup that forgets the history segments.
StaleAndHistory == files \ live

\* What the cleanup after a compaction removes: the other generations.
Stale == files \ (live \union history)

RemoveStale ==
    /\ pc[Writer] = "cleaning"
    /\ \E f \in Stale : files' = files \ {f}
    /\ UNCHANGED <<written, live, history, install, cached, holder, recency, cache,
                   pc, goal, snap, pins>>

\* compact returns, and its views go.
Compacted ==
    /\ pc[Writer] = "cleaning"
    /\ Stale = {}
    /\ snap' = [snap EXCEPT ![Writer] = {}]
    /\ pins' = [pins EXCEPT ![Writer] = {}]
    /\ Goto(Writer, "idle")
    /\ UNCHANGED <<store, cached, holder, recency, cache, goal>>

----------------------------------------------------------------------------

\* The steps inside a view call: the thread takes them without being asked.
Step(t) == Lock(t) \/ Decode(t) \/ NotFound(t) \/ Count(t) \/ TryEvict(t) \/ Leave(t)

\* The steps of a flush or a compaction outside its view calls.
Finishing == (\E f \in Files : View(Writer, f)) \/ Commit \/ Build \/ Adopt \/ RemoveStale \/ Compacted

Next ==
    \/ \E t \in Threads : Step(t)
    \/ \E r \in Readers : Mint(r) \/ DropViews(r) \/ DropSnapshot(r) \/ \E f \in Files : View(r, f)
    \/ Flush \/ Compact \/ Finishing

Spec == Init /\ [][Next]_vars

\* A thread inside a call runs on, and a mutex that keeps becoming free is
\* got in the end by whoever waits for it; the writer finishes what it began.
Fairness == (\A t \in Threads : SF_vars(Step(t))) /\ WF_vars(Finishing)

FairSpec == Spec /\ Fairness

----------------------------------------------------------------------------

Labels == {"idle", "ready", "locking", "reading", "counting", "evicting", "building",
           "cleaning", "failed"}

\* The state stays well formed, the locks are held exactly by the threads
\* whose place in the code says so, and the registry lists a slot once.
TypeOK ==
    /\ files \subseteq 1..written /\ written \in 0..Len(Sizes)
    /\ live \union history \union Adopting \union cached \subseteq 1..written
    /\ install.todo \subseteq Adopting
    /\ \A f \in Files : holder[f] # None => pc[holder[f]] = "reading" /\ goal[holder[f]] = f
    /\ evictor # None => pc[evictor] = "evicting"
    /\ \A t \in Threads : /\ pc[t] \in Labels
                          /\ pc[t] = "reading" => holder[goal[t]] = t
                          /\ pc[t] = "evicting" => evictor = t
                          /\ pins[t] \subseteq snap[t]
    /\ Len(recency) = Cardinality(ToSet(recency))
    /\ resident \in Nat

\* A segment is in memory at most once: while any thread holds a decoded
\* segment its slot keeps the same one, so a second view never decodes it
\* again (SegmentSlot::evict skips what is pinned).
OneDecodedCopy ==
    \A t \in Threads : pins[t] \subseteq cached

\* The bytes threads have decoded and not yet counted.
Uncounted ==
    LET counting == {t \in Threads : pc[t] = "counting"}
    IN  Total([t \in counting |-> Sizes[goal[t]]], counting)

\* The residency count never under-reports: with what is being counted it
\* covers every byte the slots retain, whatever eviction takes a slot
\* between its registration and its count, and saturation included.
CountCoversRetained ==
    resident + Uncounted >= Size(Retained)

\* Whatever the store would hand out now can be faulted in: a file is there
\* before a slot for it is adopted and until no new snapshot names it.
CurrentFaultable ==
    live \union history \union Adopting \subseteq files

\* Every view call returns, with a segment or an error: the locks of slots
\* and cache are never waited for in a circle (the slot's is dropped before
\* admit, and eviction only tries it).
ViewsReturn ==
    \A t \in Threads :
        pc[t] \in {"locking", "reading", "counting", "evicting"}
            ~> pc[t] \in {"ready", "building", "failed"}

\* A flush or a compaction comes to its end whatever the readers do.
WriterReturns == (pc[Writer] # "idle") ~> (pc[Writer] \in {"idle", "failed"})

\* What the comments say of snapshots: their segments stay readable
\* whatever the writer compacts.
SnapshotsStayReadable ==
    \A t \in Threads : pc[t] # "failed"

\* What the comment on SegmentCache.resident says it is.
ResidentIsRetained ==
    (evictor = None /\ \A t \in Threads : pc[t] # "counting") => resident = Size(Retained)

=============================================================================
