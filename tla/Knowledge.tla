----------------------------- MODULE Knowledge -----------------------------
(***************************************************************************)
(* What a TallyDB table promises about its knowledge axis, with nothing    *)
(* of how it is kept: a set of row versions, each born at an ingest        *)
(* sequence, some of them killed at a later one.  Every ingest event - an  *)
(* append, a delete, a supersession - consumes exactly one coordinate, so  *)
(* the table as known at a coordinate already spent is fixed forever.      *)
(*                                                                         *)
(* SharedStore implements this specification for readers in the writer's   *)
(* process, DurableStore implements it across crashes.                     *)
(***************************************************************************)
EXTENDS Integers

CONSTANT
    Row        \* the row versions that can ever be written

VARIABLES
    alive,     \* versions in force:   set of [row, born]
    dead,      \* superseded versions: set of [row, born, killed]
    next       \* the coordinate the next event takes

vars == <<alive, dead, next>>

Written == {v.row : v \in alive} \cup {v.row : v \in dead}

Killed(V, coordinate) ==
    {[row |-> v.row, born |-> v.born, killed |-> coordinate] : v \in V}

Init ==
    /\ alive = {}
    /\ dead = {}
    /\ next = 0

\* Store::append: one row, born at the coordinate it consumes.
Append(row) ==
    /\ row \notin Written
    /\ alive' = alive \cup {[row |-> row, born |-> next]}
    /\ next' = next + 1
    /\ UNCHANGED dead

\* Store::tombstone: a delete consumes a coordinate no row is born at.
Delete(V) ==
    /\ V # {}
    /\ alive' = alive \ V
    /\ dead' = dead \cup Killed(V, next)
    /\ next' = next + 1

\* Store::supersede: births and kills of one mutation share its coordinate.
Supersede(R, V) ==
    /\ R # {}
    /\ R \cap Written = {}
    /\ alive' = (alive \ V) \cup {[row |-> row, born |-> next] : row \in R}
    /\ dead' = dead \cup Killed(V, next)
    /\ next' = next + 1

Next ==
    \/ \E row \in Row : Append(row)
    \/ \E V \in SUBSET alive : Delete(V)
    \/ \E R \in SUBSET Row, V \in SUBSET alive : Supersede(R, V)

Spec == Init /\ [][Next]_vars

----------------------------------------------------------------------------

\* KnowledgeSnapshot::as_of: born at or before the cut, not killed by it.
AsOf(cut) ==
    {v.row : v \in {w \in alive : w.born <= cut}}
      \cup {v.row : v \in {w \in dead : w.born <= cut /\ cut < w.killed}}

(* The answer AS OF a coordinate already spent never changes again: what  *)
(* Store::next_sequence promises ("its answer is fixed forever").          *)
SettledCuts == [][\A cut \in 0..(next - 1) : AsOf(cut)' = AsOf(cut)]_vars
=============================================================================
