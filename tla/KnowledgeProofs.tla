-------------------------- MODULE KnowledgeProofs --------------------------
(***************************************************************************)
(* The abstract table keeps its promise: an answer AS OF a spent           *)
(* coordinate is final.  Whatever implements Knowledge inherits it.        *)
(***************************************************************************)
EXTENDS Knowledge, TLAPS

(* Every coordinate in use is below the next one, and a version that died  *)
(* did so after its birth.                                                 *)
Spent ==
    /\ next \in Nat
    /\ \A v \in alive : v.born \in Nat /\ v.born < next
    /\ \A v \in dead : /\ v.born \in Nat /\ v.killed \in Nat
                       /\ v.born < v.killed /\ v.killed < next

\* What one event at coordinate next does to the versions, whichever it is:
\* some are killed there, some are born there, the rest stay.
LEMMA EventShape ==
    ASSUME Next
    PROVE  \E R \in SUBSET Row, V \in SUBSET alive :
              /\ alive' = (alive \ V) \cup {[row |-> r, born |-> next] : r \in R}
              /\ dead' = dead \cup Killed(V, next)
              /\ next' = next + 1
<1>1. CASE \E row \in Row : Append(row)
  <2>1. PICK row \in Row : Append(row)
    BY <1>1
  <2>2. /\ alive' = (alive \ {}) \cup {[row |-> r, born |-> next] : r \in {row}}
        /\ dead' = dead \cup Killed({}, next)
        /\ next' = next + 1
    BY <2>1 DEF Append, Killed
  <2>3. {row} \in SUBSET Row /\ {} \in SUBSET alive
    OBVIOUS
  <2> QED BY <2>2, <2>3, Zenon
<1>2. CASE \E V \in SUBSET alive : Delete(V)
  <2>1. PICK V \in SUBSET alive : Delete(V)
    BY <1>2
  <2>2. /\ alive' = (alive \ V) \cup {[row |-> r, born |-> next] : r \in {}}
        /\ dead' = dead \cup Killed(V, next)
        /\ next' = next + 1
    BY <2>1 DEF Delete
  <2> QED BY <2>2
<1>3. CASE \E R \in SUBSET Row, V \in SUBSET alive : Supersede(R, V)
  BY <1>3 DEF Supersede
<1> QED BY <1>1, <1>2, <1>3 DEF Next

\* Spent is inductive.
LEMMA SpentInductive == Spec => []Spent
<1>1. Init => Spent
  BY DEF Init, Spent
<1>2. Spent /\ [Next]_vars => Spent'
  <2> SUFFICES ASSUME Spent, [Next]_vars PROVE Spent'
    OBVIOUS
  <2>1. CASE Next
    <3>1. PICK R \in SUBSET Row, V \in SUBSET alive :
             /\ alive' = (alive \ V) \cup {[row |-> r, born |-> next] : r \in R}
             /\ dead' = dead \cup Killed(V, next)
             /\ next' = next + 1
      BY <2>1, EventShape
    <3>2. next \in Nat /\ next' = next + 1
      BY <3>1 DEF Spent
    <3>3. ASSUME NEW v \in alive' PROVE v.born \in Nat /\ v.born < next'
      BY <3>1, <3>2 DEF Spent
    <3>4. ASSUME NEW v \in dead'
          PROVE  /\ v.born \in Nat /\ v.killed \in Nat
                 /\ v.born < v.killed /\ v.killed < next'
      <4>1. CASE v \in dead
        BY <4>1, <3>2 DEF Spent
      <4>2. CASE v \in Killed(V, next)
        <5>1. PICK w \in V : v = [row |-> w.row, born |-> w.born, killed |-> next]
          BY <4>2 DEF Killed
        <5>2. w.born \in Nat /\ w.born < next
          BY <5>1 DEF Spent
        <5> QED BY <5>1, <5>2, <3>2
      <4> QED BY <3>1, <4>1, <4>2
    <3> QED BY <3>2, <3>3, <3>4 DEF Spent
  <2>2. CASE UNCHANGED vars
    BY <2>2 DEF vars, Spent
  <2> QED BY <2>1, <2>2
<1> QED BY <1>1, <1>2, PTL DEF Spec

\* One event leaves every spent cut's answer alone: the versions it kills
\* still answer for the cuts before their death, the ones it bears are later.
LEMMA EventSettled ==
    ASSUME Spent, Next, NEW cut \in 0..(next - 1)
    PROVE  AsOf(cut)' = AsOf(cut)
<1>1. PICK R \in SUBSET Row, V \in SUBSET alive :
         /\ alive' = (alive \ V) \cup {[row |-> r, born |-> next] : r \in R}
         /\ dead' = dead \cup Killed(V, next)
         /\ next' = next + 1
  BY EventShape
<1>2. cut \in Nat /\ cut < next /\ next \in Nat
  BY DEF Spent
<1>3. ASSUME NEW x \in AsOf(cut) PROVE x \in AsOf(cut)'
  <2>1. CASE \E w \in alive : w.born <= cut /\ x = w.row
    <3>1. PICK w \in alive : w.born <= cut /\ x = w.row
      BY <2>1
    <3>2. CASE w \in V
      <4>1. [row |-> w.row, born |-> w.born, killed |-> next] \in dead'
        BY <1>1, <3>2 DEF Killed
      <4> QED BY <4>1, <3>1, <1>2 DEF AsOf
    <3>3. CASE w \notin V
      BY <3>1, <3>3, <1>1 DEF AsOf
    <3> QED BY <3>2, <3>3
  <2>2. CASE \E w \in dead : w.born <= cut /\ cut < w.killed /\ x = w.row
    BY <2>2, <1>1 DEF AsOf
  <2> QED BY <2>1, <2>2 DEF AsOf
<1>4. ASSUME NEW x \in AsOf(cut)' PROVE x \in AsOf(cut)
  <2>1. CASE \E w \in alive' : w.born <= cut /\ x = w.row
    <3>1. PICK w \in alive' : w.born <= cut /\ x = w.row
      BY <2>1
    <3>2. w \in alive
      BY <3>1, <1>1, <1>2
    <3> QED BY <3>1, <3>2 DEF AsOf
  <2>2. CASE \E w \in dead' : w.born <= cut /\ cut < w.killed /\ x = w.row
    <3>1. PICK w \in dead' : w.born <= cut /\ cut < w.killed /\ x = w.row
      BY <2>2
    <3>2. CASE w \in dead
      BY <3>1, <3>2 DEF AsOf
    <3>3. CASE w \in Killed(V, next)
      <4>1. PICK v \in V : w = [row |-> v.row, born |-> v.born, killed |-> next]
        BY <3>3 DEF Killed
      <4> QED BY <4>1, <3>1 DEF AsOf
    <3> QED BY <3>1, <3>2, <3>3, <1>1
  <2> QED BY <2>1, <2>2 DEF AsOf
<1> QED BY <1>3, <1>4 DEF AsOf

(* Every behaviour of the abstract table fixes the answer AS OF a          *)
(* coordinate once the coordinate is spent (KnowledgeSnapshot::as_of).     *)
THEOREM KnowledgeSettled == Spec => SettledCuts
<1> DEFINE Settled == \A cut \in 0..(next - 1) : AsOf(cut)' = AsOf(cut)
<1>1. Spent /\ [Next]_vars => [Settled]_vars
  BY EventSettled
<1>2. Spec => []Spent
  BY SpentInductive
<1> QED BY <1>1, <1>2, PTL DEF Spec, SettledCuts
=============================================================================
