-------------------------- MODULE MCMaintainedView --------------------------
EXTENDS MaintainedView

MCShapes ==
    {[kind |-> "bucketed", divide |-> 2], [kind |-> "running", divide |-> 1],
     [kind |-> "asof", divide |-> 2], [kind |-> "before", divide |-> 1],
     [kind |-> "star", divide |-> 2]}

MCKeys == {-2, 0, 3}
\* Strict matching needs three dimension rows to tell its intervals apart.
MCEvents == [kind \in Kinds |-> IF kind = "before" THEN 4 ELSE 3]
MCFacts == [kind \in Kinds |-> IF kind = "before" THEN 1 ELSE 2]

MCSymmetry == Permutations(Symbols)

MCAsOf == {[kind |-> "asof", divide |-> 1]}
=============================================================================
