----------------------------- MODULE ViewBuckets -----------------------------
(***************************************************************************)
(* The bucket arithmetic maintained views share (view.rs): truncating      *)
(* division of ordering keys into buckets, a bucket's edges at the limits  *)
(* of the integer, runs of consecutive buckets and merged key ranges.      *)
(*                                                                         *)
(* A range is a pair <<low, high>>, both ends included; a list of ranges,  *)
(* which the code keeps sorted, is the set of them.                        *)
(***************************************************************************)
EXTENDS Integers

CONSTANT MaxKey   \* i64::MAX, scaled down

ASSUME MaxKeyAssumption == MaxKey \in Nat \ {0}

MinKey == -MaxKey - 1

OrderingKeys == MinKey..MaxKey

\* saturating_mul, saturating_add, saturating_sub: what does not fit is cut.
Saturated(x) == IF x > MaxKey THEN MaxKey ELSE IF x < MinKey THEN MinKey ELSE x

\* The executor's `/`: it truncates toward zero, so bucket 0 holds both the
\* positive and the negative keys nearest to zero.
BucketOf(key, width) == IF key >= 0 THEN key \div width ELSE -((-key) \div width)

\* A low edge that forgets that truncation rounds negative keys up.
FlooredLow(index, width) == Saturated(index * width)

BucketLow(index, width) ==
    IF index > 0 THEN Saturated(index * width)
    ELSE IF index = 0 THEN -(width - 1)
    ELSE Saturated(Saturated(index * width) - (width - 1))

BucketHigh(index, width) ==
    IF index > 0 THEN Saturated(Saturated(index * width) + (width - 1))
    ELSE IF index = 0 THEN width - 1
    ELSE Saturated(index * width)

Covered(ranges) == UNION {range[1]..range[2] : range \in ranges}

\* The maximal runs of consecutive members of a set.
ContiguousRuns(set) ==
    {run \in set \X set :
        /\ run[1] <= run[2] /\ run[1]..run[2] \subseteq set
        /\ run[1] - 1 \notin set /\ run[2] + 1 \notin set}

MergedRanges(ranges) == ContiguousRuns(Covered(ranges))

\* Key ranges as runs of bucket indices.
BucketRuns(ranges, width) ==
    MergedRanges({<<BucketOf(range[1], width), BucketOf(range[2], width)>> : range \in ranges})

\* The keys the restricted definition reads for some runs of buckets.
KeysOf(runs, width) ==
    Covered({<<BucketLow(run[1], width), BucketHigh(run[2], width)>> : run \in runs})

=============================================================================
