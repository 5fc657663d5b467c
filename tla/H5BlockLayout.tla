--------------------------- MODULE H5BlockLayout ----------------------------
(***************************************************************************)
(* Partitions of a field and the dissolving of one ghost zone              *)
(* (h5part/src/H5Block.c).  A partition is <<from, to>> in each dimension, *)
(* both ends included.                                                     *)
(***************************************************************************)
EXTENDS Integers, Sequences

Dims == 1 .. 3

\* Ends given in either order.
_normalize_partition(p) ==
    [d \in Dims |-> IF p[d][1] > p[d][2] THEN <<p[d][2], p[d][1]>> ELSE p[d]]

\* Without the + 1 of inclusive ends: a partition one place thick has volume 0.
_volume_of_partition(p) == (p[1][2] - p[1][1]) * (p[2][2] - p[2][1]) * (p[3][2] - p[3][1])

\* Of two ranges the lower one must not reach to the end of the other.
CanDissolve(a, b) == IF a[1] > b[1] THEN a[2] > b[2] ELSE b[2] > a[2]

\* The plane between two overlapping ranges is put in the middle of the overlap.
Middle(lower, upper) == (lower[2] + upper[1]) \div 2

SharedPlane(a, b) ==   \* slip: both ranges keep the plane between them
    IF a[1] > b[1] THEN <<<<Middle(b, a), a[2]>>, <<b[1], Middle(b, a)>>>>
                   ELSE <<<<a[1], Middle(a, b)>>, <<Middle(a, b), b[2]>>>>

\* _dissolve_X_ghostzone, and Y and Z: what is left of the two ranges.
Split(a, b) ==
    IF a[1] > b[1] THEN <<<<Middle(b, a) + 1, a[2]>>, <<b[1], Middle(b, a)>>>>
                   ELSE <<<<a[1], Middle(a, b)>>, <<Middle(a, b) + 1, b[2]>>>>

\* The two partitions when the ghost zone is dissolved along d.
SplitAlong(p, q, d) ==
    LET s == Split(p[d], q[d])
    IN  <<[p EXCEPT ![d] = s[1]], [q EXCEPT ![d] = s[2]]>>

Volume(pq) == _volume_of_partition(pq[1]) + _volume_of_partition(pq[2])

\* The dimensions along which the zone can be dissolved with some volume left.
WaysToDissolve(p, q) == {d \in Dims : CanDissolve(p[d], q[d]) /\ Volume(SplitAlong(p, q, d)) > 0}

\* The one that leaves the most, the first of equals.
Best(p, q) ==
    CHOOSE d \in WaysToDissolve(p, q) : \A e \in WaysToDissolve(p, q) :
        \/ Volume(SplitAlong(p, q, e)) < Volume(SplitAlong(p, q, d))
        \/ (Volume(SplitAlong(p, q, e)) = Volume(SplitAlong(p, q, d)) /\ d <= e)

\* The layout with the zone between r and s dissolved.  The error that there is
\* no choice is not looked at.
_dissolve_ghostzone(layout, r, s) ==
    LET p == layout[r]
        q == layout[s]
        best == SplitAlong(p, q, Best(p, q))
    IN  IF WaysToDissolve(p, q) = {} THEN layout
        ELSE [layout EXCEPT ![r] = best[1], ![s] = best[2]]
=============================================================================
