--------------------------- MODULE H5Block_proofs ---------------------------
(***************************************************************************)
(* H5Block: first the layouts, for any number of processors and any        *)
(* dimensions: what dissolving one ghost zone does to two partitions and   *)
(* to the layout they are part of, decomposition and padding of blocks.    *)
(* Then files of H5Part and H5Block, for any names, steps and numbers of   *)
(* objects, and any calls in any order: what is left open, what queries    *)
(* look at, what a file keeps and what is enumerated.                      *)
(***************************************************************************)
EXTENDS H5BlockFile, H5MultiBlockLayout, RowsAndColumns

-----------------------------------------------------------------------------
(* Partitions with ghost zones (H5Block)                                     *)

IsRange(a) == a \in Int \X Int /\ a[1] <= a[2]
InRange(x, a) == a[1] <= x /\ x <= a[2]
Narrower(a, b) == b[1] <= a[1] /\ a[2] <= b[2]
Overlap(a, b) == a[1] <= b[2] /\ b[1] <= a[2]

IsPartition(p) == p \in [Dims -> Int \X Int] /\ \A d \in Dims : p[d][1] <= p[d][2]
InsidePartition(p, q) == \A d \in Dims : Narrower(p[d], q[d])
GhostZone(p, q) == \A d \in Dims : Overlap(p[d], q[d])
Flat(p) == p[3][1] = p[3][2]

LEMMA MiddleIsBetween ==
    ASSUME NEW i \in Int, NEW j \in Int, i <= j
    PROVE  LET m == (j + i) \div 2 IN m \in Int /\ i <= m /\ m <= j
  OBVIOUS

(* Where one of the dissolve functions changes two overlapping ranges, neither *)
(* range becomes empty or grows, they have no place in common any more, and    *)
(* no place is lost between them.                                              *)
THEOREM SplitDivides ==
    ASSUME NEW a, NEW b, IsRange(a), IsRange(b), Overlap(a, b), CanDissolve(a, b)
    PROVE  LET s == Split(a, b)
           IN  /\ IsRange(s[1]) /\ IsRange(s[2])
               /\ Narrower(s[1], a) /\ Narrower(s[2], b)
               /\ ~Overlap(s[1], s[2])
               /\ \A x \in Int : (InRange(x, a) \/ InRange(x, b))
                                    <=> (InRange(x, s[1]) \/ InRange(x, s[2]))
<1> USE DEF IsRange, Overlap
<1>0. a[1] \in Int /\ a[2] \in Int /\ b[1] \in Int /\ b[2] \in Int
  OBVIOUS
<1>1. CASE a[1] > b[1]
  <2> DEFINE m == Middle(b, a)
  <2>1. m \in Int /\ a[1] <= m /\ m <= b[2]
    BY <1>0, <1>1, MiddleIsBetween DEF Middle
  <2>2. a[2] > b[2]
    BY <1>1 DEF CanDissolve
  <2>3. Split(a, b) = <<<<m + 1, a[2]>>, <<b[1], m>>>>
    BY <1>1 DEF Split
  <2> HIDE DEF m
  <2> QED
    BY <1>0, <1>1, <2>1, <2>2, <2>3 DEF Narrower, InRange
<1>2. CASE ~(a[1] > b[1])
  <2> DEFINE m == Middle(a, b)
  <2>1. m \in Int /\ b[1] <= m /\ m <= a[2]
    BY <1>0, <1>2, MiddleIsBetween DEF Middle
  <2>2. b[2] > a[2]
    BY <1>2 DEF CanDissolve
  <2>3. Split(a, b) = <<<<a[1], m>>, <<m + 1, b[2]>>>>
    BY <1>2 DEF Split
  <2> HIDE DEF m
  <2> QED
    BY <1>0, <1>2, <2>1, <2>2, <2>3 DEF Narrower, InRange
<1> QED
  BY <1>1, <1>2

(* Whichever way round the ends are given, the library works with a partition. *)
THEOREM NormalizeIsPartition ==
    ASSUME NEW p \in [Dims -> Int \X Int]
    PROVE  IsPartition(_normalize_partition(p))
<1>1. ASSUME NEW d \in Dims
      PROVE  LET n == _normalize_partition(p)[d] IN n \in Int \X Int /\ n[1] <= n[2]
  BY <1>1 DEF _normalize_partition
<1> QED
  BY <1>1 DEF IsPartition, _normalize_partition

(* A partition dissolved along one dimension is a partition inside the old one. *)
LEMMA SplitAlongDivides ==
    ASSUME NEW p, NEW q, IsPartition(p), IsPartition(q), GhostZone(p, q),
           NEW d \in Dims, CanDissolve(p[d], q[d])
    PROVE  LET s == SplitAlong(p, q, d)
           IN  /\ IsPartition(s[1]) /\ InsidePartition(s[1], p)
               /\ IsPartition(s[2]) /\ InsidePartition(s[2], q)
               /\ ~GhostZone(s[1], s[2])
<1> DEFINE t == Split(p[d], q[d])
           p1 == [p EXCEPT ![d] = t[1]]
           q1 == [q EXCEPT ![d] = t[2]]
<1>1. IsRange(p[d]) /\ IsRange(q[d]) /\ Overlap(p[d], q[d])
  BY DEF IsPartition, IsRange, GhostZone
<1>2. /\ IsRange(t[1]) /\ IsRange(t[2])
      /\ Narrower(t[1], p[d]) /\ Narrower(t[2], q[d])
      /\ ~Overlap(t[1], t[2])
  BY <1>1, SplitDivides
<1> HIDE DEF t
<1>3. IsPartition(p1) /\ InsidePartition(p1, p)
  BY <1>2 DEF IsPartition, InsidePartition, IsRange, Narrower
<1>4. IsPartition(q1) /\ InsidePartition(q1, q)
  BY <1>2 DEF IsPartition, InsidePartition, IsRange, Narrower
<1>5. p1[d] = t[1] /\ q1[d] = t[2]
  <2>1. d \in DOMAIN p /\ d \in DOMAIN q
    BY DEF IsPartition
  <2> HIDE DEF t
  <2> QED
    BY <2>1
<1>6. ~GhostZone(p1, q1)
  BY <1>2, <1>5 DEF GhostZone
<1>7. SplitAlong(p, q, d) = <<p1, q1>>
  BY DEF SplitAlong, t
<1> QED
  BY <1>3, <1>4, <1>6, <1>7

LEMMA VolumeIsInteger ==
    ASSUME NEW p, IsPartition(p)
    PROVE  _volume_of_partition(p) \in Int
<1>1. ASSUME NEW d \in Dims PROVE p[d][2] - p[d][1] \in Int
  <2>1. p[d] \in Int \X Int
    BY DEF IsPartition
  <2>2. p[d][1] \in Int /\ p[d][2] \in Int
    BY <2>1
  <2> QED
    BY <2>2
<1> DEFINE x == p[1][2] - p[1][1]
           y == p[2][2] - p[2][1]
           z == p[3][2] - p[3][1]
<1>2. x \in Int /\ y \in Int /\ z \in Int
  BY <1>1 DEF Dims
<1> HIDE DEF x, y, z
<1>3. x * y * z \in Int
  BY <1>2
<1> QED
  BY <1>3 DEF x, y, z, _volume_of_partition

(* Some member of a set of at most three has the greatest value. *)
LEMMA GreatestWithOneMore ==
    ASSUME NEW S, NEW val, NEW x, \A e \in S \cup {x} : val[e] \in Int,
           S = {} \/ \E d \in S : \A e \in S : val[e] <= val[d]
    PROVE  \E d \in S \cup {x} : \A e \in S \cup {x} : val[e] <= val[d]
<1>1. CASE S = {}
  BY <1>1
<1>2. CASE S # {}
  <2>1. PICK d \in S : \A e \in S : val[e] <= val[d]
    BY <1>2
  <2>2. CASE val[x] <= val[d]
    BY <2>1, <2>2
  <2>3. CASE ~(val[x] <= val[d])
    <3>1. \A e \in S : val[e] <= val[x]
      BY <2>1, <2>3
    <3> QED
      BY <3>1
  <2> QED
    BY <2>2, <2>3
<1> QED
  BY <1>1, <1>2

LEMMA GreatestOfThree ==
    ASSUME NEW W \in SUBSET {1, 2, 3}, W # {}, NEW val, \A e \in W : val[e] \in Int
    PROVE  \E d \in W : \A e \in W : val[e] <= val[d]
<1> DEFINE HasGreatest(S) == S = {} \/ \E d \in S : \A e \in S : val[e] <= val[d]
<1>1. ASSUME NEW S \in SUBSET W, NEW x \in W, HasGreatest(S)
      PROVE  HasGreatest(S \cup {x})
  BY <1>1, GreatestWithOneMore
<1>2. HasGreatest(W \cap {1})
  BY DEF HasGreatest
<1>3. HasGreatest(W \cap {1, 2})
  <2>1. CASE 2 \in W
    <3>1. W \cap {1, 2} = (W \cap {1}) \cup {2}
      BY <2>1
    <3> HIDE DEF HasGreatest
    <3> QED
      BY <1>1, <1>2, <2>1, <3>1
  <2>2. CASE 2 \notin W
    <3>1. W \cap {1, 2} = W \cap {1}
      BY <2>2
    <3> QED
      BY <1>2, <3>1
  <2> QED
    BY <2>1, <2>2
<1>4. HasGreatest(W)
  <2>1. CASE 3 \in W
    <3>1. W = (W \cap {1, 2}) \cup {3}
      BY <2>1
    <3> HIDE DEF HasGreatest
    <3> QED
      BY <1>1, <1>3, <2>1, <3>1
  <2>2. CASE 3 \notin W
    <3>1. W = W \cap {1, 2}
      BY <2>2
    <3> QED
      BY <1>3, <3>1
  <2> QED
    BY <2>1, <2>2
<1> QED
  BY <1>4

(* When there is a way to dissolve a zone, the best way is one of them. *)
LEMMA BestIsAWay ==
    ASSUME NEW p, NEW q, IsPartition(p), IsPartition(q), GhostZone(p, q),
           WaysToDissolve(p, q) # {}
    PROVE  Best(p, q) \in WaysToDissolve(p, q)
<1> DEFINE W == WaysToDissolve(p, q)
           v(d) == Volume(SplitAlong(p, q, d))
           beats(d, e) == v(e) < v(d) \/ (v(e) = v(d) /\ d <= e)
<1>1. W \subseteq 1 .. 3
  BY DEF WaysToDissolve, Dims
<1>2. \A d \in W : v(d) \in Int
  <2> SUFFICES ASSUME NEW d \in W PROVE v(d) \in Int
    OBVIOUS
  <2> DEFINE s == SplitAlong(p, q, d)
  <2>1. d \in Dims /\ CanDissolve(p[d], q[d])
    BY DEF WaysToDissolve
  <2>2. IsPartition(s[1]) /\ IsPartition(s[2])
    BY <2>1, SplitAlongDivides
  <2> QED
    BY <2>2, VolumeIsInteger DEF Volume
<1> HIDE DEF W, v
<1>3. \E d \in W : \A e \in W : beats(d, e)
  <2>1. W \in SUBSET {1, 2, 3} /\ W # {}
    BY <1>1 DEF W
  <2>2. PICK d \in W : \A e \in W : v(e) <= v(d)
    <3> DEFINE val == [e \in W |-> v(e)]
    <3>1. PICK d \in W : \A e \in W : val[e] <= val[d]
      <4>1. \A e \in W : val[e] \in Int
        BY <1>2
      <4> HIDE DEF val
      <4> QED
        BY <2>1, <4>1, GreatestOfThree
    <3>2. \A e \in W : v(e) <= v(d)
      BY <3>1
    <3> QED
      BY <3>2
  <2> DEFINE M == {e \in W : v(e) = v(d)}
  <2>3. M \in SUBSET {1, 2, 3} /\ d \in M
    BY <2>1
  <2>4. PICK m \in M : \A e \in M : m <= e
    <3> HIDE DEF M
    <3>1. CASE 1 \in M
      BY <2>3, <3>1
    <3>2. CASE 1 \notin M /\ 2 \in M
      BY <2>3, <3>2
    <3>3. CASE 1 \notin M /\ 2 \notin M
      BY <2>3, <3>3
    <3> QED
      BY <3>1, <3>2, <3>3
  <2>5. \A e \in W : beats(m, e)
    <3> SUFFICES ASSUME NEW e \in W PROVE v(e) < v(m) \/ (v(e) = v(m) /\ m <= e)
      OBVIOUS
    <3>1. m \in W /\ v(m) = v(d) /\ v(e) \in Int /\ v(d) \in Int /\ v(e) <= v(d)
      BY <1>2, <2>2, <2>4
    <3>2. v(e) = v(d) => m <= e
      BY <2>4
    <3> QED
      BY <3>1, <3>2
  <2> QED
    BY <2>4, <2>5
<1>4. Best(p, q) = CHOOSE d \in W : \A e \in W : beats(d, e)
  BY DEF Best, W, v
<1> HIDE DEF beats
<1> QED
  BY <1>3, <1>4 DEF W

(* Dissolving the ghost zone of two processors leaves every processor a      *)
(* partition inside the one it had, does not touch the others, and, where    *)
(* there is a way at all, leaves the two no place in common.                 *)
THEOREM DissolvingKeepsPartitions ==
    ASSUME NEW P, NEW layout, DOMAIN layout = P,
           \A r \in P : IsPartition(layout[r]),
           NEW r \in P, NEW s \in P, r # s, GhostZone(layout[r], layout[s])
    PROVE  LET after == _dissolve_ghostzone(layout, r, s)
           IN  /\ \A t \in P : IsPartition(after[t]) /\ InsidePartition(after[t], layout[t])
               /\ \A t \in P \ {r, s} : after[t] = layout[t]
               /\ WaysToDissolve(layout[r], layout[s]) # {} => ~GhostZone(after[r], after[s])
<1> DEFINE p == layout[r]
           q == layout[s]
           after == _dissolve_ghostzone(layout, r, s)
<1>1. \A t \in P : InsidePartition(layout[t], layout[t])
  BY DEF IsPartition, InsidePartition, Narrower
<1>2. CASE WaysToDissolve(p, q) = {}
  <2>1. after = layout
    BY <1>2 DEF _dissolve_ghostzone
  <2> QED
    BY <1>1, <1>2, <2>1
<1>3. CASE WaysToDissolve(p, q) # {}
  <2> DEFINE d == Best(p, q)
             b == SplitAlong(p, q, d)
  <2>1. d \in Dims /\ CanDissolve(p[d], q[d])
    BY <1>3, BestIsAWay DEF WaysToDissolve
  <2>2. /\ IsPartition(b[1]) /\ InsidePartition(b[1], p)
        /\ IsPartition(b[2]) /\ InsidePartition(b[2], q)
        /\ ~GhostZone(b[1], b[2])
    BY <2>1, SplitAlongDivides
  <2>3. after = [layout EXCEPT ![r] = b[1], ![s] = b[2]]
    BY <1>3 DEF _dissolve_ghostzone
  <2> HIDE DEF b, after
  <2>4. after[r] = b[1] /\ after[s] = b[2] /\ \A t \in P \ {r, s} : after[t] = layout[t]
    BY <2>3
  <2> QED
    BY <1>1, <2>2, <2>4 DEF after
<1> QED
  BY <1>2, <1>3

(* No ghost zone of a field one place thick is ever dissolved. *)
THEOREM FlatFieldsKeepGhostzones ==
    ASSUME NEW p, NEW q, IsPartition(p), IsPartition(q), GhostZone(p, q), Flat(p), Flat(q)
    PROVE  WaysToDissolve(p, q) = {}
<1> SUFFICES ASSUME NEW d \in Dims, CanDissolve(p[d], q[d]),
                    Volume(SplitAlong(p, q, d)) > 0
             PROVE  FALSE
  BY DEF WaysToDissolve
<1> DEFINE s == SplitAlong(p, q, d)
<1>1. IsPartition(s[1]) /\ IsPartition(s[2])
  BY SplitAlongDivides
<1>2. d # 3
  BY DEF CanDissolve, GhostZone, Overlap, Flat, IsPartition, Dims
<1>3. s[1][3] = p[3] /\ s[2][3] = q[3]
  BY <1>2 DEF SplitAlong, IsPartition, Dims
<1>4. ASSUME NEW x, IsPartition(x), Flat(x) PROVE _volume_of_partition(x) = 0
  <2> DEFINE i == x[1][2] - x[1][1]
             j == x[2][2] - x[2][1]
             k == x[3][2] - x[3][1]
  <2>1. i \in Int /\ j \in Int /\ k = 0
    BY <1>4 DEF IsPartition, Flat, Dims
  <2> HIDE DEF i, j, k
  <2>2. i * j * k = 0
    BY <2>1
  <2> QED
    BY <2>2 DEF i, j, k, _volume_of_partition
<1>5. Volume(s) = 0
  BY <1>1, <1>3, <1>4 DEF Volume, Flat
<1> QED
  BY <1>5

-----------------------------------------------------------------------------
(* Blocks (H5MultiBlock)                                                     *)

\* Dimensions of a field, a block or a decomposition.
IsDims(v) == v \in [Dims -> Nat \ {0}]

LEMMA DimsAre ==
    ASSUME NEW v, IsDims(v)
    PROVE  v[1] \in Nat \ {0} /\ v[2] \in Nat \ {0} /\ v[3] \in Nat \ {0}
  BY DEF IsDims, Dims

LEMMA Positive ==
    ASSUME NEW a \in Nat \ {0}, NEW b \in Nat \ {0}
    PROVE  a * b \in Nat \ {0} /\ a <= a * b
<1>1. 1 * a <= b * a
  BY Monotone
<1> QED
  BY <1>1

-----------------------------------------------------------------------------
(* Decompositions for a number of processors                                 *)

LEMMA RootDivides ==
    ASSUME NEW m \in Nat \ {0}, NEW n \in {2, 3}
    PROVE  /\ _nth_root_int_divisor(m, n) \in 1 .. m
           /\ m % _nth_root_int_divisor(m, n) = 0
<1> DEFINE T == {i \in Divisors(m) : Power(i, n) >= m}
<1>1. m \in T
  <2>1. m <= m * m /\ m * m \in Nat \ {0} /\ m <= m * (m * m)
    <3>1. m <= m * m /\ m * m \in Nat \ {0}
      BY Positive
    <3> QED
      BY <3>1, Positive
  <2>2. m * m * m = m * (m * m)
    BY <2>1
  <2>3. Power(m, n) >= m
    BY <2>1, <2>2 DEF Power
  <2>4. m % m = 0
    <3>1. (1 * m + 0) % m = 0
      BY BackFromTable
    <3> QED
      BY <3>1
  <2> QED
    BY <2>3, <2>4 DEF Divisors
<1>2. T \in SUBSET Nat
  BY DEF Divisors
<1>3. PICK i \in T : \A j \in T : i <= j
  <2> HIDE DEF T
  <2> QED
    BY <1>1, <1>2, Least
<1>4. \E d \in Divisors(m) :
          Power(d, n) >= m /\ \A j \in Divisors(m) : Power(j, n) >= m => d <= j
  BY <1>3
<1>5. _nth_root_int_divisor(m, n) \in Divisors(m)
  BY <1>4 DEF _nth_root_int_divisor
<1> QED
  BY <1>5 DEF Divisors

LEMMA Quotient ==
    ASSUME NEW m \in Nat \ {0}, NEW d \in 1 .. m, m % d = 0
    PROVE  m \div d \in Nat \ {0} /\ m = (m \div d) * d
<1>1. m \div d \in Nat /\ m = (m \div d) * d + (m % d)
  BY QuotientIs
<1> QED
  BY <1>1

(* H5MultiBlock3dCalculateDecomp deals a field out to every number of          *)
(* processors: the product of the three numbers is always exactly theirs, so   *)
(* its own check at the end never fails.                                       *)
THEOREM CalculateDecompIsExact ==
    ASSUME NEW n \in Nat \ {0}
    PROVE  /\ IsDims(H5MultiBlock3dCalculateDecomp(n))
           /\ Product(H5MultiBlock3dCalculateDecomp(n)) = n
<1> DEFINE x == _nth_root_int_divisor(n, 3)
<1> DEFINE m == n \div x
<1> DEFINE y == _nth_root_int_divisor(m, 2)
<1>1. x \in 1 .. n /\ n % x = 0
  BY RootDivides
<1>2. m \in Nat \ {0} /\ n = m * x
  <2> HIDE DEF x
  <2> QED
    BY <1>1, Quotient
<1>3. y \in 1 .. m /\ m % y = 0
  <2> HIDE DEF m
  <2> QED
    BY <1>2, RootDivides
<1>4. m \div y \in Nat \ {0} /\ m = (m \div y) * y
  <2> HIDE DEF m, y
  <2> QED
    BY <1>2, <1>3, Quotient
<1>5. H5MultiBlock3dCalculateDecomp(n) = <<x, y, m \div y>>
  BY DEF H5MultiBlock3dCalculateDecomp
<1>6. x * y * (m \div y) = n
  <2> DEFINE z == m \div y
  <2> HIDE DEF x, y, m, z
  <2>1. x \in Nat /\ y \in Nat /\ z \in Nat /\ m = z * y /\ n = m * x
    BY <1>1, <1>2, <1>3, <1>4 DEF z
  <2>2. x * y * z = (z * y) * x
    BY <2>1
  <2>3. x * y * z = n
    BY <2>1, <2>2
  <2> QED
    BY <2>3 DEF z
<1> HIDE DEF x, y, m
<1> QED
  BY <1>1, <1>2, <1>3, <1>4, <1>5, <1>6 DEF IsDims, Dims, Product

-----------------------------------------------------------------------------
(* Blocks tile the field                                                     *)

\* Ranks are numbered along x, then y, then z.
LEMMA PlaceAndRank ==
    ASSUME NEW decomp, IsDims(decomp), NEW i \in Nat,
           NEW j \in 0 .. decomp[2] - 1, NEW k \in 0 .. decomp[3] - 1
    PROVE  Place(decomp, (i * decomp[2] + j) * decomp[3] + k) = <<i, j, k>>
<1> DEFINE a == decomp[2]
<1> DEFINE b == decomp[3]
<1> DEFINE r == (i * a + j) * b + k
<1>0. a \in Nat \ {0} /\ b \in Nat \ {0}
  BY DimsAre
<1> HIDE DEF a, b
<1>1. j \in 0 .. a - 1 /\ k \in 0 .. b - 1
  BY DEF a, b
<1>2. i * a + j \in Nat
  BY <1>0, <1>1
<1>3. r \div b = i * a + j /\ r % b = k
  <2> DEFINE q == i * a + j
  <2> HIDE DEF q
  <2>1. q \in Nat
    BY <1>2 DEF q
  <2>2. (q * b + k) \div b = q /\ (q * b + k) % b = k
    BY <1>0, <1>1, <2>1, BackFromTable
  <2> QED
    BY <2>2 DEF q
<1>4. (i * a + j) % a = j /\ (i * a + j) \div a = i
  BY <1>0, <1>1, BackFromTable
<1>5. r \div (b * a) = i
  <2>1. j * b + k \in 0 .. a * b - 1
    BY <1>0, <1>1, InTable
  <2>2. a * b \in Nat \ {0} /\ b * a = a * b
    BY <1>0, Positive
  <2>3. r = i * (a * b) + (j * b + k)
    BY <1>0, <1>1
  <2> DEFINE ab == a * b
  <2> DEFINE s == j * b + k
  <2> HIDE DEF ab, s
  <2>4. (i * ab + s) \div ab = i
    <3>1. ab \in Nat \ {0} /\ s \in 0 .. ab - 1
      BY <2>1, <2>2 DEF ab, s
    <3> QED
      BY <3>1, BackFromTable
  <2> QED
    BY <2>2, <2>3, <2>4 DEF ab, s
<1> HIDE DEF r
<1>6. Place(decomp, r) = <<r \div (b * a), (r \div b) % a, r % b>>
  BY DEF Place, a, b
<1>7. Place(decomp, r) = <<i, j, k>>
  BY <1>3, <1>4, <1>5, <1>6
<1> QED
  BY <1>7 DEF r, a, b

\* A place of the field is in a block.
InBlock(c, block, place) ==
    \A d \in Dims : place[d] * block[d] <= c[d] /\ c[d] < (place[d] + 1) * block[d]

(* When the blocks divide the field and are as many as the processors, every   *)
(* place of the field is in the block of one processor.                        *)
THEOREM BlocksCoverField ==
    ASSUME NEW decomp, IsDims(decomp), NEW block, IsDims(block), NEW c,
           \A d \in Dims : c[d] \in 0 .. decomp[d] * block[d] - 1
    PROVE  \E r \in 0 .. Product(decomp) - 1 : InBlock(c, block, Place(decomp, r))
<1> DEFINE p(d) == c[d] \div block[d]
<1>1. ASSUME NEW d \in Dims
      PROVE  /\ p(d) \in 0 .. decomp[d] - 1
             /\ p(d) * block[d] <= c[d] /\ c[d] < (p(d) + 1) * block[d]
  <2> DEFINE x == c[d]
  <2> DEFINE b == block[d]
  <2> DEFINE n == decomp[d]
  <2>1. b \in Nat \ {0} /\ n \in Nat \ {0} /\ x \in 0 .. n * b - 1
    BY DEF IsDims
  <2> HIDE DEF x, b, n
  <2>2. x \in Nat
    BY <2>1
  <2>3. x \div b \in Nat /\ x % b \in 0 .. b - 1 /\ x = (x \div b) * b + (x % b)
    BY <2>1, <2>2, QuotientIs
  <2> DEFINE q == x \div b
  <2> HIDE DEF q
  <2>4. q \in Nat /\ q * b <= x /\ x < (q + 1) * b
    BY <2>1, <2>2, <2>3 DEF q
  <2>5. q < n
    <3> SUFFICES ASSUME n <= q PROVE FALSE
      BY <2>1, <2>4
    <3>1. n * b <= q * b
      BY <2>1, <2>4, Monotone
    <3> QED
      BY <2>1, <2>4, <3>1
  <2> QED
    BY <2>1, <2>4, <2>5 DEF q, x, b, n
<1> DEFINE i == p(1)
<1> DEFINE j == p(2)
<1> DEFINE k == p(3)
<1> DEFINE r == (i * decomp[2] + j) * decomp[3] + k
<1>2. i \in 0 .. decomp[1] - 1 /\ j \in 0 .. decomp[2] - 1 /\ k \in 0 .. decomp[3] - 1
  BY <1>1 DEF Dims
<1> HIDE DEF i, j, k
<1>3. Place(decomp, r) = <<i, j, k>>
  <2>1. i \in Nat
    BY <1>2, DimsAre
  <2> QED
    BY <1>2, <2>1, PlaceAndRank
<1>4. r \in 0 .. Product(decomp) - 1
  <2> DEFINE D1 == decomp[1]
  <2> DEFINE D2 == decomp[2]
  <2> DEFINE D3 == decomp[3]
  <2>1. D1 \in Nat \ {0} /\ D2 \in Nat \ {0} /\ D3 \in Nat \ {0}
    BY DimsAre
  <2> HIDE DEF D1, D2, D3
  <2>2. i \in 0 .. D1 - 1 /\ j \in 0 .. D2 - 1 /\ k \in 0 .. D3 - 1
    BY <1>2 DEF D1, D2, D3
  <2>3. i * D2 + j \in 0 .. D1 * D2 - 1
    BY <2>1, <2>2, InTable
  <2> DEFINE q == i * D2 + j
  <2> DEFINE n == D1 * D2
  <2>4. n \in Nat \ {0}
    BY <2>1, Positive
  <2> HIDE DEF q, n
  <2>5. q \in Nat /\ q < n
    BY <2>3, <2>4 DEF q, n
  <2>6. q * D3 + k \in 0 .. n * D3 - 1
    BY <2>1, <2>2, <2>4, <2>5, InTable
  <2> QED
    BY <2>6 DEF q, n, D1, D2, D3, Product
<1>5. InBlock(c, block, <<i, j, k>>)
  <2>1. \A d \in Dims : <<i, j, k>>[d] = p(d)
    BY DEF Dims, i, j, k
  <2> QED
    BY <1>1, <2>1 DEF InBlock
<1> HIDE DEF r
<1> QED
  BY <1>3, <1>4, <1>5

-----------------------------------------------------------------------------
(* Padding in place                                                          *)

IsRadii(v) == v \in [Dims -> Nat]

\* A row that _pad_block has still to move when it moves row j of slab k.
Later(k, j, k2, j2) == k2 < k \/ (k2 = k /\ j2 < j)

(* Where _pad_block puts a row, no row begins that it has still to move: going *)
(* from the last row to the first loses nothing, whatever the dimensions and   *)
(* radii.                                                                      *)
THEOREM PaddingLosesNoRow ==
    ASSUME NEW block, IsDims(block), NEW radii, IsRadii(radii),
           NEW k \in 0 .. block[1] - 1, NEW j \in 0 .. block[2] - 1,
           NEW k2 \in 0 .. block[1] - 1, NEW j2 \in 0 .. block[2] - 1, Later(k, j, k2, j2)
    PROVE  RowSrc(block, k2, j2) + block[3] <= RowDst(block, radii, k, j)
<1> DEFINE b2 == block[2]
<1> DEFINE b3 == block[3]
<1> DEFINE h2 == block[2] + 2 * radii[2]
<1> DEFINE h3 == block[3] + 2 * radii[3]
<1> DEFINE kk == k + radii[1]
<1> DEFINE jj == j + radii[2]
<1>1. b2 \in Nat \ {0} /\ b3 \in Nat \ {0} /\ block[1] \in Nat \ {0}
  BY DimsAre
<1>2. radii[1] \in Nat /\ radii[2] \in Nat /\ radii[3] \in Nat
  BY DEF IsRadii, Dims
<1>3. /\ h2 \in Nat /\ h3 \in Nat /\ kk \in Nat /\ jj \in Nat
      /\ b2 <= h2 /\ b3 <= h3 /\ k <= kk /\ j <= jj
  BY <1>1, <1>2
<1>4. RowSrc(block, k2, j2) = (k2 * b2 + j2) * b3
  BY <1>1 DEF RowSrc, Index
<1>5. RowDst(block, radii, k, j) = (kk * h2 + jj) * h3 + radii[3]
  BY DEF RowDst, Index, HaloDims, Dims
<1>6. k \in Nat /\ j \in Nat /\ k2 \in Nat /\ j2 \in Nat /\ j2 < b2
  BY <1>1
<1> DEFINE n2 == k2 * b2 + j2
<1> DEFINE n == k * b2 + j
<1> DEFINE m == kk * h2 + jj
<1>7. n2 + 1 <= n
  <2>1. CASE k2 < k
    <3>1. k2 + 1 \in Int /\ k \in Int /\ k2 + 1 <= k
      BY <1>6, <2>1
    <3> HIDE DEF b2
    <3>2. (k2 + 1) * b2 <= k * b2
      BY <1>1, <3>1, Monotone
    <3>3. (k2 + 1) * b2 = k2 * b2 + b2
      BY <1>1, <1>6
    <3> QED
      BY <1>1, <1>6, <3>2, <3>3
  <2>2. CASE k2 = k /\ j2 < j
    BY <1>1, <1>6, <2>2
  <2> QED
    BY <2>1, <2>2 DEF Later
<1>8. n <= m
  <2> HIDE DEF b2, h2, kk, jj
  <2>1. k * b2 <= kk * b2
    BY <1>1, <1>3, <1>6, Monotone
  <2>2. b2 * kk <= h2 * kk
    BY <1>1, <1>3, Monotone
  <2>3. b2 * kk = kk * b2 /\ h2 * kk = kk * h2
    BY <1>1, <1>3
  <2> QED
    BY <1>1, <1>3, <1>6, <2>1, <2>2, <2>3
<1>9. n2 \in Nat /\ n \in Nat /\ m \in Nat
  BY <1>1, <1>3, <1>6
<1>10. RowSrc(block, k2, j2) = n2 * b3 /\ RowDst(block, radii, k, j) = m * h3 + radii[3]
  BY <1>4, <1>5
<1> HIDE DEF n2, n, m, b3, h3
<1>11. (n2 + 1) * b3 <= m * b3
  BY <1>1, <1>7, <1>8, <1>9, Monotone
<1>12. b3 * m <= h3 * m
  BY <1>1, <1>3, <1>9, Monotone
<1>13. (n2 + 1) * b3 = n2 * b3 + b3 /\ b3 * m = m * b3 /\ h3 * m = m * h3
  BY <1>1, <1>3, <1>9
<1>14. n2 * b3 \in Nat /\ m * b3 \in Nat /\ m * h3 \in Nat
  BY <1>1, <1>3, <1>9
<1>15. RowSrc(block, k2, j2) + b3 <= RowDst(block, radii, k, j)
  BY <1>1, <1>2, <1>10, <1>11, <1>12, <1>13, <1>14
<1> QED
  BY <1>15 DEF b3

-----------------------------------------------------------------------------
(* What a file and a handle are                                             *)

IsFun(g) == g = [x \in DOMAIN g |-> g[x]]

AttrsOK(attrs) == IsFun(attrs) /\ DOMAIN attrs \subseteq ToSet(AttribNames)
FieldOK(field) ==
    /\ IsFun(field) /\ DOMAIN field = {"rank", "type", "chunk", "attrs"}
    /\ field.rank \in Nat /\ IsFun(field.attrs)
StepOK(step) ==
    /\ IsFun(step) /\ DOMAIN step = {"data", "attrs", "fields"}
    /\ IsFun(step.data) /\ DOMAIN step.data \subseteq ToSet(MemberNames) \ {"Block"}
    /\ AttrsOK(step.attrs)
    /\ IsFun(step.fields) /\ DOMAIN step.fields \subseteq ToSet(FieldNames)
    /\ \A n \in DOMAIN step.fields : FieldOK(step.fields[n])
DiskOK(d) ==
    /\ IsFun(d) /\ DOMAIN d = {"exists", "attrs", "steps"}
    /\ AttrsOK(d.attrs)
    /\ IsFun(d.steps) /\ IsFiniteSet(DOMAIN d.steps)
    /\ \A key \in DOMAIN d.steps : key[1] \in StepNames /\ StepOK(d.steps[key])
    /\ ~d.exists => DOMAIN d.attrs = {} /\ DOMAIN d.steps = {}

HandleOK(h) ==
    /\ DOMAIN h = {"mode", "name", "timestep", "group", "n", "b"}
    /\ DOMAIN h.b = {"timestep", "group", "layout", "chunk"}
    /\ h.mode \in {"closed", "read", "write", "append"} /\ h.name \in StepNames

\* The groups a handle has open are there, and are those its name and numbers say;
\* a "Block" group is noted with its step when it is not made.
Linked(h, d) ==
    /\ h.mode = "closed" => h.group = None /\ h.b.group = None
    /\ h.mode # "closed" => d.exists
    /\ h.group # None => /\ h.group \in DOMAIN d.steps
                         /\ ~RenamesInSteps => h.group = <<h.name, h.timestep>>
    /\ h.b.group # None => /\ h.b.group \in DOMAIN d.steps
                           /\ (h.mode = "read" /\ ~RenamesInSteps) =>
                                 /\ h.b.group = <<h.name, h.b.timestep>>
                                 /\ DOMAIN d.steps[h.b.group].fields # {}

IInv == DiskOK(disk) /\ HandleOK(f) /\ Linked(f, disk) /\ OnlyFailedCallsLeak

\* What is in a file stays.
FieldGrows(field, new) ==
    /\ \A c \in {"rank", "type", "chunk"} : new[c] = field[c]
    /\ Extends(new.attrs, field.attrs)
StepGrows(step, new) ==
    /\ Extends(new.data, step.data) /\ Extends(new.attrs, step.attrs)
    /\ \A n \in DOMAIN step.fields : n \in DOMAIN new.fields /\ FieldGrows(step.fields[n], new.fields[n])
Grows(d, new) ==
    /\ d.exists => new.exists
    /\ Extends(new.attrs, d.attrs)
    /\ \A key \in DOMAIN d.steps : key \in DOMAIN new.steps /\ StepGrows(d.steps[key], new.steps[key])

LEMMA EmptyIs == IsFun(<< >>) /\ DOMAIN << >> = {}
  BY DEF IsFun

LEMMA FunEmpty == ASSUME NEW g, IsFun(g) PROVE g = << >> <=> DOMAIN g = {}
  BY DEF IsFun

LEMMA WithIs ==
    ASSUME NEW g, NEW x, NEW y
    PROVE  /\ IsFun(With(g, x, y)) /\ DOMAIN With(g, x, y) = DOMAIN g \cup {x}
           /\ With(g, x, y)[x] = y
           /\ \A z \in DOMAIN g : z # x => With(g, x, y)[z] = g[z]
           /\ x \notin DOMAIN g => Extends(With(g, x, y), g)
  BY DEF With, IsFun, Extends

LEMMA PutIs ==
    ASSUME NEW g, IsFun(g), NEW x, NEW y
    PROVE  /\ IsFun([g EXCEPT ![x] = y]) /\ DOMAIN [g EXCEPT ![x] = y] = DOMAIN g
           /\ x \in DOMAIN g => [g EXCEPT ![x] = y][x] = y
           /\ \A z \in DOMAIN g : z # x => [g EXCEPT ![x] = y][z] = g[z]
           /\ (x \in DOMAIN g => y = g[x]) => [g EXCEPT ![x] = y] = g
  BY DEF IsFun

LEMMA Stays == ASSUME NEW g PROVE Extends(g, g)
  BY DEF Extends

LEMMA AllStays ==
    /\ \A field : FieldGrows(field, field)
    /\ \A step : StepGrows(step, step)
    /\ \A d : Grows(d, d)
  BY Stays DEF FieldGrows, StepGrows, Grows
LEMMA InitInv == Init => IInv
<1> SUFFICES ASSUME Init PROVE IInv
  OBVIOUS
<1>1. DiskOK(disk)
  <2>1. /\ DOMAIN disk = {"exists", "attrs", "steps"} /\ IsFun(disk) /\ ~disk.exists
        /\ disk.attrs = << >> /\ disk.steps = << >>
    BY DEF Init, NoFile, IsFun
  <2>2. IsFiniteSet(DOMAIN disk.steps)
    BY <2>1, EmptyIs, FS_EmptySet
  <2> QED
    BY <2>1, <2>2, EmptyIs DEF DiskOK, AttrsOK
<1>2. HandleOK(f) /\ f.mode = "closed" /\ f.group = None /\ f.b.group = None
  BY FileAssumption DEF Init, Handle, _H5Block_init, HandleOK
<1>3. Linked(f, disk)
  BY <1>2 DEF Linked
<1>4. OnlyFailedCallsLeak
  BY DEF Init, OnlyFailedCallsLeak
<1> QED
  BY <1>1, <1>2, <1>3, <1>4 DEF IInv

-----------------------------------------------------------------------------
(* Changes to a file                                                        *)

\* One of the parts of a step is replaced.
LEMMA StepChanged ==
    ASSUME DiskOK(disk), NEW key \in DOMAIN disk.steps, NEW s, StepOK(s), StepGrows(disk.steps[key], s)
    PROVE  LET e == [disk EXCEPT !.steps = [disk.steps EXCEPT ![key] = s]]
           IN  DiskOK(e) /\ Grows(disk, e) /\ e.steps[key] = s
<1> DEFINE t == [disk.steps EXCEPT ![key] = s]
           e == [disk EXCEPT !.steps = t]
<1>1. /\ IsFun(t) /\ DOMAIN t = DOMAIN disk.steps /\ t[key] = s
      /\ \A k \in DOMAIN disk.steps : k # key => t[k] = disk.steps[k]
  BY PutIs DEF DiskOK
<1> HIDE DEF t
<1>2. /\ IsFun(e) /\ DOMAIN e = DOMAIN disk /\ e.steps = t
      /\ e.attrs = disk.attrs /\ e.exists = disk.exists
  BY PutIs DEF DiskOK
<1> HIDE DEF e
<1>3. \A k \in DOMAIN e.steps : k[1] \in StepNames /\ StepOK(e.steps[k])
  BY <1>1, <1>2 DEF DiskOK
<1>4. DiskOK(e)
  BY <1>1, <1>2, <1>3 DEF DiskOK
<1>5. Grows(disk, e)
  BY <1>1, <1>2, Stays, AllStays DEF Grows
<1> QED
  BY <1>1, <1>2, <1>4, <1>5 DEF t, e

\* A step is made.
LEMMA StepAdded ==
    ASSUME DiskOK(disk), disk.exists, NEW key, key[1] \in StepNames, key \notin DOMAIN disk.steps
    PROVE  LET e == [disk EXCEPT !.steps = With(disk.steps, key, EmptyStep)]
           IN  DiskOK(e) /\ Grows(disk, e) /\ key \in DOMAIN e.steps
<1> DEFINE t == With(disk.steps, key, EmptyStep)
           e == [disk EXCEPT !.steps = t]
<1>1. /\ IsFun(t) /\ DOMAIN t = DOMAIN disk.steps \cup {key} /\ t[key] = EmptyStep
      /\ \A k \in DOMAIN disk.steps : k # key => t[k] = disk.steps[k]
  BY DEF With, IsFun
<1>7. IsFiniteSet(DOMAIN t)
  BY <1>1, FS_AddElement DEF DiskOK
<1> HIDE DEF t
<1>2. /\ IsFun(e) /\ DOMAIN e = DOMAIN disk /\ e.steps = t
      /\ e.attrs = disk.attrs /\ e.exists = disk.exists
  BY PutIs DEF DiskOK
<1> HIDE DEF e
<1>3. StepOK(EmptyStep)
  BY EmptyIs DEF StepOK, AttrsOK, EmptyStep, IsFun
<1>4. \A k \in DOMAIN e.steps : k[1] \in StepNames /\ StepOK(e.steps[k])
  BY <1>1, <1>2, <1>3 DEF DiskOK
<1>5. DiskOK(e)
  BY <1>1, <1>2, <1>4, <1>7 DEF DiskOK
<1>6. Grows(disk, e)
  BY <1>1, <1>2, Stays, AllStays DEF Grows
<1> QED
  BY <1>1, <1>2, <1>5, <1>6 DEF t, e

\* The file gets an attribute.
LEMMA FileAttrsChanged ==
    ASSUME DiskOK(disk), disk.exists, NEW attrs, AttrsOK(attrs), Extends(attrs, disk.attrs)
    PROVE  LET e == [disk EXCEPT !.attrs = attrs] IN DiskOK(e) /\ Grows(disk, e)
<1> DEFINE e == [disk EXCEPT !.attrs = attrs]
<1>1. /\ IsFun(e) /\ DOMAIN e = DOMAIN disk /\ e.steps = disk.steps
      /\ e.attrs = attrs /\ e.exists = disk.exists
  BY PutIs DEF DiskOK
<1> HIDE DEF e
<1>2. DiskOK(e)
  BY <1>1 DEF DiskOK
<1>3. Grows(disk, e)
  BY <1>1, Stays, AllStays DEF Grows
<1> QED
  BY <1>2, <1>3 DEF e

\* What a call writes that makes an attribute.
LEMMA AttribWritten ==
    ASSUME NEW attrs, IsFun(attrs), NEW name, NEW value
    PROVE  LET w == _H5Part_write_attrib(attrs, name, value)
           IN  /\ w.ret \in {"ok", "error"} /\ IsFun(w.attrs) /\ Extends(w.attrs, attrs)
               /\ DOMAIN w.attrs \subseteq DOMAIN attrs \cup {name}
<1>1. CASE name \in DOMAIN attrs
  BY <1>1, Stays DEF _H5Part_write_attrib
<1>2. CASE name \notin DOMAIN attrs
  <2>1. _H5Part_write_attrib(attrs, name, value) = [ret |-> "ok", attrs |-> With(attrs, name, value)]
    BY <1>2 DEF _H5Part_write_attrib
  <2>2. /\ IsFun(With(attrs, name, value)) /\ Extends(With(attrs, name, value), attrs)
        /\ DOMAIN With(attrs, name, value) = DOMAIN attrs \cup {name}
    BY <1>2, WithIs, Zenon
  <2> QED
    BY <2>1, <2>2
<1> QED
  BY <1>1, <1>2

-----------------------------------------------------------------------------
(* Calls                                                                    *)

\* What every call does between opening and closing the file.
Fine ==
    /\ DiskOK(disk') /\ HandleOK(f') /\ Linked(f', disk') /\ f'.mode = f.mode
    /\ disk' = disk \/ (Writable /\ Grows(disk, disk'))
    /\ OnlyFailedCallsLeak'

LEMMA LinkedStays ==
    ASSUME NEW h, NEW d, NEW e, Linked(h, d), Grows(d, e), e = d \/ h.mode # "read"
    PROVE  Linked(h, e)
  BY DEF Linked, Grows

LEMMA Returned ==
    ASSUME IInv, NEW ret, NEW hf, NEW file, NEW objects, Return(ret, hf, file, objects),
           objects = {} \/ ret = "error",
           HandleOK(hf), Linked(hf, file), hf.mode = f.mode,
           file = disk \/ (Writable /\ DiskOK(file) /\ Grows(disk, file))
    PROVE  Fine
<1>1. f' = hf /\ disk' = file /\ stray' = stray \cup {[object |-> o, ret |-> ret] : o \in objects}
  BY DEF Return
<1>2. OnlyFailedCallsLeak'
  <2>1. \A s \in stray : s.ret = "error"
    BY DEF IInv, OnlyFailedCallsLeak
  <2>2. \A s \in {[object |-> o, ret |-> ret] : o \in objects} : s.ret = "error"
    OBVIOUS
  <2> QED
    BY <1>1, <2>1, <2>2 DEF OnlyFailedCallsLeak
<1>3. DiskOK(file)
  BY DEF IInv
<1> QED
  BY <1>1, <1>2, <1>3 DEF Fine

\* A call that changes nothing, and one that changes the handle where nothing hangs on it.
LEMMA RefusedIsFine == ASSUME IInv, NEW ret, NEW objects, Return(ret, f, disk, objects),
                              objects = {} \/ ret = "error"
                       PROVE  Fine
  BY Returned DEF IInv

LEMMA InertIsFine ==
    ASSUME IInv, Opened,
           \/ H5PartSetNumParticles \/ H5PartDefineStepName
           \/ H5BlockDefine3DFieldLayout \/ H5BlockDefine3DChunkDims
    PROVE  Fine
<1>1. PICK hf : /\ Return("ok", hf, disk, {})
                /\ \/ \E n \in Sizes : hf = [f EXCEPT !.n = n]
                   \/ hf = [f EXCEPT !.b.layout = TRUE]
                   \/ hf = [f EXCEPT !.b.chunk = TRUE]
                   \/ /\ RenamesInSteps \/ (f.group = None /\ f.b.group = None)
                      /\ \E name \in StepNames : hf = [f EXCEPT !.name = name]
  BY DEF H5PartSetNumParticles, H5PartDefineStepName, H5BlockDefine3DFieldLayout, H5BlockDefine3DChunkDims
<1>2. HandleOK(f) /\ Linked(f, disk)
  BY DEF IInv
<1>3. HandleOK(hf) /\ hf.mode = f.mode
  BY <1>1, <1>2 DEF HandleOK
<1>4. Linked(hf, disk)
  <2>1. CASE \E n \in Sizes : hf = [f EXCEPT !.n = n]
    BY <1>2, <2>1 DEF HandleOK, Linked
  <2>2. CASE hf = [f EXCEPT !.b.layout = TRUE] \/ hf = [f EXCEPT !.b.chunk = TRUE]
    BY <1>2, <2>2 DEF HandleOK, Linked
  <2>3. CASE /\ RenamesInSteps \/ (f.group = None /\ f.b.group = None)
             /\ \E name \in StepNames : hf = [f EXCEPT !.name = name]
    BY <1>2, <2>3 DEF HandleOK, Linked
  <2> QED
    BY <1>1, <2>1, <2>2, <2>3
<1> QED
  BY <1>1, <1>3, <1>4, Returned

\* Opening a step, or making it.
LEMMA StepIsFine == ASSUME IInv, Opened, NEW step, SetStepTo(step) PROVE Fine
<1> DEFINE key == <<f.name, step>>
           s == _H5Part_set_step(step)
           hf == Reopened(f, step)
           g == [hf EXCEPT !.group = key]
<1>1. HandleOK(f) /\ Linked(f, disk) /\ DiskOK(disk) /\ disk.exists
  BY DEF IInv, Linked, Opened
<1>2. /\ HandleOK(hf) /\ hf.mode = f.mode /\ hf.group = None /\ hf.b = f.b
      /\ hf.name = f.name /\ hf.timestep = step
  BY <1>1 DEF HandleOK, Reopened
<1>3. Linked(hf, disk)
  BY <1>1, <1>2 DEF Linked
<1>4. Return(s.ret, s.f, s.disk, {})
  BY DEF SetStepTo
<1>5. key # None /\ key[1] \in StepNames
  BY <1>1 DEF None, HandleOK
<1> HIDE DEF hf
<1>6. /\ HandleOK(g) /\ g.mode = f.mode /\ g.group = key /\ g.b = f.b
      /\ g.name = f.name /\ g.timestep = step
  BY <1>2 DEF HandleOK
<1>7. ASSUME NEW d, Linked(hf, d), key \in DOMAIN d.steps PROVE Linked(g, d)
  <2>1. g.group = <<g.name, g.timestep>> /\ g.mode = hf.mode /\ g.b = hf.b /\ g.group = key /\ g.name = hf.name
    BY <1>2, <1>6
  <2> HIDE DEF key, g
  <2>2. g.mode = "closed" => g.group = None /\ g.b.group = None
    BY <1>1, <1>6 DEF Opened
  <2>3. /\ g.mode # "closed" => d.exists
        /\ g.group \in DOMAIN d.steps /\ g.group = <<g.name, g.timestep>>
    BY <1>7, <2>1 DEF Linked
  <2>4. g.b.group # None => /\ g.b.group \in DOMAIN d.steps
                            /\ (g.mode = "read" /\ ~RenamesInSteps) =>
                                  /\ g.b.group = <<g.name, g.b.timestep>>
                                  /\ DOMAIN d.steps[g.b.group].fields # {}
    BY <1>7, <2>1 DEF Linked
  <2> QED
    BY <2>2, <2>3, <2>4 DEF Linked
<1> HIDE DEF g
<1>8. CASE key \in DOMAIN disk.steps
  <2>1. s.f = g /\ s.disk = disk
    BY <1>8 DEF _H5Part_set_step, _H5Part_have_group, _H5Part_get_step_name, g, hf
  <2> HIDE DEF s
  <2> QED
    BY <1>3, <1>4, <1>6, <1>7, <1>8, <2>1, Returned
<1>9. CASE key \notin DOMAIN disk.steps /\ Writable
  <2> DEFINE e == [disk EXCEPT !.steps = With(disk.steps, key, EmptyStep)]
  <2>1. s.f = g /\ s.disk = e
    BY <1>9 DEF _H5Part_set_step, _H5Part_have_group, _H5Part_get_step_name, g, hf
  <2>2. DiskOK(e) /\ Grows(disk, e) /\ key \in DOMAIN e.steps
    BY <1>1, <1>5, <1>9, StepAdded
  <2> HIDE DEF s, e, key
  <2>3. Linked(g, e)
    BY <1>2, <1>3, <1>7, <1>9, <2>2, LinkedStays DEF Writable
  <2> QED
    BY <1>4, <1>6, <1>9, <2>1, <2>2, <2>3, Returned
<1>10. CASE key \notin DOMAIN disk.steps /\ ~Writable
  <2>1. s.f = hf /\ s.disk = disk
    BY <1>10 DEF _H5Part_set_step, _H5Part_have_group, _H5Part_get_step_name, hf
  <2> HIDE DEF s
  <2> QED
    BY <1>2, <1>3, <1>4, <2>1, Returned
<1> QED
  BY <1>8, <1>9, <1>10

\* H5Block's group of the step that is set.
LEMMA BlockOpened ==
    ASSUME IInv, InStep
    PROVE  LET o == _open_block_group(f)
           IN  /\ o.ret \in {"ok", "error"}
               /\ HandleOK(o.f) /\ Linked(o.f, disk) /\ o.f.mode = f.mode
               /\ o.ret = "ok" => o.f.b.group \in DOMAIN disk.steps
               /\ (f.mode = "read" /\ ~RenamesInSteps) =>
                     /\ o.ret = "ok" <=> DOMAIN disk.steps[f.group].fields # {}
                     /\ o.ret = "ok" => o.f.b.group = f.group
<1> DEFINE o == _open_block_group(f)
           opened == [f EXCEPT !.b.group = f.group, !.b.timestep = f.timestep]
           closed == [f EXCEPT !.b.group = None]
<1>1. HandleOK(f) /\ Linked(f, disk) /\ f.group # None /\ f.group \in DOMAIN disk.steps
  BY DEF IInv, InStep, Linked
<1>2. HasBlock(f.group) <=> DOMAIN disk.steps[f.group].fields # {}
  BY <1>1, FunEmpty DEF IInv, DiskOK, StepOK, HasBlock
<1>3. CASE f.timestep = f.b.timestep /\ f.b.group # None
  <2>1. o = [ret |-> "ok", f |-> f]
    BY <1>3 DEF _open_block_group
  <2>2. (f.mode = "read" /\ ~RenamesInSteps) =>
            f.b.group = f.group /\ DOMAIN disk.steps[f.b.group].fields # {}
    BY <1>1, <1>3 DEF Linked
  <2>3. f.b.group \in DOMAIN disk.steps
    BY <1>1, <1>3 DEF Linked
  <2> HIDE DEF o
  <2>4. o.ret = "ok" /\ o.f = f
    BY <2>1
  <2>5. (f.mode = "read" /\ ~RenamesInSteps) =>
            (o.ret = "ok" <=> DOMAIN disk.steps[f.group].fields # {})
    BY <2>2, <2>4
  <2>6. (f.mode = "read" /\ ~RenamesInSteps) => (o.ret = "ok" => o.f.b.group = f.group)
    BY <2>2, <2>4
  <2> QED
    BY <1>1, <2>3, <2>4, <2>5, <2>6 DEF o
<1>4. CASE ~(f.timestep = f.b.timestep /\ f.b.group # None) /\ HasBlock(f.group)
  <2>1. o = [ret |-> "ok", f |-> opened]
    BY <1>4 DEF _open_block_group
  <2>2. /\ HandleOK(opened) /\ opened.mode = f.mode /\ opened.b.group = f.group
        /\ opened.b.timestep = f.timestep /\ opened.name = f.name /\ opened.timestep = f.timestep
        /\ opened.group = f.group
    BY <1>1 DEF HandleOK
  <2> HIDE DEF opened, o
  <2>3. Linked(opened, disk)
    BY <1>1, <1>2, <1>4, <2>2 DEF Linked
  <2> QED
    BY <1>1, <1>2, <1>4, <2>1, <2>2, <2>3 DEF o
<1>5. CASE ~(f.timestep = f.b.timestep /\ f.b.group # None) /\ ~HasBlock(f.group)
  <2>1. o = [ret |-> "error", f |-> closed]
    BY <1>5 DEF _open_block_group
  <2>2. /\ HandleOK(closed) /\ closed.mode = f.mode /\ closed.b.group = None
        /\ closed.name = f.name /\ closed.timestep = f.timestep
        /\ closed.group = f.group
    BY <1>1 DEF HandleOK
  <2> HIDE DEF closed, o
  <2>3. Linked(closed, disk)
    BY <1>1, <2>2 DEF Linked
  <2> QED
    BY <1>1, <1>2, <1>5, <2>1, <2>2, <2>3 DEF o
<1> QED
  BY <1>3, <1>4, <1>5

\* ... and a field in it.
LEMMA FieldOpened ==
    ASSUME IInv, InStep, NEW name
    PROVE  LET o == _H5Block_open_field_group(f, name)
           IN  /\ o.ret \in {"ok", "error"}
               /\ HandleOK(o.f) /\ Linked(o.f, disk) /\ o.f.mode = f.mode
               /\ o.ret = "ok" => /\ o.f.b.group \in DOMAIN disk.steps
                                  /\ name \in DOMAIN disk.steps[o.f.b.group].fields
<1> DEFINE b == _open_block_group(f)
           o == _H5Block_open_field_group(f, name)
<1>1. /\ b.ret \in {"ok", "error"}
      /\ HandleOK(b.f) /\ Linked(b.f, disk) /\ b.f.mode = f.mode
      /\ b.ret = "ok" => b.f.b.group \in DOMAIN disk.steps
  BY BlockOpened
<1>2. DOMAIN b = {"ret", "f"}
  BY DEF _open_block_group
<1>3. o = IF b.ret = "ok" /\ name \notin DOMAIN FieldsIn(b.f) THEN [b EXCEPT !.ret = "error"] ELSE b
  BY DEF _H5Block_open_field_group
<1> HIDE DEF b, o
<1>4. /\ o.f = b.f /\ o.ret \in {"ok", "error"}
      /\ o.ret = "ok" => b.ret = "ok" /\ name \in DOMAIN disk.steps[b.f.b.group].fields
  BY <1>1, <1>2, <1>3 DEF FieldsIn
<1> QED
  BY <1>1, <1>4 DEF o

-----------------------------------------------------------------------------
(* Calls that write and read                                                *)

\* A part of a step is replaced by one that has all it had.
LEMMA PartIsFine ==
    ASSUME IInv, NEW ret, NEW hf, NEW objects, NEW key \in DOMAIN disk.steps, NEW s,
           Return(ret, hf, [disk EXCEPT !.steps = [disk.steps EXCEPT ![key] = s]], objects),
           objects = {} \/ ret = "error", Writable,
           HandleOK(hf), Linked(hf, disk), hf.mode = f.mode,
           StepOK(s), StepGrows(disk.steps[key], s)
    PROVE  Fine
<1> DEFINE e == [disk EXCEPT !.steps = [disk.steps EXCEPT ![key] = s]]
<1>1. DiskOK(e) /\ Grows(disk, e)
  BY StepChanged DEF IInv
<1> HIDE DEF e
<1>2. Linked(hf, e)
  BY <1>1, LinkedStays DEF Writable
<1>3. Return(ret, hf, e, objects)
  BY Zenon DEF e
<1> QED
  BY <1>1, <1>2, <1>3, Returned

LEMMA GroupIsThere == ASSUME IInv, f.group # None
                      PROVE  f.group \in DOMAIN disk.steps /\ StepOK(disk.steps[f.group])
  BY DEF IInv, Linked, DiskOK

LEMMA DataIsFine == ASSUME IInv, WriteData PROVE Fine
<1>1. PICK call \in Calls \cap DOMAIN H5PartWriteData, name \in ToSet(MemberNames) \ {"Block"} :
          IF ~Writable \/ f.group = None \/ f.n = 0 THEN Refused
          ELSE _write_data(name, Native[H5PartWriteData[call]])
  BY DEF WriteData
<1> DEFINE type == Native[H5PartWriteData[call]]
           old == disk.steps[f.group]
           value == [type |-> type, n |-> f.n]
           data == With(old.data, name, value)
           s == [old EXCEPT !.data = data]
<1> HIDE DEF type
<1>2. CASE Refused
  BY <1>2, RefusedIsFine DEF Refused
<1>3. CASE ~Refused
  <2>1. Writable /\ f.group # None /\ _write_data(name, type)
    BY <1>1, <1>3 DEF type
  <2>2. f.group \in DOMAIN disk.steps /\ StepOK(old)
    BY <2>1, GroupIsThere
  <2>3. CASE name \in DOMAIN old.data
    <3>1. Return("ok", f, disk, {})
      BY <2>1, <2>3 DEF _write_data
    <3> QED
      BY <3>1, RefusedIsFine
  <2>4. CASE name \notin DOMAIN old.data
    <3>1. Return("ok", f, [disk EXCEPT !.steps = [disk.steps EXCEPT ![f.group] = s]], {})
      BY <2>1, <2>4 DEF _write_data
    <3> HIDE DEF value, old
    <3>2. IsFun(data) /\ DOMAIN data = DOMAIN old.data \cup {name} /\ Extends(data, old.data)
      BY <2>4, WithIs, Zenon
    <3> HIDE DEF data, old
    <3>3. /\ IsFun(s) /\ DOMAIN s = DOMAIN old /\ s.data = data
          /\ s.attrs = old.attrs /\ s.fields = old.fields
      BY <2>2, PutIs DEF StepOK
    <3> HIDE DEF s
    <3>4. StepOK(s)
      BY <2>2, <3>2, <3>3 DEF StepOK
    <3>5. StepGrows(old, s)
      BY <3>2, <3>3, Stays, AllStays DEF StepGrows
    <3> QED
      BY <2>1, <2>2, <3>1, <3>4, <3>5, PartIsFine DEF IInv, old
  <2> QED
    BY <2>3, <2>4
<1> QED
  BY <1>2, <1>3

LEMMA ReadIsFine == ASSUME IInv, ReadData PROVE Fine
<1>1. CASE f.group = None
  <2>1. Opened /\ SetStepTo(f.timestep)
    BY <1>1 DEF ReadData, _read_data
  <2> QED
    BY <2>1, StepIsFine
<1>2. CASE f.group # None
  <2>1. \E ret : Return(ret, f, disk, {})
    BY <1>2 DEF ReadData, _read_data
  <2> QED
    BY <2>1, RefusedIsFine
<1> QED
  BY <1>1, <1>2

LEMMA LeftOpenIs == ASSUME NEW ret \in {"ok", "error"}, NEW object
                    PROVE  LeftOpen(ret, object) = {} \/ ret = "error"
  BY DEF LeftOpen

LEMMA FileAttribIsFine == ASSUME IInv, WriteFileAttrib PROVE Fine
<1>0. PICK name \in ToSet(AttribNames) : \E value :
          IF ~Writable THEN Refused
          ELSE (Room \/ name \in DOMAIN disk.attrs) /\ _H5Part_write_file_attrib(name, value)
  BY DEF WriteFileAttrib
<1>1. PICK value :
          IF ~Writable THEN Refused
          ELSE (Room \/ name \in DOMAIN disk.attrs) /\ _H5Part_write_file_attrib(name, value)
  BY <1>0
<1>2. CASE ~Writable
  BY <1>1, <1>2, RefusedIsFine DEF Refused
<1>3. CASE Writable
  <2> DEFINE w == _H5Part_write_attrib(disk.attrs, name, value)
             e == [disk EXCEPT !.attrs = w.attrs]
  <2>1. Return(w.ret, f, e, LeftOpen(w.ret, "/"))
    BY <1>1, <1>3 DEF _H5Part_write_file_attrib
  <2>2. /\ w.ret \in {"ok", "error"} /\ IsFun(w.attrs) /\ Extends(w.attrs, disk.attrs)
        /\ DOMAIN w.attrs \subseteq DOMAIN disk.attrs \cup {name}
    BY AttribWritten DEF IInv, DiskOK, AttrsOK
  <2>3. DiskOK(disk) /\ disk.exists /\ AttrsOK(disk.attrs) /\ HandleOK(f) /\ Linked(f, disk)
    BY <1>3 DEF IInv, Linked, Writable, DiskOK
  <2> HIDE DEF w
  <2>4. AttrsOK(w.attrs)
    BY <2>2, <2>3 DEF AttrsOK
  <2>5. DiskOK(e) /\ Grows(disk, e)
    BY <2>2, <2>3, <2>4, FileAttrsChanged
  <2> HIDE DEF e
  <2>6. Linked(f, e)
    BY <1>3, <2>3, <2>5, LinkedStays DEF Writable
  <2>7. LeftOpen(w.ret, "/") = {} \/ w.ret = "error"
    BY <2>2, LeftOpenIs
  <2> QED
    BY <1>3, <2>1, <2>3, <2>5, <2>6, <2>7, Returned
<1> QED
  BY <1>2, <1>3

LEMMA StepAttribIsFine == ASSUME IInv, WriteStepAttrib PROVE Fine
<1>0. PICK name \in ToSet(AttribNames) : \E value :
          IF ~Writable \/ f.group = None THEN Refused
          ELSE /\ Room \/ name \in DOMAIN disk.steps[f.group].attrs
               /\ _H5Part_write_step_attrib(name, value)
  BY DEF WriteStepAttrib
<1>1. PICK value :
          IF ~Writable \/ f.group = None THEN Refused
          ELSE /\ Room \/ name \in DOMAIN disk.steps[f.group].attrs
               /\ _H5Part_write_step_attrib(name, value)
  BY <1>0
<1>2. CASE ~Writable \/ f.group = None
  BY <1>1, <1>2, RefusedIsFine DEF Refused
<1>3. CASE Writable /\ f.group # None
  <2> DEFINE old == disk.steps[f.group]
             w == _H5Part_write_attrib(old.attrs, name, value)
             s == [old EXCEPT !.attrs = w.attrs]
  <2>1. f.group \in DOMAIN disk.steps /\ StepOK(old)
    BY <1>3, GroupIsThere
  <2>2. Return(w.ret, f, [disk EXCEPT !.steps = [disk.steps EXCEPT ![f.group] = s]], {})
    <3>1. Return(w.ret, f, [disk EXCEPT !.steps[f.group].attrs = w.attrs], {})
      BY <1>1, <1>3 DEF _H5Part_write_step_attrib
    <3> HIDE DEF w
    <3> QED
      BY <3>1
  <2>3. /\ IsFun(w.attrs) /\ Extends(w.attrs, old.attrs)
        /\ DOMAIN w.attrs \subseteq DOMAIN old.attrs \cup {name}
    BY <2>1, AttribWritten DEF StepOK, AttrsOK
  <2> HIDE DEF w, old
  <2>4. /\ IsFun(s) /\ DOMAIN s = DOMAIN old /\ s.attrs = w.attrs
        /\ s.data = old.data /\ s.fields = old.fields
    BY <2>1, PutIs DEF StepOK
  <2> HIDE DEF s
  <2>5. StepOK(s)
    BY <2>1, <2>3, <2>4 DEF StepOK, AttrsOK
  <2>6. StepGrows(old, s)
    BY <2>3, <2>4, Stays, AllStays DEF StepGrows
  <2> QED
    BY <1>3, <2>1, <2>2, <2>5, <2>6, PartIsFine DEF IInv, old
<1> QED
  BY <1>2, <1>3

LEMMA AttribReadIsFine == ASSUME IInv, H5PartGetFileAttribInfo \/ H5PartReadFileAttrib PROVE Fine
<1>1. PICK ret \in {"ok", "error"} : Return(ret, f, disk, LeftOpen(ret, "/"))
  <2>1. CASE H5PartGetFileAttribInfo
    <3>1. PICK idx \in Indices : Return(FileAttribInfo(idx).ret, f, disk, LeftOpen(FileAttribInfo(idx).ret, "/"))
      BY <2>1 DEF H5PartGetFileAttribInfo
    <3>2. FileAttribInfo(idx).ret \in {"ok", "error"}
      BY DEF FileAttribInfo, _H5Part_get_attrib_info
    <3> QED
      BY <3>1, <3>2
  <2>2. CASE H5PartReadFileAttrib
    BY <2>2 DEF H5PartReadFileAttrib, _H5Part_read_attrib
  <2> QED
    BY <2>1, <2>2
<1> QED
  BY <1>1, LeftOpenIs, RefusedIsFine

-----------------------------------------------------------------------------
(* Fields                                                                   *)

\* The typed calls have so many components.
Ranked(calls) == \A c \in DOMAIN calls : calls[c].rank \in Nat
LEMMA BothRanked == ASSUME NEW a, NEW b, Ranked(a), Ranked(b) PROVE Ranked(Both(a, b))
  BY DEF Ranked, Both
LEMMA CallsRanked == Ranked(FieldCalls)
<1>1. Ranked(Float64Fields)
  BY DEF Float64Fields, Field, Ranked
<1>2. Ranked(Float32Fields)
  BY DEF Float32Fields, Field, Ranked
<1>3. Ranked(Int64Fields)
  BY DEF Int64Fields, Field, Ranked
<1>4. Ranked(Int32Fields)
  BY DEF Int32Fields, Field, Ranked
<1> QED
  BY <1>1, <1>2, <1>3, <1>4, BothRanked DEF FieldCalls

\* The fields of a step are replaced by others that have all they had.
LEMMA FieldsAreFine ==
    ASSUME IInv, NEW ret, NEW hf, NEW objects, NEW key \in DOMAIN disk.steps, NEW fields,
           Return(ret, hf, [disk EXCEPT !.steps[key].fields = fields], objects),
           objects = {} \/ ret = "error", Writable,
           HandleOK(hf), Linked(hf, disk), hf.mode = f.mode,
           IsFun(fields), DOMAIN fields \subseteq ToSet(FieldNames),
           \A n \in DOMAIN fields : FieldOK(fields[n]),
           \A n \in DOMAIN disk.steps[key].fields :
               n \in DOMAIN fields /\ FieldGrows(disk.steps[key].fields[n], fields[n])
    PROVE  Fine
<1> DEFINE old == disk.steps[key]
           s == [old EXCEPT !.fields = fields]
<1>1. Return(ret, hf, [disk EXCEPT !.steps = [disk.steps EXCEPT ![key] = s]], objects)
  OBVIOUS
<1>2. StepOK(old)
  BY DEF IInv, DiskOK
<1> HIDE DEF old
<1>3. /\ IsFun(s) /\ DOMAIN s = DOMAIN old /\ s.fields = fields
      /\ s.data = old.data /\ s.attrs = old.attrs
  BY <1>2, PutIs DEF StepOK
<1> HIDE DEF s
<1>4. StepOK(s)
  BY <1>2, <1>3 DEF StepOK
<1>5. StepGrows(old, s)
  BY <1>3, Stays DEF StepGrows, old
<1> QED
  BY <1>1, <1>4, <1>5, PartIsFine DEF old

LEMMA WriteFieldIsFine == ASSUME IInv, H5Block3dWriteField PROVE Fine
<1>0. PICK c \in Calls \cap DOMAIN FieldCalls, name \in ToSet(FieldNames) :
          IF ~Writable \/ f.group = None \/ ~f.b.layout THEN Refused
          ELSE CreateField(name, FieldCalls[c])
  BY DEF H5Block3dWriteField
<1> DEFINE call == FieldCalls[c]
           o == IF HasBlock(f.group) THEN _open_block_group(f) ELSE _create_block_group(f)
           field == [rank |-> call.rank, type |-> Native[call.type], chunk |-> f.b.chunk, attrs |-> << >>]
           old == disk.steps[o.f.b.group].fields
           new == With(old, name, field)
<1>1. CASE Refused
  BY <1>1, RefusedIsFine DEF Refused
<1>2. CASE ~Refused
  <2>1. Writable /\ InStep /\ CreateField(name, call)
    BY <1>0, <1>2 DEF H5Block3dWriteField, InStep
  <2>2. /\ HandleOK(o.f) /\ Linked(o.f, disk) /\ o.f.mode = f.mode
        /\ o.f.b.group \in DOMAIN disk.steps
    <3>1. CASE HasBlock(f.group)
      <4>1. o = _open_block_group(f) /\ o.ret = "ok"
        BY <3>1 DEF _open_block_group
      <4> HIDE DEF o
      <4> QED
        BY <2>1, <4>1, BlockOpened
    <3>2. CASE ~HasBlock(f.group)
      <4> DEFINE hf == [f EXCEPT !.b.group = f.group]
      <4>1. o.f = hf
        BY <3>2 DEF _create_block_group
      <4>2. HandleOK(f) /\ Linked(f, disk) /\ f.group \in DOMAIN disk.steps /\ f.mode # "read" /\ f.mode # "closed"
        BY <2>1, GroupIsThere DEF IInv, InStep, Writable, Opened
      <4>3. /\ HandleOK(hf) /\ hf.mode = f.mode /\ hf.b.group = f.group /\ hf.group = f.group
            /\ hf.name = f.name /\ hf.timestep = f.timestep
        BY <4>2 DEF HandleOK
      <4> HIDE DEF hf, o
      <4>4. Linked(hf, disk)
        BY <4>2, <4>3 DEF Linked
      <4> QED
        BY <4>1, <4>2, <4>3, <4>4
    <3> QED
      BY <3>1, <3>2
  <2>3. FieldOK(field)
    BY CallsRanked, EmptyIs, SMTT(30) DEF FieldOK, IsFun, Ranked
  <2>4. IF name \in DOMAIN old THEN Return("error", o.f, disk, {})
        ELSE Room /\ Return("ok", o.f, [disk EXCEPT !.steps[o.f.b.group].fields = With(@, name, field)], {})
    BY <2>1 DEF CreateField, FieldsIn
  <2> HIDE DEF o, field
  <2>5. CASE name \in DOMAIN old
    <3>1. Return("error", o.f, disk, {})
      BY <2>4, <2>5, SMTT(30)
    <3> QED
      BY <2>2, <3>1, Returned DEF IInv
  <2>6. CASE name \notin DOMAIN old
    <3>1. Return("ok", o.f, [disk EXCEPT !.steps[o.f.b.group].fields = new], {})
      BY <2>4, <2>6
    <3>2. StepOK(disk.steps[o.f.b.group])
      BY <2>2 DEF IInv, DiskOK
    <3>3. /\ IsFun(new) /\ DOMAIN new = DOMAIN old \cup {name} /\ new[name] = field
          /\ \A n \in DOMAIN old : n # name => new[n] = old[n]
      <4> HIDE DEF old
      <4>1. IsFun(new) /\ DOMAIN new = DOMAIN old \cup {name}
        BY WithIs, Zenon
      <4>2. new[name] = field
        BY DEF With
      <4>3. \A n \in DOMAIN old : n # name => new[n] = old[n]
        BY SMTT(30) DEF With
      <4> QED
        BY <4>1, <4>2, <4>3
    <3> HIDE DEF new
    <3>4. \A n \in DOMAIN new : FieldOK(new[n])
      BY <2>3, <3>2, <3>3, Zenon DEF StepOK
    <3>5. \A n \in DOMAIN old : n \in DOMAIN new /\ FieldGrows(old[n], new[n])
      BY <2>6, <3>3, AllStays, SMTT(30)
    <3>6. DOMAIN new \subseteq ToSet(FieldNames)
      BY <3>2, <3>3 DEF StepOK
    <3> QED
      BY <2>1, <2>2, <3>1, <3>3, <3>4, <3>5, <3>6, FieldsAreFine
  <2> QED
    BY <2>5, <2>6
<1> QED
  BY <1>1, <1>2

LEMMA ReadFieldIsFine == ASSUME IInv, H5Block3dReadField \/ H5BlockGet3DChunkDims PROVE Fine
<1>1. CASE Refused
  BY <1>1, RefusedIsFine DEF Refused
<1>2. CASE ~Refused
  <2>1. PICK name : LET o == _H5Block_open_field_group(f, name)
                    IN  \E ret, objects : /\ InStep /\ Return(ret, o.f, disk, objects)
                                          /\ objects = {} \/ ret = "error"
    <3>1. CASE H5Block3dReadField
      <4>1. PICK c \in Calls \cap DOMAIN FieldCalls, name \in ToSet(FieldNames) :
               IF f.group = None \/ ~f.b.layout THEN Refused
               ELSE LET o == _H5Block_open_field_group(f, name)
                    IN  IF o.ret = "error" THEN Return("error", o.f, disk, {})
                        ELSE IF FieldsIn(o.f)[name].rank < FieldCalls[c].rank
                        THEN Return("error", o.f, disk, {"field"})
                        ELSE Return("ok", o.f, disk, {})
        BY <3>1 DEF H5Block3dReadField
      <4>2. InStep
        BY <1>2, <3>1, <4>1 DEF H5Block3dReadField, InStep
      <4>3. f.group # None /\ f.b.layout
        BY <1>2, <4>1
      <4> QED
        BY <4>1, <4>2, <4>3
    <3>2. CASE H5BlockGet3DChunkDims
      BY <3>2 DEF H5BlockGet3DChunkDims
    <3> QED
      BY <3>1, <3>2
  <2> DEFINE o == _H5Block_open_field_group(f, name)
  <2>2. PICK ret, objects : /\ InStep /\ Return(ret, o.f, disk, objects)
                            /\ objects = {} \/ ret = "error"
    BY <2>1, SMTT(30)
  <2>3. HandleOK(o.f) /\ Linked(o.f, disk) /\ o.f.mode = f.mode
    BY <2>2, FieldOpened, SMTT(30)
  <2> HIDE DEF o
  <2> QED
    BY <2>2, <2>3, Returned DEF IInv
<1> QED
  BY <1>1, <1>2

\* A call with the group of a field open, whose attributes it leaves or adds to.
LEMMA WithFieldIsFine ==
    ASSUME IInv, InStep, NEW name, NEW ret, NEW attrs,
           LET o == _H5Block_open_field_group(f, name)
               field == FieldsIn(o.f)[name]
           IN  IF o.ret = "error" THEN Return("error", o.f, disk, {})
               ELSE /\ Return(ret, o.f, [disk EXCEPT !.steps[o.f.b.group].fields[name].attrs = attrs],
                              LeftOpen(ret, "field"))
                    /\ ret \in {"ok", "error"}
                    /\ FieldOK(field) =>
                           \/ attrs = field.attrs
                           \/ Writable /\ IsFun(attrs) /\ Extends(attrs, field.attrs)
    PROVE  Fine
<1> DEFINE o == _H5Block_open_field_group(f, name)
           key == o.f.b.group
           fields == disk.steps[key].fields
           field == fields[name]
           e == [disk EXCEPT !.steps[key].fields[name].attrs = attrs]
<1>1. /\ o.ret \in {"ok", "error"}
      /\ HandleOK(o.f) /\ Linked(o.f, disk) /\ o.f.mode = f.mode
      /\ o.ret = "ok" => key \in DOMAIN disk.steps /\ name \in DOMAIN fields
  BY FieldOpened, Zenon
<1>2. IF o.ret = "error" THEN Return("error", o.f, disk, {})
      ELSE /\ Return(ret, o.f, e, LeftOpen(ret, "field"))
           /\ ret \in {"ok", "error"}
           /\ FieldOK(field) => \/ attrs = field.attrs
                                \/ Writable /\ IsFun(attrs) /\ Extends(attrs, field.attrs)
  BY Zenon DEF FieldsIn
<1> HIDE DEF o
<1>3. CASE o.ret = "error"
  <2>1. Return("error", o.f, disk, {})
    BY <1>2, <1>3, Zenon
  <2> QED
    BY <1>1, <2>1, Returned, Zenon DEF IInv
<1>4. CASE o.ret = "ok"
  <2>1. Return(ret, o.f, e, LeftOpen(ret, "field"))
    BY <1>2, <1>4, Zenon
  <2>2. IsFun(disk) /\ IsFun(disk.steps) /\ StepOK(disk.steps[key])
    BY <1>1, <1>4, SMTT(30) DEF IInv, DiskOK
  <2>3. IsFun(disk.steps[key]) /\ IsFun(fields) /\ FieldOK(field) /\ name \in DOMAIN fields
    BY <1>1, <1>4, <2>2, Zenon DEF StepOK
  <2>4. /\ ret \in {"ok", "error"}
        /\ \/ attrs = field.attrs
           \/ Writable /\ IsFun(attrs) /\ Extends(attrs, field.attrs)
    BY <1>2, <1>4, <2>3, Zenon
  <2> DEFINE newfield == [field EXCEPT !.attrs = attrs]
             newfields == [fields EXCEPT ![name] = newfield]
             s == [disk.steps[key] EXCEPT !.fields = newfields]
             t == [disk.steps EXCEPT ![key] = s]
  <2>5. e = [disk EXCEPT !.steps = t] /\ e = [disk EXCEPT !.steps[key].fields = newfields]
    BY Zenon
  <2> HIDE DEF e
  <2>6. LeftOpen(ret, "field") = {} \/ ret = "error"
    BY <2>4, LeftOpenIs, Zenon
  <2>7. CASE attrs = field.attrs
    <3>1. newfield = field
      <4> HIDE DEF field
      <4> QED
        BY <2>3, <2>7, Zenon DEF FieldOK, IsFun
    <3>2. newfields = fields
      <4> HIDE DEF newfield, fields
      <4>1. newfield = fields[name]
        BY <3>1, Zenon
      <4> QED
        BY <2>3, <4>1, PutIs, Zenon
    <3>3. s = disk.steps[key]
      <4> HIDE DEF newfields
      <4> QED
        BY <2>3, <3>2, Zenon DEF IsFun
    <3>4. t = disk.steps
      <4> HIDE DEF s
      <4> QED
        BY <2>2, <3>3, PutIs, Zenon
    <3>5. [disk EXCEPT !.steps = t] = disk
      <4> HIDE DEF t
      <4> QED
        BY <2>2, <3>4, PutIs, Zenon
    <3>6. Return(ret, o.f, disk, LeftOpen(ret, "field"))
      BY <2>1, <2>5, <3>5, Zenon
    <3> QED
      BY <1>1, <2>6, <3>6, Returned, Zenon DEF IInv
  <2>8. CASE Writable /\ IsFun(attrs) /\ Extends(attrs, field.attrs)
    <3> HIDE DEF field
    <3>1. /\ IsFun(newfield) /\ DOMAIN newfield = DOMAIN field /\ newfield.attrs = attrs
          /\ newfield.rank = field.rank /\ newfield.type = field.type /\ newfield.chunk = field.chunk
      BY <2>3, PutIs, Zenon DEF FieldOK
    <3> HIDE DEF newfield
    <3>2. FieldOK(newfield) /\ FieldGrows(field, newfield)
      BY <2>3, <2>8, <3>1, Zenon DEF FieldOK, FieldGrows
    <3> HIDE DEF fields
    <3>3. /\ IsFun(newfields) /\ DOMAIN newfields = DOMAIN fields /\ newfields[name] = newfield
          /\ \A n \in DOMAIN fields : n # name => newfields[n] = fields[n]
      BY <2>3, PutIs, Zenon
    <3> HIDE DEF newfields
    <3>4. /\ DOMAIN newfields \subseteq ToSet(FieldNames)
          /\ \A n \in DOMAIN newfields : FieldOK(newfields[n])
      BY <2>2, <3>2, <3>3, Zenon DEF StepOK, fields
    <3>5. \A n \in DOMAIN fields : n \in DOMAIN newfields /\ FieldGrows(fields[n], newfields[n])
      BY <3>2, <3>3, AllStays, Zenon DEF field
    <3>6. Return(ret, o.f, [disk EXCEPT !.steps[key].fields = newfields], LeftOpen(ret, "field"))
      BY <2>1, <2>5, Zenon
    <3> HIDE DEF key
    <3>7. key \in DOMAIN disk.steps
      BY <1>1, <1>4, Zenon DEF key
    <3> QED
      BY <1>1, <2>6, <2>8, <3>3, <3>4, <3>5, <3>6, <3>7, FieldsAreFine, Zenon DEF fields
  <2> QED
    BY <2>4, <2>7, <2>8, Zenon
<1> QED
  BY <1>1, <1>3, <1>4, Zenon

LEMMA FieldAttribIsFine == ASSUME IInv, WriteFieldAttrib PROVE Fine
<1>1. PICK c \in Calls \cap DOMAIN FieldAttribs, name \in ToSet(FieldNames) : \E attr \in NamesFor(c) :
          IF ~Writable \/ f.group = None THEN Refused
          ELSE Room /\ WithField(name, LAMBDA field :
                                     _H5Part_write_attrib(field.attrs, attr, FieldAttribs[c]))
  BY Zenon DEF WriteFieldAttrib
<1>2. PICK attr :
          IF ~Writable \/ f.group = None THEN Refused
          ELSE Room /\ WithField(name, LAMBDA field :
                                     _H5Part_write_attrib(field.attrs, attr, FieldAttribs[c]))
  BY <1>1, Zenon DEF WithField
<1>3. CASE Refused
  BY <1>3, RefusedIsFine DEF Refused
<1>4. CASE ~Refused
  <2> DEFINE o == _H5Block_open_field_group(f, name)
             field == FieldsIn(o.f)[name]
             value == FieldAttribs[c]
             w == _H5Part_write_attrib(field.attrs, attr, value)
  <2>1. Writable /\ InStep
    BY <1>2, <1>4, SMTT(30) DEF WriteFieldAttrib, InStep
  <2>2. IF o.ret = "error" THEN Return("error", o.f, disk, {})
        ELSE Return(w.ret, o.f, [disk EXCEPT !.steps[o.f.b.group].fields[name].attrs = w.attrs],
                    LeftOpen(w.ret, "field"))
    BY <1>2, <1>4 DEF WithField
  <2>3. w.ret \in {"ok", "error"}
    BY DEF _H5Part_write_attrib
  <2>4. FieldOK(field) => IsFun(w.attrs) /\ Extends(w.attrs, field.attrs)
    <3> HIDE DEF field, value
    <3>1. SUFFICES ASSUME FieldOK(field) PROVE IsFun(w.attrs) /\ Extends(w.attrs, field.attrs)
      OBVIOUS
    <3> DEFINE attrs == field.attrs
    <3>2. IsFun(attrs)
      BY <3>1, SMTT(30) DEF FieldOK
    <3> HIDE DEF attrs
    <3>3. LET v == _H5Part_write_attrib(attrs, attr, value)
          IN  IsFun(v.attrs) /\ Extends(v.attrs, attrs)
      BY <3>2, AttribWritten, SMTT(30)
    <3> QED
      BY <3>3 DEF attrs
  <2> DEFINE ret == w.ret
             attrs == w.attrs
  <2> HIDE DEF w
  <2> QED
    <3> HIDE DEF o, ret, attrs
    <3>1. IF o.ret = "error" THEN Return("error", o.f, disk, {})
          ELSE /\ Return(ret, o.f, [disk EXCEPT !.steps[o.f.b.group].fields[name].attrs = attrs],
                         LeftOpen(ret, "field"))
               /\ ret \in {"ok", "error"}
               /\ FieldOK(field) =>
                      \/ attrs = field.attrs
                      \/ Writable /\ IsFun(attrs) /\ Extends(attrs, field.attrs)
      BY <2>1, <2>2, <2>3, <2>4, Zenon DEF ret, attrs
    <3> QED
      BY <2>1, <3>1, WithFieldIsFine, Zenon DEF o
<1> QED
  BY <1>3, <1>4

\* The calls that look at a field's attributes.
LEMMA FieldQueryIsFine ==
    ASSUME IInv, H5BlockGetNumFieldAttribs \/ H5BlockGetFieldAttribInfo \/ ReadFieldAttrib
    PROVE  Fine
<1>1. InStep
  BY DEF H5BlockGetNumFieldAttribs, H5BlockGetFieldAttribInfo, ReadFieldAttrib
<1>2. PICK name : \E ret \in {"ok", "error"} :
          WithField(name, LAMBDA field : [ret |-> ret, attrs |-> field.attrs])
  <2>1. CASE H5BlockGetNumFieldAttribs
    BY <2>1, Zenon DEF H5BlockGetNumFieldAttribs, WithField
  <2>2. CASE H5BlockGetFieldAttribInfo
    BY <2>2, Zenon DEF H5BlockGetFieldAttribInfo, WithField
  <2>3. CASE ReadFieldAttrib
    BY <2>3, Zenon DEF ReadFieldAttrib, WithField, _H5Part_read_attrib
  <2> QED
    BY <2>1, <2>2, <2>3, Zenon
<1> DEFINE o == _H5Block_open_field_group(f, name)
           attrs == FieldsIn(o.f)[name].attrs
<1>3. PICK ret \in {"ok", "error"} :
          IF o.ret = "error" THEN Return("error", o.f, disk, {})
          ELSE Return(ret, o.f, [disk EXCEPT !.steps[o.f.b.group].fields[name].attrs = attrs],
                      LeftOpen(ret, "field"))
  BY <1>2, Zenon DEF WithField
<1>4. IF o.ret = "error" THEN Return("error", o.f, disk, {})
      ELSE /\ Return(ret, o.f, [disk EXCEPT !.steps[o.f.b.group].fields[name].attrs = attrs],
                     LeftOpen(ret, "field"))
           /\ ret \in {"ok", "error"}
           /\ FieldOK(FieldsIn(o.f)[name]) =>
                  \/ attrs = FieldsIn(o.f)[name].attrs
                  \/ Writable /\ IsFun(attrs) /\ Extends(attrs, FieldsIn(o.f)[name].attrs)
  <2> HIDE DEF o
  <2> QED
    BY <1>3
<1> HIDE DEF attrs
<1> QED
  BY <1>1, <1>4, WithFieldIsFine

LEMMA InfoIsFine == ASSUME IInv, GetFieldInfo PROVE Fine
<1>0. PICK name \in ToSet(FieldNames) :
          LET o == _H5Block_open_field_group(f, name) IN Return(o.ret, o.f, disk, {})
  BY DEF GetFieldInfo
<1> DEFINE o == _H5Block_open_field_group(f, name)
<1>1. InStep /\ Return(o.ret, o.f, disk, {})
  BY <1>0 DEF GetFieldInfo
<1>2. HandleOK(o.f) /\ Linked(o.f, disk) /\ o.f.mode = f.mode
  BY <1>1, FieldOpened
<1> HIDE DEF o
<1> QED
  BY <1>1, <1>2, Returned DEF IInv

\* Every call but those that open and close the file.
LEMMA CallsAreFine ==
    ASSUME IInv, Next PROVE H5PartOpenFile \/ H5PartCloseFile \/ (Opened /\ Fine)
<1>1. CASE H5PartDefineStepName \/ H5PartSetNumParticles
           \/ H5BlockDefine3DFieldLayout \/ H5BlockDefine3DChunkDims
  <2>1. Opened
    BY <1>1 DEF H5PartDefineStepName, H5PartSetNumParticles, H5BlockDefine3DFieldLayout,
                H5BlockDefine3DChunkDims
  <2> QED
    BY <1>1, <2>1, InertIsFine
<1>2. CASE H5PartSetStep \/ H5PartGetNumParticles \/ H5PartReadParticleStep
  <2>1. Opened /\ \E step : SetStepTo(step)
    BY <1>2 DEF H5PartSetStep, H5PartGetNumParticles, H5PartReadParticleStep
  <2> QED
    BY <2>1, StepIsFine
<1>3. CASE WriteData \/ ReadData
  BY <1>3, DataIsFine, ReadIsFine DEF WriteData, ReadData
<1>4. CASE WriteFileAttrib
  BY <1>4, FileAttribIsFine DEF WriteFileAttrib
<1>5. CASE WriteStepAttrib
  BY <1>5, StepAttribIsFine DEF WriteStepAttrib
<1>6. CASE H5PartGetFileAttribInfo \/ H5PartReadFileAttrib
  BY <1>6, AttribReadIsFine DEF H5PartGetFileAttribInfo, H5PartReadFileAttrib
<1>7. CASE H5Block3dWriteField
  BY <1>7, WriteFieldIsFine DEF H5Block3dWriteField
<1>8. CASE H5Block3dReadField \/ H5BlockGet3DChunkDims
  BY <1>8, ReadFieldIsFine DEF H5Block3dReadField, H5BlockGet3DChunkDims, InStep
<1>9. CASE WriteFieldAttrib
  BY <1>9, FieldAttribIsFine DEF WriteFieldAttrib
<1>10. CASE H5BlockGetNumFieldAttribs \/ H5BlockGetFieldAttribInfo \/ ReadFieldAttrib
  BY <1>10, FieldQueryIsFine
     DEF H5BlockGetNumFieldAttribs, H5BlockGetFieldAttribInfo, ReadFieldAttrib, InStep
<1>11. CASE GetFieldInfo
  BY <1>11, InfoIsFine DEF GetFieldInfo, InStep
<1> QED
  BY <1>1, <1>2, <1>3, <1>4, <1>5, <1>6, <1>7, <1>8, <1>9, <1>10, <1>11 DEF Next, FileCall, BlockCall

-----------------------------------------------------------------------------
(* Opening and closing, and the results                                     *)

LEMMA EmptyFileOK == DiskOK(EmptyFile) /\ EmptyFile.exists /\ DOMAIN EmptyFile.attrs = {}
                     /\ DOMAIN EmptyFile.steps = {}
<1>1. /\ DOMAIN EmptyFile = {"exists", "attrs", "steps"} /\ IsFun(EmptyFile) /\ EmptyFile.exists
      /\ EmptyFile.attrs = << >> /\ EmptyFile.steps = << >>
  BY DEF EmptyFile, NoFile, IsFun
<1>2. IsFiniteSet(DOMAIN EmptyFile.steps)
  BY <1>1, EmptyIs, FS_EmptySet
<1> QED
  BY <1>1, <1>2, EmptyIs DEF DiskOK, AttrsOK

LEMMA OpenKeepsInv ==
    ASSUME IInv, H5PartOpenFile
    PROVE  /\ IInv' /\ ~Opened
           /\ disk' = disk \/ f'.mode = "write" \/ (f'.mode # "read" /\ Grows(disk, disk'))
<1>1. PICK mode \in {"read", "write", "append"} : _H5Part_open_file(mode)
  BY DEF H5PartOpenFile
<1>2. ~Opened /\ stray' = stray
  BY <1>1 DEF _H5Part_open_file
<1>3. OnlyFailedCallsLeak'
  BY <1>2 DEF IInv, OnlyFailedCallsLeak
<1>4. CASE UNCHANGED <<disk, f>>
  <2>1. DiskOK(disk)' /\ HandleOK(f)' /\ Linked(f, disk)'
    BY <1>4 DEF IInv
  <2> QED
    BY <1>2, <1>3, <1>4, <2>1 DEF IInv
<1>5. CASE ~UNCHANGED <<disk, f>>
  <2>1. PICK file \in FileFor(mode) : disk' = file /\ \E n : f' = Handle(mode, n)
    BY <1>1, <1>5 DEF _H5Part_open_file
  <2>2. /\ (file = disk /\ disk.exists) \/ file = EmptyFile
        /\ file = EmptyFile => mode = "write" \/ (mode = "append" /\ ~disk.exists) \/ file = disk
    BY <2>1 DEF FileFor
  <2>3. DiskOK(file) /\ file.exists
    BY <2>2, EmptyFileOK DEF IInv
  <2>4. /\ HandleOK(f') /\ f'.mode = mode /\ f'.group = None /\ f'.b.group = None
    BY <2>1, FileAssumption DEF Handle, _H5Block_init, HandleOK
  <2>5. Linked(f', disk')
    BY <2>1, <2>3, <2>4 DEF Linked
  <2>6. ~disk.exists => Grows(disk, EmptyFile)
    BY EmptyFileOK DEF IInv, DiskOK, Grows, Extends
  <2> QED
    BY <1>2, <1>3, <2>1, <2>2, <2>3, <2>4, <2>5, <2>6 DEF IInv
<1> QED
  BY <1>4, <1>5

LEMMA CloseKeepsInv == ASSUME IInv, H5PartCloseFile PROVE IInv' /\ disk' = disk
<1> DEFINE hf == [_H5Block_close(f) EXCEPT !.group = None]
           open == HandleObjects(hf)
<1>1. /\ f' = Handle("closed", 0) /\ disk' = disk
      /\ stray' = stray \cup {[object |-> o, ret |-> "ok"] : o \in open}
  BY DEF H5PartCloseFile
<1>2. open = {}
  <2>1. hf.group = None /\ hf.b.group = None
    BY DEF _H5Block_close, _H5Block_init, IInv, HandleOK
  <2> HIDE DEF hf
  <2> QED
    BY <2>1 DEF HandleObjects
<1>3. OnlyFailedCallsLeak'
  BY <1>1, <1>2 DEF IInv, OnlyFailedCallsLeak
<1>4. HandleOK(f') /\ f'.mode = "closed" /\ f'.group = None /\ f'.b.group = None
  BY <1>1, FileAssumption DEF Handle, _H5Block_init, HandleOK
<1>5. Linked(f', disk')
  BY <1>4 DEF Linked
<1> QED
  BY <1>1, <1>3, <1>4, <1>5 DEF IInv

LEMMA InvHolds == Spec => []IInv
<1>1. IInv /\ [Next]_vars => IInv'
  <2> SUFFICES ASSUME IInv, [Next]_vars PROVE IInv'
    OBVIOUS
  <2>1. CASE Next
    BY <2>1, CallsAreFine, OpenKeepsInv, CloseKeepsInv DEF Fine, IInv
  <2>2. CASE UNCHANGED vars
    BY <2>2 DEF vars, IInv, OnlyFailedCallsLeak
  <2> QED
    BY <2>1, <2>2
<1> QED
  BY InitInv, <1>1, PTL DEF Spec

\* Only a call that returned an error leaves an object open: whoever checks what the
\* calls of H5Part and H5Block return closes his file.
THEOREM LeaksAreReported == Spec => []OnlyFailedCallsLeak
<1>1. IInv => OnlyFailedCallsLeak
  BY DEF IInv
<1> QED
  BY <1>1, InvHolds, PTL

\* What is in a file stays there with its type and size, unless the file is opened to
\* write anew, and a handle that reads changes nothing (H5Part.c, H5Block.c).
THEOREM FilesOnlyGrow == Spec => OldDataStays
<1> DEFINE Kept == disk' # disk =>
         \/ ~Opened /\ f'.mode = "write"
         \/ /\ f'.mode # "read"
            /\ Grows(disk, disk')
<1>1. ASSUME IInv, Next PROVE Kept
  <2>1. CASE H5PartOpenFile
    BY <1>1, <2>1, OpenKeepsInv, Zenon
  <2>2. CASE H5PartCloseFile
    BY <1>1, <2>2, CloseKeepsInv, Zenon
  <2>3. CASE Fine
    BY <2>3, SMTT(30) DEF Fine, Writable
  <2> QED
    BY <1>1, <2>1, <2>2, <2>3, CallsAreFine
<1>2. Kept => (disk' # disk =>
         \/ ~Opened /\ f'.mode = "write"
         \/ /\ f'.mode # "read"
            /\ Extends(disk'.attrs, disk.attrs)
            /\ \A key \in DOMAIN disk.steps :
                   /\ key \in DOMAIN disk'.steps
                   /\ Extends(disk'.steps[key].data, disk.steps[key].data)
                   /\ Extends(disk'.steps[key].attrs, disk.steps[key].attrs)
                   /\ \A n \in DOMAIN disk.steps[key].fields :
                          /\ n \in DOMAIN disk'.steps[key].fields
                          /\ \A c \in {"rank", "type", "chunk"} :
                                 disk'.steps[key].fields[n][c] = disk.steps[key].fields[n][c]
                          /\ Extends(disk'.steps[key].fields[n].attrs,
                                     disk.steps[key].fields[n].attrs))
  BY DEF Grows, StepGrows, FieldGrows
<1> QED
  BY <1>1, <1>2, InvHolds, PTL DEF Spec, OldDataStays

-----------------------------------------------------------------------------
(* Orders                                                                   *)

LEMMA OrderIs == ASSUME NEW names, IsOrder(names)
                 PROVE  /\ Len(names) \in Nat /\ DOMAIN names = 1 .. Len(names)
                        /\ \A a, b \in 1 .. Len(names) : names[a] = names[b] => a = b
                        /\ ToSet(names) = {names[i] : i \in 1 .. Len(names)}
<1>1. names \in Seq(ToSet(names))
  BY DEF IsOrder
<1>2. Len(names) \in Nat /\ DOMAIN names = 1 .. Len(names)
  BY <1>1
<1> QED
  BY <1>2 DEF IsOrder, IsInjective, ToSet

\* Each member is listed once.
LEMMA InOrderIs ==
    ASSUME NEW names, IsOrder(names), NEW S \in SUBSET ToSet(names)
    PROVE  LET q == InOrder(names, S)
           IN  /\ IsFiniteSet(S) /\ Cardinality(S) \in Nat
               /\ DOMAIN q = 1 .. Cardinality(S) /\ Len(q) = Cardinality(S)
               /\ \A n \in DOMAIN q : q[n] \in S
               /\ \A a, b \in DOMAIN q : q[a] = q[b] => a = b
               /\ \A x \in S : \E n \in DOMAIN q : q[n] = x
<1> DEFINE L == Len(names)
           T == {k \in 1 .. L : names[k] \in S}
           UpTo(i) == {k \in 1 .. i : names[k] \in S}
           q == InOrder(names, S)
           c == Cardinality(S)
<1>1. /\ L \in Nat /\ DOMAIN names = 1 .. L
      /\ \A a, b \in 1 .. L : names[a] = names[b] => a = b
      /\ ToSet(names) = {names[i] : i \in 1 .. L}
  BY OrderIs
<1> HIDE DEF L
<1>2. IsFiniteSet(T) /\ T \in SUBSET Int
  <2>1. IsFiniteSet(1 .. L)
    BY <1>1, FS_Interval
  <2> QED
    BY <1>1, <2>1, FS_Subset
<1>3. IsFiniteSet(S) /\ c = Cardinality(T)
  <2> DEFINE g == [k \in T |-> names[k]]
  <2>1. g \in [T -> S] /\ \A x \in S : \E k \in T : g[k] = x
    BY <1>1
  <2>2. \A a, b \in T : g[a] = g[b] => a = b
    BY <1>1
  <2> HIDE DEF g
  <2>3. g \in Bijection(T, S)
    BY <2>1, <2>2 DEF Bijection, Injection, Surjection, IsInjective
  <2> QED
    BY <1>2, <2>3, FS_Bijection DEF ExistsBijection
<1>4. c \in Nat
  BY <1>3, FS_CardinalityType
<1>5. q = [n \in 1 .. c |-> names[CHOOSE i \in T : Cardinality(UpTo(i)) = n]]
  BY <1>3 DEF InOrder, L
<1> HIDE DEF q
<1>6. \A i \in T : Cardinality(UpTo(i)) = Cardinality(LowerOf(T, i)) + 1
  <2> SUFFICES ASSUME NEW i \in T PROVE Cardinality(UpTo(i)) = Cardinality(LowerOf(T, i)) + 1
    OBVIOUS
  <2>1. UpTo(i) = LowerOf(T, i) \cup {i} /\ i \notin LowerOf(T, i) /\ LowerOf(T, i) \in SUBSET T
    BY <1>1 DEF LowerOf
  <2>2. IsFiniteSet(LowerOf(T, i))
    BY <1>2, <2>1, FS_Subset
  <2> HIDE DEF T, UpTo
  <2> QED
    BY <2>1, <2>2, FS_AddElement
<1> DEFINE at(n) == CHOOSE i \in T : Cardinality(UpTo(i)) = n
<1>7. /\ \A i, j \in T : Cardinality(UpTo(i)) = Cardinality(UpTo(j)) => i = j
      /\ \A n \in 1 .. c : \E i \in T : Cardinality(UpTo(i)) = n
      /\ \A i \in T : Cardinality(UpTo(i)) \in 1 .. c
  <2> HIDE DEF T, UpTo
  <2>1. /\ \A i \in T : Cardinality(LowerOf(T, i)) \in 0 .. c - 1
        /\ \A i, j \in T : Cardinality(LowerOf(T, i)) = Cardinality(LowerOf(T, j)) => i = j
        /\ \A r \in 0 .. c - 1 : \E i \in T : Cardinality(LowerOf(T, i)) = r
    BY <1>2, <1>3, RankIs
  <2>2. \A n \in 1 .. c : n - 1 \in 0 .. c - 1 /\ (n - 1) + 1 = n
    BY <1>4
  <2> QED
    BY <1>4, <1>6, <2>1, <2>2
<1>8. \A n \in 1 .. c : at(n) \in T /\ Cardinality(UpTo(at(n))) = n
  BY <1>7
<1>9. \A n \in 1 .. c : q[n] = names[at(n)]
  BY <1>5
<1>10. DOMAIN q = 1 .. c
  BY <1>5
<1>11. \A n \in 1 .. c : q[n] \in S
  BY <1>8, <1>9
<1>12. Len(q) = c
  <2>1. q \in [1 .. c -> S]
    BY <1>5, <1>11
  <2>2. q \in Seq(S)
    BY <1>4, <2>1
  <2> QED
    BY <1>4, <1>10, <2>2
<1>13. \A i \in T : i \in 1 .. L
  OBVIOUS
<1>16. \A x \in S : \E i \in T : names[i] = x
  BY <1>1
<1> HIDE DEF at, UpTo, T
<1>14. \A a, b \in 1 .. c : q[a] = q[b] => a = b
  BY <1>1, <1>8, <1>9, <1>13
<1>15. \A x \in S : \E n \in 1 .. c : q[n] = x
  BY <1>7, <1>8, <1>9, <1>16
<1> QED
  BY <1>3, <1>4, <1>10, <1>11, <1>12, <1>14, <1>15 DEF q

-----------------------------------------------------------------------------
(* Iterations over the members of a group.  FoldLeft computes them with a   *)
(* recursive function over sets of indices; whatever function fits it       *)
(* everywhere is that function, by a least counterexample.                  *)

Folded(base, m, g, s) ==
    IF s = {} THEN base ELSE _H5Part_iteration_operator(g[s \ {Max(s)}], m[Max(s)])
FoldTable(base, m) == CHOOSE g : g = [s \in SUBSET DOMAIN m |-> Folded(base, m, g, s)]

LEMMA FoldIsTable ==
    ASSUME NEW base, NEW m
    PROVE  FoldLeft(_H5Part_iteration_operator, base, m) = FoldTable(base, m)[DOMAIN m]
  BY Zenon DEF FoldLeft, MapThenFoldSet, FoldTable, Folded

LEMMA FoldIs ==
    ASSUME NEW base, NEW m, IsFiniteSet(DOMAIN m), DOMAIN m \in SUBSET Int, NEW h,
           h = [s \in SUBSET DOMAIN m |-> Folded(base, m, h, s)]
    PROVE  FoldLeft(_H5Part_iteration_operator, base, m) = h[DOMAIN m]
<1> DEFINE D == DOMAIN m
           g == FoldTable(base, m)
           Wrong == {n \in Nat : \E s \in SUBSET D : Cardinality(s) = n /\ g[s] # h[s]}
<1>1. g = [s \in SUBSET D |-> Folded(base, m, g, s)]
  BY DEF FoldTable
<1>2. \A s \in SUBSET D : g[s] = Folded(base, m, g, s) /\ h[s] = Folded(base, m, h, s)
  <2> HIDE DEF g
  <2>1. \A s \in SUBSET D : g[s] = Folded(base, m, g, s)
    BY <1>1
  <2>2. \A s \in SUBSET D : h[s] = Folded(base, m, h, s)
    OBVIOUS
  <2> QED
    BY <2>1, <2>2
<1> HIDE DEF g
<1>3. Wrong = {}
  <2> SUFFICES ASSUME Wrong # {} PROVE FALSE
    OBVIOUS
  <2>1. PICK n \in Wrong : \A y \in Wrong : n <= y
    BY Least
  <2>2. PICK s \in SUBSET D : Cardinality(s) = n /\ g[s] # h[s]
    OBVIOUS
  <2>3. s # {}
    BY <1>2, <2>2 DEF Folded
  <2>4. IsFiniteSet(s) /\ s \in SUBSET Int
    BY FS_Subset
  <2> DEFINE q == s \ {Max(s)}
  <2>5. q \in SUBSET D /\ n - 1 \in Nat /\ Cardinality(q) = n - 1 /\ ~(n <= n - 1)
    <3>1. Max(s) \in s
      BY <2>3, <2>4, MaxIs
    <3> DEFINE x == Max(s)
    <3> HIDE DEF x
    <3>2. s \ {x} \in SUBSET D /\ Cardinality(s) \in Nat \ {0} /\ Cardinality(s \ {x}) = Cardinality(s) - 1
      <4>1. x \in s
        BY <3>1 DEF x
      <4> QED
        BY <2>3, <4>1, OneLess
    <3> QED
      BY <2>2, <3>2 DEF x
  <2>6. n - 1 \notin Wrong
    BY <2>1, <2>5
  <2> HIDE DEF q
  <2>7. g[q] = h[q]
    BY <2>5, <2>6
  <2> QED
    BY <1>2, <2>2, <2>3, <2>7 DEF Folded, q
<1>4. Cardinality(D) \in Nat
  BY FS_CardinalityType
<1>5. g[D] = h[D]
  BY <1>3, <1>4
<1> QED
  BY <1>5, FoldIsTable DEF g

\* The indices of the members of a type whose name begins like this.
Matching(m, type, pattern) ==
    {i \in DOMAIN m : /\ type = "unknown" \/ m[i].type = type
                      /\ pattern = << >> \/ IsPrefix(pattern, m[i].name)}

\* The part of T among the first of the indices, with and without the last of them.
Part(T, s) == T \cap s
Rest(T, s) == T \cap (s \ {Max(s)})

LEMMA LastOut ==
    ASSUME NEW D \in SUBSET Int, IsFiniteSet(D), NEW T, NEW s \in SUBSET D, s # {}
    PROVE  /\ Max(s) \in s
           /\ IsFiniteSet(Rest(T, s)) /\ Cardinality(Rest(T, s)) \in Nat
           /\ \A y \in Rest(T, s) : y < Max(s)
           /\ Max(s) \notin T => Part(T, s) = Rest(T, s)
           /\ Max(s) \in T => /\ Part(T, s) = Rest(T, s) \cup {Max(s)}
                             /\ Cardinality(Part(T, s)) = Cardinality(Rest(T, s)) + 1
<1> DEFINE x == Max(s)
           r == Rest(T, s)
           p == Part(T, s)
<1>1. IsFiniteSet(s) /\ s \in SUBSET Int
  BY FS_Subset
<1>2. x \in s /\ \A y \in s : y <= x
  BY <1>1, MaxIs
<1>3. r = T \cap (s \ {x}) /\ p = T \cap s
  BY DEF Rest, Part
<1> HIDE DEF x, r, p
<1>4. r \in SUBSET s
  BY <1>3
<1>5. IsFiniteSet(r) /\ Cardinality(r) \in Nat
  BY <1>1, <1>4, FS_Subset, FS_CardinalityType
<1>6. \A y \in r : y < x
  <2>1. \A y \in r : y \in s /\ y # x
    BY <1>3
  <2>2. \A y \in s : y \in Int
    BY <1>1
  <2> SUFFICES ASSUME NEW y \in r PROVE y < x
    OBVIOUS
  <2>3. y \in Int /\ x \in Int /\ y <= x /\ y # x
    BY <1>2, <2>1, <2>2
  <2> QED
    BY <2>3
<1>7. x \notin T => p = r
  BY <1>2, <1>3
<1>8. x \in T => p = r \cup {x} /\ x \notin r
  BY <1>2, <1>3
<1>9. x \in T => Cardinality(p) = Cardinality(r) + 1
  BY <1>5, <1>8, FS_AddElement
<1> QED
  BY <1>2, <1>5, <1>6, <1>7, <1>8, <1>9 DEF x, r, p

\* Members are counted that match.
LEMMA CountIs ==
    ASSUME NEW m, IsFiniteSet(DOMAIN m), DOMAIN m \in SUBSET Int, NEW type, NEW pattern
    PROVE  _H5Part_get_num_objects_matching_pattern(m, type, pattern)
           = Cardinality(Matching(m, type, pattern))
<1> DEFINE D == DOMAIN m
           T == Matching(m, type, pattern)
           base == Iteration(type, pattern)
           State(n) == [base EXCEPT !.count = n]
           h == [s \in SUBSET D |-> State(Cardinality(T \cap s))]
<1>1. T \in SUBSET D
  BY DEF Matching
<1>2. ASSUME NEW s \in SUBSET D PROVE h[s] = Folded(base, m, h, s)
  <2>1. CASE s = {}
    <3>1. Cardinality(T \cap s) = 0
      BY <2>1, FS_EmptySet
    <3>2. h[s] = State(0)
      BY <3>1
    <3> QED
      BY <2>1, <3>2 DEF Folded, Iteration
  <2>2. CASE s # {}
    <3> DEFINE x == Max(s)
               r == s \ {x}
               k == Cardinality(T \cap r)
    <3>1. /\ x \in s /\ r \in SUBSET D /\ k \in Nat
          /\ x \notin T => T \cap s = T \cap r
          /\ x \in T => Cardinality(T \cap s) = k + 1
      <4>1. T \cap r = Rest(T, s) /\ T \cap s = Part(T, s)
        BY DEF Rest, Part
      <4> HIDE DEF T, D
      <4>2. D \in SUBSET Int /\ IsFiniteSet(D)
        BY DEF D
      <4>3. /\ Max(s) \in s
            /\ IsFiniteSet(Rest(T, s)) /\ Cardinality(Rest(T, s)) \in Nat
            /\ \A y \in Rest(T, s) : y < Max(s)
            /\ Max(s) \notin T => Part(T, s) = Rest(T, s)
            /\ Max(s) \in T => /\ Part(T, s) = Rest(T, s) \cup {Max(s)}
                              /\ Cardinality(Part(T, s)) = Cardinality(Rest(T, s)) + 1
        BY <2>2, <4>2, LastOut
      <4> QED
        BY <4>1, <4>3
    <3>2. Folded(base, m, h, s) = _H5Part_iteration_operator(h[r], m[x])
      BY <2>2 DEF Folded
    <3>3. h[r] = State(k)
      BY <3>1
    <3>4. x \in T <=> /\ type = "unknown" \/ m[x].type = type
                      /\ pattern = << >> \/ IsPrefix(pattern, m[x].name)
      BY <3>1 DEF Matching
    <3>5. h[s] = State(Cardinality(T \cap s))
      OBVIOUS
    <3> HIDE DEF h, x, r, T, k
    <3>6. CASE x \notin T
      <4>1. _H5Part_iteration_operator(State(k), m[x]) = State(k)
        BY <3>4, <3>6 DEF _H5Part_iteration_operator, Iteration
      <4> QED
        BY <3>1, <3>2, <3>3, <3>5, <3>6, <4>1 DEF k
    <3>7. CASE x \in T
      <4>1. _H5Part_iteration_operator(State(k), m[x]) = State(k + 1)
        BY <3>4, <3>7 DEF _H5Part_iteration_operator, Iteration
      <4> QED
        BY <3>1, <3>2, <3>3, <3>5, <3>7, <4>1
    <3> QED
      BY <3>6, <3>7
  <2> QED
    BY <2>1, <2>2
<1>3. DOMAIN h = SUBSET D /\ h = [s \in SUBSET D |-> h[s]]
  OBVIOUS
<1>4. h[D] = State(Cardinality(T))
  <2>1. T \cap D = T /\ D \in SUBSET D
    BY <1>1
  <2> QED
    BY <2>1
<1> HIDE DEF h, base, T
<1>5. h = [s \in SUBSET D |-> Folded(base, m, h, s)]
  BY <1>2, <1>3
<1>6. FoldLeft(_H5Part_iteration_operator, base, m) = h[D]
  BY <1>5, FoldIs, Zenon
<1>7. State(Cardinality(T)).count = Cardinality(T)
  BY DEF base, Iteration
<1> QED
  BY <1>4, <1>6, <1>7 DEF _H5Part_get_num_objects_matching_pattern, base, T

\* The member with this index is found among those of its type, and none that is
\* not there.
LEMMA NameIs ==
    ASSUME NEW m, IsFiniteSet(DOMAIN m), DOMAIN m \in SUBSET Int, NEW type, type # "unknown",
           NEW idx \in Nat
    PROVE  LET T == Matching(m, type, << >>)
               object == _H5Part_get_object_name(m, type, idx)
           IN  /\ Cardinality(T) <= idx => object = [ret |-> 0, name |-> None]
               /\ \A i \in T : Cardinality(LowerOf(T, i)) = idx => object = [ret |-> 1, name |-> m[i].name]
<1> DEFINE D == DOMAIN m
           T == Matching(m, type, << >>)
           Told(n, done, name) == [type |-> type, pattern |-> << >>, named |-> TRUE, stop |-> idx,
                                   count |-> n, done |-> done, name |-> name]
           Left(n) == Told(n, FALSE, None)
           Found(name) == Told(idx, TRUE, name)
           base == Left(0)
           at(t) == CHOOSE i \in t : Cardinality(LowerOf(t, i)) = idx
           State(t) == IF Cardinality(t) <= idx THEN Left(Cardinality(t)) ELSE Found(m[at(t)].name)
           h == [s \in SUBSET D |-> State(T \cap s)]
<1>1. T \in SUBSET D
  BY DEF Matching
<1>2. ASSUME NEW t \in SUBSET D, NEW i \in t, Cardinality(LowerOf(t, i)) = idx
      PROVE  at(t) = i /\ ~(Cardinality(t) <= idx)
  <2>1. t \in SUBSET Int /\ IsFiniteSet(t)
    BY FS_Subset
  <2>2. Cardinality(t) \in Nat /\ Cardinality(LowerOf(t, i)) \in 0 .. Cardinality(t) - 1
    BY <2>1, RankIs
  <2>3. at(t) \in t /\ Cardinality(LowerOf(t, at(t))) = idx
    BY <1>2
  <2> HIDE DEF at
  <2>4. at(t) = i
    BY <1>2, <2>1, <2>3, RankIs
  <2> QED
    BY <1>2, <2>2, <2>4
<1>10. /\ DOMAIN h = SUBSET D /\ h = [s \in SUBSET D |-> h[s]]
       /\ \A s \in SUBSET D : h[s] = State(T \cap s)
  <2> HIDE DEF State, T
  <2> QED
    OBVIOUS
<1> HIDE DEF h
<1>3. ASSUME NEW s \in SUBSET D PROVE h[s] = Folded(base, m, h, s)
  <2>1. CASE s = {}
    <3>1. Cardinality(T \cap s) = 0
      BY <2>1, FS_EmptySet
    <3>2. h[s] = Left(0)
      <4>1. State(T \cap s) = Left(0)
        <5> HIDE DEF T, at, Told
        <5> QED
          BY <3>1
      <4> HIDE DEF State, T
      <4> QED
        BY <1>10, <4>1
    <3> QED
      BY <2>1, <3>2 DEF Folded
  <2>2. CASE s # {}
    <3> DEFINE x == Max(s)
               r == s \ {x}
               a == T \cap r
               b == T \cap s
    <3>1. /\ x \in s /\ r \in SUBSET D /\ Cardinality(a) \in Nat /\ IsFiniteSet(a)
          /\ \A y \in a : y < x
          /\ x \notin T => b = a
          /\ x \in T => b = a \cup {x} /\ Cardinality(b) = Cardinality(a) + 1
      <4>1. a = Rest(T, s) /\ b = Part(T, s)
        BY DEF Rest, Part
      <4> HIDE DEF T, D, a, b
      <4>2. D \in SUBSET Int /\ IsFiniteSet(D)
        BY DEF D
      <4>3. /\ Max(s) \in s
            /\ IsFiniteSet(Rest(T, s)) /\ Cardinality(Rest(T, s)) \in Nat
            /\ \A y \in Rest(T, s) : y < Max(s)
            /\ Max(s) \notin T => Part(T, s) = Rest(T, s)
            /\ Max(s) \in T => /\ Part(T, s) = Rest(T, s) \cup {Max(s)}
                              /\ Cardinality(Part(T, s)) = Cardinality(Rest(T, s)) + 1
        BY <2>2, <4>2, LastOut
      <4> QED
        BY <4>1, <4>3
    <3>2. Folded(base, m, h, s) = _H5Part_iteration_operator(h[r], m[x])
      BY <2>2 DEF Folded
    <3>3. h[r] = State(a)
      BY <1>10, <3>1
    <3>4. x \in T <=> m[x].type = type
      BY <3>1 DEF Matching
    <3>5. h[s] = State(b)
      BY <1>10
    <3>6. a \in SUBSET D /\ b \in SUBSET D
      BY <1>1
    <3> HIDE DEF x, r, T, a, b, at
    <3>7. CASE x \notin T
      <4>1. _H5Part_iteration_operator(State(a), m[x]) = State(a)
        BY <3>4, <3>7 DEF _H5Part_iteration_operator
      <4> QED
        BY <3>1, <3>2, <3>3, <3>5, <3>7, <4>1
    <3>8. CASE x \in T /\ Cardinality(a) < idx
      <4>1. State(a) = Left(Cardinality(a)) /\ State(b) = Left(Cardinality(a) + 1)
        BY <3>1, <3>8
      <4>2. Cardinality(a) # idx
        BY <3>1, <3>8
      <4>3. _H5Part_iteration_operator(Left(Cardinality(a)), m[x]) = Left(Cardinality(a) + 1)
        BY <3>4, <3>8, <4>2 DEF _H5Part_iteration_operator
      <4> QED
        BY <3>2, <3>3, <3>5, <4>1, <4>3
    <3>9. CASE x \in T /\ Cardinality(a) = idx
      <4>0. LowerOf(b, x) = a /\ x \in b
        <5>1. ~(x < x) /\ b = a \cup {x} /\ \A y \in a : y < x
          BY <3>1, <3>6, <3>9
        <5> QED
          BY <5>1, Zenon DEF LowerOf
      <4>1. at(b) = x /\ ~(Cardinality(b) <= idx)
        BY <1>2, <3>6, <3>9, <4>0
      <4>2. State(a) = Left(idx) /\ State(b) = Found(m[x].name)
        BY <3>1, <3>9, <4>1
      <4>3. _H5Part_iteration_operator(Left(idx), m[x]) = Found(m[x].name)
        BY <3>4, <3>9 DEF _H5Part_iteration_operator
      <4> QED
        BY <3>2, <3>3, <3>5, <4>2, <4>3
    <3>10. CASE x \in T /\ Cardinality(a) > idx
      <4>1. PICK j \in a : Cardinality(LowerOf(a, j)) = idx
        <5>1. a \in SUBSET Int /\ idx \in 0 .. Cardinality(a) - 1
          BY <3>1, <3>6, <3>10
        <5> QED
          BY <3>1, <5>1, RankIs
      <4>2. LowerOf(b, j) = LowerOf(a, j) /\ j \in b
        <5>1. j < x /\ j \in Int /\ x \in Int
          BY <3>1, <3>6, <4>1
        <5>2. ~(x < j)
          BY <5>1
        <5> QED
          BY <3>1, <3>10, <4>1, <5>2 DEF LowerOf
      <4>3. at(a) = j
        BY <1>2, <3>6, <4>1
      <4>4. at(b) = j /\ ~(Cardinality(b) <= idx)
        BY <1>2, <3>6, <4>1, <4>2
      <4>5. State(a) = Found(m[j].name) /\ State(b) = Found(m[j].name)
        BY <3>1, <3>10, <4>3, <4>4
      <4>6. _H5Part_iteration_operator(Found(m[j].name), m[x]) = Found(m[j].name)
        BY DEF _H5Part_iteration_operator
      <4> QED
        BY <3>2, <3>3, <3>5, <4>5, <4>6
    <3> QED
      BY <3>1, <3>7, <3>8, <3>9, <3>10
  <2> QED
    BY <2>1, <2>2
<1>5. h[D] = State(T)
  <2>1. T \cap D = T /\ D \in SUBSET D
    BY <1>1
  <2> HIDE DEF T, State
  <2> QED
    BY <1>10, <2>1
<1> HIDE DEF T, at
<1>6. FoldLeft(_H5Part_iteration_operator, base, m) = State(T)
  <2> HIDE DEF base, State
  <2>1. h = [s \in SUBSET D |-> Folded(base, m, h, s)]
    BY <1>3, <1>10
  <2> QED
    BY <1>5, <2>1, FoldIs
<1>7. _H5Part_get_object_name(m, type, idx)
      = [ret |-> IF State(T).done THEN 1 ELSE 0, name |-> State(T).name]
  <2>1. [Iteration(type, << >>) EXCEPT !.named = TRUE, !.stop = idx] = base
    <3> DEFINE new == [Iteration(type, << >>) EXCEPT !.named = TRUE, !.stop = idx]
    <3>1. /\ DOMAIN new = DOMAIN base /\ IsFun(new) /\ IsFun(base)
          /\ DOMAIN base = {"type", "pattern", "named", "stop", "count", "done", "name"}
      BY DEF Iteration, IsFun
    <3>2. /\ new.type = base.type /\ new.pattern = base.pattern /\ new.stop = base.stop
          /\ new.count = base.count /\ new.name = base.name
      BY DEF Iteration
    <3>3. new.named = base.named /\ new.done = base.done
      BY DEF Iteration
    <3> HIDE DEF base
    <3>4. new = base
      <4> HIDE DEF new
      <4> QED
        BY <3>1, <3>2, <3>3 DEF IsFun
    <3> QED
      BY <3>4
  <2> HIDE DEF State, base
  <2> QED
    BY <1>6, <2>1 DEF _H5Part_get_object_name
<1>8. Cardinality(T) <= idx => ~State(T).done /\ State(T).name = None
  OBVIOUS
<1>9. ASSUME NEW i \in T, Cardinality(LowerOf(T, i)) = idx
      PROVE  State(T).done /\ State(T).name = m[i].name
  <2>1. at(T) = i /\ ~(Cardinality(T) <= idx)
    BY <1>1, <1>2, <1>9
  <2> QED
    BY <2>1
<1> HIDE DEF State
<1> QED
  BY <1>7, <1>8, <1>9 DEF T

-----------------------------------------------------------------------------
(* Enumerations                                                             *)

\* The members of a type are D, and each is found at one of the indices below their number.
Listed(m, type, D) ==
    LET n == _H5Part_get_num_objects(m, type)
        object(idx) == _H5Part_get_object_name(m, type, idx)
    IN  /\ IsFiniteSet(D) /\ n = Cardinality(D) /\ n \in Nat
        /\ \A idx \in 0 .. n - 1 : object(idx).ret = 1 /\ object(idx).name \in D
        /\ \A x \in D : \E idx \in 0 .. n - 1 : object(idx).name = x
        /\ object(n).ret = 0

LEMMA MembersAreListed ==
    ASSUME NEW c \in Nat, NEW m, DOMAIN m = 1 .. c, NEW type, type # "unknown", NEW D,
           \A a, b \in 1 .. c : m[a].name = m[b].name => a = b,
           \A i \in 1 .. c : m[i].type = type => m[i].name \in D,
           \A x \in D : \E i \in 1 .. c : m[i].name = x /\ m[i].type = type
    PROVE  Listed(m, type, D)
<1> DEFINE T == Matching(m, type, << >>)
           g == [i \in T |-> m[i].name]
           n == _H5Part_get_num_objects(m, type)
           object(idx) == _H5Part_get_object_name(m, type, idx)
<1>1. T = {i \in 1 .. c : m[i].type = type}
  BY DEF Matching
<1>2. IsFiniteSet(DOMAIN m) /\ DOMAIN m \in SUBSET Int
  BY FS_Interval
<1> HIDE DEF T
<1>3. IsFiniteSet(T) /\ T \in SUBSET Int
  BY <1>1, <1>2, FS_Subset
<1>4. /\ DOMAIN g = T /\ IsFun(g) /\ \A i \in T : g[i] = m[i].name
  BY DEF IsFun
<1> HIDE DEF g
<1>5. /\ \A i \in T : g[i] \in D
      /\ \A a, b \in T : g[a] = g[b] => a = b
      /\ \A x \in D : \E i \in T : g[i] = x
  BY <1>1, <1>4
<1>6. IsFiniteSet(D) /\ Cardinality(D) = Cardinality(T)
  <2>1. g \in [T -> D]
    BY <1>4, <1>5 DEF IsFun
  <2>2. g \in Bijection(T, D)
    BY <1>5, <2>1 DEF Bijection, Injection, Surjection, IsInjective
  <2> QED
    BY <1>3, <2>2, FS_Bijection DEF ExistsBijection
<1>7. n = Cardinality(T)
  BY <1>2, CountIs DEF _H5Part_get_num_objects, T
<1> HIDE DEF n
<1>8. /\ n \in Nat
      /\ \A i \in T : Cardinality(LowerOf(T, i)) \in 0 .. n - 1
      /\ \A r \in 0 .. n - 1 : \E i \in T : Cardinality(LowerOf(T, i)) = r
  BY <1>3, <1>7, RankIs
<1>9. ASSUME NEW idx \in Nat
      PROVE  /\ n <= idx => object(idx) = [ret |-> 0, name |-> None]
             /\ \A i \in T : Cardinality(LowerOf(T, i)) = idx => object(idx) = [ret |-> 1, name |-> m[i].name]
  BY <1>2, <1>7, NameIs DEF T
<1> HIDE DEF object
<1>10. object(n).ret = 0
  BY <1>8, <1>9
<1>11. ASSUME NEW idx \in 0 .. n - 1 PROVE object(idx).ret = 1 /\ object(idx).name \in D
  <2>1. PICK i \in T : Cardinality(LowerOf(T, i)) = idx
    BY <1>8
  <2>2. idx \in Nat
    BY <1>8
  <2>3. object(idx) = [ret |-> 1, name |-> m[i].name]
    BY <1>9, <2>1, <2>2
  <2> QED
    BY <1>4, <1>5, <2>3
<1>12. ASSUME NEW x \in D PROVE \E idx \in 0 .. n - 1 : object(idx).name = x
  <2>1. PICK i \in T : m[i].name = x
    BY <1>4, <1>5
  <2> DEFINE k == Cardinality(LowerOf(T, i))
  <2>2. k \in 0 .. n - 1
    BY <1>8
  <2>3. k \in Nat
    BY <1>8, <2>2
  <2>4. object(k) = [ret |-> 1, name |-> m[i].name]
    BY <1>9, <2>3
  <2> HIDE DEF k
  <2> QED
    BY <2>1, <2>2, <2>4
<1> QED
  BY <1>6, <1>7, <1>8, <1>10, <1>11, <1>12 DEF Listed, n, object

\* What a caller is told by the indices is then all there is.
LEMMA AllTold ==
    ASSUME NEW r, IsFun(r), IsFiniteSet(DOMAIN r),
           \A a, b \in DOMAIN r : r[a] = r[b] => a = b, NEW info,
           \A i \in 0 .. Cardinality(DOMAIN r) - 1 : \E d \in DOMAIN r : info[i] = r[d],
           \A d \in DOMAIN r : \E i \in 0 .. Cardinality(DOMAIN r) - 1 : info[i] = r[d]
    PROVE  /\ Cardinality({r[d] : d \in DOMAIN r}) = Cardinality(DOMAIN r)
           /\ {info[i] : i \in 0 .. Cardinality(DOMAIN r) - 1} = {r[d] : d \in DOMAIN r}
<1> DEFINE D == DOMAIN r
           R == {r[d] : d \in D}
<1>1. r \in [D -> R] /\ \A x \in R : \E i \in D : r[i] = x
  BY DEF IsFun
<1>2. {info[i] : i \in 0 .. Cardinality(D) - 1} = R
  OBVIOUS
<1> HIDE DEF R
<1>3. r \in Bijection(D, R)
  BY <1>1 DEF Bijection, Injection, Surjection, IsInjective
<1>4. Cardinality(R) = Cardinality(D)
  BY <1>3, FS_Bijection DEF ExistsBijection
<1> QED
  BY <1>2, <1>4 DEF R

\* Attributes are told by their place in the order.
LEMMA AttribsAreTold ==
    ASSUME NEW attrs, AttrsOK(attrs)
    PROVE  LET n == Cardinality(DOMAIN attrs)
               info(idx) == _H5Part_get_attrib_info(attrs, idx)
           IN  /\ n = Cardinality(Infos(attrs))
               /\ {info(idx) : idx \in 0 .. n - 1} = Infos(attrs)
               /\ info(n).ret = "error"
               /\ \A idx \in 0 .. n - 1 : _H5Part_read_attrib(attrs, info(idx).name) = "ok"
<1> DEFINE D == DOMAIN attrs
           n == Cardinality(D)
           q == Indexed(attrs)
           told(name) == [ret |-> "ok", name |-> name, n |-> attrs[name].n,
                          type |-> _H5Part_normalize_h5_type(attrs[name].type)]
           r == [name \in D |-> told(name)]
           info == [idx \in 0 .. n |-> _H5Part_get_attrib_info(attrs, idx)]
<1>1. /\ IsFiniteSet(D) /\ n \in Nat /\ DOMAIN q = 1 .. n /\ Len(q) = n
      /\ \A i \in 1 .. n : q[i] \in D
      /\ \A x \in D : \E i \in 1 .. n : q[i] = x
  <2>1. D \in SUBSET ToSet(AttribNames) /\ IsOrder(AttribNames)
    BY OrderAssumption DEF AttrsOK
  <2> DEFINE p == InOrder(AttribNames, D)
  <2>2. /\ IsFiniteSet(D) /\ n \in Nat /\ DOMAIN p = 1 .. n /\ Len(p) = n
        /\ \A i \in DOMAIN p : p[i] \in D
        /\ \A x \in D : \E i \in DOMAIN p : p[i] = x
    <3> HIDE DEF D
    <3> QED
      BY <2>1, InOrderIs
  <2>3. q = p
    BY DEF Indexed
  <2> HIDE DEF p, q, n
  <2> QED
    BY <2>2, <2>3
<1> HIDE DEF q, D, n
<1>2. ASSUME NEW idx \in 0 .. n - 1 PROVE info[idx] = told(q[idx + 1]) /\ q[idx + 1] \in D
  <2>1. idx \in 0 .. n /\ idx + 1 \in 1 .. n /\ ~(idx >= n)
    BY <1>1
  <2>2. _H5Part_get_attrib_info(attrs, idx) = told(q[idx + 1])
    BY <1>1, <2>1 DEF _H5Part_get_attrib_info, q
  <2> QED
    BY <1>1, <2>1, <2>2
<1>3. info[n].ret = "error"
  <2>1. n \in 0 .. n /\ n >= n
    BY <1>1
  <2>2. _H5Part_get_attrib_info(attrs, n) = [ret |-> "error"]
    BY <1>1, <2>1 DEF _H5Part_get_attrib_info, q
  <2> QED
    BY <2>1, <2>2
<1>4. \A a \in D : r[a] = told(a) /\ r[a].name = a
  OBVIOUS
<1>5. IsFun(r) /\ DOMAIN r = D
  BY DEF IsFun
<1>6. \A idx \in 0 .. n - 1 : info[idx] = _H5Part_get_attrib_info(attrs, idx)
  BY <1>1
<1>7. info[n] = _H5Part_get_attrib_info(attrs, n)
  BY <1>1
<1>8. Infos(attrs) = {told(a) : a \in D}
  BY DEF Infos, D
<1>9. \A a \in D : told(a).name = a
  OBVIOUS
<1> HIDE DEF info, r, told
<1>10. Infos(attrs) = {r[a] : a \in D}
  BY <1>4, <1>8
<1>11. \A a \in D : \E idx \in 0 .. n - 1 : info[idx] = r[a]
  <2> SUFFICES ASSUME NEW a \in D PROVE \E idx \in 0 .. n - 1 : info[idx] = r[a]
    OBVIOUS
  <2>1. PICK i \in 1 .. n : q[i] = a
    BY <1>1
  <2>2. i - 1 \in 0 .. n - 1 /\ (i - 1) + 1 = i
    BY <1>1
  <2> QED
    BY <1>2, <1>4, <2>1, <2>2
<1>12. \A idx \in 0 .. n - 1 : \E a \in D : info[idx] = r[a]
  BY <1>2, <1>4
<1>13. \A a, b \in D : r[a] = r[b] => a = b
  BY <1>4
<1>14. n = Cardinality({r[a] : a \in D}) /\ {info[i] : i \in 0 .. n - 1} = {r[a] : a \in D}
  <2>1. n = Cardinality(DOMAIN r) /\ D = DOMAIN r
    BY <1>5 DEF n
  <2> HIDE DEF n
  <2>2. /\ IsFun(r) /\ IsFiniteSet(DOMAIN r)
        /\ \A a, b \in DOMAIN r : r[a] = r[b] => a = b
        /\ \A i \in 0 .. Cardinality(DOMAIN r) - 1 : \E d \in DOMAIN r : info[i] = r[d]
        /\ \A d \in DOMAIN r : \E i \in 0 .. Cardinality(DOMAIN r) - 1 : info[i] = r[d]
    BY <1>1, <1>5, <1>11, <1>12, <1>13, <2>1
  <2>3. /\ Cardinality({r[d] : d \in DOMAIN r}) = Cardinality(DOMAIN r)
        /\ {info[i] : i \in 0 .. Cardinality(DOMAIN r) - 1} = {r[d] : d \in DOMAIN r}
    BY <2>2, AllTold
  <2> QED
    BY <2>1, <2>3
<1>15. \A idx \in 0 .. n - 1 : _H5Part_read_attrib(attrs, info[idx].name) = "ok"
  BY <1>2, <1>9 DEF _H5Part_read_attrib, D
<1>16. {_H5Part_get_attrib_info(attrs, idx) : idx \in 0 .. n - 1} = Infos(attrs)
  BY <1>6, <1>10, <1>14
<1> QED
  BY <1>3, <1>6, <1>7, <1>10, <1>14, <1>15, <1>16 DEF n, D

\* What is told of listed objects.
Tells(info, m, type, r) ==
    \A idx \in 0 .. _H5Part_get_num_objects(m, type) :
        info[idx] = IF _H5Part_get_object_name(m, type, idx).ret = 0 THEN [ret |-> "error"]
                    ELSE r[_H5Part_get_object_name(m, type, idx).name]

LEMMA ListIsTold ==
    ASSUME NEW m, NEW type, NEW r, IsFun(r), Listed(m, type, DOMAIN r),
           \A a, b \in DOMAIN r : r[a] = r[b] => a = b, NEW info, Tells(info, m, type, r)
    PROVE  LET n == _H5Part_get_num_objects(m, type)
           IN  /\ n = Cardinality({r[d] : d \in DOMAIN r})
               /\ {info[idx] : idx \in 0 .. n - 1} = {r[d] : d \in DOMAIN r}
               /\ info[n].ret = "error"
<1> DEFINE n == _H5Part_get_num_objects(m, type)
           object(idx) == _H5Part_get_object_name(m, type, idx)
<1>1. /\ IsFiniteSet(DOMAIN r) /\ n = Cardinality(DOMAIN r) /\ n \in Nat
      /\ \A idx \in 0 .. n - 1 : object(idx).ret = 1 /\ object(idx).name \in DOMAIN r
      /\ \A x \in DOMAIN r : \E idx \in 0 .. n - 1 : object(idx).name = x
      /\ object(n).ret = 0
  BY DEF Listed
<1>2. \A idx \in 0 .. n : info[idx] = IF object(idx).ret = 0 THEN [ret |-> "error"]
                                      ELSE r[object(idx).name]
  BY DEF Tells
<1> HIDE DEF n, object
<1>3. \A idx \in 0 .. n - 1 : info[idx] = r[object(idx).name]
  <2>1. \A idx \in 0 .. n - 1 : idx \in 0 .. n /\ object(idx).ret # 0
    BY <1>1
  <2> QED
    BY <1>2, <2>1
<1>4. info[n].ret = "error"
  BY <1>1, <1>2
<1>5. /\ \A i \in 0 .. n - 1 : \E d \in DOMAIN r : info[i] = r[d]
      /\ \A d \in DOMAIN r : \E i \in 0 .. n - 1 : info[i] = r[d]
  BY <1>1, <1>3
<1>6. /\ Cardinality({r[d] : d \in DOMAIN r}) = n
      /\ {info[i] : i \in 0 .. n - 1} = {r[d] : d \in DOMAIN r}
  <2>1. /\ \A i \in 0 .. Cardinality(DOMAIN r) - 1 : \E d \in DOMAIN r : info[i] = r[d]
        /\ \A d \in DOMAIN r : \E i \in 0 .. Cardinality(DOMAIN r) - 1 : info[i] = r[d]
    BY <1>1, <1>5
  <2>2. /\ Cardinality({r[d] : d \in DOMAIN r}) = Cardinality(DOMAIN r)
        /\ {info[i] : i \in 0 .. Cardinality(DOMAIN r) - 1} = {r[d] : d \in DOMAIN r}
    <3>1. IsFiniteSet(DOMAIN r)
      BY <1>1
    <3> QED
      BY <2>1, <3>1, AllTold
  <2> QED
    BY <1>1, <2>2
<1> QED
  BY <1>4, <1>6 DEF n

LEMMA DatasetsAreListed ==
    ASSUME IInv, InStep
    PROVE  Listed(StepMembers(f.group), "dataset", DOMAIN disk.steps[f.group].data)
<1> DEFINE step == disk.steps[f.group]
           D == DOMAIN step.data
           S == D \cup {m \in {"Block"} : step.fields # << >>}
           q == InOrder(MemberNames, S)
           m == StepMembers(f.group)
           c == Cardinality(S)
<1>1. D \subseteq ToSet(MemberNames) \ {"Block"}
  BY GroupIsThere DEF InStep, StepOK
<1>2. S \in SUBSET ToSet(MemberNames) /\ \A x \in S : x # "Block" <=> x \in D
  BY <1>1, OrderAssumption
<1>3. m = [i \in DOMAIN q |-> [name |-> q[i], type |-> IF q[i] = "Block" THEN "group" ELSE "dataset"]]
  BY DEF StepMembers
<1>7. D \subseteq S
  OBVIOUS
<1> HIDE DEF m, S, D
<1>4. /\ c \in Nat /\ DOMAIN q = 1 .. c
      /\ \A n \in DOMAIN q : q[n] \in S
      /\ \A a, b \in DOMAIN q : q[a] = q[b] => a = b
      /\ \A x \in S : \E n \in DOMAIN q : q[n] = x
  BY <1>2, OrderAssumption, InOrderIs
<1> HIDE DEF q, c
<1>5. DOMAIN m = 1 .. c
  BY <1>3, <1>4
<1>6. /\ \A a, b \in 1 .. c : m[a].name = m[b].name => a = b
      /\ \A i \in 1 .. c : m[i].type = "dataset" => m[i].name \in D
      /\ \A x \in D : \E i \in 1 .. c : m[i].name = x /\ m[i].type = "dataset"
  <2>1. \A i \in 1 .. c : m[i].name = q[i] /\ (m[i].type = "dataset" <=> q[i] # "Block")
    BY <1>3, <1>4
  <2>2. \A a, b \in 1 .. c : m[a].name = m[b].name => a = b
    BY <1>4, <2>1
  <2>3. \A i \in 1 .. c : m[i].type = "dataset" => m[i].name \in D
    BY <1>2, <1>4, <2>1
  <2>4. \A x \in D : \E i \in 1 .. c : m[i].name = x /\ m[i].type = "dataset"
    BY <1>2, <1>4, <1>7, <2>1
  <2> QED
    BY <2>2, <2>3, <2>4
<1>8. Listed(m, "dataset", D)
  BY <1>4, <1>5, <1>6, MembersAreListed
<1> QED
  BY <1>8 DEF m, D

LEMMA FieldsAreListed ==
    ASSUME IInv, InStep
    PROVE  Listed(FieldMembers, "group", DOMAIN disk.steps[f.group].fields)
<1> DEFINE D == DOMAIN disk.steps[f.group].fields
           q == InOrder(FieldNames, D)
           m == FieldMembers
           c == Cardinality(D)
<1>1. D \in SUBSET ToSet(FieldNames)
  BY GroupIsThere DEF InStep, StepOK
<1>2. m = [i \in DOMAIN q |-> [name |-> q[i], type |-> "group"]]
  BY DEF FieldMembers
<1> HIDE DEF m, D
<1>3. /\ c \in Nat /\ DOMAIN q = 1 .. c
      /\ \A n \in DOMAIN q : q[n] \in D
      /\ \A a, b \in DOMAIN q : q[a] = q[b] => a = b
      /\ \A x \in D : \E n \in DOMAIN q : q[n] = x
  BY <1>1, FieldAssumption, InOrderIs
<1> HIDE DEF q, c
<1>4. DOMAIN m = 1 .. c /\ \A i \in 1 .. c : m[i].name = q[i] /\ m[i].type = "group"
  BY <1>2, <1>3
<1>5. /\ \A a, b \in 1 .. c : m[a].name = m[b].name => a = b
      /\ \A i \in 1 .. c : m[i].type = "group" => m[i].name \in D
      /\ \A x \in D : \E i \in 1 .. c : m[i].name = x /\ m[i].type = "group"
  BY <1>3, <1>4
<1>6. Listed(m, "group", D)
  BY <1>3, <1>4, <1>5, MembersAreListed
<1> QED
  BY <1>6 DEF m, D

LEMMA ComponentsCounted ==
    ASSUME NEW k \in Nat PROVE _H5Part_get_num_objects(Components(k), "dataset") = k
<1> DEFINE m == Components(k)
<1>1. DOMAIN m = 1 .. k /\ \A i \in 1 .. k : m[i].type = "dataset"
  BY DEF Components
<1> HIDE DEF m
<1>2. IsFiniteSet(DOMAIN m) /\ DOMAIN m \in SUBSET Int /\ Cardinality(1 .. k) = k
  <2>1. IsFiniteSet(1 .. k) /\ Cardinality(1 .. k) = IF 1 > k THEN 0 ELSE k - 1 + 1
    BY FS_Interval
  <2> QED
    BY <1>1, <2>1
<1>3. Matching(m, "dataset", << >>) = 1 .. k
  BY <1>1 DEF Matching
<1> QED
  BY <1>2, <1>3, CountIs DEF _H5Part_get_num_objects, m

LEMMA StepIsNamed ==
    ASSUME IInv, InStep, ~RenamesInSteps
    PROVE  StepGroup = f.group /\ H5PartHasStep(f.timestep) /\ _H5Part_have_group(StepGroup)
  BY DEF IInv, InStep, Linked, StepGroup, H5PartHasStep, _H5Part_have_group, _H5Part_get_step_name

\* The name of the current step is that of the group that is open, and H5Block reads
\* in the "Block" group of that step (H5Block.c, _open_block_group).
THEOREM QueriesSeeTheGroup == Spec => []QueriesSeeTheStep
<1>1. ASSUME IInv PROVE QueriesSeeTheStep
  <2> SUFFICES ASSUME InStep, ~RenamesInSteps
               PROVE  /\ StepGroup = f.group /\ H5PartHasStep(f.timestep)
                      /\ H5BlockHasFieldData <=> H5BlockGetNumFields > 0
                      /\ f.mode = "read" => LET o == _open_block_group(f)
                                            IN  /\ o.ret = "ok" <=> HasBlock(f.group)
                                                /\ o.ret = "ok" => o.f.b.group = f.group
    BY DEF QueriesSeeTheStep
  <2>1. StepGroup = f.group /\ H5PartHasStep(f.timestep)
    BY <1>1, StepIsNamed
  <2> DEFINE D == DOMAIN disk.steps[f.group].fields
             n == _H5Part_get_num_objects(FieldMembers, "group")
  <2>2. HasBlock(f.group) <=> D # {}
    BY <1>1, GroupIsThere, FunEmpty DEF InStep, StepOK, HasBlock
  <2>3. IsFiniteSet(D) /\ n = Cardinality(D) /\ n \in Nat
    BY <1>1, FieldsAreListed DEF Listed
  <2>4. D # {} <=> n > 0
    <3> HIDE DEF D, n
    <3> QED
      BY <2>3, FS_EmptySet
  <2>5. H5BlockHasFieldData <=> H5BlockGetNumFields > 0
    <3> HIDE DEF D, n
    <3>1. H5BlockHasFieldData <=> HasBlock(f.group)
      BY DEF H5BlockHasFieldData
    <3>2. H5BlockGetNumFields = IF HasBlock(f.group) THEN n ELSE 0
      BY DEF H5BlockGetNumFields, n
    <3>3. CASE HasBlock(f.group)
      BY <2>2, <2>4, <3>1, <3>2, <3>3
    <3>4. CASE ~HasBlock(f.group)
      BY <3>1, <3>2, <3>4, SMTT(30)
    <3> QED
      BY <3>3, <3>4
  <2>6. f.mode = "read" => LET o == _open_block_group(f)
                           IN  /\ o.ret = "ok" <=> HasBlock(f.group)
                               /\ o.ret = "ok" => o.f.b.group = f.group
    BY <1>1, <2>2, BlockOpened, SMTT(30)
  <2> QED
    BY <2>1, <2>5, <2>6
<1> QED
  BY <1>1, InvHolds, PTL

\* The data sets of the step.
LEMMA DatasetsAreTold ==
    ASSUME IInv, InStep, ~RenamesInSteps
    PROVE  LET data == disk.steps[f.group].data
               n == H5PartGetNumDatasets
               told == {[ret |-> "ok", name |-> d, n |-> data[d].n,
                         type |-> _H5Part_normalize_h5_type(data[d].type)] : d \in DOMAIN data}
           IN  /\ n = Cardinality(told)
               /\ {H5PartGetDatasetInfo(idx) : idx \in 0 .. n - 1} = told
               /\ H5PartGetDatasetInfo(n).ret = "error"
               /\ \A idx \in 0 .. n - 1 : H5PartGetDatasetName(idx).name = H5PartGetDatasetInfo(idx).name
<1> DEFINE data == disk.steps[f.group].data
           D == DOMAIN data
           m == StepMembers(f.group)
           n == _H5Part_get_num_objects(m, "dataset")
           object(idx) == _H5Part_get_object_name(m, "dataset", idx)
           told(d) == [ret |-> "ok", name |-> d, n |-> data[d].n,
                       type |-> _H5Part_normalize_h5_type(data[d].type)]
           r == [d \in D |-> told(d)]
           info == [idx \in 0 .. n |-> H5PartGetDatasetInfo(idx)]
<1>1. Listed(m, "dataset", D)
  BY DatasetsAreListed
<1>2. /\ n \in Nat /\ object(n).ret = 0
      /\ \A idx \in 0 .. n - 1 : object(idx).ret = 1 /\ object(idx).name \in D
  BY <1>1 DEF Listed
<1>3. StepGroup = f.group /\ _H5Part_have_group(StepGroup) /\ f.group # None
  BY StepIsNamed DEF InStep
<1>4. H5PartGetNumDatasets = n
  BY <1>3 DEF H5PartGetNumDatasets
<1>5. ASSUME NEW idx
      PROVE  /\ H5PartGetDatasetInfo(idx) =
                  IF object(idx).ret = 0 \/ object(idx).name \notin D THEN [ret |-> "error"]
                  ELSE told(object(idx).name)
             /\ H5PartGetDatasetName(idx).name = object(idx).name
  <2>1. H5PartGetDatasetInfo(idx) =
            IF object(idx).ret = 0 \/ object(idx).name \notin D THEN [ret |-> "error"]
            ELSE told(object(idx).name)
    BY <1>3, Zenon DEF H5PartGetDatasetInfo
  <2>2. H5PartGetDatasetName(idx) = [ret |-> "ok", name |-> object(idx).name]
    BY <1>3, Zenon DEF H5PartGetDatasetName
  <2> QED
    BY <2>1, <2>2
<1> HIDE DEF n, object, m, D
<1>6. IsFun(r) /\ DOMAIN r = D
  BY DEF IsFun
<1>7. \A d \in D : r[d] = told(d) /\ r[d].name = d
  OBVIOUS
<1>8. \A idx \in 0 .. n : info[idx] = H5PartGetDatasetInfo(idx)
  OBVIOUS
<1>9. {told(d) : d \in D} = {r[d] : d \in D}
  BY <1>7
<1>13. \A d \in D : told(d).name = d
  OBVIOUS
<1> HIDE DEF r, info, told
<1>10. \A idx \in 0 .. n : info[idx] = IF object(idx).ret = 0 THEN [ret |-> "error"] ELSE r[object(idx).name]
  <2> SUFFICES ASSUME NEW idx \in 0 .. n
               PROVE  info[idx] = IF object(idx).ret = 0 THEN [ret |-> "error"] ELSE r[object(idx).name]
    OBVIOUS
  <2>1. CASE idx = n
    BY <1>2, <1>5, <1>8, <2>1
  <2>2. CASE idx # n
    <3>1. idx \in 0 .. n - 1
      BY <1>2, <2>2
    <3>2. object(idx).ret = 1 /\ object(idx).name \in D
      BY <1>2, <3>1
    <3>3. H5PartGetDatasetInfo(idx) = told(object(idx).name)
      BY <1>5, <3>2
    <3> QED
      BY <1>7, <1>8, <3>2, <3>3
  <2> QED
    BY <2>1, <2>2
<1>11. /\ n = Cardinality({r[d] : d \in DOMAIN r})
       /\ {info[idx] : idx \in 0 .. n - 1} = {r[d] : d \in DOMAIN r}
       /\ info[n].ret = "error"
  <2>1. \A a, b \in DOMAIN r : r[a] = r[b] => a = b
    BY <1>6, <1>7
  <2>2. Listed(m, "dataset", DOMAIN r)
    BY <1>1, <1>6
  <2>3. Tells(info, m, "dataset", r)
    BY <1>10 DEF n, object, Tells
  <2>4. IsFun(r)
    BY <1>6
  <2>5. LET k == _H5Part_get_num_objects(m, "dataset")
        IN  /\ k = Cardinality({r[d] : d \in DOMAIN r})
            /\ {info[idx] : idx \in 0 .. k - 1} = {r[d] : d \in DOMAIN r}
            /\ info[k].ret = "error"
    BY <2>1, <2>2, <2>3, <2>4, ListIsTold
  <2> QED
    BY <2>5 DEF n
<1>12. /\ \A idx \in 0 .. n - 1 : info[idx] = H5PartGetDatasetInfo(idx)
       /\ info[n] = H5PartGetDatasetInfo(n)
  BY <1>2, <1>8
<1>14. \A idx \in 0 .. n - 1 : H5PartGetDatasetName(idx).name = H5PartGetDatasetInfo(idx).name
  BY <1>2, <1>5, <1>13
<1>15. {H5PartGetDatasetInfo(idx) : idx \in 0 .. n - 1} = {told(d) : d \in D}
  BY <1>6, <1>9, <1>11, <1>12
<1>16. n = Cardinality({told(d) : d \in D})
  BY <1>6, <1>9, <1>11
<1> QED
  BY <1>4, <1>11, <1>12, <1>14, <1>15, <1>16 DEF told, D

\* The fields, in a file that is read.
LEMMA FieldsAreTold ==
    ASSUME IInv, InStep, ~RenamesInSteps, f.mode = "read", NEW buffer
    PROVE  LET fields == disk.steps[f.group].fields
               n == H5BlockGetNumFields
               told == {[ret |-> "ok", name |-> d, rank |-> fields[d].rank,
                         type |-> _H5Part_normalize_h5_type(fields[d].type)] : d \in DOMAIN fields}
           IN  /\ n = Cardinality(told)
               /\ {H5BlockGetFieldInfo(idx, buffer) : idx \in 0 .. n - 1} = told
               /\ H5BlockGetFieldInfo(n, buffer).ret = "ok" <=> buffer \in DOMAIN fields
<1> DEFINE fields == disk.steps[f.group].fields
           D == DOMAIN fields
           m == FieldMembers
           n == _H5Part_get_num_objects(m, "group")
           object(idx) == _H5Part_get_object_name(m, "group", idx)
           told(d) == [ret |-> "ok", name |-> d, rank |-> fields[d].rank,
                       type |-> _H5Part_normalize_h5_type(fields[d].type)]
           r == [d \in D |-> told(d)]
           Info(idx) == H5BlockGetFieldInfo(idx, buffer)
           info == [idx \in 0 .. n |-> IF idx = n THEN [ret |-> "error"] ELSE Info(idx)]
<1>1. Listed(m, "group", D)
  BY FieldsAreListed
<1>2. /\ n \in Nat /\ object(n).ret = 0 /\ n = Cardinality(D) /\ IsFiniteSet(D)
      /\ \A idx \in 0 .. n - 1 : object(idx).ret = 1 /\ object(idx).name \in D
  BY <1>1 DEF Listed
<1>3. f.group \in DOMAIN disk.steps /\ StepOK(disk.steps[f.group])
  BY GroupIsThere DEF InStep
<1>18. HasBlock(f.group) <=> D # {}
  BY <1>3, FunEmpty DEF StepOK, HasBlock
<1>4. H5BlockGetNumFields = n
  <2>2. D = {} => n = 0
    <3> HIDE DEF D, n
    <3> QED
      BY <1>2, FS_EmptySet
  <2> HIDE DEF D
  <2> QED
    BY <1>18, <2>2 DEF H5BlockGetNumFields
<1>5. ASSUME NEW d \in D PROVE _get_field_info(d) = told(d)
  <2> DEFINE b == _open_block_group(f)
             o == _H5Block_open_field_group(f, d)
  <2>1. D # {}
    OBVIOUS
  <2>2. b.ret = "ok" /\ b.f.b.group = f.group
    BY <2>1, BlockOpened
  <2>3. o = IF b.ret = "ok" /\ d \notin DOMAIN FieldsIn(b.f) THEN [b EXCEPT !.ret = "error"] ELSE b
    BY DEF _H5Block_open_field_group
  <2> HIDE DEF b, o
  <2>4. FieldsIn(b.f) = fields
    BY <2>2 DEF FieldsIn
  <2>5. o = b
    BY <2>3, <2>4
  <2>6. FieldOK(fields[d])
    BY <1>3, SMTT(30) DEF StepOK
  <2>7. _H5Part_get_num_objects(Components(fields[d].rank), "dataset") = fields[d].rank
    BY <2>6, ComponentsCounted DEF FieldOK
  <2>8. o.ret # "error" /\ FieldsIn(o.f)[d] = fields[d]
    BY <2>2, <2>4, <2>5
  <2>9. _get_field_info(d) = [ret |-> "ok", name |-> d,
            rank |-> _H5Part_get_num_objects(Components(fields[d].rank), "dataset"),
            type |-> _H5Part_normalize_h5_type(fields[d].type)]
    BY <2>8 DEF _get_field_info, o
  <2> QED
    BY <2>7, <2>9
<1>17. _get_field_info(buffer).ret = "ok" <=> buffer \in D
  <2>1. CASE buffer \in D
    BY <1>5, <2>1
  <2>2. CASE buffer \notin D
    <3> DEFINE o == _H5Block_open_field_group(f, buffer)
               b == _open_block_group(f)
    <3>1. /\ b.ret \in {"ok", "error"}
          /\ b.ret = "ok" => b.f.b.group = f.group
          /\ DOMAIN b = {"ret", "f"}
      BY BlockOpened DEF _open_block_group
    <3>2. o = IF b.ret = "ok" /\ buffer \notin DOMAIN FieldsIn(b.f) THEN [b EXCEPT !.ret = "error"] ELSE b
      BY DEF _H5Block_open_field_group
    <3>3. b.ret = "ok" => buffer \notin DOMAIN FieldsIn(b.f)
      BY <2>2, <3>1 DEF FieldsIn
    <3> HIDE DEF b, o
    <3>4. o.ret = "error"
      BY <3>1, <3>2, <3>3
    <3>5. _get_field_info(buffer) = [ret |-> "error"]
      BY <3>4 DEF _get_field_info, o
    <3> QED
      BY <2>2, <3>5
  <2> QED
    BY <2>1, <2>2
<1> HIDE DEF told
<1>13. ASSUME NEW idx
       PROVE  Info(idx) = IF ~HasBlock(f.group) THEN [ret |-> "error"]
                          ELSE _get_field_info(IF object(idx).ret = 0 THEN buffer ELSE object(idx).name)
  BY DEF H5BlockGetFieldInfo
<1>19. Info(n).ret = "ok" <=> buffer \in D
  BY <1>2, <1>13, <1>17, <1>18
<1> HIDE DEF n, object, m, D, Info
<1>6. IsFun(r) /\ DOMAIN r = D
  BY DEF IsFun
<1>7. \A d \in D : r[d] = told(d)
  OBVIOUS
<1>14. \A d \in D : told(d).name = d
  BY DEF told
<1>8. info[n] = [ret |-> "error"] /\ \A idx \in 0 .. n - 1 : info[idx] = Info(idx)
  BY <1>2
<1>9. {told(d) : d \in D} = {r[d] : d \in D}
  BY <1>7
<1> HIDE DEF r, info
<1>10. \A idx \in 0 .. n : info[idx] = IF object(idx).ret = 0 THEN [ret |-> "error"] ELSE r[object(idx).name]
  <2> SUFFICES ASSUME NEW idx \in 0 .. n
               PROVE  info[idx] = IF object(idx).ret = 0 THEN [ret |-> "error"] ELSE r[object(idx).name]
    OBVIOUS
  <2>1. CASE idx = n
    BY <1>2, <1>8, <2>1
  <2>2. CASE idx # n
    <3>1. idx \in 0 .. n - 1
      BY <1>2, <2>2
    <3>2. object(idx).ret = 1 /\ object(idx).name \in D
      BY <1>2, <3>1
    <3>3. Info(idx) = told(object(idx).name)
      BY <1>5, <1>13, <1>18, <3>2
    <3> QED
      BY <1>7, <1>8, <3>1, <3>2, <3>3
  <2> QED
    BY <2>1, <2>2
<1>11. /\ n = Cardinality({r[d] : d \in DOMAIN r})
       /\ {info[idx] : idx \in 0 .. n - 1} = {r[d] : d \in DOMAIN r}
       /\ info[n].ret = "error"
  <2>1. \A a, b \in DOMAIN r : r[a] = r[b] => a = b
    BY <1>6, <1>7, <1>14
  <2>2. Listed(m, "group", DOMAIN r)
    BY <1>1, <1>6
  <2>3. Tells(info, m, "group", r)
    BY <1>10 DEF n, object, Tells
  <2>4. IsFun(r)
    BY <1>6
  <2>5. LET k == _H5Part_get_num_objects(m, "group")
        IN  /\ k = Cardinality({r[d] : d \in DOMAIN r})
            /\ {info[idx] : idx \in 0 .. k - 1} = {r[d] : d \in DOMAIN r}
            /\ info[k].ret = "error"
    BY <2>1, <2>2, <2>3, <2>4, ListIsTold
  <2> QED
    BY <2>5 DEF n
<1>15. {Info(idx) : idx \in 0 .. n - 1} = {told(d) : d \in D}
  <2>1. {Info(idx) : idx \in 0 .. n - 1} = {info[idx] : idx \in 0 .. n - 1}
    BY <1>8
  <2>2. {told(d) : d \in D} = {r[d] : d \in DOMAIN r}
    BY <1>6, <1>9
  <2> QED
    BY <1>11, <2>1, <2>2
<1>16. n = Cardinality({told(d) : d \in D})
  BY <1>6, <1>9, <1>11
<1> QED
  BY <1>4, <1>15, <1>16, <1>19 DEF told, D, Info

\* No name for steps begins like another.
NamesApart == \A a, b \in StepNames : (a = << >> \/ IsPrefix(a, b)) => a = b

\* The steps of the handle's name are counted.
LEMMA StepsAreCounted ==
    ASSUME IInv, NamesApart
    PROVE  H5PartGetNumSteps = Cardinality({key \in DOMAIN disk.steps : key[1] = f.name})
<1> DEFINE S == DOMAIN disk.steps
           c == Cardinality(S)
           q == SetToSeq(S)
           m == RootMembers
           N == {key \in S : key[1] = f.name}
           T == {i \in 1 .. c : q[i][1] = f.name}
<1>1. IsFiniteSet(S) /\ f.name \in StepNames /\ \A key \in S : key[1] \in StepNames
  BY DEF IInv, DiskOK, HandleOK
<1>2. m = [i \in DOMAIN q |-> [name |-> q[i][1], type |-> "group"]]
  BY DEF RootMembers
<1> HIDE DEF S, m
<1>3. c \in Nat /\ ExistsBijection(1 .. c, S)
  BY <1>1, FS_CardinalityType
<1>4. q \in [1 .. c -> S] /\ IsInjective(q)
  <2>1. \E g \in [1 .. c -> S] : IsInjective(g)
    BY <1>3 DEF ExistsBijection, Bijection, Injection
  <2> QED
    BY <2>1 DEF SetToSeq
<1>5. IsFiniteSet(1 .. c) /\ Cardinality(1 .. c) = c
  <2>1. IsFiniteSet(1 .. c) /\ Cardinality(1 .. c) = IF 1 > c THEN 0 ELSE c - 1 + 1
    BY <1>3, FS_Interval
  <2> QED
    BY <1>3, <2>1
<1> HIDE DEF q
<1>6. \A key \in S : \E i \in 1 .. c : q[i] = key
  <2> DEFINE I == 1 .. c
  <2>1. q \in Injection(I, S)
    BY <1>4 DEF Injection
  <2> HIDE DEF I
  <2>2. IsFiniteSet(I) /\ Cardinality(I) = Cardinality(S)
    BY <1>5 DEF I
  <2>3. q \in Surjection(I, S)
    BY <1>1, <2>1, <2>2, FS_Injection
  <2> QED
    BY <2>3 DEF Surjection, I
<1>7. \A a, b \in 1 .. c : q[a] = q[b] => a = b
  BY <1>4 DEF IsInjective
<1>8. Cardinality(N) = Cardinality(T)
  <2> DEFINE g == [i \in T |-> q[i]]
  <2>1. g \in [T -> N] /\ \A x \in N : \E i \in T : g[i] = x
    BY <1>4, <1>6
  <2>2. g \in Bijection(T, N)
    BY <1>7, <2>1 DEF Bijection, Injection, Surjection, IsInjective
  <2>3. IsFiniteSet(T)
    BY <1>5, FS_Subset
  <2> HIDE DEF g, T, N
  <2> QED
    BY <2>2, <2>3, FS_Bijection DEF ExistsBijection
<1>9. DOMAIN m = 1 .. c /\ \A i \in 1 .. c : m[i].name = q[i][1]
  BY <1>2, <1>4
<1>10. Matching(m, "unknown", f.name) = T
  <2>1. IsPrefix(f.name, f.name)
    <3>1. f.name \in Seq(ToSet(f.name))
      BY <1>1, FileAssumption
    <3>2. Len(f.name) \in Nat
      BY <3>1
    <3> QED
      BY <3>2 DEF IsPrefix
  <2>2. \A i \in 1 .. c : q[i][1] \in StepNames
    BY <1>1, <1>4
  <2>3. \A b \in StepNames : (f.name = << >> \/ IsPrefix(f.name, b)) <=> b = f.name
    BY <1>1, <2>1 DEF NamesApart
  <2> QED
    BY <1>9, <2>2, <2>3 DEF Matching
<1>11. H5PartGetNumSteps = Cardinality(Matching(m, "unknown", f.name))
  <2>1. IsFiniteSet(DOMAIN m) /\ DOMAIN m \in SUBSET Int
    BY <1>3, <1>5, <1>9
  <2> QED
    BY <2>1, CountIs DEF H5PartGetNumSteps, m
<1> QED
  BY <1>8, <1>10, <1>11 DEF S

\* When no name for steps begins like another, everything in the open step of a file
\* is enumerated once, with its type and size, by the indices below the number a caller
\* is told, and the steps that have the handle's name are counted (H5Part.c,
\* H5PartAttrib.c, H5Block.c).  Of two names of which one begins like the other the
\* shorter counts the steps of both.  By that number itself H5BlockGetFieldInfo tells of
\* the field whose name the caller's buffer holds, if there is one; the other calls fail.
THEOREM EverythingIsEnumerated == ASSUME NamesApart PROVE Spec => []EnumerationIsComplete
<1>1. ASSUME IInv PROVE EnumerationIsComplete
  <2> DEFINE step == disk.steps[f.group]
  <2> SUFFICES ASSUME InStep, ~RenamesInSteps
        PROVE
            /\ Enumerates(H5PartGetNumDatasets, H5PartGetDatasetInfo,
                   {[ret |-> "ok", name |-> d, n |-> step.data[d].n,
                     type |-> _H5Part_normalize_h5_type(step.data[d].type)] : d \in DOMAIN step.data})
            /\ \A idx \in 0 .. H5PartGetNumDatasets - 1 :
                   H5PartGetDatasetName(idx).name = H5PartGetDatasetInfo(idx).name
            /\ Enumerates(H5PartGetNumStepAttribs, H5PartGetStepAttribInfo, Infos(step.attrs))
            /\ Enumerates(H5PartGetNumFileAttribs, FileAttribInfo, Infos(disk.attrs))
            /\ \A idx \in 0 .. H5PartGetNumStepAttribs - 1 :
                   H5PartReadStepAttrib(H5PartGetStepAttribInfo(idx).name) = "ok"
            /\ f.mode = "read" =>
                   \A buffer \in ToSet(FieldNames) :
                       LET Info(idx) == H5BlockGetFieldInfo(idx, buffer)
                       IN  /\ EachOnce(H5BlockGetNumFields, Info,
                                 {[ret |-> "ok", name |-> n, rank |-> step.fields[n].rank,
                                   type |-> _H5Part_normalize_h5_type(step.fields[n].type)] :
                                     n \in DOMAIN step.fields})
                           /\ Info(H5BlockGetNumFields).ret = "ok" <=> buffer \in DOMAIN step.fields
            /\ H5PartGetNumSteps = Cardinality({key \in DOMAIN disk.steps : key[1] = f.name})
    BY Zenon DEF EnumerationIsComplete
  <2>1. /\ Enumerates(H5PartGetNumDatasets, H5PartGetDatasetInfo,
                   {[ret |-> "ok", name |-> d, n |-> step.data[d].n,
                     type |-> _H5Part_normalize_h5_type(step.data[d].type)] : d \in DOMAIN step.data})
        /\ \A idx \in 0 .. H5PartGetNumDatasets - 1 :
               H5PartGetDatasetName(idx).name = H5PartGetDatasetInfo(idx).name
    BY <1>1, DatasetsAreTold, Zenon DEF Enumerates, EachOnce
  <2>2. f.group # None /\ AttrsOK(step.attrs) /\ AttrsOK(disk.attrs)
    BY <1>1, GroupIsThere DEF InStep, StepOK, IInv, DiskOK
  <2>3. /\ Enumerates(H5PartGetNumStepAttribs, H5PartGetStepAttribInfo, Infos(step.attrs))
        /\ \A idx \in 0 .. H5PartGetNumStepAttribs - 1 :
               H5PartReadStepAttrib(H5PartGetStepAttribInfo(idx).name) = "ok"
    <3>1. H5PartGetNumStepAttribs = Cardinality(DOMAIN step.attrs)
      BY <2>2 DEF H5PartGetNumStepAttribs
    <3>2. \A idx : H5PartGetStepAttribInfo(idx) = _H5Part_get_attrib_info(step.attrs, idx)
      BY <2>2 DEF H5PartGetStepAttribInfo
    <3>3. \A name : H5PartReadStepAttrib(name) = _H5Part_read_attrib(step.attrs, name)
      BY <2>2 DEF H5PartReadStepAttrib
    <3> DEFINE attrs == step.attrs
    <3> HIDE DEF attrs
    <3>4. LET n == Cardinality(DOMAIN attrs)
              info(idx) == _H5Part_get_attrib_info(attrs, idx)
          IN  /\ n = Cardinality(Infos(attrs))
              /\ {info(idx) : idx \in 0 .. n - 1} = Infos(attrs)
              /\ info(n).ret = "error"
              /\ \A idx \in 0 .. n - 1 : _H5Part_read_attrib(attrs, info(idx).name) = "ok"
      BY <2>2, AttribsAreTold DEF attrs
    <3>5. {H5PartGetStepAttribInfo(idx) : idx \in 0 .. H5PartGetNumStepAttribs - 1}
          = {_H5Part_get_attrib_info(attrs, idx) : idx \in 0 .. Cardinality(DOMAIN attrs) - 1}
      BY <3>1, <3>2 DEF attrs
    <3> QED
      BY <3>1, <3>2, <3>3, <3>4, <3>5 DEF Enumerates, EachOnce, attrs
  <2>4. Enumerates(H5PartGetNumFileAttribs, FileAttribInfo, Infos(disk.attrs))
    <3>1. LET n == Cardinality(DOMAIN disk.attrs)
              info(idx) == _H5Part_get_attrib_info(disk.attrs, idx)
          IN  /\ n = Cardinality(Infos(disk.attrs))
              /\ {info(idx) : idx \in 0 .. n - 1} = Infos(disk.attrs)
              /\ info(n).ret = "error"
      BY <2>2, AttribsAreTold
    <3> QED
      BY <3>1 DEF Enumerates, EachOnce, H5PartGetNumFileAttribs, FileAttribInfo
  <2>5. f.mode = "read" =>
               \A buffer \in ToSet(FieldNames) :
                   LET Info(idx) == H5BlockGetFieldInfo(idx, buffer)
                   IN  /\ EachOnce(H5BlockGetNumFields, Info,
                             {[ret |-> "ok", name |-> n, rank |-> step.fields[n].rank,
                               type |-> _H5Part_normalize_h5_type(step.fields[n].type)] :
                                 n \in DOMAIN step.fields})
                       /\ Info(H5BlockGetNumFields).ret = "ok" <=> buffer \in DOMAIN step.fields
    BY <1>1, FieldsAreTold, Zenon DEF EachOnce
  <2>6. H5PartGetNumSteps = Cardinality({key \in DOMAIN disk.steps : key[1] = f.name})
    BY <1>1, StepsAreCounted
  <2> HIDE DEF step
  <2> QED
    BY <2>1, <2>3, <2>4, <2>5, <2>6
<1> QED
  BY <1>1, InvHolds, PTL
=============================================================================
