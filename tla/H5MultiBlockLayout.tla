-------------------------- MODULE H5MultiBlockLayout ------------------------
(***************************************************************************)
(* The arithmetic of H5MultiBlock (h5part/src/H5MultiBlock.c): how a field *)
(* of equal blocks is dealt out to processors, how a block is laid out in  *)
(* memory with its halo, and which parts of it are exchanged.              *)
(* Dimensions are in the order of the C code: z, y, x.  Sizes are counted  *)
(* in elements.                                                            *)
(***************************************************************************)
EXTENDS H5BlockLayout

\* The interface has the dimensions in Fortran order.
Inverted(v) == <<v[3], v[2], v[1]>>

Product(v) == v[1] * v[2] * v[3]

-----------------------------------------------------------------------------
(* Blocks and processors                                                    *)

Decomp(field, block) == [d \in Dims |-> field[d] \div block[d]]

\* Where in the decomposition the block with this number is.
Place(decomp, rank) ==
    <<rank \div (decomp[3] * decomp[2]), (rank \div decomp[3]) % decomp[2], rank % decomp[3]>>

\* The edges of the field a block borders: <<dimension, 0 or 1 for low or high>>.
Edges(decomp, place) ==
    {<<d, 0>> : d \in {e \in Dims : place[e] = 0}}
    \cup {<<d, 1>> : d \in {e \in Dims : place[e] = decomp[e] - 1}}

Offsets(block, place) == [d \in Dims |-> place[d] * block[d]]

Power(r, n) == IF n = 2 THEN r * r ELSE r * r * r
Divisors(m) == {i \in 1 .. m : m % i = 0}

\* The least divisor of m not below its n-th root.
_nth_root_int_divisor(m, n) ==
    CHOOSE i \in Divisors(m) :
        Power(i, n) >= m /\ \A j \in Divisors(m) : Power(j, n) >= m => i <= j

H5MultiBlock3dCalculateDecomp(n) ==
    LET x == _nth_root_int_divisor(n, 3)
        y == _nth_root_int_divisor(n \div x, 2)
    IN  <<x, y, (n \div x) \div y>>

-----------------------------------------------------------------------------
(* A block in memory                                                        *)

\* The index in a box of these dimensions, rows of the last dimension first.
Index(dims, c) == (c[1] * dims[2] + c[2]) * dims[3] + c[3]

HaloDims(block, radii) == [d \in Dims |-> block[d] + 2 * radii[d]]

\* Where row j of slab k begins before and after padding.
RowSrc(block, k, j) == Index(block, <<k, j, 0>>)
RowDst(block, radii, k, j) ==
    Index(HaloDims(block, radii), <<k + radii[1], j + radii[2], radii[3]>>)

\* memcpy is told to copy a row onto part of itself.
RowsOverlap(block, radii) ==
    \E k \in 0 .. block[1] - 1, j \in 0 .. block[2] - 1 :
        LET shift == RowDst(block, radii, k, j) - RowSrc(block, k, j)
        IN  0 < shift /\ shift < block[3]

-----------------------------------------------------------------------------
(* Halo exchange along one dimension                                        *)

\* The product of the dimensions before and after d.
Before(dims, d) == CASE d = 1 -> 1 [] d = 2 -> dims[1] [] d = 3 -> dims[1] * dims[2]
After(dims, d) == CASE d = 1 -> dims[2] * dims[3] [] d = 2 -> dims[3] [] d = 3 -> 1

\* The strided vector that MPI is given: count blocks of blocklen, one per stride.
Vector(halo, radii, d) ==
    [count |-> Before(halo, d), blocklen |-> radii[d] * After(halo, d),
     stride |-> halo[d] * After(halo, d)]

\* How far apart the ranks of neighbouring blocks are.
ProcSpacing(decomp, d) == After(decomp, d)

OwnHalo(v, dir) == IF dir = 1 THEN v.stride - v.blocklen ELSE 0   \* slip: the halo itself

\* What is sent to the next block: the last layers of the block, or the first.
SendOffset(v, dir) == IF dir = 1 THEN v.stride - 2 * v.blocklen ELSE v.blocklen
RecvOffset(v, dir) == IF dir = 1 THEN 0 ELSE v.stride - v.blocklen

\* The positions in the buffer of the vector at an offset.
Positions(v, offset) ==
    {offset + b * v.stride + i : b \in 0 .. v.count - 1, i \in 0 .. v.blocklen - 1}
=============================================================================
