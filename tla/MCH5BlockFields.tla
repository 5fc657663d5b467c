-------------------------- MODULE MCH5BlockFields ---------------------------
\* Instances of H5BlockFields: regular grids of partitions with halos.
EXTENDS H5BlockFields

C(op, arg) == [op |-> op, arg |-> arg]

\* A range of block b of the blocks between the cuts, widened by the halo.
BlockRange(cuts, b, halo) ==
    <<Max({0, cuts[b] - halo}), Min({cuts[Len(cuts)] - 1, cuts[b + 1] - 1 + halo})>>

\* The grid of the blocks between the cuts in each dimension, numbered along the
\* first dimension first, or along the second.
GridOf(cuts, halo, order) ==
    LET n(d) == Len(cuts[d]) - 1
        place(r) == IF order = 1 THEN <<r % n(1), (r \div n(1)) % n(2), r \div (n(1) * n(2))>>
                    ELSE <<(r \div n(2)) % n(1), r % n(2), r \div (n(1) * n(2))>>
    IN  [r \in Procs |-> [d \in Dims |-> BlockRange(cuts[d], place(r)[d] + 1, halo)]]

\* Ends in the wrong order.
Turned(layout) == [r \in Procs |-> [d \in Dims |-> <<layout[r][d][2], layout[r][d][1]>>]]

Square == <<<<0, 2, 5>>, <<0, 3, 5>>, <<0, 2>>>>
Row == <<<<0, 2, 4, 5, 7>>, <<0, 2>>, <<0, 2>>>>
Upright == <<<<0, 2>>, <<0, 3, 5>>, <<0, 2, 5>>>>

\* Written by one grid and read by another of the same field.
RoundTrip(cuts, halo, order, other) ==
    <<C("step", 0), C("define", Turned(GridOf(cuts, halo, order))), C("write", "A"),
      C("reopen", 0), C("step", 0), C("define", GridOf(cuts, other, 1)), C("read", "A")>>

\* One layout after the other in the same file, the fields of both read by a third.
Redefined(cuts, halo) ==
    <<C("step", 0), C("define", GridOf(cuts, halo, 1)), C("write", "A"),
      C("define", GridOf(cuts, 1 - halo, 2)), C("write", "B"), C("reopen", 0),
      C("step", 0), C("define", GridOf(cuts, 1, 1)), C("read", "A"), C("read", "B")>>

\* Calls made too early, twice, or for what is not there, and layouts that are longer
\* than the field by two places or by one: some partitions lie inside it, others do not.
Small == <<<<0, 1, 2>>, <<0, 1, 2>>, <<0, 1>>>>
Longer == <<<<0, 2, 4>>, <<0, 1, 2>>, <<0, 1>>>>
OneLonger == <<<<0, 2, 3>>, <<0, 1, 2>>, <<0, 1>>>>
Refused ==
    <<C("write", "A"), C("define", GridOf(Small, 0, 1)), C("write", "A"), C("step", 0),
      C("write", "A"), C("write", "A"), C("reopen", 0), C("step", 0), C("read", "A"),
      C("define", GridOf(Longer, 0, 1)), C("read", "A"),
      C("define", GridOf(OneLonger, 0, 1)), C("read", "A"), C("read", "B")>>

\* A field of the same name in two steps, read in one, in the other and in the first.
TwoSteps ==
    <<C("step", 0), C("define", GridOf(Small, 0, 1)), C("write", "A"), C("step", 1),
      C("write", "A"), C("reopen", 0), C("step", 0), C("define", GridOf(Small, 0, 2)),
      C("read", "A"), C("step", 1), C("read", "A"), C("step", 0), C("read", "A")>>

\* A field is read before the next is written by the same layout.
ReadBetween(cuts) ==
    <<C("step", 0), C("define", GridOf(cuts, 1, 1)), C("write", "A"), C("read", "A"),
      C("write", "B"), C("reopen", 0), C("step", 0), C("define", GridOf(cuts, 0, 1)), C("read", "B")>>

Programs4 ==
    {RoundTrip(cuts, halo, order, 1) :
        cuts \in {Square, Upright}, halo \in 0 .. 1, order \in {1, 2}}
    \cup {RoundTrip(Row, halo, 1, halo) : halo \in 0 .. 1}
    \cup {Redefined(Square, 1), Redefined(Row, 0), Refused, TwoSteps, ReadBetween(Row)}

\* Back to a step after a field was written in another.
Beam == GridOf(<<<<0, 2, 4>>, <<0, 2>>, <<0, 2>>>>, 1, 1)
BackToStep == {<<C("step", 0), C("define", Beam), C("write", "A"), C("write", "B"),
                 C("step", 1), C("write", "A"), C("step", 0), C("write", "C")>>}
=============================================================================
