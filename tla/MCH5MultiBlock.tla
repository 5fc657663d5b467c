--------------------------- MODULE MCH5MultiBlock ---------------------------
\* Instances of H5MultiBlock: four blocks along one dimension or two.
EXTENDS H5MultiBlock

\* Dimensions and radii in the order of the interface: x, y, z.
Dims_(field, block) == [op |-> "dims", field |-> field, block |-> block]
Radii(radii) == [op |-> "radii", radii |-> radii]
Shift(n) == [op |-> "shift", shift |-> n]
C(op, name) == [op |-> op, name |-> name]
Reopen == [op |-> "reopen"]

\* Written by one decomposition, read with halos after the file was opened again.
RoundTrip(field, block, radii) ==
    <<Dims_(field, block), C("write", "A"), Reopen, Radii(radii), C("read", "A")>>

\* Square decompositions in each pair of dimensions, and rows along each dimension.
Squares == {RoundTrip(<<1, 2, 4>>, <<1, 1, 2>>, <<0, 1, 1>>),
            RoundTrip(<<4, 2, 1>>, <<2, 1, 1>>, <<2, 1, 0>>),
            RoundTrip(<<2, 1, 2>>, <<1, 1, 1>>, <<1, 1, 1>>)}
Rows == {RoundTrip(<<1, 1, 8>>, <<1, 1, 2>>, <<0, 0, 2>>),
         RoundTrip(<<2, 4, 1>>, <<2, 1, 1>>, <<0, 1, 0>>),
         RoundTrip(<<8, 1, 1>>, <<2, 1, 1>>, <<2, 0, 0>>)}

\* Other ranks read than wrote; other blocks, without halos; other radii.
Dealt ==
    {<<Shift(w), Dims_(<<2, 2, 1>>, <<1, 1, 1>>), C("write", "A"), Reopen, Shift(3), C("read", "A")>> :
        w \in {0, 1}}
    \cup {<<Dims_(<<2, 2, 1>>, <<1, 1, 1>>), C("write", "A"), Dims_(<<1, 1, 4>>, <<1, 1, 1>>),
            C("write", "B"), Reopen, C("read", "A"), C("read", "B")>>}
    \cup {<<Dims_(<<1, 4, 2>>, <<1, 2, 1>>), C("write", "A"), Radii(<<0, 1, 1>>), C("read", "A"),
            Radii(<<0, 2, 1>>), C("read", "A")>>}

\* Calls made too early, twice, or for what is not there; blocks that are not as many
\* as the processors.
Refused ==
    {<<C("write", "A"), Dims_(<<2, 2, 2>>, <<1, 1, 1>>), C("write", "A"), Shift(-1),
       Dims_(<<2, 2, 1>>, <<1, 1, 1>>), C("write", "A"), C("write", "A"), C("read", "B"),
       Reopen, C("write", "B"), C("read", "B")>>}

\* A field that its blocks do not divide.
Fringe == {<<Dims_(<<5, 2, 1>>, <<2, 1, 1>>), C("write", "A"), Reopen, C("read", "A")>>}

Programs4 == Squares \cup Rows \cup Dealt \cup Refused \cup Fringe

\* Two fields with different blocks, both read with halos.
TwoFields ==
    {<<Dims_(<<1, 1, 4>>, <<1, 1, 1>>), C("write", "A"), Dims_(<<1, 2, 2>>, <<1, 1, 1>>),
       C("write", "B"), Reopen, Radii(<<0, 1, 1>>), C("read", "A"), C("read", "B")>>}
=============================================================================
