------------------------------ MODULE MCBdCats ------------------------------
\* Instances of BdCats: files of six particles, read by one process to three.
EXTENDS BdCats

Job(size, mode, percent, sets, back) ==
    [mpi_size |-> size, mode |-> mode, percent |-> percent, sets |-> sets, stack |-> "data", back |-> back]
D(name) == [name |-> name, class |-> FALSE]
C(name) == [name |-> name, class |-> TRUE]
Op(op) == [op |-> op]
Col(i) == [op |-> "column", column |-> i]

\* The IDs, a column and the class written to a file, part of it after it was opened again.
Back1 == <<Op("init"), Op("ids"), Col(1), Op("close")>>
Back2 == <<Op("init"), Op("ids"), Op("close"), Op("append"), Col(1), Op("class"), Op("close")>>

\* Samples of half a slice and of most of it; slices that do not divide the file.
Samples == {Job(2, "random", 70, <<D("x"), C("id1")>>, Back2), Job(2, "random", 34, <<D("pz")>>, << >>),
            Job(3, "random", 100, <<D("x")>>, Back1), Job(1, "random", 50, <<D("x"), D("y")>>, Back1)}
Slices == {Job(2, "top", 50, <<D("x"), C("id1")>>, Back2), Job(3, "top", 100, <<D("x")>>, Back1),
           Job(4, "top", 100, <<D("y")>>, << >>), Job(4, "top", 70, <<D("y")>>, Back1)}

\* No data sets named; a class that is not the last; a data set that is not there.
Odd == {[Job(2, "random", 40, << >>, << >>) EXCEPT !.stack = s] : s \in {"data", "class", "other"}}
       \cup {Job(2, "random", 50, <<C("id1"), D("x")>>, << >>), Job(2, "top", 50, <<D("w")>>, << >>)}

SomeJobs == Samples \cup Slices \cup Odd
=============================================================================
