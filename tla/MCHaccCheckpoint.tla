--------------------------- MODULE MCHaccCheckpoint ---------------------------
(* Jobs of one to three ranks that share a path.                             *)
EXTENDS HaccCheckpoint

\* a float, the id and the mask
MCRecord == <<2, 4, 1>>

J(kind, ranks, particles, perRank) ==
    [kind |-> kind, ranks |-> ranks, particles |-> particles, perRank |-> perRank]

\* One job writes, a job of any shape reads; then the same the other way round
\* in the file distribution.
ShapePlans ==
    {<<w, r>> : w \in {J("write", 2, 1, f) : f \in BOOLEAN} \cup {J("write", 1, 2, FALSE)},
                r \in {J("read", p, n, f) : p \in 1 .. 2, n \in 1 .. 2, f \in BOOLEAN}
                     \cup {J("read", 3, 1, FALSE)}}
\* testhacc_io as it is built without options.
BothPlans == {<<J("both", 2, 2, FALSE)>>, <<J("both", 2, 1, TRUE)>>, <<J("both", 3, 1, FALSE)>>}
\* A checkpoint, its overwriting by a job of the same or of another shape, a restart.
AgainPlans ==
    {<<J("write", 2, 1, FALSE), J("write", n, 3 - n, FALSE), J("read", 2, 1, FALSE)>> : n \in 1 .. 2}

MCPlans == ShapePlans \cup BothPlans \cup AgainPlans

=============================================================================
