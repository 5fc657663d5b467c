---------------------------- MODULE MCIorBackends ----------------------------
(* Two tasks, and three when tasks read each other's data, of a world of     *)
(* three; one transfer per block or two, one segment or two.                 *)
EXTENDS IorBackends

All == <<"write", "writecheck", "read", "readcheck">>
Common ==
    [api |-> "MPIIO", numTasks |-> 2, filePerProc |-> FALSE, xfersPerBlock |-> 1,
     segmentCount |-> 2, nodeShift |-> 0, phases |-> All, repetitions |-> 2,
     useFileView |-> FALSE, collective |-> FALSE, keep |-> FALSE, shortCalls |-> FALSE]
Blocks(p) == {p, [p EXCEPT !.xfersPerBlock = 2, !.segmentCount = IF p.filePerProc THEN 2 ELSE 1]}

\* Every phase, twice over, with and without a file per task, removal and -c.
PlainTests ==
    UNION {Blocks([Common EXCEPT !.api = a, !.filePerProc = f /\ a # "NCMPI",
                                 !.useFileView = v /\ a = "MPIIO", !.keep = v,
                                 !.collective = v])
           : a \in {"MPIIO", "HDF5", "NCMPI"}, f, v \in BOOLEAN}

\* -C: three tasks on three nodes.  What a backend cannot do is left out: see
\* the README on reordered reads.
ReorderTests ==
    {[Common EXCEPT !.api = a, !.numTasks = 3, !.nodeShift = 1, !.filePerProc = f,
                    !.useFileView = f /\ a = "MPIIO", !.repetitions = 1,
                    !.segmentCount = IF f THEN 2 ELSE 1,
                    !.phases = IF f /\ a = "HDF5" THEN <<"write", "writecheck", "read">> ELSE All]
        : a \in {"MPIIO", "HDF5"}, f \in BOOLEAN}
    \cup
    {[Common EXCEPT !.numTasks = 3, !.nodeShift = 1, !.useFileView = TRUE,
                    !.phases = <<"write", "read", "writecheck">>, !.repetitions = 1]}

\* PLFS and HDFS open for writing or for reading, not for both.
OneWayTests ==
    UNION {Blocks([Common EXCEPT !.api = a, !.phases = p, !.keep = TRUE,
                                 !.filePerProc = f \/ a = "HDFS",
                                 !.shortCalls = a = "HDFS" \/ p = <<"write">>])
           : a \in {"PLFS", "HDFS"}, p \in {<<"write">>, <<"read", "readcheck">>},
             f \in BOOLEAN}
    \cup {[Common EXCEPT !.api = "PLFS", !.phases = <<"write">>, !.shortCalls = TRUE]}

SoundTests == PlainTests \cup ReorderTests \cup OneWayTests

=============================================================================
