---------------------------- MODULE MCS3Upload ----------------------------
\* Instances of S3Upload: multi-part and byte-range tests of two or three tasks.
EXTENDS S3Upload

Base == [api |-> "S3", numTasks |-> 2, filePerProc |-> FALSE, segmentCount |-> 1,
         xfersPerBlock |-> 2, intraTestBarriers |-> FALSE, rankOffset |-> 1,
         deadlineForStonewalling |-> FALSE, repetitions |-> 2]

Shapes == [xfersPerBlock : {2}, segmentCount : {1}] \cup [xfersPerBlock : {1}, segmentCount : {2}]

Shaped(p) ==
    {[p EXCEPT !.xfersPerBlock = s.xfersPerBlock, !.segmentCount = s.segmentCount,
               !.deadlineForStonewalling = d] : s \in Shapes, d \in BOOLEAN}

\* A shared upload, which only ends when the whole world takes part.
Shared == Shaped([Base EXCEPT !.numTasks = 3, !.intraTestBarriers = TRUE])
          \cup {[Base EXCEPT !.numTasks = 3, !.repetitions = 1]}
\* An upload for each of two tasks, a transfer being a block: aiori-S3.c:56-59 leaves
\* the rest to the EMC extensions.
PerTask == [Base EXCEPT !.filePerProc = TRUE]
OwnUploads == {[PerTask EXCEPT !.xfersPerBlock = 1, !.segmentCount = n,
                               !.deadlineForStonewalling = d] : n \in 1 .. 2, d \in BOOLEAN}
\* Byte ranges; with a shared object -g keeps the resets before the first put.
Ranges == Shaped([PerTask EXCEPT !.api = "S3_EMC"])
          \cup Shaped([Base EXCEPT !.api = "S3_EMC", !.intraTestBarriers = TRUE])

AllTests == Shared \cup OwnUploads \cup Ranges
\* The rest of the job's tasks take no part in a test.
SmallerTest == {Base}
\* The default: no barrier between create and the first transfer.
NoBarriers == {[Base EXCEPT !.api = "S3_EMC"]}
\* An object per task, of blocks of two transfers.
Appends == {PerTask}
===========================================================================
