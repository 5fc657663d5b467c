------------------------------ MODULE MCIorTest ------------------------------
(* Small IOR tests: each set holds the parameter combinations one run is    *)
(* about.  One transfer is one unit of file offset.                         *)
EXTENDS IorTest

Common ==
    [numTasks |-> 2, tasksPerNode |-> 1, nodes |-> 2, taskPerNodeOffset |-> 1,
     filePerProc |-> FALSE, multiFile |-> FALSE, segmentCount |-> 1,
     xfersPerBlock |-> 1, writeFile |-> TRUE, checkWrite |-> FALSE,
     readFile |-> TRUE, checkRead |-> FALSE, reorderTasks |-> FALSE,
     reorderTasksRandom |-> FALSE, storeFileOffset |-> FALSE, repetitions |-> 1,
     useExistingTestFile |-> FALSE, keepFile |-> FALSE,
     keepFileWithError |-> FALSE, intraTestBarriers |-> FALSE,
     quitOnError |-> FALSE, lustre_set_striping |-> FALSE,
     setTimeStampSignature |-> 0, deadlineForStonewalling |-> FALSE,
     maxTimeDuration |-> FALSE, hitsHistogram |-> FALSE, leftover |-> FALSE,
     randomOffset |-> FALSE, seeds |-> {}, before |-> 0,
     faultyStorage |-> FALSE]

\* Write-only and read-only stonewalling.
StonewallTests ==
    {[Common EXCEPT !.filePerProc = f, !.segmentCount = 2,
                    !.deadlineForStonewalling = TRUE, !.writeFile = w,
                    !.readFile = ~w, !.keepFile = TRUE, !.intraTestBarriers = f]
        : f, w \in BOOLEAN}

\* Two members in a world of three: every phase, both file layouts, strided
\* and segmented blocks, leftovers, repetitions and kept files.
PlainTests ==
    StonewallTests
    \cup
    {[Common EXCEPT !.filePerProc = f, !.xfersPerBlock = IF lay = "blocks" THEN 2 ELSE 1,
                    !.segmentCount = IF lay = "segments" THEN 2 ELSE 1,
                    !.checkWrite = c, !.checkRead = c, !.repetitions = 2,
                    !.multiFile = m, !.leftover = o, !.storeFileOffset = o]
        : f, c, m, o \in BOOLEAN, lay \in {"blocks", "segments"}}
    \cup
    {[Common EXCEPT !.filePerProc = f, !.xfersPerBlock = 2, !.checkWrite = TRUE,
                    !.intraTestBarriers = TRUE, !.keepFile = k, !.repetitions = 2,
                    !.useExistingTestFile = k, !.lustre_set_striping = ~k,
                    !.readFile = f, !.setTimeStampSignature = 9]
        : f, k \in BOOLEAN}
    \cup
    {[Common EXCEPT !.filePerProc = f, !.writeFile = FALSE, !.readFile = c,
                    !.checkRead = ~c, !.keepFile = c]
        : f, c \in BOOLEAN}
    \cup \* a single task cannot disagree with itself about the time
    {[Common EXCEPT !.numTasks = 1, !.maxTimeDuration = TRUE, !.checkWrite = TRUE,
                    !.checkRead = TRUE]}

\* Three tasks on three nodes: every task reads back other tasks' data.  One
\* test asks for more tasks than the world has.
ReorderTests ==
    {[Common EXCEPT !.numTasks = IF s THEN 3 ELSE 4, !.nodes = 3,
                    !.reorderTasks = TRUE, !.filePerProc = f, !.segmentCount = 2,
                    !.checkRead = TRUE, !.checkWrite = s, !.storeFileOffset = s,
                    !.taskPerNodeOffset = d]
        : f, s \in BOOLEAN, d \in {1, 3}}
    \cup
    {[Common EXCEPT !.numTasks = 3, !.nodes = 3, !.reorderTasksRandom = TRUE,
                    !.filePerProc = f, !.checkRead = c, !.taskPerNodeOffset = d,
                    !.hitsHistogram = TRUE]
        : f, c \in BOOLEAN, d \in {1, 3}}
    \cup \* a second repetition writes after other tasks' data has been read
    {[Common EXCEPT !.numTasks = 3, !.nodes = 3, !.reorderTasks = TRUE, !.filePerProc = f,
                    !.storeFileOffset = TRUE, !.repetitions = 2]
        : f \in BOOLEAN}

\* Storage that spoils one transfer at any time.
FaultyTests ==
    {[Common EXCEPT !.filePerProc = f, !.xfersPerBlock = 2, !.checkWrite = TRUE,
                    !.checkRead = c, !.faultyStorage = TRUE, !.quitOnError = q,
                    !.keepFileWithError = k, !.repetitions = 1]
        : f, c, q, k \in BOOLEAN}

\* Random offsets: in a shared file any task may get any offset, or none at all.
Random == [Common EXCEPT !.randomOffset = TRUE, !.checkWrite = TRUE]
RandomTests ==
    {[Random EXCEPT !.repetitions = 2, !.seeds = {[o \in 0 .. 1 |-> 1 - o], [o \in 0 .. 1 |-> 1]},
                    !.before = 2]}
    \cup
    {[Random EXCEPT !.xfersPerBlock = 2, !.readFile = FALSE, !.multiFile = TRUE, !.intraTestBarriers = TRUE,
                    !.seeds = {[o \in 0 .. 3 |-> 1], [o \in 0 .. 3 |-> o % 2],
                               [o \in 0 .. 3 |-> IF o = 2 THEN 1 ELSE 0]}]}
    \cup
    {[Random EXCEPT !.filePerProc = TRUE, !.segmentCount = 2, !.reorderTasks = c,
                    !.reorderTasksRandom = ~c, !.checkWrite = ~c, !.seeds = {[o \in 0 .. 1 |-> 0]}]
        : c \in BOOLEAN}

\* What the run that is meant to pass checks.
SoundTests == PlainTests \cup ReorderTests \cup FaultyTests \cup RandomTests

\* Tests that disagree with what the documentation says of them.
ReorderedCheckTests ==
    {[Common EXCEPT !.numTasks = 3, !.nodes = 3, !.reorderTasks = TRUE, !.checkWrite = TRUE]}

\* An error found in the first repetition, and a second one that writes anew.
KeptWithErrorTests ==
    {[Common EXCEPT !.faultyStorage = TRUE, !.checkWrite = TRUE, !.readFile = FALSE,
                    !.keepFileWithError = TRUE, !.repetitions = 2]}

\* After a test of one task the other task's random() is no longer where the first's is.
AfterSmallerTest == {[Random EXCEPT !.seeds = [0 .. 1 -> 0 .. 1], !.before = 1]}

=============================================================================
