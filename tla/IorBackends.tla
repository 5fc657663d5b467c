----------------------------- MODULE IorBackends -----------------------------
(***************************************************************************)
(* IOR's MPI-IO, HDF5, parallel NetCDF, PLFS and HDFS backends             *)
(* (ior/src/aiori-*.c) under the phases of TestIoSys: how each one turns   *)
(* the driver's file and offset into what its library is asked for, with   *)
(* the state it keeps between calls for that: static toggles, the data set *)
(* that is open, a suffix counter, a file view, a handle's position.       *)
(*                                                                         *)
(* The libraries are external: an HDF5 file is a set of data sets, a       *)
(* NetCDF file a table of rows, the other files an array.  A place is a    *)
(* pair: data set or row, and position in it; a transfer consists of       *)
(* Pieces pieces, which PLFS and HDFS may move in several calls.           *)
(***************************************************************************)
EXTENDS IorLayout, Sequences, FiniteSets, FiniteSetsExt

CONSTANTS
    NumTasksWorld,  \* size of MPI_COMM_WORLD
    Pieces,         \* pieces of a transfer
    Tests           \* the parameter records a run may be given

Phases == {"write", "writecheck", "read", "readcheck"}
ParamNames == {"api", "numTasks", "filePerProc", "xfersPerBlock", "segmentCount",
               "nodeShift", "phases", "repetitions", "useFileView", "collective",
               "keep", "shortCalls"}

\* What ValidateTests lets through.  nodeShift is tasksPerNode with -C, else 0.
ValidateTests(p) ==
    /\ p.numTasks \in 1 .. NumTasksWorld /\ p.repetitions > 0 /\ p.phases # <<>>
    /\ p.xfersPerBlock > 0 /\ p.segmentCount > 0
    /\ p.api = "NCMPI" => ~p.filePerProc
    /\ p.useFileView => p.api = "MPIIO"
    /\ (~p.filePerProc /\ p.segmentCount # 1) => p.xfersPerBlock = 1

ASSUME CountsAssumption == NumTasksWorld \in Nat \ {0} /\ Pieces \in Nat \ {0}
ASSUME TestsAssumption == \A p \in Tests : DOMAIN p = ParamNames /\ ValidateTests(p)

VARIABLES
    test,   \* the test's parameters, chosen once
    st,     \* per task: its locals and the backend's static variables, see Task0
    disk    \* file name -> its data sets and what its places hold

vars == <<test, st, disk>>

N == test.numTasks
Members == 0 .. N - 1
PieceSet == 0 .. Pieces - 1

Pretend(r, rankOffset) == (r + rankOffset) % N
FileName(r, rankOffset) == IF test.filePerProc THEN Pretend(r, rankOffset) ELSE 0
Files == IF test.filePerProc THEN Members ELSE {0}
Cells == Files \X (0 .. FileLength(test, N) - 1)

\* Nodes between the task that wrote and the task that accesses, by phase, and
\* for the file that the read check compares with.
Distance == [write |-> 0, read |-> 1, writecheck |-> 2, readcheck |-> 3]
RankOffset(phase) == (Distance[phase] * test.nodeShift) % N
ComparisonOffset == (4 * test.nodeShift) % N

Piece(task, rep, offset, q) == <<task, rep, offset, q>>
Hole == <<-1, -1, -1, -1>>
Blank == [q \in PieceSet |-> Hole]
\* The task that writes a cell, and the cell once repetition rep has written it.
Owner(c) == IF test.filePerProc THEN c[1] ELSE (c[2] \div test.xfersPerBlock) % N
Written(c, rep) == [q \in PieceSet |-> Piece(Owner(c), rep, c[2], q)]

\* parse_options: tests that only write or only read do not open RDWR.
Wants(phases) == \E i \in DOMAIN test.phases : test.phases[i] \in phases
OpenFlags ==
    LET reads == Wants({"read", "readcheck"})
        writes == Wants({"write", "writecheck"})
    IN  IF reads /\ writes THEN {"RDWR", "CREAT"}
        ELSE IF writes THEN {"WRONLY", "CREAT"} ELSE {"RDONLY"}

-----------------------------------------------------------------------------
(* Files                                                                     *)

\* Where a file of each format keeps the transfer at an offset: HDF5 has a data
\* set per segment, NetCDF a row per segment and task of the world.
PlaceOf(offset) ==
    LET segment == offset \div SegmentSize(test, N)
        inSegment == offset % SegmentSize(test, N)
    IN  CASE test.api = "HDF5" -> <<segment, inSegment>>
          [] test.api = "NCMPI" ->
                <<segment * NumTasksWorld + inSegment \div test.xfersPerBlock,
                  inSegment % test.xfersPerBlock>>
          [] OTHER -> <<0, offset>>

EmptyFile == [sets |-> {}, data |-> <<>>]
Stored(f, place, q) ==
    IF f \in DOMAIN disk /\ <<place, q>> \in DOMAIN disk[f].data
    THEN disk[f].data[<<place, q>>] ELSE Hole
OnDisk(c) == [q \in PieceSet |-> Stored(c[1], PlaceOf(c[2]), q)]

\* A file an earlier run has written completely.
OldFile(f) ==
    LET at == [o \in 0 .. FileLength(test, N) - 1 |-> PlaceOf(o)]
    IN  [sets |-> IF test.api = "HDF5" THEN 0 .. test.segmentCount - 1 ELSE {0},
         data |-> [x \in {<<at[o], q>> : o \in DOMAIN at, q \in PieceSet} |->
                     LET o == CHOOSE o \in DOMAIN at : at[o] = x[1]
                     IN  Written(<<f, o>>, -1)[x[2]]]]

Task0 ==
    [pc |-> "phase", rep |-> 0, ph |-> 1, pairCnt |-> 0, reread |-> FALSE, bar |-> 0,
     fd |-> -1, fdCheck |-> -1, left |-> 0, buffer |-> Blank, delivered |-> Blank,
     before |-> Blank,   \* history: the cell a write is about to replace
     newlyOpenedFile |-> FALSE, firstReadCheck |-> FALSE, startDataSet |-> FALSE,
     dataSetSuffix |-> 0, dataSet |-> <<>>, indep |-> FALSE, statSize |-> 0,
     aggFileSize |-> 0]

Init ==
    /\ test \in Tests
    /\ st = [r \in Members |-> Task0]
    /\ disk = IF Wants({"write"}) THEN <<>> ELSE [f \in Files |-> OldFile(f)]

-----------------------------------------------------------------------------
(* Tasks.  A barrier is entered with the step before it and left with the   *)
(* step after it.  A task that exits takes the job with it.                 *)

At(r, label) ==
    /\ st[r].pc = label
    /\ \A s \in Members : st[s].bar >= st[r].bar /\ st[s].pc # "exit"
Go(r, rec, label) == st' = [st EXCEPT ![r] = [rec EXCEPT !.pc = label]]
Arrive(r, rec, label) == Go(r, [rec EXCEPT !.bar = @ + 1], label)
Exit(r) == Go(r, st[r], "exit") /\ UNCHANGED <<test, disk>>

Phase(r) == test.phases[st[r].ph]
MorePhases(r) == st[r].ph <= Len(test.phases)

\* RemoveFile looks with access(), which does not see files of HDFS.
Removed(r, rankOffset) ==
    IF test.api = "HDFS" \/ (~test.filePerProc /\ r # 0) THEN {}
    ELSE {FileName(r, rankOffset)}
Without(files) == [f \in DOMAIN disk \ files |-> disk[f]]

BeginPhase(r) ==
    /\ At(r, "phase") /\ MorePhases(r)
    /\ disk' = IF Phase(r) = "write" /\ ~test.keep THEN Without(Removed(r, 0)) ELSE disk
    /\ Arrive(r, st[r], "open")
    /\ UNCHANGED test

-----------------------------------------------------------------------------
(* Opening                                                                   *)

\* MPI-IO, HDF5 and NetCDF open a shared file collectively; PLFS and HDFS hold
\* the other tasks back until rank 0 has opened, and truncated, a shared file.
OpensTogether ==
    /\ ~test.filePerProc
    /\ test.api \in {"PLFS", "HDFS"} => "WRONLY" \in OpenFlags

TruncatesAlways(r) ==     \* slip: not only rank 0
    /\ CASE test.api \in {"PLFS", "HDFS"} -> "WRONLY" \in OpenFlags
         [] test.api \in {"HDF5", "NCMPI"} -> Phase(r) = "write"
         [] OTHER -> FALSE
\* MPI-IO does not truncate: what the file held is overwritten.
Truncates(r) ==
    /\ test.filePerProc \/ r = 0
    /\ CASE test.api \in {"PLFS", "HDFS"} -> "WRONLY" \in OpenFlags
         [] test.api \in {"HDF5", "NCMPI"} -> Phase(r) = "write"
         [] OTHER -> FALSE

\* The file, and for a read check of a file per task the one to compare with.
Names(r) ==
    {FileName(r, RankOffset(Phase(r)))} \cup
    (IF Phase(r) = "readcheck" /\ test.filePerProc THEN {FileName(r, ComparisonOffset)} ELSE {})

Refused(r) ==
    \/ test.api \in {"PLFS", "HDFS"} /\ "RDWR" \in OpenFlags
    \/ /\ ~(Names(r) \subseteq DOMAIN disk)
       /\ ~(Phase(r) = "write" \/ (test.api \notin {"HDF5", "NCMPI"} /\ "CREAT" \in OpenFlags))

Opened(r) ==
    [st[r] EXCEPT !.fd = FileName(r, RankOffset(Phase(r))),
                  !.fdCheck = FileName(r, ComparisonOffset),
                  !.pairCnt = 0, !.reread = FALSE,
                  !.newlyOpenedFile = TRUE, !.indep = FALSE]
DiskOpened(r) ==
    [f \in DOMAIN disk \cup Names(r) |->
        IF f \notin DOMAIN disk \/ (f \in Names(r) /\ Truncates(r)) THEN EmptyFile ELSE disk[f]]

OpenNow(r) == disk' = DiskOpened(r) /\ UNCHANGED test

Open(r) ==
    /\ At(r, "open")
    /\ IF OpensTogether /\ r # 0
       THEN Arrive(r, st[r], "join") /\ UNCHANGED <<test, disk>>
       ELSE IF Refused(r) THEN Exit(r)
       ELSE /\ OpenNow(r)
            /\ IF OpensTogether THEN Arrive(r, Opened(r), "loop") ELSE Go(r, Opened(r), "loop")

Join(r) ==
    /\ At(r, "join")
    /\ IF Refused(r) THEN Exit(r) ELSE OpenNow(r) /\ Go(r, Opened(r), "loop")

-----------------------------------------------------------------------------
(* Before a transfer                                                         *)

\* What WriteOrRead and ReadCheck ask for.
Pretended(r) == Pretend(r, RankOffset(Phase(r)))
Offset(r) ==
    LET first == OffsetIn(test, N, Pretended(r), st[r].pairCnt)
    IN  IF st[r].reread THEN RereadOffsetIn(test, N, test.nodeShift, first) ELSE first
File(r) == IF st[r].reread /\ test.filePerProc THEN st[r].fdCheck ELSE st[r].fd
Cell(r) == <<File(r), Offset(r)>>

SegmentPosition(r) ==
    IF test.filePerProc THEN 0 ELSE Pretended(r) * test.xfersPerBlock

ToggledOnFirst(r) ==     \* slip: the second pass does not toggle back
    IF Phase(r) = "readcheck" THEN TRUE ELSE st[r].firstReadCheck
\* The static firstReadCheck tells ReadCheck's two passes apart; NetCDF looks at
\* it only when it is at the task's first offset.
Toggled(r) ==
    IF /\ Phase(r) = "readcheck"
       /\ test.api = "HDF5" \/ Offset(r) = SegmentPosition(r)
    THEN ~st[r].firstReadCheck ELSE st[r].firstReadCheck

\* HDF5_Xfer: a transfer at the start of a block begins a new data set, unless
\* it is the second pass.
NewDataSet(r) ==
    IF (Offset(r) - SegmentPosition(r)) % SegmentSize(test, N) = 0
    THEN Phase(r) # "readcheck" \/ Toggled(r)
    ELSE st[r].startDataSet

\* SetupDataSet: data sets are numbered from 0 in every newly opened file.
Suffix(r) == IF st[r].newlyOpenedFile THEN 0 ELSE st[r].dataSetSuffix

HDF5Ready(r) ==
    LET rec == [st[r] EXCEPT !.firstReadCheck = Toggled(r), !.startDataSet = FALSE,
                             !.newlyOpenedFile = FALSE]
    IN  IF NewDataSet(r)
        THEN [rec EXCEPT !.dataSet = <<File(r), Suffix(r)>>, !.dataSetSuffix = Suffix(r) + 1]
        ELSE rec
HDF5Fails(r) ==
    IF NewDataSet(r)
    THEN \/ ~st[r].newlyOpenedFile /\ st[r].dataSet = <<>>
         \/ Phase(r) # "write" /\ Suffix(r) \notin disk[File(r)].sets
    ELSE st[r].dataSet = <<>>

\* NCMPI_Xfer: at its first offset a task defines the variable, or looks it up,
\* and leaves the library's collective mode.
StartsDataSet(r) == Offset(r) = SegmentPosition(r) \/ st[r].startDataSet
Enters(r) == StartsDataSet(r) /\ (Phase(r) # "readcheck" \/ Toggled(r))
NCMPIReady(r) ==
    [st[r] EXCEPT !.firstReadCheck = Toggled(r),
                  !.startDataSet = StartsDataSet(r) /\ ~Enters(r),
                  !.indep = @ \/ (Enters(r) /\ ~test.collective)]
NCMPIFails(r) ==
    \/ Enters(r) /\ Phase(r) # "write" /\ disk[File(r)].sets = {}
    \/ ~test.collective /\ ~NCMPIReady(r).indep

\* MPI-IO's SeekOffset: the position in the view, which shows a task only its
\* own block of every segment.
ViewOffset(r) ==
    IF test.filePerProc THEN Offset(r)
    ELSE test.xfersPerBlock * (Offset(r) \div SegmentSize(test, N))
         + ((Offset(r) % SegmentSize(test, N)) - SegmentPosition(r))
\* What MPI_File_set_view makes of it.
Viewed(r, v) ==
    (v \div test.xfersPerBlock) * SegmentSize(test, N) + SegmentPosition(r)
    + (v % test.xfersPerBlock)
MPIIOFails(r) ==
    \/ Phase(r) # "write" /\ "WRONLY" \in OpenFlags
    \/ test.useFileView /\ ViewOffset(r) < 0

Ready(r) == CASE test.api = "HDF5" -> HDF5Ready(r)
              [] test.api = "NCMPI" -> NCMPIReady(r)
              [] OTHER -> st[r]
Fails(r) == CASE test.api = "HDF5" -> HDF5Fails(r)
              [] test.api = "NCMPI" -> NCMPIFails(r)
              [] test.api = "MPIIO" -> MPIIOFails(r)
              [] OTHER -> FALSE
\* A write creates the data set, or defines the variable, it begins with.
SetsMade(r) ==
    CASE Phase(r) = "write" /\ test.api = "HDF5" /\ NewDataSet(r) -> {Suffix(r)}
      [] Phase(r) = "write" /\ test.api = "NCMPI" /\ Enters(r) -> {0}
      [] OTHER -> {}

MoreXfers(r) == st[r].pairCnt < XfersOf(test)

Call(r) ==
    /\ At(r, "loop") /\ MoreXfers(r)
    /\ IF Fails(r) THEN Exit(r)
       ELSE /\ disk' = [disk EXCEPT ![File(r)].sets = @ \cup SetsMade(r)]
            /\ Go(r, [Ready(r) EXCEPT !.left = Pieces, !.buffer = Blank,
                                      !.before = OnDisk(Cell(r))], "xfer")
            /\ UNCHANGED test

-----------------------------------------------------------------------------
(* The transfer                                                              *)

\* HDFS reads and writes where the handle is, which starts at 0.
HandlePosition(r) ==
    IF Phase(r) = "readcheck" /\ ~test.filePerProc
    THEN 2 * st[r].pairCnt + (IF st[r].reread THEN 1 ELSE 0)
    ELSE st[r].pairCnt

\* HDF5's SeekOffset: the hyperslab's start in the segment's data set.
InDataSet(r) == Offset(r) % SegmentSize(test, N)

RowOfTest(r) ==     \* slip: rows counted in tasks of the test
    (Offset(r) \div SegmentSize(test, N)) * N + r
\* offset[0] of NCMPI_Xfer: the task itself, whomever it pretends to be.
Row(r) == (Offset(r) \div SegmentSize(test, N)) * NumTasksWorld + r

\* The place the library is told to access.
Reached(r) ==
    CASE test.api = "HDF5" -> <<st[r].dataSet[1], <<st[r].dataSet[2], InDataSet(r)>>>>
      [] test.api = "NCMPI" -> <<File(r), <<Row(r), Offset(r) % test.xfersPerBlock>>>>
      [] test.api = "MPIIO" ->
            <<File(r), <<0, IF test.useFileView THEN Viewed(r, ViewOffset(r)) ELSE Offset(r)>>>>
      [] test.api = "PLFS" -> <<File(r), <<0, Offset(r)>>>>
      [] test.api = "HDFS" -> <<File(r), <<0, HandlePosition(r)>>>>

Moves(r) == IF test.shortCalls /\ test.api \in {"PLFS", "HDFS"} THEN 1 .. st[r].left
            ELSE {st[r].left}
Moving(r, n) == {q \in PieceSet : Pieces - st[r].left <= q /\ q < Pieces - st[r].left + n}

\* The piece a read puts at q of the buffer: plfs_read is always given
\* param->offset, however much of the transfer is already there.
Fetched(r, q) ==
    LET at == Reached(r)
    IN  Stored(at[1], at[2], IF test.api = "PLFS" THEN q - (Pieces - st[r].left) ELSE q)

\* A transfer that has moved its last piece returns to the loop.  The read
\* check has barriers around its second pass.
Return(r, rec) ==
    IF Phase(r) # "readcheck" THEN Go(r, [rec EXCEPT !.pairCnt = @ + 1], "loop")
    ELSE Arrive(r, [rec EXCEPT !.reread = ~@,
                               !.pairCnt = IF st[r].reread THEN @ + 1 ELSE @], "loop")

WriteSome(r, n) ==
    /\ At(r, "xfer") /\ Phase(r) = "write" /\ n \in Moves(r)
    /\ LET at == Reached(r)
           new == [x \in {<<at[2], q>> : q \in Moving(r, n)} |->
                      Piece(r, st[r].rep, Offset(r), x[2])]
           rec == [st[r] EXCEPT !.left = @ - n]
       IN  /\ disk' = [disk EXCEPT ![at[1]].data =
                          [x \in DOMAIN @ \cup DOMAIN new |->
                              IF x \in DOMAIN new THEN new[x] ELSE @[x]]]
           /\ IF rec.left > 0 THEN Go(r, rec, "xfer") ELSE Return(r, rec)
    /\ UNCHANGED test

\* PLFS and HDFS take a call that moves nothing for a premature end of file.
ReadSome(r, n) ==
    /\ At(r, "xfer") /\ Phase(r) # "write" /\ n \in Moves(r)
    /\ LET got == [q \in PieceSet |-> IF q \in Moving(r, n) THEN Fetched(r, q)
                                      ELSE st[r].buffer[q]]
           rec == [st[r] EXCEPT !.left = @ - n, !.buffer = got]
       IN  IF test.api \in {"PLFS", "HDFS"} /\ \E q \in Moving(r, n) : got[q] = Hole
           THEN Exit(r)
           ELSE /\ IF rec.left > 0 THEN Go(r, rec, "xfer")
                   ELSE Return(r, [rec EXCEPT !.delivered = got])
                /\ UNCHANGED <<test, disk>>

-----------------------------------------------------------------------------
(* Closing, file size, removal                                               *)

CloseFails(r) ==
    \/ test.api = "HDF5" /\ st[r].dataSet = <<>>
    \/ test.api = "NCMPI" /\ ~test.collective /\ ~st[r].indep

Close(r) ==
    /\ At(r, "loop") /\ ~MoreXfers(r)
    /\ IF CloseFails(r) THEN Exit(r)
       ELSE LET rec == [st[r] EXCEPT !.fd = -1, !.fdCheck = -1, !.dataSet = <<>>]
            IN  /\ CASE Phase(r) = "write" -> Arrive(r, rec, "size")
                     [] Phase(r) = "read" -> Go(r, rec, "size")
                     [] OTHER -> Go(r, [rec EXCEPT !.ph = @ + 1], "phase")
                /\ UNCHANGED <<test, disk>>

GetFileSize(r) ==
    /\ At(r, "size")
    /\ Arrive(r, [st[r] EXCEPT !.statSize =
                    Cardinality(DOMAIN disk[FileName(r, RankOffset(Phase(r)))].data)], "agree")
    /\ UNCHANGED <<test, disk>>

\* The sum over the tasks' own files, or the smallest opinion of a shared one.
Aggregate ==
    IF test.filePerProc THEN MapThenSumSet(LAMBDA s : st[s].statSize, Members)
    ELSE Min({st[s].statSize : s \in Members})

Agree(r) ==
    /\ At(r, "agree")
    /\ Go(r, [st[r] EXCEPT !.aggFileSize = Aggregate, !.ph = @ + 1], "phase")
    /\ UNCHANGED <<test, disk>>

NextRep(r) ==
    Arrive(r, [st[r] EXCEPT !.rep = @ + 1, !.ph = 1],
           IF st[r].rep + 1 < test.repetitions THEN "phase" ELSE "done")

EndRep(r) ==
    /\ At(r, "phase") /\ ~MorePhases(r)
    /\ IF test.keep THEN NextRep(r) ELSE Arrive(r, st[r], "remove")
    /\ UNCHANGED <<test, disk>>

\* testFileName is still the last phase's.
Remove(r) ==
    /\ At(r, "remove")
    /\ disk' = Without(Removed(r, RankOffset(test.phases[Len(test.phases)])))
    /\ NextRep(r)
    /\ UNCHANGED test

Step(r) ==
    \/ BeginPhase(r) \/ Open(r) \/ Join(r) \/ Call(r)
    \/ \E n \in 1 .. Pieces : WriteSome(r, n) \/ ReadSome(r, n)
    \/ Close(r) \/ GetFileSize(r) \/ Agree(r) \/ EndRep(r) \/ Remove(r)

Next == \E r \in Members : Step(r)

Spec == Init /\ [][Next]_vars
\* Every task is a sequential program that runs when it can.
FairSpec == Spec /\ \A r \in 0 .. NumTasksWorld - 1 : WF_vars(r \in Members /\ Step(r))

-----------------------------------------------------------------------------
(* When a task compares file sizes after a write or a read it has seen its  *)
(* file in full size, and after a write every cell of every file holds what *)
(* its owner wrote in this repetition.  Nothing is ever stored outside the  *)
(* data sets, rows and files of the test.                                   *)
FilesAreWhole ==
  /\ \A f \in DOMAIN disk : \A x \in DOMAIN disk[f].data : \E c \in Cells : x[1] = PlaceOf(c[2])
  /\ \A r \in Members : st[r].pc = "agree" =>
        /\ st[r].statSize = Pieces * FileLength(test, N)
        /\ Phase(r) = "write" => \A c \in Cells : OnDisk(c) = Written(c, st[r].rep)

(* Whatever state a backend keeps and however it addresses its library, to  *)
(* the driver it is the store of IorStore: a transfer moves exactly the     *)
(* cell of the file and offset that xfer() was given, as one step.          *)
Asked(r) ==
    IF st[r].pc # "xfer" THEN {}
    ELSE {[write |-> Phase(r) = "write", cell |-> Cell(r),
           datum |-> IF Phase(r) = "write"
                     THEN [q \in PieceSet |-> Piece(r, st[r].rep, Offset(r), q)] ELSE Blank]}
Replacing(c) == {r \in Members : st[r].pc = "xfer" /\ Phase(r) = "write" /\ Cell(r) = c}
Shown(c) == IF Replacing(c) = {} THEN OnDisk(c)
            ELSE st[CHOOSE r \in Replacing(c) : TRUE].before
World == 0 .. NumTasksWorld - 1
StoreCells == World \X (0 .. Max({FileLength(p, p.numTasks) : p \in Tests}) - 1)
StoreData == [PieceSet -> (World \X Int \X Int \X PieceSet) \cup {Hole}]

Store == INSTANCE IorStore WITH
            Tasks <- World, Cells <- StoreCells, Data <- StoreData, Blank <- Blank,
            content <- [c \in StoreCells |-> IF c \in Cells THEN Shown(c) ELSE Blank],
            pending <- [r \in World |-> IF r \in Members THEN Asked(r) ELSE {}],
            delivered <- [r \in World |-> IF r \in Members THEN st[r].delivered ELSE Blank]
ImplementsStore == Store!Spec

(* No backend misuses its library (a data set that is not there or not open,*)
(* a call in the wrong mode, a position outside the view, an early end of   *)
(* file), and every test comes to its end.                                  *)
Ends == <>(\A r \in Members : st[r].pc = "done")

=============================================================================
