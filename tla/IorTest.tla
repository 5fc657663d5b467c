------------------------------- MODULE IorTest -------------------------------
(***************************************************************************)
(* One IOR test as every MPI task runs it: TestIoSys of ior/src/ior.c with *)
(* WriteOrRead, ReadCheck, CountErrors, CheckFileSize, RemoveFile,         *)
(* GetTestFileName and the POSIX backend's create, open and stat.          *)
(*                                                                         *)
(* Each task is a sequential process.  Its pc is either a local step or a  *)
(* collective call it has entered and not yet left; MPI matches the n-th   *)
(* collective a task makes on a communicator with the n-th of every other  *)
(* member, and only lets a task leave when the tasks it depends on have    *)
(* entered: all of them for a barrier or an allreduce, the root for a      *)
(* broadcast, nobody for a non-root of a reduce or a gather.               *)
(*                                                                         *)
(* Offsets count whole transfers.  A transfer's contents are abstracted to *)
(* what its signature tells apart: the task, the time stamp and the file   *)
(* offset that FillBuffer puts into it.  Files are inodes with names, so a *)
(* file that is unlinked while open goes on living without its name.       *)
(***************************************************************************)
EXTENDS IorLayout, Sequences, FiniteSets, FiniteSetsExt

CONSTANTS
    NumTasksWorld,  \* size of MPI_COMM_WORLD
    Tests           \* the parameter records (IOR_param_t) a run may be given

ParamNames == {
    "numTasks", "tasksPerNode", "nodes", "taskPerNodeOffset",
    "filePerProc", "multiFile", "segmentCount", "xfersPerBlock",
    "writeFile", "checkWrite", "readFile", "checkRead",
    "reorderTasks", "reorderTasksRandom", "storeFileOffset",
    "repetitions", "useExistingTestFile", "keepFile", "keepFileWithError",
    "intraTestBarriers", "quitOnError", "lustre_set_striping", "setTimeStampSignature",
    "deadlineForStonewalling", "maxTimeDuration", "hitsHistogram",
    "randomOffset", "seeds", "before", "leftover", "faultyStorage"}

IntParams == {"numTasks", "tasksPerNode", "nodes", "taskPerNodeOffset", "segmentCount",
           "xfersPerBlock", "repetitions", "setTimeStampSignature", "before"}
ParamsTyped(p) ==
    /\ DOMAIN p = ParamNames
    /\ \A n \in IntParams : p[n] \in Int
    /\ \A n \in ParamNames \ (IntParams \cup {"seeds"}) : p[n] \in BOOLEAN

\* The combinations ValidateTests lets through, as far as they matter here.
ValidateTests(p) ==
    /\ p.repetitions > 0 /\ p.numTasks > 0
    /\ p.readFile \/ p.writeFile \/ p.checkRead \/ p.checkWrite
    /\ p.deadlineForStonewalling => ~p.checkWrite /\ ~p.checkRead
    /\ p.segmentCount >= 0 /\ p.xfersPerBlock >= 1
    /\ ~(p.reorderTasks /\ p.reorderTasksRandom)
    /\ p.useExistingTestFile => ~p.lustre_set_striping
    /\ (~p.filePerProc /\ p.segmentCount # 1) => p.xfersPerBlock = 1
    /\ p.randomOffset =>
           /\ ~p.checkRead /\ ~p.storeFileOffset
           /\ p.filePerProc \/ ~(p.reorderTasks \/ p.reorderTasksRandom)

\* A seed stands for the numbers random() gives after srandom(seed): to which task each
\* offset of a shared file is dealt.  before: tasks of an earlier test with random offsets.
SeedsFit(p) ==
    p.randomOffset => /\ p.seeds # {} /\ p.before \in Nat
                      /\ \A deal \in p.seeds : \A o \in DOMAIN deal : deal[o] \in 0 .. p.numTasks - 1

ASSUME WorldAssumption == NumTasksWorld \in Nat \ {0}
ASSUME TestsAssumption ==
    \A p \in Tests : ParamsTyped(p) /\ ValidateTests(p) /\ SeedsFit(p)

VARIABLES
    test,    \* the test's parameters, chosen once
    st,      \* per task of the world: its locals and globals, see Task0
    calls,   \* per communicator and task: the collectives it has entered
    dir,     \* the directory: name -> inode
    disk,    \* inode -> contents
    wire,    \* what rank 0 has put into its latest broadcasts
    found,   \* mismatches the data checks have come across (history)
    faults,  \* transfers the storage may still corrupt
    aborted  \* ERR or MPI_Abort: the job is gone

vars == <<test, st, calls, dir, disk, wire, found, faults, aborted>>

World == 0 .. NumTasksWorld - 1
\* TestIoSys clips numTasks to the world and builds testComm from the first ones.
N == IF test.numTasks > NumTasksWorld THEN NumTasksWorld ELSE test.numTasks
Members == 0 .. N - 1

-----------------------------------------------------------------------------
(* Offsets, names and signatures                                            *)

XfersPerTask == XfersOf(test)

OffsetOf(r, k) == OffsetIn(test, N, r, k)

FileXfers == IF test.filePerProc THEN XfersPerTask ELSE N * XfersPerTask
FileOffsets == 0 .. FileXfers - 1

RereadOffset(off) ==
    RereadOffsetIn(test, N, IF test.reorderTasks THEN test.tasksPerNode ELSE 0, off)

\* The task whose second read ReadCheck compares with r's first.
ReadCheckFrom(r) ==
    (r + N - (IF test.reorderTasks THEN test.tasksPerNode ELSE 0)) % N

PretendRank(r, offset) == (r + offset) % N

\* GetTestFileName: by pretended rank when every task has its own file, and by
\* repetition with multiFile.
FileName(r, offset, rep) ==
    <<IF test.filePerProc THEN PretendRank(r, offset) ELSE -1,
      IF test.multiFile THEN rep ELSE -1>>
NoName == <<-2, -2>>   \* testFileName before it is first set

Hole == [task |-> -1, stamp |-> -1, off |-> -1]
Corrupt == [task |-> -2, stamp |-> -2, off |-> -2]
\* FillBuffer: the transfer's own offset 0 unless the file offset is stored.
Fill(task, stamp, off) ==
    [task |-> task, stamp |-> stamp, off |-> IF test.storeFileOffset THEN off ELSE 0]

EmptyFile == [o \in FileOffsets |-> Hole]
\* st_size, in transfers
FileSize(inode) ==
    LET written == {o \in FileOffsets : disk[inode][o] # Hole}
    IN  IF written = {} THEN 0 ELSE 1 + CHOOSE o \in written : \A q \in written : q <= o

\* A file an earlier, complete run of the same test has left behind.
OldFile(name) ==
    [o \in FileOffsets |->
        LET r == IF test.filePerProc THEN name[1]
                 ELSE (o \div test.xfersPerBlock) % N
        IN  Fill(r, -1, o)]
OldNames == {FileName(r, 0, k) : r \in Members, k \in 0 .. test.repetitions - 1}
\* Tests that do not write need one; tests that write may find one.
HasOldFiles == test.leftover \/ ~test.writeFile

-----------------------------------------------------------------------------
(* Collectives                                                              *)

\* What a task has entered when its pc is one of these labels.  Reductions that follow
\* each other are one: at "size" those of POSIX_GetFileSize and CheckFileSize, which all
\* tasks wait for, at "times" those of ReduceIterResults, which rank 0 waits for.
Kind == [stamp   |-> "Bcast",     hist   |-> "Gather",   gate   |-> "Barrier",
         ready   |-> "Barrier",   striped |-> "Barrier", opened |-> "Barrier",
         rc1     |-> "Barrier",   rc2    |-> "Barrier",  rc3    |-> "Barrier",
         seed    |-> "Bcast",
         cntR    |-> "Reduce",    cntB   |-> "Bcast",    xfered |-> "Barrier",
         closed  |-> "Barrier",   size   |-> "Allreduce", times |-> "Reduce",
         delete  |-> "Barrier",   repEnd |-> "Barrier",
         commFree |-> "CommFree", world  |-> "Barrier"]

\* file_hits_histogram gathers on MPI_COMM_WORLD, and so does the last barrier.
Comm(label) == IF label \in {"hist", "world"} THEN "world" ELSE "test"
Group(comm) == IF comm = "world" THEN World ELSE Members

\* Task s has made the call that matches r's latest one on that communicator.
Met(comm, r, s) ==
    LET n == Len(calls[comm][r])
    IN  Len(calls[comm][s]) >= n /\ calls[comm][s][n] = calls[comm][r][n]

MayLeave(r, label) ==
    LET c == Comm(label)
    IN  CASE Kind[label] = "Bcast" -> r = 0 \/ Met(c, r, 0)
          [] Kind[label] \in {"Reduce", "Gather"} ->
                 r # 0 \/ \A s \in Group(c) : Met(c, r, s)
          [] OTHER -> \A s \in Group(c) : Met(c, r, s)

\* r goes on to `label` with locals rec; a collective's label enters the call.
Go(r, rec, label) ==
    /\ st' = [st EXCEPT ![r] = [rec EXCEPT !.pc = label]]
    /\ calls' = IF label \in DOMAIN Kind
                THEN [calls EXCEPT ![Comm(label)][r] = Append(@, Kind[label])]
                ELSE calls

OnlyTasks == UNCHANGED <<test, dir, disk, wire, found, faults, aborted>>
At(r, label) == ~aborted /\ st[r].pc = label
Leaving(r, label) == At(r, label) /\ MayLeave(r, label)
Abort == aborted' = TRUE /\ UNCHANGED <<test, st, calls, dir, disk, wire, found, faults>>

-----------------------------------------------------------------------------
(* The locals of a task, and of the test loop                               *)

Task0(r, rng) ==
    [pc |-> IF r \in Members THEN "rep" ELSE "world",
     phase |-> "write", rep |-> 0, rankOffset |-> 0, name |-> NoName,
     fd |-> 0, fdCheck |-> 0, pairCnt |-> 0, moved |-> 0,
     buffer |-> Fill(r, 0, 0),       \* XferBuffersSetup, before any time stamp
     checkBuffer |-> Hole, errors |-> 0, totalErrorCount |-> 0,
     errorFound |-> FALSE, stamp |-> 0, elapsed |-> FALSE, statSize |-> 0,
     rng |-> rng, randomSeed |-> rng, todo |-> {}]

\* SetupTests seeds all tasks alike; an earlier test left its own tasks another seed.
Seeded(first, later) == [r \in World |-> IF r < test.before THEN later ELSE first]

Init ==
    /\ test \in Tests
    /\ \E first, later \in IF test.randomOffset THEN test.seeds ELSE {<<>>} :
           /\ test.before = 0 => later = first
           /\ st = [r \in World |-> Task0(r, Seeded(first, later)[r])]
    /\ calls = [c \in {"world", "test"} |->
                  [r \in World |-> IF c = "world" /\ r \notin Members
                                   THEN <<Kind["world"]>> ELSE <<>>]]
    /\ LET names == IF HasOldFiles THEN OldNames ELSE {}
           inode == CHOOSE f \in [names -> 1 .. Cardinality(names)] :
                        \A m, n \in names : m # n => f[m] # f[n]
       IN  /\ dir = inode
           /\ disk = [i \in 1 .. Cardinality(names) |->
                        OldFile(CHOOSE n \in names : inode[n] = i)]
    /\ wire = [stamp |-> 0, sum |-> 0, seed |-> <<>>]
    /\ found = 0
    /\ faults = IF test.faultyStorage THEN 1 ELSE 0
    /\ aborted = FALSE

\* The time stamp rank 0 picks: given, or the clock, which moves on.
StampOf(rep) == IF test.setTimeStampSignature # 0 THEN test.setTimeStampSignature
                                                  ELSE rep + 1

MoreReps(r) == st[r].rep < test.repetitions

\* Top of the repetition loop: enter the broadcast of the time stamp, or leave
\* the loop for MPI_Comm_free.
BeginRep(r) ==
    /\ At(r, "rep")
    /\ IF MoreReps(r)
         THEN /\ wire' = IF r = 0 THEN [wire EXCEPT !.stamp = StampOf(st[r].rep)]
                                  ELSE wire
              /\ Go(r, st[r], "stamp")
         ELSE Go(r, st[r], "commFree") /\ UNCHANGED wire
    /\ UNCHANGED <<test, dir, disk, found, faults, aborted>>

GotStamp(r) ==
    /\ Leaving(r, "stamp")
    /\ Go(r, [st[r] EXCEPT !.stamp = wire.stamp, !.phase = "write"], "phase")
    /\ OnlyTasks

Wanted(phase) ==
    CASE phase = "write"      -> test.writeFile
      [] phase = "writecheck" -> test.checkWrite
      [] phase = "read"       -> test.readFile
      [] phase = "readcheck"  -> test.checkRead

Following == [write |-> "writecheck", writecheck |-> "read",
              read |-> "readcheck", readcheck |-> "finish"]
NextPhase(rec) == [rec EXCEPT !.phase = Following[rec.phase]]

\* test_time_elapsed reads the task's own clock: once past the end, always past.
MayElapse(r) == IF test.maxTimeDuration /\ ~st[r].elapsed THEN BOOLEAN
                ELSE {st[r].elapsed}

SkipPhase(r) ==
    /\ At(r, "phase") /\ st[r].phase # "finish"
    /\ \/ ~Wanted(st[r].phase) /\ Go(r, NextPhase(st[r]), "phase")
       \/ /\ Wanted(st[r].phase) /\ TRUE \in MayElapse(r)
          /\ Go(r, NextPhase([st[r] EXCEPT !.elapsed = TRUE]), "phase")
    /\ OnlyTasks

Starting(r, phase) ==
    /\ At(r, "phase") /\ st[r].phase = phase
    /\ Wanted(phase) /\ FALSE \in MayElapse(r)

\* The record with testFileName set for the rankOffset it holds.
Named(r, rec) == [rec EXCEPT !.name = FileName(r, rec.rankOffset, rec.rep)]

RemovedNameShared(r, rec) == IF r = 0 THEN rec.name ELSE NoName  \* slip
\* RemoveFile: the name it unlinks, if it is there.  A shared file is rank 0's.
RemovedName(r, rec) ==
    CASE test.filePerProc /\ test.reorderTasksRandom -> FileName(r, 0, rec.rep)
      [] test.filePerProc /\ ~test.reorderTasksRandom -> rec.name
      [] ~test.filePerProc -> IF r = 0 THEN rec.name ELSE NoName
RemoveFile(r, rec) == [n \in DOMAIN dir \ {RemovedName(r, rec)} |-> dir[n]]

StartWriteNoBarrier(r) ==     \* slip: no barrier between removing and creating
    /\ Starting(r, "write")
    /\ LET rec == Named(r, st[r])
       IN  /\ dir' = IF test.useExistingTestFile THEN dir ELSE RemoveFile(r, rec)
           /\ Go(r, rec, "open")
    /\ UNCHANGED <<test, disk, wire, found, faults, aborted>>

StartWrite(r) ==
    /\ Starting(r, "write")
    /\ LET rec == Named(r, st[r])
       IN  /\ dir' = IF test.useExistingTestFile THEN dir ELSE RemoveFile(r, rec)
           /\ Go(r, rec, "ready")
    /\ UNCHANGED <<test, disk, wire, found, faults, aborted>>

StartCheck(r) ==
    /\ Starting(r, "writecheck") \/ Starting(r, "readcheck")
    /\ Go(r, st[r], "gate")
    /\ OnlyTasks

\* -Z: any task at least nodeoffset nodes away; the loop that draws it does not
\* end when there is none.
RandomOffsets ==
    LET nodeoffset == IF test.taskPerNodeOffset < test.nodes
                      THEN test.taskPerNodeOffset ELSE test.nodes - 1
    IN  {o \in 0 .. N - 1 : o >= nodeoffset * test.tasksPerNode}

ReadOffsets(r) ==
    CASE test.reorderTasks -> {(test.taskPerNodeOffset * test.tasksPerNode) % N}
      [] test.reorderTasksRandom -> RandomOffsets
      [] OTHER -> {st[r].rankOffset}

StartRead(r) ==
    /\ Starting(r, "read")
    /\ \E o \in ReadOffsets(r) :
         Go(r, Named(r, [st[r] EXCEPT !.rankOffset = o]),
            IF test.reorderTasksRandom /\ test.hitsHistogram THEN "hist" ELSE "ready")
    /\ OnlyTasks

\* Nodes between the task that wrote the data and the one that checks it.
CheckDistance == [writecheck |-> 2, readcheck |-> 3]
RereadDistance == 4

LeaveGate(r) ==
    /\ Leaving(r, "gate")
    /\ LET d == CheckDistance[st[r].phase]
           o == IF test.reorderTasks THEN (d * test.tasksPerNode) % N
                ELSE st[r].rankOffset
           rec == Named(r, [st[r] EXCEPT !.rankOffset = o])
       IN  Go(r, rec, IF st[r].phase = "writecheck" THEN "open" ELSE "ready")
    /\ OnlyTasks

-----------------------------------------------------------------------------
(* Opening                                                                  *)

\* With Lustre striping the first task creates a shared file on its own; the
\* others open it after a barrier.
Striping(r) == st[r].phase = "write" /\ test.lustre_set_striping /\ ~test.filePerProc

LeaveReady(r) ==
    /\ Leaving(r, "ready")
    /\ Go(r, st[r], IF Striping(r) /\ r # 0 THEN "striped" ELSE "open")
    /\ OnlyTasks

Opened(r, inode, inodeCheck) ==
    [st[r] EXCEPT !.fd = inode, !.fdCheck = inodeCheck,
                  !.pairCnt = 0, !.moved = 0, !.errors = 0]
BarrierAround == test.intraTestBarriers
WriteOrRead == IF test.randomOffset THEN "deal" ELSE "xfer"
BeginXfer(r) == IF BarrierAround /\ st[r].phase \in {"write", "read"} THEN "opened"
                ELSE WriteOrRead

AfterCreateAlone(r) == BeginXfer(r)   \* slip: the creator skips the barrier
AfterCreate(r) == IF Striping(r) /\ r = 0 THEN "striped" ELSE BeginXfer(r)

\* POSIX_Create: O_CREAT, or O_CREAT|O_EXCL when striping is to be set.
CreateFile(r) ==
    /\ At(r, "open") /\ st[r].phase = "write"
    /\ LET there == st[r].name \in DOMAIN dir
           creator == ~Striping(r) \/ r = 0
           inode == IF there THEN dir[st[r].name] ELSE Len(disk) + 1
       IN  IF creator = there /\ test.lustre_set_striping
           THEN Abort
           ELSE /\ dir' = [n \in DOMAIN dir \cup {st[r].name} |->
                             IF n = st[r].name THEN inode ELSE dir[n]]
                /\ disk' = IF there THEN disk ELSE Append(disk, EmptyFile)
                /\ Go(r, Opened(r, inode, 0),
                      AfterCreate(r))
                /\ UNCHANGED <<test, wire, found, faults, aborted>>

LeaveStriped(r) ==
    /\ Leaving(r, "striped")
    /\ Go(r, st[r], IF r = 0 THEN BeginXfer(r) ELSE "open")
    /\ OnlyTasks

\* The file that READCHECK compares with, when every task has its own.
ComparisonName(r) ==
    FileName(r, IF test.reorderTasks THEN (RereadDistance * test.tasksPerNode) % N
                ELSE st[r].rankOffset,
             st[r].rep)

\* POSIX_Open: the file must be there.
OpenFile(r) ==
    /\ At(r, "open") /\ st[r].phase # "write"
    /\ LET compared == st[r].phase = "readcheck" /\ test.filePerProc
           names == {st[r].name} \cup (IF compared THEN {ComparisonName(r)} ELSE {})
       IN  IF names \subseteq DOMAIN dir
           THEN /\ Go(r, Opened(r, dir[st[r].name],
                                IF compared THEN dir[ComparisonName(r)] ELSE 0),
                      BeginXfer(r))
                /\ OnlyTasks
           ELSE Abort

-----------------------------------------------------------------------------
(* Random offsets                                                           *)

Pretend(r) == PretendRank(r, st[r].rankOffset)

NewSeed(r) == st[r].rng     \* slip: the write check draws a seed of its own
\* Writing and reading draw a seed; the write check uses that of the writing.
SeedOf(r) == IF st[r].phase = "writecheck" THEN st[r].randomSeed ELSE st[r].rng

\* GetOffsetArrayRandom: every task deals all offsets of a shared file and keeps its
\* own; the first task then broadcasts a new seed (SeedRandGen).
GetOffsetArrayRandom(r) ==
    /\ At(r, "deal")
    /\ LET deal == SeedOf(r)
           mine == IF test.filePerProc THEN FileOffsets
                   ELSE {o \in FileOffsets : deal[o] = Pretend(r)}
       IN  Go(r, [st[r] EXCEPT !.randomSeed = deal, !.todo = mine], "seed")
    /\ \E seed \in IF r = 0 THEN test.seeds ELSE {wire.seed} : wire' = [wire EXCEPT !.seed = seed]
    /\ UNCHANGED <<test, dir, disk, found, faults, aborted>>

SeedRandGen(r) ==
    /\ Leaving(r, "seed")
    /\ Go(r, [st[r] EXCEPT !.rng = wire.seed], "xfer")
    /\ OnlyTasks

-----------------------------------------------------------------------------
(* Moving data: the loop of WriteOrRead                                     *)

Offset(r) == OffsetOf(Pretend(r), st[r].pairCnt)
\* The next offset: after shuffling, any of a task's random ones.
Offsets(r) == IF test.randomOffset THEN st[r].todo
              ELSE IF st[r].pairCnt < XfersPerTask THEN {Offset(r)} ELSE {}
MoreXfers(r) == Offsets(r) # {}
\* With storeFileOffset the buffer is filled anew for every transfer.
Filled(r) == IF test.storeFileOffset THEN Fill(Pretend(r), st[r].stamp, Offset(r))
             ELSE st[r].buffer
\* read() returns 0 at the end of the file.
Readable(inode, off) == off < FileSize(inode)

Moved(rec, off) == [rec EXCEPT !.pairCnt = @ + 1, !.moved = @ + 1, !.todo = @ \ {off}]

WriteXfer(r) ==
    /\ At(r, "xfer") /\ st[r].phase = "write"
    /\ \E off \in Offsets(r) :
           /\ disk' = [disk EXCEPT ![st[r].fd][off] = Filled(r)]
           /\ Go(r, Moved([st[r] EXCEPT !.buffer = Filled(r)], off), "xfer")
    /\ UNCHANGED <<test, dir, wire, found, faults, aborted>>

\* The data lands in the very buffer that holds the pattern to be written.
ReadXfer(r) ==
    /\ At(r, "xfer") /\ st[r].phase = "read"
    /\ \E off \in Offsets(r) :
         IF Readable(st[r].fd, off)
         THEN /\ Go(r, Moved([st[r] EXCEPT !.buffer = disk[st[r].fd][off]], off), "xfer")
              /\ OnlyTasks
         ELSE Abort

\* CompareBuffers: quitOnError stops at the first mismatch.
Compared(r, rec, off, expected, actual) ==
    IF expected = actual
    THEN Go(r, Moved(rec, off), "xfer") /\ UNCHANGED <<found, aborted>>
    ELSE /\ found' = found + 1
         /\ Go(r, Moved([rec EXCEPT !.errors = @ + 1], off), "xfer")
         /\ aborted' = test.quitOnError

WriteCheckXfer(r) ==
    /\ At(r, "xfer") /\ st[r].phase = "writecheck"
    /\ \E off \in Offsets(r) :
         IF Readable(st[r].fd, off)
         THEN LET rec == [st[r] EXCEPT !.buffer = Filled(r),
                                       !.checkBuffer = disk[st[r].fd][off]]
              IN  /\ Compared(r, rec, off, rec.buffer, rec.checkBuffer)
                  /\ UNCHANGED <<test, dir, disk, wire, faults>>
         ELSE Abort

\* ReadCheck: read, barrier, read again where the neighbour's data is, barrier,
\* pass the second buffer on, barrier, compare.
ReadCheckXfer(r) ==
    /\ At(r, "xfer") /\ st[r].phase = "readcheck" /\ MoreXfers(r)
    /\ IF Readable(st[r].fd, Offset(r))
         THEN /\ Go(r, [st[r] EXCEPT !.buffer = disk[st[r].fd][Offset(r)]], "rc1")
              /\ OnlyTasks
         ELSE Abort

Reread(r) ==
    /\ Leaving(r, "rc1")
    /\ LET inode == IF test.filePerProc THEN st[r].fdCheck ELSE st[r].fd
           off == RereadOffset(Offset(r))
       IN  IF Readable(inode, off)
           THEN /\ Go(r, [st[r] EXCEPT !.checkBuffer = disk[inode][off]], "rc2")
                /\ OnlyTasks
           ELSE Abort

\* What MPI_Sendrecv delivered between the last two barriers is the sender's
\* checkBuffer, which it does not touch again before the next rc1.
CompareReads(r) ==
    /\ Leaving(r, "rc3")
    /\ Compared(r, st[r], Offset(r), st[r].buffer, st[ReadCheckFrom(r)].checkBuffer)
    /\ UNCHANGED <<test, dir, disk, wire, faults>>

AfterCount(r) == IF BarrierAround /\ st[r].phase \in {"write", "read"} THEN "xfered"
                 ELSE "close"

\* The loop ends at the last offset, or when the stonewall is hit.
EndXfer(r) ==
    /\ At(r, "xfer")
    /\ ~MoreXfers(r) \/ test.deadlineForStonewalling
    /\ Go(r, st[r], IF test.checkWrite \/ test.checkRead THEN "cntR" ELSE AfterCount(r))
    /\ OnlyTasks

\* What MPI_Reduce sums up.
AllErrors == LET errors == [s \in Members |-> st[s].errors]
             IN  MapThenSumSet(LAMBDA s : errors[s], Members)

\* CountErrors: the sum is formed at rank 0 and broadcast.
ReduceErrors(r) ==
    /\ Leaving(r, "cntR")
    /\ wire' = IF r = 0 THEN [wire EXCEPT !.sum = AllErrors] ELSE wire
    /\ Go(r, st[r], "cntB")
    /\ UNCHANGED <<test, dir, disk, found, faults, aborted>>

AddErrorsAtRoot(r, allErrors) ==   \* slip: no broadcast after the reduction
    IF r = 0 THEN st[r].totalErrorCount + allErrors ELSE st[r].totalErrorCount
\* CountErrors adds the sum to the task's total, and WriteOrRead adds what
\* CountErrors returns.
AddErrors(r, allErrors) == st[r].totalErrorCount + allErrors + allErrors
NotesError(r, allErrors) == allErrors # 0

GotErrors(r) ==
    /\ Leaving(r, "cntB")
    /\ Go(r, [st[r] EXCEPT !.totalErrorCount = AddErrors(r, wire.sum),
                           !.errorFound = @ \/ NotesError(r, wire.sum)],
          AfterCount(r))
    /\ OnlyTasks

-----------------------------------------------------------------------------
(* Closing, sizes, end of the repetition                                    *)

AfterCloseAlone == [write |-> "stat", read |-> "stat",    \* slip: no barrier
                    writecheck |-> "phase", readcheck |-> "phase"]

\* Only the write phase waits for everybody before it looks at the file size.
AfterClose == [write |-> "closed", read |-> "stat",
               writecheck |-> "phase", readcheck |-> "phase"]

CloseFile(r) ==
    /\ At(r, "close")
    /\ LET rec == [st[r] EXCEPT !.fd = 0, !.fdCheck = 0]
       IN  Go(r, CASE rec.phase = "writecheck" -> NextPhase([rec EXCEPT !.rankOffset = 0])
                   [] rec.phase = "readcheck"  -> NextPhase(rec)
                   [] OTHER -> rec,
              AfterClose[rec.phase])
    /\ OnlyTasks

\* POSIX_GetFileSize, up to its allreduce.
StatFile(r) ==
    /\ At(r, "stat")
    /\ IF st[r].name \in DOMAIN dir
         THEN /\ Go(r, [st[r] EXCEPT !.statSize = FileSize(dir[st[r].name])], "size")
              /\ OnlyTasks
         ELSE Abort

LeaveTimes(r) ==
    /\ Leaving(r, "times")
    /\ Go(r, NextPhase(st[r]), "phase")
    /\ OnlyTasks

\* Collectives that only synchronise or only collect times.
Onward == [hist |-> "ready", opened |-> WriteOrRead, rc2 |-> "rc3", xfered |-> "close",
           closed |-> "stat", size |-> "times", commFree |-> "world",
           world |-> "done"]

PassOn(r) ==
    \E label \in DOMAIN Onward :
        Leaving(r, label) /\ Go(r, st[r], Onward[label]) /\ OnlyTasks

KeepsIfTold(r) == test.keepFile      \* slip: errors do not count
Keeps(r) == test.keepFile \/ (st[r].errorFound /\ test.keepFileWithError)

FinishRep(r) ==
    /\ At(r, "phase") /\ st[r].phase = "finish"
    /\ Go(r, st[r], IF Keeps(r) THEN "repEnd" ELSE "delete")
    /\ OnlyTasks

DeleteFile(r) ==
    /\ Leaving(r, "delete")
    /\ dir' = RemoveFile(r, st[r])
    /\ Go(r, st[r], "repEnd")
    /\ UNCHANGED <<test, disk, wire, found, faults, aborted>>

EndRep(r) ==
    /\ Leaving(r, "repEnd")
    /\ Go(r, [st[r] EXCEPT !.errorFound = FALSE, !.rankOffset = 0, !.rep = @ + 1], "rep")
    /\ OnlyTasks

\* The storage spoils a transfer of a file that has a name.
CorruptData ==
    /\ ~aborted /\ faults > 0
    /\ \E n \in DOMAIN dir, o \in FileOffsets :
         /\ disk[dir[n]][o] # Hole
         /\ disk' = [disk EXCEPT ![dir[n]][o] = Corrupt]
    /\ faults' = faults - 1
    /\ UNCHANGED <<test, st, calls, dir, wire, found, aborted>>

Step(r) ==
    \/ PassOn(r)
    \/ BeginRep(r) \/ GotStamp(r) \/ SkipPhase(r)
    \/ StartWrite(r) \/ StartCheck(r) \/ StartRead(r) \/ LeaveGate(r)
    \/ LeaveReady(r) \/ CreateFile(r) \/ LeaveStriped(r) \/ OpenFile(r)
    \/ GetOffsetArrayRandom(r) \/ SeedRandGen(r)
    \/ WriteXfer(r) \/ ReadXfer(r) \/ WriteCheckXfer(r)
    \/ ReadCheckXfer(r) \/ Reread(r) \/ CompareReads(r)
    \/ EndXfer(r) \/ ReduceErrors(r) \/ GotErrors(r)
    \/ CloseFile(r) \/ StatFile(r) \/ LeaveTimes(r)
    \/ FinishRep(r) \/ DeleteFile(r) \/ EndRep(r)

Next == CorruptData \/ \E r \in World : Step(r)

Spec == Init /\ [][Next]_vars
\* Every task is a running process and MPI makes progress.
FairSpec == Spec /\ \A r \in World : WF_vars(Step(r))

-----------------------------------------------------------------------------
(* What makes the protocol correct                                          *)

(* The tasks of a communicator make the same collective calls in the same   *)
(* order, so no call is ever matched with a different one.                  *)
CollectivesMatch ==
    \A c \in {"test", "world"} : \A r, s \in Group(c) :
        \A n \in 1 .. Len(calls[c][r]) :
            n <= Len(calls[c][s]) => calls[c][r][n] = calls[c][s][n]

(* On storage that keeps what it is given the data checks never report an   *)
(* error, whichever task reads whose data back and whatever was left in the *)
(* buffers by earlier phases.                                               *)
NoFalseErrors == ~test.faultyStorage => found = 0

(* No task ever finds a file missing that it is about to open or stat, none *)
(* meets an existing file it must create, and none reads past the end.      *)
NeverAborts == test.quitOnError \/ ~aborted

(* When a task looks at the size of a file it has just written, the file is *)
(* complete, whichever tasks write it and in whatever order: every transfer *)
(* carries the signature of the task whose transfer it is, and the bytes    *)
(* moved add up to the size, so that neither "WARNING: Expected aggregate   *)
(* file size" nor "inconsistent file size by different tasks" can appear.   *)
(* With random offsets a task writes what it last read from the second      *)
(* repetition on; until then the owner is whom the offset was dealt to.     *)
Owner(r, o) == IF test.filePerProc THEN st[r].name[1]
               ELSE IF test.randomOffset THEN st[r].randomSeed[o]
               ELSE (o \div test.xfersPerBlock) % N
WrittenByOwner ==
    ~test.deadlineForStonewalling =>
        \A r \in Members :
            /\ ~aborted /\ st[r].pc = "size" => st[r].statSize = FileXfers
            /\ ~aborted /\ st[r].pc = "times" =>
                  MapThenSumSet(LAMBDA s : st[s].moved, Members) = N * XfersPerTask
            /\ ~test.faultyStorage /\ st[r].phase = "write" /\ st[r].pc \in {"stat", "size"} =>
                  \A o \in FileOffsets :
                      LET cell == disk[dir[st[r].name]][o]
                      IN  cell # Hole /\ ((test.randomOffset /\ st[r].rep > 0) \/ cell.task = Owner(r, o))

(* The checks miss nothing that is wrong: a mismatch any task has seen is   *)
(* known to all of them when the test is over.                              *)
ErrorsReachAll ==
    \A r \in Members :
        st[r].pc = "done" => (st[r].totalErrorCount > 0 <=> found > 0)

(* A file is never unlinked while a task has it open, nor, with             *)
(* keepFileWithError, when an error was found in it.                        *)
RemovalsAreSafe ==
    [][\A n \in DOMAIN dir \ DOMAIN dir' :
          /\ \A r \in Members : dir[n] \notin {st[r].fd, st[r].fdCheck}
          /\ test.keepFileWithError =>
                \A o \in FileOffsets : disk[dir[n]][o] # Corrupt \/ found = 0]_vars

(* Every test comes to an end, the tasks outside testComm included, and one *)
(* that is not told to keep its files leaves none behind.                   *)
Terminates ==
    <>(aborted \/ /\ \A r \in World : st[r].pc = "done"
                  /\ ~test.keepFile /\ ~test.keepFileWithError => dir = <<>>)

=============================================================================
