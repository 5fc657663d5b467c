---------------------------- MODULE HaccCheckpoint ----------------------------
(***************************************************************************)
(* The checkpoints of HACC-IO: RestartIO_GLEAN of                          *)
(* hacc-io/restartio_glean.cc as hacc-io/testhacc_io.cc drives it.  Jobs   *)
(* run one after the other on the same path, each writing a checkpoint,    *)
(* reading one or both, and a job may be killed at any moment.             *)
(*                                                                         *)
(* All ranks of a job run the same straight program; pc[r] is the step     *)
(* rank r is in.  A step that is a collective may be left when the ranks   *)
(* it depends on have entered it.  What follows the header of a file is    *)
(* counted in cells of 2 bytes; a cell holds the job, rank, variable and   *)
(* place it was written from.  The POSIX interface is modelled, its short  *)
(* calls folded into one (PosixXfer takes such a loop apart); MPI-IO makes *)
(* the same accesses in the same order.                                    *)
(***************************************************************************)
EXTENDS Integers, Sequences, FiniteSets, FiniteSetsExt

CONSTANTS
    Record,        \* the arrays of a particle, by sizeof in cells: in the code seven
                   \* floats, the particle id and the mask, <<2,2,2,2,2,2,2,4,1>>
    Plans,         \* sequences of jobs that run one after the other on a path, a job
                   \* being [kind, ranks, particles, perRank]
    MetaWords      \* HEADER_METAINFO_SIZE

ASSUME JobsAssumption ==
    \A p \in Plans :
        /\ Len(p) > 0
        /\ p \in Seq([kind : {"write", "read", "both"}, ranks : Nat \ {0},
                      particles : Nat \ {0}, perRank : BOOLEAN])
ASSUME RecordAssumption == Record \in Seq({1, 2, 4}) /\ Len(Record) > 0
ASSUME HeaderAssumption == MetaWords \in Nat

VARIABLES
    plan,     \* the jobs of this history
    number,   \* how many of them have been started
    status,   \* running, ended, killed or aborted
    pc,       \* per rank: index into Program
    base,     \* per rank: scan_size, the records of the ranks before it
    count,    \* per rank: m_localParticles
    memory,   \* per rank: the arrays it has read, one sequence of cells each
    files,    \* name -> [exists, header, data]
    sound     \* name -> the job whose Close has returned on some rank; 0 before
              \* and as soon as the file is opened for another one (history)

vars == <<plan, number, status, pc, base, count, memory, files, sound>>

-----------------------------------------------------------------------------
(* Partitions, variables and the places of their values                     *)

job == plan[number]
Ranks == 0 .. job.ranks - 1
\* m_partitionComm: all ranks, or one each with HACC_IO_FILE_PER_PROCESS.
Partition(r) == IF job.perRank THEN {r} ELSE Ranks
PartitionSize == IF job.perRank THEN 1 ELSE job.ranks
PartitionRank(r) == IF job.perRank THEN 0 ELSE r
IsRoot(r) == PartitionRank(r) = 0
\* m_partFileName: "-Part<id>-of-<partitions>"
FileOf(j, r) == IF j.perRank THEN <<r, j.ranks>> ELSE <<0, 1>>
FileName(r) == FileOf(job, r)
Names == UNION {{FileOf(plan[i], r) : r \in 0 .. plan[i].ranks - 1} : i \in DOMAIN plan}

Arrays == DOMAIN Record
CellsBefore(k) == MapThenSumSet(LAMBDA i : Record[i], 1 .. k - 1)
RecordCells == CellsBefore(Len(Record) + 1)

PlaceUnscaled(r, k, n) ==      \* slip: records taken for cells
    base[r] + n * CellsBefore(k)
\* pos_offst: where the n values of the k-th variable of rank r start.
PlaceOf(r, k, n) == base[r] * RecordCells + n * CellsBefore(k)

Value(j, r, k, c) == [job |-> j, rank |-> r, var |-> k, cell |-> c]
Hole == Value(0, 0, 0, 0)            \* preallocated, never written
Garbage == Value(0, 0, 0, -1)        \* an array element read() never reached

\* The 16 bits testhacc_io has put into a cell: element i of a float array and of
\* the ids holds i, every element of the mask the rank.
Bits(x) ==
    IF x = Garbage THEN -1
    ELSE IF x = Hole THEN 0
    ELSE LET i == x.cell \div Record[x.var]
             part == x.cell % Record[x.var]
         IN  CASE Record[x.var] = 1 -> x.rank
               [] Record[x.var] = 4 -> IF part = 0 THEN i ELSE 0
               [] OTHER -> IF part = 1 /\ i > 0 THEN 16256 + i ELSE 0

\* The two tables of m_header: particles per rank, then global ranks, after
\* MetaWords words.  All words are 0 until a job has written a header.
NoHeader == [job |-> 0, ranks |-> 0, particles |-> 0, first |-> 0]
HeaderWord(h, i) ==
    IF i \in MetaWords .. MetaWords + h.ranks - 1 THEN h.particles
    ELSE IF i \in MetaWords + h.ranks .. MetaWords + 2 * h.ranks - 1
         THEN h.first + i - MetaWords - h.ranks
    ELSE 0

NoFile == [exists |-> FALSE, header |-> NoHeader, data |-> <<>>]

-----------------------------------------------------------------------------
(* The program of a rank                                                    *)

WriteSteps == <<"sums", "create", "truncate", "created", "opened", "scan">>
              \o [k \in Arrays |-> "write"] \o <<"header", "written", "closed", "stats">>
ReadSteps == <<"read header", "header read", "scatter", "restart opened", "compare", "scan">>
             \o [k \in Arrays |-> "read"] \o <<"restart closed", "stats">>
Program == (IF job.kind = "read" THEN <<>> ELSE WriteSteps)
           \o (IF job.kind = "write" THEN <<>> ELSE ReadSteps)
           \o (IF job.kind = "both" THEN <<"verify", "end">> ELSE <<>>)
           \o <<"done">>
\* Where the variables are written, or read, one step each.
VarsFrom(s) ==
    CHOOSE i \in DOMAIN Program : Program[i] = s /\ \A j \in 1 .. i - 1 : Program[j] # s

Step(r) == Program[pc[r]]
At(r, s) == status = "running" /\ r \in Ranks /\ Step(r) = s
Go(r) == pc' = [pc EXCEPT ![r] = @ + 1]
Variable(r) == pc[r] - VarsFrom(Step(r)) + 1
\* Every rank of R has entered the collective r is in.
Entered(r, R) == \A q \in R : pc[q] >= pc[r]
Below(r) == {q \in Partition(r) : q < r}

Per(j, x) == [r \in 0 .. j.ranks - 1 |-> x]
Start(j) ==
    /\ status' = "running"
    /\ pc' = Per(j, 1) /\ base' = Per(j, 0)
    /\ count' = Per(j, IF j.kind = "read" THEN -1 ELSE j.particles)
    /\ memory' = Per(j, <<>>)

Init ==
    /\ plan \in Plans /\ number = 1 /\ status = "running"
    /\ pc = Per(job, 1) /\ base = Per(job, 0)
    /\ count = Per(job, IF job.kind = "read" THEN -1 ELSE job.particles)
    /\ memory = Per(job, <<>>)
    /\ files = [f \in Names |-> NoFile]
    /\ sound = [f \in Names |-> 0]

local == <<base, count, memory>>
fixed == <<plan, number>>

\* A barrier or an allreduce: local, with nothing but waiting.
Pass(r, s, R) ==
    /\ At(r, s) /\ Entered(r, R)
    /\ Go(r)
    /\ UNCHANGED <<fixed, status, local, files>>

-----------------------------------------------------------------------------
(* CreateCheckpoint                                                         *)

Sums(r) == Pass(r, "sums", Ranks) /\ UNCHANGED sound

\* open(O_CREAT | O_WRONLY), by the root of the partition: no O_TRUNC, what the
\* file already holds stays.
Create(r) ==
    /\ At(r, "create")
    /\ IF IsRoot(r)
         THEN /\ files' = [files EXCEPT ![FileName(r)].exists = TRUE]
              /\ sound' = [sound EXCEPT ![FileName(r)] = 0]
         ELSE UNCHANGED <<files, sound>>
    /\ Go(r) /\ UNCHANGED <<fixed, status, local>>

FileCells == PartitionSize * job.particles * RecordCells
Resized(data, n) == [c \in 1 .. n |-> IF c <= Len(data) THEN data[c] ELSE Hole]

\* ftruncate to m_partFileSize
Truncate(r) ==
    /\ At(r, "truncate")
    /\ files' = IF IsRoot(r)
                  THEN [files EXCEPT ![FileName(r)].data = Resized(@, FileCells)]
                  ELSE files
    /\ Go(r) /\ UNCHANGED <<fixed, status, local, sound>>

\* The barrier after the root has created the file, and the open that follows.
Created(r) == Pass(r, "created", Partition(r)) /\ UNCHANGED sound
Opened(r) == Pass(r, "opened", Partition(r)) /\ UNCHANGED sound

-----------------------------------------------------------------------------
(* Write and Close                                                          *)

\* MPI_Exscan of m_localParticles, which is the same on every rank.
Exscan(r) == Cardinality(Below(r)) * count[r]

Scan(r) ==
    /\ At(r, "scan") /\ Entered(r, Below(r))
    /\ base' = [base EXCEPT ![r] = Exscan(r)]
    /\ Go(r) /\ UNCHANGED <<fixed, status, count, memory, files, sound>>

\* cells of rank r's current variable that are in the file after the first n.
Written(r, n) ==
    LET k == Variable(r)
        from == PlaceOf(r, k, count[r])
        data == files[FileName(r)].data
        last == IF from + n > Len(data) THEN from + n ELSE Len(data)
    IN  [c \in 1 .. last |->
            IF c - 1 \in from .. from + n - 1 THEN Value(number, r, k, c - 1 - from)
            ELSE IF c <= Len(data) THEN data[c] ELSE Hole]

WriteVar(r) ==
    /\ At(r, "write")
    /\ files' = [files EXCEPT ![FileName(r)].data =
                    Written(r, count[r] * Record[Variable(r)])]
    /\ Go(r) /\ UNCHANGED <<fixed, status, local, sound>>

\* Only the root writes the header, and only now.
WriteHeader(r) ==
    /\ At(r, "header")
    /\ files' = IF IsRoot(r)
                  THEN [files EXCEPT ![FileName(r)].header =
                          [job |-> number, ranks |-> PartitionSize,
                           particles |-> job.particles, first |-> r]]
                  ELSE files
    /\ Go(r) /\ UNCHANGED <<fixed, status, local, sound>>

WaitersNone(r) == {r}                  \* slip: no barrier before the close
\* Whom a rank waits for before and after it closes the file.
Waiters(r) == Partition(r)

HeaderWritten(r) == Pass(r, "written", Waiters(r)) /\ UNCHANGED sound
Closed(r) ==
    /\ Pass(r, "closed", Waiters(r))
    /\ sound' = [sound EXCEPT ![FileName(r)] = number]
\* The reductions at the end of Close: only rank 0 waits.  m_localParticles is
\* reset.
Stats(r) ==
    /\ At(r, "stats") /\ (r = 0 => Entered(r, Ranks))
    /\ count' = [count EXCEPT ![r] = -1]
    /\ Go(r) /\ UNCHANGED <<fixed, status, base, memory, files, sound>>

-----------------------------------------------------------------------------
(* OpenRestart, Read and the comparison in testhacc_io                      *)

Abort ==
    /\ status' = "aborted"
    /\ UNCHANGED <<fixed, pc, local, files, sound>>

\* The root opens the file, or asserts, and reads the header.
ReadHeader(r) ==
    /\ At(r, "read header")
    /\ IF IsRoot(r) /\ ~files[FileName(r)].exists
         THEN Abort
         ELSE Go(r) /\ UNCHANGED <<fixed, status, local, files, sound>>

HeaderRead(r) == Pass(r, "header read", Partition(r)) /\ UNCHANGED sound

Header(r) == files[FileName(r)].header
RankWordFixed(r) ==     \* slip: the table of ranks found by the writer's size
    HeaderWord(Header(r), MetaWords + Header(r).ranks + PartitionRank(r))
\* The words the two scatters deal out, by the reader's own partition size.
CountWord(r) == HeaderWord(Header(r), MetaWords + PartitionRank(r))
RankWord(r) == HeaderWord(Header(r), MetaWords + PartitionSize + PartitionRank(r))

\* The scatters, and the assertion that a rank reads what the same rank wrote.
Scatter(r) ==
    /\ At(r, "scatter")
    /\ Entered(r, {q \in Partition(r) : IsRoot(q)})
    /\ IF RankWord(r) # r
         THEN Abort
         ELSE /\ count' = [count EXCEPT ![r] = CountWord(r)]
              /\ Go(r)
              /\ UNCHANGED <<fixed, status, base, memory, files, sound>>

RestartOpened(r) == Pass(r, "restart opened", Partition(r)) /\ UNCHANGED sound

CompareCountsReturn(r) ==      \* slip: the rank leaves without an abort
    /\ At(r, "compare") /\ count[r] = job.particles
    /\ Go(r) /\ UNCHANGED <<fixed, status, local, files, sound>>
\* testhacc_io: "Particles Counts Do NOT MATCH"
CompareCounts(r) ==
    /\ At(r, "compare")
    /\ IF count[r] # job.particles
         THEN Abort
         ELSE Go(r) /\ UNCHANGED <<fixed, status, local, files, sound>>

\* The k-th array of rank r as it is read back.
Fetch(r, k) ==
    LET from == PlaceOf(r, k, count[r])
        data == files[FileName(r)].data
    IN  [c \in 1 .. count[r] * Record[k] |->
            IF from + c <= Len(data) THEN data[from + c] ELSE Garbage]

ReadVar(r) ==
    /\ At(r, "read")
    /\ memory' = [memory EXCEPT ![r] = Append(@, Fetch(r, Variable(r)))]
    /\ Go(r)
    /\ UNCHANGED <<fixed, status, base, count, files, sound>>

RestartClosed(r) == Pass(r, "restart closed", Partition(r)) /\ UNCHANGED sound

\* testhacc_io compares what it has read with what it had written.
Matches(r) ==
    \A k \in Arrays : \A c \in DOMAIN memory[r][k] :
        Bits(memory[r][k][c]) = Bits(Value(number, r, k, c - 1))
Verify(r) ==
    /\ At(r, "verify")
    /\ IF Matches(r)
         THEN Go(r) /\ UNCHANGED <<fixed, status, local, files, sound>>
         ELSE Abort
End(r) == Pass(r, "end", Ranks) /\ UNCHANGED sound

-----------------------------------------------------------------------------
(* Jobs                                                                     *)

EndJob ==
    /\ status = "running" /\ \A r \in Ranks : Step(r) = "done"
    /\ status' = "ended"
    /\ UNCHANGED <<fixed, pc, local, files, sound>>

\* The job is killed.  A rank may be in the middle of a write.
Kill ==
    /\ status = "running"
    /\ status' = "killed"
    /\ \/ UNCHANGED files
       \/ \E r \in Ranks :
            /\ Step(r) = "write"
            /\ \E n \in 1 .. count[r] * Record[Variable(r)] - 1 :
                  files' = [files EXCEPT ![FileName(r)].data = Written(r, n)]
    /\ UNCHANGED <<fixed, pc, local, sound>>

NextJob ==
    /\ status # "running" /\ number < Len(plan)
    /\ Start(plan[number + 1])
    /\ number' = number + 1
    /\ UNCHANGED <<plan, files, sound>>

RankStep(r) ==
    \/ Sums(r) \/ Create(r) \/ Truncate(r) \/ Created(r) \/ Opened(r)
    \/ Scan(r) \/ WriteVar(r) \/ WriteHeader(r) \/ HeaderWritten(r)
    \/ Closed(r) \/ Stats(r)
    \/ ReadHeader(r) \/ HeaderRead(r) \/ Scatter(r) \/ RestartOpened(r)
    \/ CompareCounts(r) \/ ReadVar(r) \/ RestartClosed(r) \/ Verify(r) \/ End(r)

Next == EndJob \/ Kill \/ NextJob \/ \E r \in Ranks : RankStep(r)

Spec == Init /\ [][Next]_vars
\* Ranks are sequential programs: one that can take its next step takes it.
AnyRank == UNION {UNION {0 .. p[i].ranks - 1 : i \in DOMAIN p} : p \in Plans}
FairSpec ==
    /\ Spec /\ WF_vars(EndJob)
    /\ \A r \in AnyRank : WF_vars(r \in Ranks /\ RankStep(r))

-----------------------------------------------------------------------------
\* Every array of every rank of the last job that closed f is in its place.
HoldsAll(f) ==
    LET j == plan[sound[f]]
        writers == {r \in 0 .. j.ranks - 1 : FileOf(j, r) = f}
        start(r) == (IF j.perRank THEN 0 ELSE r) * j.particles * RecordCells
    IN  \A r \in writers : \A k \in Arrays : \A c \in 0 .. j.particles * Record[k] - 1 :
            LET i == start(r) + j.particles * CellsBefore(k) + c + 1
            IN  i <= Len(files[f].data) /\ files[f].data[i] = Value(sound[f], r, k, c)

(* As soon as Close has returned on any rank, the whole checkpoint is in the *)
(* file: the header of this job and all arrays of every rank of the          *)
(* partition.  Close writes the header before the slower ranks have written  *)
(* their data; only the barriers around close() make it mean something.      *)
CompleteWhenClosed ==
    \A f \in Names :
        sound[f] > 0 => files[f].header.job = sound[f] /\ HoldsAll(f)

SameShapes ==
    \A i, j \in DOMAIN plan :
        /\ plan[i].ranks = plan[j].ranks /\ plan[i].particles = plan[j].particles
        /\ plan[i].perRank = plan[j].perRank

(* A restart from a checkpoint that was closed gives every rank exactly what *)
(* that rank wrote, array by array, in the same or in a later job, whether   *)
(* ranks share one file or have one each; a job that writes and reads back   *)
(* never gives up on its own data (no assertion fails); and when all jobs of *)
(* a plan have the same shape, an overwrite that was killed leaves a mixture *)
(* of old and new particles and of holes, but never one particle in the      *)
(* place of another.                                                         *)
RestartIsExact ==
    /\ job.kind = "both" => status # "aborted"
    /\ \A r \in Ranks : Step(r) = "restart closed" =>
        /\ sound[FileName(r)] > 0 =>
              \A k \in Arrays : \A c \in 1 .. job.particles * Record[k] :
                  memory[r][k][c] = Value(sound[FileName(r)], r, k, c - 1)
        /\ SameShapes =>
              \A k \in Arrays : \A c \in DOMAIN memory[r][k] :
                  LET x == memory[r][k][c] IN x = Hole \/ x = Value(x.job, r, k, c - 1)

(* A job whose size or particle count differs from the one that wrote the    *)
(* header, and one that finds no header, never comes to reading data: the    *)
(* header stores the writer's size but OpenRestart does not look at it, and  *)
(* only the check of the rank table, the barrier after it and the caller's   *)
(* comparison of the counts keep the job from taking one rank's particles    *)
(* for another's.                                                            *)
OtherShapesRefused ==
    \A r \in Ranks :
        (status = "running" /\ Step(r) = "read") =>
            /\ Header(r).job > 0
            /\ Header(r).ranks = PartitionSize
            /\ Header(r).particles = job.particles
            /\ Header(r).first = (IF job.perRank THEN r ELSE 0)

(* Every job comes to an end: no rank is left alone in a collective.         *)
JobsEnd == [](status = "running" => <>(status # "running"))

=============================================================================
