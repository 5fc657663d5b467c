------------------------------- MODULE BdCats -------------------------------
(***************************************************************************)
(* BD-CATS-IO (bdcats-io/bdats_h5reader.cpp, dbscan_read.cpp) on the file  *)
(* that VPIC-IO has written: the processes of a job take a slice each of   *)
(* the data sets they were asked for, all of it, its first percent, or a   *)
(* random sample that they pack in place; a program that uses the reader   *)
(* may write its points and their IDs to another file.                     *)
(*                                                                         *)
(* A process is at pc; "metadata", "open", "read", "barrier", "close" and  *)
(* the calls that write are collective.  Arrays are functions from 0.      *)
(* A particle's ID is its place in the data sets.  exit() ends the job.    *)
(***************************************************************************)
EXTENDS VpicIo, FiniteSetsExt

CONSTANTS
    Jobs   \* [mpi_size, mode, percent, sets, stack, back]: how the reader is called
           \* and what is written back; stack is what lies in data_info_array

ASSUME JobsAssumption ==
    \A j \in Jobs :
        /\ j.mpi_size \in Nat \ {0}
        /\ j.mode \in {"random", "top"} /\ j.percent \in 0 .. 100
        /\ j.stack \in {"data", "class", "other"}
        /\ j.sets \in Seq([name : STRING, class : BOOLEAN])
        /\ \A i, k \in DOMAIN j.sets : (j.sets[i].class /\ j.sets[k].class) => i = k

\* What a program writes it has read; a class is written as a class.
ASSUME BackAssumption ==
    \A j \in Jobs :
        /\ j.back \in Seq([op : {"init", "append", "ids", "class", "close"}]
                          \cup [op : {"column"}, column : Nat \ {0}])
        /\ \A c \in DOMAIN j.back :
              /\ j.back[c].op = "class" => \E i \in DOMAIN j.sets : j.sets[i].class
              /\ j.back[c].op = "column" =>
                    IF j.sets = << >> THEN j.back[c].column <= 8
                    ELSE j.back[c].column \in DOMAIN j.sets /\ ~j.sets[j.back[c].column].class

VARIABLES
    job,
    rd,       \* the reading processes
    out,      \* the file written back; .sets: data set -> rows from 0
    aborted   \* a process has called exit or crashed

vars == <<vpic_vars, faults, job, rd, out, aborted>>

Ranks == 0 .. job.mpi_size - 1
Junk == <<"junk", 0, 0>>
NoFile == [there |-> FALSE, sets |-> << >>]

\* H5PartGetDatasetName gives the names in alphabetic order.
AllColumns == <<"id1", "id2", "px", "py", "pz", "x", "y", "z">>
dataset_count == Len(job.sets)
num_dims == IF dataset_count = 0 THEN Len(AllColumns) ELSE dataset_count
Name(i) == IF dataset_count = 0 THEN AllColumns[i] ELSE job.sets[i].name
cls == \E i \in DOMAIN job.sets : job.sets[i].class

\* get_metadata_all_datasets does not set datatype: it is what was in the array.
Datatype(i) == IF dataset_count = 0 THEN job.stack ELSE IF job.sets[i].class THEN "class" ELSE "data"

\* allocate_memory: one array less when there is a class.
Columns == 1 .. IF cls THEN num_dims - 1 ELSE num_dims

Init ==
    /\ InitVpic
    /\ job \in Jobs
    /\ rd = [r \in Ranks |->
                [pc |-> "start", c |-> 0, i |-> 0, global |-> 0, local |-> 0,
                 data |-> [d \in Columns |-> << >>], class |-> << >>, ids |-> << >>,
                 n |-> 0, seen |-> << >>, count |-> 0, location |-> << >>, k |-> 0]]
    /\ out = NoFile
    /\ aborted = FALSE

At(r, pc) == WritersDone /\ ~aborted /\ rd[r].pc = pc
Becomes(r, p) == rd' = [rd EXCEPT ![r] = p] /\ UNCHANGED aborted
Exit == aborted' = TRUE /\ UNCHANGED <<rd, faults>>
Reading == UNCHANGED <<vpic_vars, job, out>>

\* All processes are in the collective call of r, or have left it; c counts those left.
Met(r) == \A q \in Ranks : \/ rd[q].c > rd[r].c
                           \/ rd[q].c = rd[r].c /\ rd[q].pc = rd[r].pc /\ rd[q].i = rd[r].i

Start(r) ==
    /\ At(r, "start")
    /\ Becomes(r, [rd[r] EXCEPT !.pc = "metadata"]) /\ Reading /\ UNCHANGED faults

-----------------------------------------------------------------------------
(* Slices                                                                   *)

Share(r) == rd[r].global \div job.mpi_size

\* Computed twice: for the hyperslab in open_datasets, for the IDs in read_driver.
proc_offset(r) == r * Share(r)
global_offset(r) == Share(r) * r

Percent(points) == (points * job.percent) \div 100

NoRemainder(r) ==   \* slip: the rest of the division is nobody's
    IF job.mode = "random" THEN Share(r) ELSE Percent(Share(r))

\* The last process takes the rest of the division too.
m_num_local_points(r) ==
    LET points == Share(r) + (IF r = job.mpi_size - 1 THEN rd[r].global % job.mpi_size ELSE 0)
    IN  IF job.mode = "random" THEN points ELSE Percent(points)

\* get_metadata_*_datasets.  Without a file all there is are error codes: memory for a
\* negative number of points, or a data set that cannot be opened.
GetMetadata(r) ==
    /\ At(r, "metadata") /\ Met(r)
    /\ \/ /\ file.opened = "yes"
          /\ Becomes(r, [rd[r] EXCEPT !.pc = "open", !.c = @ + 1,
                                      !.global = Cardinality(DOMAIN file.sets[AllColumns[1]])])
          /\ UNCHANGED faults
       \/ file.opened = "no" /\ Exit
       \/ /\ file.opened = "no" /\ dataset_count = 0   \* ... or, per process, no points at all
          /\ Becomes(r, [rd[r] EXCEPT !.pc = "ended", !.c = @ + 1]) /\ UNCHANGED faults
    /\ Reading

\* read_driver up to the first data set; the IDs of a sample come later.
OpenFile_(r) ==
    /\ At(r, "open") /\ Met(r)
    /\ LET local == m_num_local_points(r)
       IN  Becomes(r, [rd[r] EXCEPT !.pc = "read", !.c = @ + 1, !.i = 1, !.local = local,
                            !.ids = IF job.mode = "random" THEN << >>
                                    ELSE [index \in 0 .. local - 1 |-> global_offset(r) + index]])
    /\ Reading /\ UNCHANGED faults

\* The data set lies open at the hyperslab of open_datasets.
Slice(r, i) == [j \in 0 .. rd[r].local - 1 |-> file.sets[Name(i)][proc_offset(r) + j]]
CanRead(r, i) ==
    /\ Name(i) \in DOMAIN file.sets
    /\ proc_offset(r) + rd[r].local <= Cardinality(DOMAIN file.sets[Name(i)])

\* After the last data set: the sample has so many points.
AfterRead(r, p) ==
    IF p.i < num_dims THEN [p EXCEPT !.i = @ + 1]
    ELSE IF job.mode = "top" THEN [p EXCEPT !.pc = "barrier"]
    ELSE LET n == Percent(p.local)
         IN  [p EXCEPT !.pc = IF n = 0 THEN "sort" ELSE "draw", !.n = n,
                       !.seen = [j \in 0 .. n - 1 |-> FALSE],
                       !.location = [j \in 0 .. n - 1 |-> 0],
                       !.ids = [j \in 0 .. n - 1 |-> 0]]

\* m_data has no array for this data set, or nobody has allocated m_class: exit, a crash,
\* or memory overwritten, of which nothing more can be said.
Wild(i) == \/ Datatype(i) = "data" /\ i \notin Columns
           \/ Datatype(i) = "class" /\ ~cls

\* open_datasets and read_segment
ReadSegment(r) ==
    LET i == rd[r].i
        p == [rd[r] EXCEPT !.c = @ + 1]
    IN  /\ At(r, "read") /\ Datatype(i) # "other" /\ Met(r)
        /\ \/ (Wild(i) \/ ~CanRead(r, i)) /\ Exit
           \/ faults > 0 /\ aborted' = TRUE /\ faults' = faults - 1 /\ UNCHANGED rd
           \/ /\ ~Wild(i) /\ CanRead(r, i)
              /\ Becomes(r, AfterRead(r, IF Datatype(i) = "class" THEN [p EXCEPT !.class = Slice(r, i)]
                                         ELSE [p EXCEPT !.data[i] = Slice(r, i)]))
              /\ UNCHANGED faults
        /\ Reading

\* A datatype that is none of the three: m_class may be NULL, and nothing is read.
ReadNothing(r) ==
    LET i == rd[r].i
    IN  /\ At(r, "read") /\ Datatype(i) = "other"
        /\ \/ Exit
           \/ /\ Becomes(r, AfterRead(r, IF i \in Columns
                                         THEN [rd[r] EXCEPT !.data[i] = [j \in 0 .. rd[r].local - 1 |-> Junk]]
                                         ELSE rd[r]))
              /\ UNCHANGED faults
        /\ Reading

-----------------------------------------------------------------------------
(* The sample                                                               *)

ShortDraws(n) == 0 .. n - 2   \* slip: the last number is never drawn

\* rand() % num_random_points
Draws(n) == 0 .. n - 1

\* A number is refused when seen says so; it is the count that is marked as seen.
Draw(r) ==
    LET p == rd[r]
    IN  /\ At(r, "draw")
        /\ \E temp_rand \in Draws(p.n) :
              /\ ~p.seen[temp_rand]
              /\ Becomes(r, [p EXCEPT !.seen[p.count] = TRUE, !.location[p.count] = temp_rand,
                                      !.count = @ + 1,
                                      !.pc = IF p.count + 1 = p.n THEN "sort" ELSE "draw"])
        /\ Reading /\ UNCHANGED faults

qcompare(a, b) == a - b

\* qsort: the same numbers in order.
IsSorting(s, f, n) ==
    /\ \A a, b \in 0 .. n - 1 : a < b => qcompare(s[a], s[b]) <= 0
    /\ \E order \in Bijection(0 .. n - 1, 0 .. n - 1) : \A a \in 0 .. n - 1 : s[a] = f[order[a]]

Sort(r) ==
    LET p == rd[r]
    IN  /\ At(r, "sort")
        /\ \E s \in [0 .. p.n - 1 -> 0 .. p.n - 1] :
              /\ IsSorting(s, p.location, p.n)
              /\ Becomes(r, [p EXCEPT !.location = s, !.pc = "pack"])
        /\ Reading /\ UNCHANGED faults

ClassBehind(r, p) ==   \* slip: the class is not packed
    [p EXCEPT !.ids[p.k] = global_offset(r) + p.location[p.k],
              !.data = [d \in Columns |-> [p.data[d] EXCEPT ![p.k] = p.data[d][p.location[p.k]]]]]

\* One point of the sample moves to the front, in place.
Packed(r, p) ==
    [p EXCEPT !.ids[p.k] = global_offset(r) + p.location[p.k],
              !.data = [d \in Columns |-> [p.data[d] EXCEPT ![p.k] = p.data[d][p.location[p.k]]]],
              !.class = IF cls THEN [p.class EXCEPT ![p.k] = p.class[p.location[p.k]]] ELSE p.class]

Pack(r) ==
    LET p == rd[r]
    IN  /\ At(r, "pack")
        /\ IF p.k < p.n THEN Becomes(r, [Packed(r, p) EXCEPT !.k = @ + 1])
           ELSE Becomes(r, [p EXCEPT !.local = p.n, !.pc = "barrier"])
        /\ Reading /\ UNCHANGED faults

AfterBarrier(r) ==
    /\ At(r, "barrier") /\ Met(r)
    /\ Becomes(r, [rd[r] EXCEPT !.pc = "close", !.c = @ + 1])
    /\ Reading /\ UNCHANGED faults

CloseReader(r) ==
    /\ At(r, "close") /\ Met(r)
    /\ Becomes(r, [rd[r] EXCEPT !.pc = "back", !.c = @ + 1, !.i = 1])
    /\ Reading /\ UNCHANGED faults

-----------------------------------------------------------------------------
(* Writing points back: calls a program makes of the writing functions      *)

Back(r, ops) == At(r, "back") /\ rd[r].i <= Len(job.back) /\ job.back[rd[r].i].op \in ops
Writing == UNCHANGED <<vpic_vars, job>>
NextCall(r) == Becomes(r, [rd[r] EXCEPT !.pc = "back", !.c = @ + 1, !.i = @ + 1])

\* init_h5outfile starts a new file, init_h5outfile_append goes on with the one there is.
init_h5outfile(r) ==
    /\ Back(r, {"init", "append"}) /\ Met(r)
    /\ \/ /\ out' = [there |-> TRUE, sets |-> IF job.back[rd[r].i].op = "init" THEN << >> ELSE out.sets]
          /\ NextCall(r) /\ UNCHANGED faults
       \/ faults > 0 /\ faults' = faults - 1 /\ aborted' = TRUE /\ UNCHANGED <<rd, out>>
    /\ Writing

\* What is written: the IDs, the class or a column.
Source(r) ==
    LET call == job.back[rd[r].i]
    IN  CASE call.op = "ids" -> [k \in 0 .. rd[r].local - 1 |-> <<"id", rd[r].ids[k], 0>>]
          [] call.op = "class" -> rd[r].class
          [] call.op = "column" -> rd[r].data[call.column]
Target(r) ==
    LET call == job.back[rd[r].i]
    IN  CASE call.op = "ids" -> "ids"
          [] call.op = "class" -> Name(num_dims)
          [] call.op = "column" -> Name(call.column)

Rows(S) == LET local == [q \in Ranks |-> rd[q].local] IN MapThenSumSet(LAMBDA q : local[q], S)

AfterOneself(r) == Rows(0 .. r)   \* slip: a process's own rows come before its place

\* H5PartSetNumParticles: a process writes behind those of lower ranks.
FirstRow(r) == Rows(0 .. r - 1)

OutCreated(name) ==
    IF name \in DOMAIN out.sets THEN out.sets
    ELSE [v \in DOMAIN out.sets \cup {name} |->
            IF v = name THEN [k \in 0 .. Rows(Ranks) - 1 |-> Hole] ELSE out.sets[v]]

\* write_dataset_BDATS_gIndex, _lIndex and _decimal: an error is printed and goes unheeded,
\* but for IDs and classes one in setting the step, which ends the job.
write_dataset(r) ==
    /\ Back(r, {"ids", "class", "column"}) /\ Met(r)
    /\ LET name == Target(r)
           created == [out EXCEPT !.sets = OutCreated(name)]
       IN  \/ /\ out' = [created EXCEPT !.sets[name] =
                            [k \in DOMAIN @ |-> IF k \in FirstRow(r) .. FirstRow(r) + rd[r].local - 1
                                                THEN Source(r)[k - FirstRow(r)] ELSE @[k]]]
              /\ UNCHANGED faults
           \/ faults > 0 /\ faults' = faults - 1 /\ out' = created
    /\ Becomes(r, [rd[r] EXCEPT !.pc = "written", !.c = @ + 1])
    /\ Writing

StepRefused(r) ==
    /\ Back(r, {"ids", "class"}) /\ Met(r)
    /\ faults > 0 /\ faults' = faults - 1 /\ aborted' = TRUE
    /\ UNCHANGED <<rd, out>> /\ Writing

AfterWritten(r) ==
    /\ At(r, "written") /\ Met(r)
    /\ NextCall(r) /\ Reading /\ UNCHANGED faults

close_h5outfile(r) ==
    /\ Back(r, {"close"}) /\ Met(r)
    /\ NextCall(r) /\ Reading /\ UNCHANGED faults

Finalize(r) ==
    /\ At(r, "back") /\ rd[r].i > Len(job.back)
    /\ Becomes(r, [rd[r] EXCEPT !.pc = "ended"]) /\ Reading /\ UNCHANGED faults

RankStep(r) ==
    \/ Start(r) \/ GetMetadata(r) \/ OpenFile_(r) \/ ReadSegment(r) \/ ReadNothing(r)
    \/ Draw(r) \/ Sort(r) \/ Pack(r) \/ AfterBarrier(r) \/ CloseReader(r)
    \/ init_h5outfile(r) \/ write_dataset(r) \/ StepRefused(r) \/ AfterWritten(r)
    \/ close_h5outfile(r) \/ Finalize(r)

Next == \/ NextVpic /\ UNCHANGED <<job, rd, out, aborted>>
        \/ \E r \in Ranks : RankStep(r)

\* Processes run on; rand() does not give refused numbers for ever.
Spec == Init /\ [][Next]_vars /\ WF_vars(Next)

-----------------------------------------------------------------------------
(* Properties                                                               *)

\* The records a process has: those packed so far, or all once they are read.
Records(r) ==
    IF job.mode = "random" THEN 0 .. rd[r].k - 1
    ELSE IF rd[r].pc \in {"start", "metadata", "open", "read"} THEN {} ELSE 0 .. rd[r].local - 1
Column(r, i) == IF Datatype(i) = "class" THEN rd[r].class ELSE rd[r].data[i]
Typed == dataset_count > 0 \/ job.stack = "data"

\* Whatever is drawn, and at every moment of the packing in place, a record is the
\* particle that its ID names, in every data set.
RecordsBelong ==
    Typed => \A r \in Ranks : \A k \in Records(r), i \in 1 .. num_dims :
        Column(r, i)[k] = file.sets[Name(i)][rd[r].ids[k]]

\* No particle is in the hands of two processes, and when all is read each is in the hands of one.
Held(r) == {rd[r].ids[k] : k \in Records(r)}
EveryPointOnce ==
    /\ \A r, q \in Ranks : r # q => Held(r) \cap Held(q) = {}
    /\ (job.mode = "top" /\ job.percent = 100 /\ \A r \in Ranks : rd[r].pc = "barrier") =>
           UNION {Held(r) : r \in Ranks} = 0 .. Total - 1

\* The file written back has a row for each record of each process, and a row is one
\* particle in all of its data sets: the one that VPIC-IO wrote under its ID.
RowsBelong ==
    (Typed /\ faults = MaxFaults /\ out.there /\ \A r \in Ranks : rd[r].pc = "ended") =>
        \A name \in DOMAIN out.sets :
            /\ DOMAIN out.sets[name] = 0 .. Rows(Ranks) - 1
            /\ ("ids" \in DOMAIN out.sets /\ name # "ids") => \A k \in DOMAIN out.sets[name] :
                   LET g == out.sets["ids"][k][2]
                   IN  out.sets[name][k] = Particle(name, g \div numparticles, g % numparticles)

\* Both jobs end: nobody waits for ever in a collective call, or draws for ever.
JobsEnd == <>(aborted \/ (WritersDone /\ \A r \in Ranks : rd[r].pc = "ended"))

\* "Generate unique random numbers between 0 and pts->m_num_local_points range."
SampleIsUnique ==
    \A r \in Ranks : rd[r].pc = "pack" =>
        \A a, b \in 0 .. rd[r].n - 1 : a # b => rd[r].location[a] # rd[r].location[b]

\* "if dataset_count = 0, the the reader will read all columns."
AllColumnsRead ==
    \A r \in Ranks : rd[r].pc = "barrier" =>
        \A i \in Columns : \A k \in 0 .. rd[r].local - 1 : rd[r].data[i][k] # Junk
=============================================================================
