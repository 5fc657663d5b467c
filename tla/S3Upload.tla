------------------------------ MODULE S3Upload ------------------------------
(***************************************************************************)
(* The S3 backend of IOR (ior/src/aiori-S3.c) under the write, stat and    *)
(* read phases of TestIoSys: each task's calls to create, xfer, close and  *)
(* get_file_size, and the object store they talk to.                       *)
(*                                                                         *)
(* With "S3" an object is a multi-part upload: parts are numbered by the   *)
(* task that puts them, their etags are gathered in rank order, and rank 0 *)
(* (or the only writer) sends the list of parts that makes the object.     *)
(* With "S3_EMC" every task puts byte ranges into the object, which it has *)
(* first reset to zero length.                                             *)
(*                                                                         *)
(* Offsets and sizes count whole transfers.  An etag is the hash of a      *)
(* part's data, so the data stand for it.  IOR deletes only files that     *)
(* access() finds in the local file system: no object is ever deleted.     *)
(***************************************************************************)
EXTENDS Integers, Sequences, FiniteSets, FiniteSetsExt, Functions

CONSTANTS
    NumTasksWorld,  \* size of MPI_COMM_WORLD
    Tests           \* the parameter records a run may be given

ASSUME WorldAssumption == NumTasksWorld \in Nat \ {0}
ASSUME TestsAssumption ==
    \A p \in Tests :
        /\ p.api \in {"S3", "S3_EMC"} /\ p.numTasks \in 1 .. NumTasksWorld
        /\ {p.segmentCount, p.xfersPerBlock, p.repetitions} \subseteq Nat \ {0}
        /\ p.rankOffset \in Nat
        /\ {p.filePerProc, p.intraTestBarriers, p.deadlineForStonewalling} \subseteq BOOLEAN
        \* ValidateTests: "N:1 (strided) requires xfer-size == block-size"
        /\ (~p.filePerProc /\ p.segmentCount # 1) => p.xfersPerBlock = 1

VARIABLES
    test,      \* the test's parameters, chosen once
    st,        \* per task: where it is, and its share of IOR_param_t
    bucket,    \* whether the bucket exists
    objects,   \* name -> the cells of the object, or NoObject
    uploads,   \* the uploads ever initiated; an UploadId is an index here
    gathered,  \* per task of the world: the etags it has sent to the root
    aborted    \* MPI_Abort: the job is gone

vars == <<test, st, bucket, objects, uploads, gathered, aborted>>

World == 0 .. NumTasksWorld - 1
N == test.numTasks
Members == 0 .. N - 1   \* testComm
n_to_n == test.filePerProc
segmented == test.segmentCount = 1
multi_part_upload_p == test.api = "S3"
XfersPerTask == test.xfersPerBlock * test.segmentCount

-----------------------------------------------------------------------------
(* Offsets, parts and data                                                  *)

\* GetOffsetArraySequential: where the k-th transfer of task r goes.
OffsetOf(r, k) ==
    IF n_to_n THEN k
    ELSE IF segmented THEN r * test.xfersPerBlock + k ELSE k * N + r

PartNumberAsCommented(r, part_number) ==   \* slip: every P-th part, P the parts of a task
    IF n_to_n THEN part_number
    ELSE IF segmented THEN r * XfersPerTask + part_number
    ELSE part_number * XfersPerTask + r

\* S3_Xfer_internal: the global number of a task's next part.
PartNumber(r, part_number) ==
    IF n_to_n THEN part_number
    ELSE IF segmented THEN r * test.xfersPerBlock + part_number
    ELSE part_number * N + r

\* S3_Close_internal: rank 0 lists the gathered etags by task when segmented and
\* round-robin over the tasks when strided, numbering them from 0.
PartList(perTask, P) ==
    [i \in 0 .. N * P - 1 |->
        IF segmented THEN perTask[i \div P][(i % P) + 1]
                     ELSE perTask[i % N][(i \div N) + 1]]

Name(r) == IF n_to_n THEN r ELSE -1
PretendRank(r) == (r + test.rankOffset) % N
ReadName(r) == IF n_to_n THEN PretendRank(r) ELSE -1

Cell(r, rep, k) == <<r, rep, k>>
Hole == <<-1, -1, -1>>
NoObject == <<Hole, Hole>>
Blank == [i \in {} |-> Hole]   \* an object of length zero
Length(obj) == Cardinality(DOMAIN obj)

\* The store writes a byte range; what lies between reads as zeros.
PutRange(obj, at, cell) ==
    [i \in 0 .. Max({at, Length(obj) - 1}) |->
        IF i = at THEN cell ELSE IF i < Length(obj) THEN obj[i] ELSE Hole]

RangeAlwaysAppend(r, k, obj) == Length(obj)   \* slip: -1,-1 for shared objects too

\* s3_set_byte_range(-1, -1) appends.
ByteRange(r, k, obj) == IF n_to_n THEN Length(obj) ELSE OffsetOf(r, k)

-----------------------------------------------------------------------------
(* Collectives.  A task is inside one while its pc is one of these labels;  *)
(* "calls" counts the collectives on testComm it has entered.               *)

Barriers == {"ready", "connect", "opened", "written", "closed", "synced", "reading", "ended"}
Collectives == Barriers \cup {"bcast", "tally", "sizes"}

Task0 == [pc |-> "ready", calls |-> 1, rep |-> 0, k |-> 0, wrote |-> 0,
          connected |-> FALSE, part_number |-> 0, etags |-> <<>>, UploadId |-> 0,
          tallied |-> 0, stat |-> 0, aggFileSize |-> 0]

\* A task leaves a broadcast once its root is in it, the others once all are.
MayLeave(r, label) ==
    /\ st[r].pc = label
    /\ \A q \in IF label = "bcast" THEN {0} ELSE Members : st[q].calls >= st[r].calls

\* Task r goes on to pc, entering the collective of that label if it is one.
Go(r, t, pc) ==
    st' = [st EXCEPT ![r] = [t EXCEPT !.pc = pc,
                                      !.calls = IF pc \in Collectives THEN @ + 1 ELSE @]]

AfterCreate == IF test.intraTestBarriers THEN "opened" ELSE "write"
AfterWrite == IF test.intraTestBarriers THEN "written" ELSE "close"

Init ==
    /\ test \in Tests
    /\ st = [r \in Members |-> Task0]
    /\ bucket \in BOOLEAN
    /\ objects = [n \in -1 .. N - 1 |-> NoObject]
    /\ uploads = <<>>
    /\ gathered = [r \in World |-> <<>>]
    /\ aborted = FALSE

store == <<bucket, objects, uploads>>

Abort ==
    /\ aborted' = TRUE
    /\ UNCHANGED <<test, st, store, gathered>>

-----------------------------------------------------------------------------
(* Create and s3_connect                                                    *)

\* backend->create is called: s3_connect the first time.
StartCreate(r) ==
    /\ MayLeave(r, "ready")
    /\ Go(r, st[r], IF st[r].connected THEN "create"
                    ELSE IF r = 0 THEN "bucket" ELSE "connect")
    /\ UNCHANGED <<test, store, gathered, aborted>>

\* Rank 0 makes sure that the bucket exists.
MakeBucket(r) ==
    /\ st[r].pc = "bucket"
    /\ bucket' = TRUE
    /\ Go(r, st[r], "connect")
    /\ UNCHANGED <<test, objects, uploads, gathered, aborted>>

Connected(r) ==
    /\ MayLeave(r, "connect")
    /\ Go(r, [st[r] EXCEPT !.connected = TRUE], "create")
    /\ UNCHANGED <<test, store, gathered, aborted>>

\* Who opens the multi-part upload.
Initiators(r) == n_to_n \/ r = 0

\* The zero-length put of S3_Create_Or_Open_internal: by the initiator of an
\* upload, by every task with EMC byte ranges.
Reset(r) ==
    /\ st[r].pc = "create"
    /\ multi_part_upload_p => Initiators(r)
    /\ IF bucket
       THEN /\ objects' = [objects EXCEPT ![Name(r)] = Blank]
            /\ Go(r, st[r], IF multi_part_upload_p THEN "initiate" ELSE AfterCreate)
            /\ UNCHANGED <<test, bucket, uploads, gathered, aborted>>
       ELSE Abort

\* POST ?uploads.  The broadcast of the UploadId follows for a shared object.
Initiate(r) ==
    /\ st[r].pc = "initiate"
    /\ uploads' = Append(uploads, [name |-> Name(r), parts |-> Blank, done |-> FALSE])
    /\ Go(r, [st[r] EXCEPT !.UploadId = Len(uploads')],
          IF n_to_n THEN AfterCreate ELSE "bcast")
    /\ UNCHANGED <<test, bucket, objects, gathered, aborted>>

AwaitId(r) ==
    /\ st[r].pc = "create" /\ multi_part_upload_p /\ ~Initiators(r)
    /\ Go(r, st[r], "bcast")
    /\ UNCHANGED <<test, store, gathered, aborted>>

TakeId(r) ==
    /\ MayLeave(r, "bcast")
    /\ Go(r, [st[r] EXCEPT !.UploadId = st[0].UploadId], AfterCreate)
    /\ UNCHANGED <<test, store, gathered, aborted>>

Opened(r) ==
    /\ MayLeave(r, "opened")
    /\ Go(r, st[r], "write")
    /\ UNCHANGED <<test, store, gathered, aborted>>

-----------------------------------------------------------------------------
(* Transfers                                                                *)

\* After a transfer: the next one, or on to the barrier before close.  With a
\* deadline (-D) a task may stop after any transfer.
PutDone(r, t) ==
    \/ t.wrote < XfersPerTask /\ Go(r, t, "write")
    \/ (t.wrote = XfersPerTask \/ test.deadlineForStonewalling) /\ Go(r, t, AfterWrite)

\* S3_Xfer: one more part of the upload.
PutPart(r) ==
    LET t == st[r]
        cell == Cell(r, t.rep, t.wrote)
    IN  /\ t.pc = "write" /\ multi_part_upload_p
        /\ uploads' = [uploads EXCEPT ![t.UploadId].parts =
                          [i \in DOMAIN @ \cup {PartNumber(r, t.part_number)} |->
                              IF i = PartNumber(r, t.part_number) THEN cell ELSE @[i]]]
        /\ PutDone(r, [t EXCEPT !.wrote = @ + 1, !.part_number = @ + 1,
                                !.etags = Append(@, cell)])
        /\ UNCHANGED <<test, bucket, objects, gathered, aborted>>

\* EMC_Xfer: a byte range of the object, or an append to one's own.
PutBytes(r) ==
    LET t == st[r]
    IN  /\ t.pc = "write" /\ ~multi_part_upload_p
        /\ objects' = [objects EXCEPT ![Name(r)] =
                          PutRange(@, ByteRange(r, t.wrote, @), Cell(r, t.rep, t.wrote))]
        /\ PutDone(r, [t EXCEPT !.wrote = @ + 1])
        /\ UNCHANGED <<test, bucket, uploads, gathered, aborted>>

Written(r) ==
    /\ MayLeave(r, "written")
    /\ Go(r, st[r], "close")
    /\ UNCHANGED <<test, store, gathered, aborted>>

-----------------------------------------------------------------------------
(* Close                                                                    *)

s3_MPU_reset(t) == [t EXCEPT !.etags = <<>>, !.part_number = 0]

\* The server makes the object of the listed parts if it has every one of them
\* with the listed etag, and refuses the request otherwise.
Complete(r, list, pc) ==
    LET upload == uploads[st[r].UploadId]
    IN  IF \A i \in DOMAIN list : i \in DOMAIN upload.parts /\ upload.parts[i] = list[i]
        THEN /\ objects' = [objects EXCEPT ![upload.name] = list]
             /\ uploads' = [uploads EXCEPT ![st[r].UploadId].done = TRUE]
             /\ Go(r, s3_MPU_reset(st[r]), pc)
             /\ UNCHANGED <<test, bucket, aborted>>
        ELSE /\ aborted' = TRUE
             /\ UNCHANGED <<test, st, store>>

\* Close of a task's own upload: its etags in order.
CloseOwn(r) ==
    /\ st[r].pc = "close" /\ multi_part_upload_p /\ n_to_n
    /\ Complete(r, [i \in 0 .. Len(st[r].etags) - 1 |-> st[r].etags[i + 1]], "synced")
    /\ UNCHANGED gathered

\* Close of a shared upload begins with an Allreduce of the number of etags.
CloseShared(r) ==
    /\ st[r].pc = "close" /\ multi_part_upload_p /\ ~n_to_n
    /\ Go(r, [st[r] EXCEPT !.tallied = Len(st[r].etags)], "tally")
    /\ UNCHANGED <<test, store, gathered, aborted>>

EtagCounts == {st[q].tallied : q \in Members}

\* A task with fewer etags than the maximum aborts the job.
MismatchAborts(r) ==
    /\ MayLeave(r, "tally")
    /\ st[r].tallied < Max(EtagCounts)
    /\ Abort

\* The others send theirs to rank 0 in a gather over MPI_COMM_WORLD.  Only the
\* root waits in it; the rest reset and go to the barrier.
SendEtags(r) ==
    /\ MayLeave(r, "tally")
    /\ st[r].tallied = Max(EtagCounts)
    /\ gathered' = [gathered EXCEPT ![r] = st[r].etags]
    /\ IF r = 0 THEN Go(r, st[r], "gather") ELSE Go(r, s3_MPU_reset(st[r]), "closed")
    /\ UNCHANGED <<test, store, aborted>>

\* Rank 0 has the etags of all tasks of the world and completes the upload.
CompleteShared(r) ==
    /\ st[r].pc = "gather"
    /\ \A w \in World : gathered[w] # <<>>
    /\ Complete(r, PartList(gathered, Len(st[r].etags)), "closed")
    /\ gathered' = [w \in World |-> <<>>]

MeetsUnlessRoot(r) == ~n_to_n /\ r # 0   \* slip: the barrier sits beside rank 0's branch

\* Who goes to the barrier at the end of close: everybody, if the object is shared.
Meets(r) == ~n_to_n

\* EMC_Close: nothing to complete, only the barrier.
CloseBytes(r) ==
    /\ st[r].pc = "close" /\ ~multi_part_upload_p
    /\ Go(r, st[r], IF Meets(r) THEN "closed" ELSE "synced")
    /\ UNCHANGED <<test, store, gathered, aborted>>

Closed(r) ==
    /\ MayLeave(r, "closed")
    /\ Go(r, st[r], "synced")   \* TestIoSys's own barrier
    /\ UNCHANGED <<test, store, gathered, aborted>>

-----------------------------------------------------------------------------
(* Size and reading                                                         *)

\* S3_GetFileSize: a HEAD request, then an Allreduce.
Stat(r) ==
    /\ MayLeave(r, "synced")
    /\ IF objects[Name(r)] = NoObject THEN Abort
       ELSE /\ Go(r, [st[r] EXCEPT !.stat = Length(objects[Name(r)])], "sizes")
            /\ UNCHANGED <<test, store, gathered, aborted>>

\* The sum with one object per task, the smallest of the views of a shared one.
Aggregate(sizes) ==
    IF n_to_n THEN MapThenSumSet(LAMBDA q : sizes[q], Members) ELSE Min(Range(sizes))

Sized(r) ==
    /\ MayLeave(r, "sizes")
    /\ Go(r, [st[r] EXCEPT !.aggFileSize = Aggregate([q \in Members |-> st[q].stat])],
          "reading")
    /\ UNCHANGED <<test, store, gathered, aborted>>

StartRead(r) ==
    /\ MayLeave(r, "reading")
    /\ Go(r, [st[r] EXCEPT !.k = 0], "read")
    /\ UNCHANGED <<test, store, gathered, aborted>>

\* A ranged GET; anything but "206 Partial Content" ends the job.
Get(r) ==
    LET at == OffsetOf(PretendRank(r), st[r].k)
        obj == objects[ReadName(r)]
    IN  /\ st[r].pc = "read"
        /\ IF obj = NoObject \/ at >= Length(obj) THEN Abort
           ELSE /\ \/ st[r].k + 1 < XfersPerTask
                      /\ Go(r, [st[r] EXCEPT !.k = @ + 1], "read")
                   \/ /\ st[r].k + 1 = XfersPerTask \/ test.deadlineForStonewalling
                      /\ Go(r, [st[r] EXCEPT !.k = @ + 1], "ended")
                /\ UNCHANGED <<test, store, gathered, aborted>>

NextRepetition(r) ==
    /\ MayLeave(r, "ended")
    /\ Go(r, [st[r] EXCEPT !.rep = @ + 1, !.wrote = 0, !.k = 0],
          IF st[r].rep + 1 < test.repetitions THEN "ready" ELSE "done")
    /\ UNCHANGED <<test, store, gathered, aborted>>

TaskStep(r) ==
    \/ StartCreate(r) \/ MakeBucket(r) \/ Connected(r) \/ Reset(r) \/ Initiate(r)
    \/ AwaitId(r) \/ TakeId(r) \/ Opened(r) \/ PutPart(r) \/ PutBytes(r) \/ Written(r)
    \/ CloseOwn(r) \/ CloseShared(r) \/ MismatchAborts(r) \/ SendEtags(r)
    \/ CompleteShared(r) \/ CloseBytes(r) \/ Closed(r) \/ Stat(r) \/ Sized(r)
    \/ StartRead(r) \/ Get(r) \/ NextRepetition(r)

Next == ~aborted /\ \E r \in Members : TaskStep(r)

\* Every task keeps running until it is done or the job is aborted.
Spec ==
    /\ Init /\ [][Next]_vars
    /\ \A r \in World : WF_vars(~aborted /\ r \in Members /\ TaskStep(r))

-----------------------------------------------------------------------------
(* Properties                                                               *)

\* Whatever a task wrote in this repetition is where another task, once it
\* reads, will look for it: S3_Close and IOR's barriers let nobody read an
\* object that is not assembled in order from the parts of this repetition.  The
\* size every task was told is what was written (a deadline may leave gaps).
Moved ==
    LET wrote == [w \in Members |-> st[w].wrote] IN MapThenSumSet(LAMBDA w : wrote[w], Members)
ReadersFindTheData ==
    \A r \in Members : st[r].pc = "read" =>
        /\ \A w \in Members :
            /\ st[w].rep = st[r].rep
            /\ \A k \in 0 .. st[w].wrote - 1 :
                LET obj == objects[Name(w)]
                IN  /\ OffsetOf(w, k) \in DOMAIN obj
                    /\ obj[OffsetOf(w, k)] = Cell(w, st[w].rep, k)
        /\ st[r].aggFileSize >= Moved
        /\ ~test.deadlineForStonewalling => st[r].aggFileSize = Moved

\* Without a deadline nothing aborts the job: the bucket is there before the
\* first put, the part numbers the tasks chose are those of rank 0's list, and
\* every ranged GET lies inside the object.
NothingRefused == aborted => test.deadlineForStonewalling

\* The tasks never wait for each other for ever, and when they have all ended no
\* upload is left open on the server (and billed).
JobEnds ==
    <>(aborted \/ /\ \A r \in Members : st[r].pc = "done"
                  /\ \A u \in Range(uploads) : u.done)

\* aiori-S3.c of byte ranges: "In the IOR case, there should be no races".
\* Each cell of a shared object is put once a repetition, so nobody may lose one.
NoPutIsLost ==
    \A w \in Members : \A k \in 0 .. st[w].wrote - 1 :
        (~multi_part_upload_p /\ st[w].pc \in {"write", "close"}) =>
            LET obj == objects[Name(w)]
            IN  OffsetOf(w, k) \in DOMAIN obj /\ obj[OffsetOf(w, k)] = Cell(w, st[w].rep, k)

\* aiori-S3.c of close: "all the parties to the upload must provide their ETags
\* to a single party [...] Then the rank doing the closing can generate XML and
\* complete the upload."
UploadCompletes ==
    ((\A r \in Members : st[r].pc = "tally") /\ Cardinality(EtagCounts) = 1)
        ~> (\A u \in Range(uploads) : u.done)

\* aiori-S3.c of the pure interface: "N:N fails if transfer-size != block-size
\* (because that requires append)".  The transfers of a task are parts of its upload.
AppendsFail ==
    (multi_part_upload_p /\ n_to_n /\ test.xfersPerBlock > 1) =>
        \A r \in Members : st[r].pc \notin {"reading", "read", "ended", "done"}
=============================================================================
