------------------------------ MODULE PosixXfer ------------------------------
(***************************************************************************)
(* POSIX_Xfer of ior/src/aiori-POSIX.c: one transfer per task, moved by    *)
(* however many write()/read() calls the kernel needs, every task working  *)
(* through its own descriptor on one shared file.  A write pass is         *)
(* followed, after a barrier, by a read pass in which each task reads the  *)
(* region that ReadFrom gives it (IOR's reordered readback).               *)
(*                                                                         *)
(* A byte is what a call can split a transfer into; the pattern a task     *)
(* writes gives every byte of the file a value of its own.                 *)
(***************************************************************************)
EXTENDS Integers

CONSTANTS
    Tasks,              \* the tasks of testComm
    Length,             \* bytes of one transfer: param->transferSize
    Base,               \* param->offset of each task's transfer
    ReadFrom,           \* the task whose region a task reads back
    FileBytes,          \* the offsets of the file are 0 .. FileBytes - 1
    MaxRetry,           \* MAX_RETRY
    SingleXferAttempt   \* param->singleXferAttempt

ASSUME LengthAssumption == Length \in Nat \ {0}
ASSUME BaseAssumption ==
    /\ FileBytes \in Nat
    /\ Base \in [Tasks -> Nat]
    /\ \A t \in Tasks : Base[t] + Length <= FileBytes
\* The offsets of two tasks are whole transfers apart (GetOffsetArraySequential).
ASSUME DisjointAssumption ==
    \A t, u \in Tasks :
        t # u => \/ Base[t] + Length <= Base[u]
                 \/ Base[u] + Length <= Base[t]
ASSUME ReadFromAssumption == ReadFrom \in [Tasks -> Tasks]
ASSUME RetryAssumption == MaxRetry \in Nat /\ SingleXferAttempt \in BOOLEAN

Hole == [task |-> "none", byte |-> 0]     \* a byte nobody has written
Pattern(t, i) == [task |-> t, byte |-> i] \* byte i of what t writes
Bytes == 0 .. Length - 1
Data == {Hole} \cup {Pattern(t, i) : t \in Tasks, i \in Bytes}

VARIABLES
    access,       \* "WRITE" or "READ": the pass all tasks are in
    status,       \* per task: idle, running (inside POSIX_Xfer) or returned
    remaining,    \* bytes still to be moved
    ptr,          \* index of the next byte of the user's buffer
    xferRetries,  \* calls that have moved data in this transfer
    pos,          \* the descriptor's file position
    buffer,       \* the user's buffer
    file,         \* contents, one value per offset
    size,         \* st_size
    aborted       \* MPI_Abort: the whole job is gone

vars == <<access, status, remaining, ptr, xferRetries, pos, buffer, file, size,
          aborted>>

Offsets == 0 .. FileBytes - 1
Source(t) == IF access = "WRITE" THEN t ELSE ReadFrom[t]

TypeOK ==
    /\ access \in {"WRITE", "READ"}
    /\ status \in [Tasks -> {"idle", "running", "returned"}]
    /\ remaining \in [Tasks -> 0 .. Length]
    /\ ptr \in [Tasks -> 0 .. Length]
    /\ xferRetries \in [Tasks -> Nat]
    /\ pos \in [Tasks -> 0 .. FileBytes]
    /\ buffer \in [Tasks -> [Bytes -> Data]]
    /\ file \in [Offsets -> Data]
    /\ size \in 0 .. FileBytes
    /\ aborted \in BOOLEAN

Init ==
    /\ access = "WRITE"
    /\ status = [t \in Tasks |-> "idle"]
    /\ remaining = [t \in Tasks |-> Length]
    /\ ptr = [t \in Tasks |-> 0]
    /\ xferRetries = [t \in Tasks |-> 0]
    /\ pos = [t \in Tasks |-> 0]
    /\ buffer = [t \in Tasks |-> [i \in Bytes |-> Pattern(t, i)]]
    /\ file = [o \in Offsets |-> Hole]
    /\ size = 0
    /\ aborted = FALSE

-----------------------------------------------------------------------------
(* lseek64 once per transfer: later calls rely on the position the previous *)
(* one left behind.                                                         *)
Seek(t) ==
    /\ ~aborted
    /\ status[t] = "idle"
    /\ status' = [status EXCEPT ![t] = "running"]
    /\ pos' = [pos EXCEPT ![t] = Base[Source(t)]]
    /\ UNCHANGED <<access, remaining, ptr, xferRetries, buffer, file, size, aborted>>

\* What a short call makes of the loop: give up at once, give up after too
\* many, or go round again.
GivesUp(t, rc) ==
    /\ rc < remaining[t]
    /\ SingleXferAttempt \/ xferRetries[t] > MaxRetry

RetriedWraps(t, rc) ==         \* slip: a counter too narrow for its limit
    (xferRetries[t] + 1) % (MaxRetry + 1)

\* Every iteration counts as a try, one that moved nothing too.
Retried(t, rc) == xferRetries[t] + 1

AccountNoRest(t, rc) ==        \* slip: a short call taken for a whole transfer
    /\ pos' = [pos EXCEPT ![t] = @ + rc]
    /\ aborted' = FALSE
    /\ remaining' = [remaining EXCEPT ![t] = @ - rc]
    /\ ptr' = [ptr EXCEPT ![t] = @ + rc]
    /\ xferRetries' = [xferRetries EXCEPT ![t] = Retried(t, rc)]
    /\ status' = [status EXCEPT ![t] = "returned"]

\* The accounting at the end of an iteration of the while loop.
Account(t, rc) ==
    /\ pos' = [pos EXCEPT ![t] = @ + rc]
    /\ aborted' = GivesUp(t, rc)
    /\ IF GivesUp(t, rc)
         THEN UNCHANGED <<remaining, ptr, xferRetries, status>>
         ELSE /\ remaining' = [remaining EXCEPT ![t] = @ - rc]
              /\ ptr' = [ptr EXCEPT ![t] = @ + rc]
              /\ xferRetries' = [xferRetries EXCEPT ![t] = Retried(t, rc)]
              /\ status' = [status EXCEPT
                              ![t] = IF remaining[t] = rc THEN "returned" ELSE @]

WrittenNoPtr(t, o) == buffer[t][o - pos[t]]  \* slip: every call starts the buffer over
FetchedAgain(t, i) ==    \* slip: every call reads from the transfer's offset
    file[Base[Source(t)] + i - ptr[t]]

\* The buffer byte a write puts at offset o, and the file byte a read puts at
\* index i of the buffer.
Written(t, o) == buffer[t][ptr[t] + o - pos[t]]
Fetched(t, i) == file[pos[t] + i - ptr[t]]

WriteCall(t, rc) ==
    /\ ~aborted
    /\ status[t] = "running" /\ access = "WRITE"
    /\ rc \in 0 .. remaining[t]
    /\ file' = [o \in Offsets |-> IF pos[t] <= o /\ o < pos[t] + rc
                                  THEN Written(t, o)
                                  ELSE file[o]]
    /\ size' = IF rc > 0 /\ pos[t] + rc > size THEN pos[t] + rc ELSE size
    /\ Account(t, rc)
    /\ UNCHANGED <<access, buffer>>

\* read() returns at least one byte before the end of the file.
ReadCall(t, rc) ==
    /\ ~aborted
    /\ status[t] = "running" /\ access = "READ"
    /\ rc \in 1 .. remaining[t]
    /\ pos[t] + rc <= size
    /\ buffer' = [buffer EXCEPT
                    ![t] = [i \in Bytes |-> IF ptr[t] <= i /\ i < ptr[t] + rc
                                            THEN Fetched(t, i)
                                            ELSE @[i]]]
    /\ Account(t, rc)
    /\ UNCHANGED <<access, file, size>>

\* write() or read() returns -1, or read() returns 0 at the end of the file.
CallFails(t) ==
    /\ ~aborted
    /\ status[t] = "running"
    /\ aborted' = TRUE
    /\ UNCHANGED <<access, status, remaining, ptr, xferRetries, pos, buffer, file, size>>

\* The barrier between the passes: every task has returned from its write.
StartRead ==
    /\ ~aborted
    /\ access = "WRITE"
    /\ \A t \in Tasks : status[t] = "returned"
    /\ access' = "READ"
    /\ status' = [t \in Tasks |-> "idle"]
    /\ remaining' = [t \in Tasks |-> Length]
    /\ ptr' = [t \in Tasks |-> 0]
    /\ xferRetries' = [t \in Tasks |-> 0]
    /\ buffer' = [t \in Tasks |-> [i \in Bytes |-> Hole]]
    /\ UNCHANGED <<pos, file, size, aborted>>

Xfer(t) ==
    \/ Seek(t)
    \/ \E rc \in 0 .. Length : WriteCall(t, rc) \/ ReadCall(t, rc)
    \/ CallFails(t)

Next == StartRead \/ \E t \in Tasks : Xfer(t)

Spec == Init /\ [][Next]_vars
\* The loop is plain sequential code: a task that can run does run.
FairSpec == Spec /\ WF_vars(StartRead) /\ \A t \in Tasks : WF_vars(Xfer(t))

-----------------------------------------------------------------------------
(* A write that has returned has put the whole buffer, byte for byte, into  *)
(* the task's own region, however the kernel cut it up and whatever other   *)
(* tasks were writing meanwhile (POSIX_Xfer returns `length`, which the     *)
(* caller compares with the transfer size and trusts).                      *)
WriteIsWhole ==
    \A t \in Tasks, i \in Bytes :
        (access = "READ" \/ status[t] = "returned") =>
            file[Base[t] + i] = Pattern(t, i)

(* A read that has returned delivers the bytes the region's owner wrote, in *)
(* order and without gaps.                                                  *)
ReadIsWhole ==
    \A t \in Tasks, i \in Bytes :
        (access = "READ" /\ status[t] = "returned") =>
            buffer[t][i] = Pattern(ReadFrom[t], i)

(* A read pass that follows a completed write pass never runs into the end  *)
(* of the file: "read() returned EOF prematurely" cannot be the reason the  *)
(* job dies.                                                                *)
NoEOF ==
    \A t \in Tasks :
        (access = "READ" /\ status[t] = "running") => pos[t] < size

(* To the test driver the loop is one step: whatever calls it makes, a      *)
(* transfer takes effect as a whole when it returns (WriteOrRead treats     *)
(* backend->xfer as such).  Until then its region counts as untouched.      *)
Whole == [Bytes -> Data]
Blank == [i \in Bytes |-> Hole]
RegionContent(t) ==
    IF access = "READ" \/ status[t] = "returned"
    THEN [i \in Bytes |-> file[Base[t] + i]] ELSE Blank
Asked(t) ==
    IF status[t] # "running" THEN {}
    ELSE {[write |-> access = "WRITE", cell |-> Source(t),
           datum |-> IF access = "WRITE" THEN [i \in Bytes |-> Pattern(t, i)]
                                         ELSE Blank]}
Delivered(t) ==
    IF access = "READ" /\ status[t] = "returned" THEN buffer[t] ELSE Blank

Store == INSTANCE IorStore WITH
            Cells <- Tasks, Data <- Whole,
            content <- [t \in Tasks |-> RegionContent(t)],
            pending <- [t \in Tasks |-> Asked(t)],
            delivered <- [t \in Tasks |-> Delivered(t)]
ImplementsStore == Store!Spec

(* A transfer is given up only after MAX_RETRY calls too many, or at once   *)
(* when retries are not wanted; it never makes more than MAX_RETRY + 2.     *)
RetriesBounded ==
    \A t \in Tasks :
        /\ xferRetries[t] <= MaxRetry + 2
        /\ SingleXferAttempt => xferRetries[t] <= 1

(* Both passes end, or the job aborts: a call that moves nothing cannot     *)
(* keep the loop going for ever.                                            *)
Terminates ==
    <>(aborted \/ (access = "READ" /\ \A t \in Tasks : status[t] = "returned"))

=============================================================================
