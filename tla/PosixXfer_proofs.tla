--------------------------- MODULE PosixXfer_proofs ---------------------------
(***************************************************************************)
(* Safety of POSIX_Xfer for any number of tasks, any transfer size and any *)
(* retry limit.                                                            *)
(*                                                                         *)
(* The invariants of the runs speak of transfers that have returned.  What *)
(* makes them inductive is what is true in the middle of the loop: ptr,    *)
(* remaining and the descriptor's position advance together (Accounted,    *)
(* Positioned), everything before ptr is already in place (Moved), and the *)
(* file already reaches as far as anyone has written (Reaches).            *)
(***************************************************************************)
EXTENDS PosixXfer, RowsAndColumns

\* The three counters of the loop agree about how much has been moved.
Accounted ==
    \A t \in Tasks :
        /\ ptr[t] + remaining[t] = Length
        /\ status[t] = "idle" => ptr[t] = 0
        /\ status[t] = "running" => remaining[t] > 0
        /\ status[t] = "returned" => remaining[t] = 0

\* The position the kernel keeps is where the loop believes it to be.  A call
\* that ends in an abort has moved it ahead of ptr, but not to the end.
Positioned ==
    \A t \in Tasks :
        status[t] = "running" =>
            /\ ~aborted => pos[t] = Base[Source(t)] + ptr[t]
            /\ pos[t] < Base[Source(t)] + Length

\* Bytes before ptr are where they belong.
Moved ==
    \A t \in Tasks, i \in Bytes :
        /\ (access = "READ" \/ i < ptr[t]) => file[Base[t] + i] = Pattern(t, i)
        /\ access = "WRITE" => buffer[t][i] = Pattern(t, i)
        /\ (access = "READ" /\ i < ptr[t]) => buffer[t][i] = Pattern(ReadFrom[t], i)

\* The file is long enough for what has been written.
Reaches ==
    \A t \in Tasks :
        /\ ptr[t] > 0 => Base[Source(t)] + ptr[t] <= size
        /\ access = "READ" => Base[t] + Length <= size

\* A transfer still under way has not used up its tries.
TriesLeft ==
    \A t \in Tasks :
        /\ xferRetries[t] <= MaxRetry + 2
        /\ status[t] # "returned" => xferRetries[t] <= MaxRetry + 1
        /\ SingleXferAttempt => xferRetries[t] <= 1
        /\ (SingleXferAttempt /\ status[t] # "returned") => xferRetries[t] = 0

IInv ==
    /\ TypeOK
    /\ Accounted
    /\ Positioned
    /\ Moved
    /\ Reaches
    /\ TriesLeft

-----------------------------------------------------------------------------
\* No task's region contains a byte of another's.
LEMMA RegionsDisjoint ==
    ASSUME NEW t \in Tasks, NEW u \in Tasks, t # u, NEW i \in Bytes,
           NEW o \in Nat, Base[t] <= o, o < Base[t] + Length
    PROVE  Base[u] + i # o
BY LengthAssumption, BaseAssumption, DisjointAssumption DEF Bytes

\* Where a region's bytes are, as offsets of the file.
LEMMA RegionInFile ==
    ASSUME NEW t \in Tasks, NEW i \in Bytes
    PROVE  /\ Base[t] \in Nat
           /\ Base[t] + i \in Offsets
           /\ Base[t] + Length <= FileBytes
BY LengthAssumption, BaseAssumption DEF Bytes, Offsets

\* The source of a transfer is a task, whichever the pass.
LEMMA SourceIsTask ==
    ASSUME NEW t \in Tasks
    PROVE  Source(t) \in Tasks
BY ReadFromAssumption DEF Source

LEMMA InitInv == Init => IInv
<1> SUFFICES ASSUME Init PROVE IInv
  OBVIOUS
<1>0. /\ access = "WRITE"
      /\ \A t \in Tasks : /\ status[t] = "idle"
                          /\ remaining[t] = Length
                          /\ ptr[t] = 0
                          /\ xferRetries[t] = 0
  BY DEF Init
<1>1. TypeOK
  <2>1. /\ remaining \in [Tasks -> 0 .. Length] /\ ptr \in [Tasks -> 0 .. Length]
        /\ pos \in [Tasks -> 0 .. FileBytes] /\ size \in 0 .. FileBytes
        /\ xferRetries \in [Tasks -> Nat]
    BY LengthAssumption, BaseAssumption DEF Init
  <2>2. buffer \in [Tasks -> [Bytes -> Data]] /\ file \in [Offsets -> Data]
    BY DEF Init, Data
  <2> QED
    BY <2>1, <2>2 DEF Init, TypeOK
<1>2. Accounted
  <2>1. 0 + Length = Length
    BY LengthAssumption
  <2> QED
    BY <1>0, <2>1 DEF Accounted
<1>3. Positioned
  BY <1>0 DEF Positioned
<1>4. Moved
  <2>1. \A t \in Tasks, i \in Bytes : buffer[t][i] = Pattern(t, i)
    BY DEF Init
  <2> QED
    BY <1>0, <2>1, LengthAssumption DEF Moved, Bytes
<1>5. Reaches
  <2>1. ~(0 > 0)
    OBVIOUS
  <2> QED
    BY <1>0, <2>1 DEF Reaches
<1>6. TriesLeft
  <2>1. 0 <= MaxRetry + 2 /\ 0 <= MaxRetry + 1 /\ 0 <= 1
    BY RetryAssumption
  <2> QED
    BY <1>0, <2>1 DEF TriesLeft
<1> QED
  BY <1>1, <1>2, <1>3, <1>4, <1>5, <1>6 DEF IInv

-----------------------------------------------------------------------------
\* What one iteration of the loop does to the counters, whichever the pass.
LEMMA AccountKeeps ==
    ASSUME IInv, ~aborted, NEW t \in Tasks, status[t] = "running",
           NEW rc \in 0 .. Length, rc <= remaining[t],
           Account(t, rc), UNCHANGED access
    PROVE  /\ remaining' \in [Tasks -> 0 .. Length]
           /\ ptr' \in [Tasks -> 0 .. Length]
           /\ status' \in [Tasks -> {"idle", "running", "returned"}]
           /\ xferRetries' \in [Tasks -> Nat]
           /\ pos' \in [Tasks -> 0 .. FileBytes]
           /\ aborted' \in BOOLEAN
           /\ Accounted'
           /\ Positioned'
           /\ TriesLeft'
           /\ ptr'[t] \in {ptr[t], ptr[t] + rc}
           /\ \A u \in Tasks \ {t} : ptr'[u] = ptr[u]
<1> USE LengthAssumption, BaseAssumption, RetryAssumption
<1>1. /\ Source(t) \in Tasks
      /\ Base[Source(t)] \in Nat
      /\ Base[Source(t)] + Length <= FileBytes
      /\ pos[t] = Base[Source(t)] + ptr[t]
      /\ ptr[t] + remaining[t] = Length
      /\ ptr[t] \in 0 .. Length /\ remaining[t] \in 0 .. Length
      /\ pos[t] \in 0 .. FileBytes
      /\ xferRetries[t] \in Nat
  BY SourceIsTask DEF IInv, TypeOK, Accounted, Positioned
<1>2. /\ pos' = [pos EXCEPT ![t] = pos[t] + rc]
      /\ pos' \in [Tasks -> 0 .. FileBytes]
  BY <1>1 DEF Account, IInv, TypeOK
<1>3. aborted' \in BOOLEAN
  BY DEF Account, GivesUp, IInv, TypeOK
<1>4. \A u \in Tasks : Source(u)' = Source(u)
  BY DEF Source
<1>5. CASE GivesUp(t, rc)
  <2>1. UNCHANGED <<remaining, ptr, xferRetries, status>> /\ aborted'
    BY <1>5 DEF Account
  <2>2. rc < remaining[t]
    BY <1>5 DEF GivesUp
  <2>3. Positioned'
    BY <1>1, <1>2, <1>4, <2>1, <2>2 DEF Positioned, IInv, TypeOK
  <2> QED
    BY <1>2, <1>3, <2>1, <2>3 DEF IInv, TypeOK, Accounted, TriesLeft
<1>6. CASE ~GivesUp(t, rc)
  <2>1. /\ remaining' = [remaining EXCEPT ![t] = remaining[t] - rc]
        /\ ptr' = [ptr EXCEPT ![t] = ptr[t] + rc]
        /\ xferRetries' = [xferRetries EXCEPT ![t] = xferRetries[t] + 1]
        /\ status' = [status EXCEPT ![t] = IF remaining[t] = rc THEN "returned"
                                                                ELSE status[t]]
        /\ ~aborted'
    BY <1>6 DEF Account, Retried, GivesUp
  <2>2. /\ remaining' \in [Tasks -> 0 .. Length]
        /\ ptr' \in [Tasks -> 0 .. Length]
        /\ status' \in [Tasks -> {"idle", "running", "returned"}]
        /\ xferRetries' \in [Tasks -> Nat]
    BY <1>1, <2>1 DEF IInv, TypeOK
  <2>3. Accounted'
    <3> SUFFICES ASSUME NEW u \in Tasks
                 PROVE  /\ ptr'[u] + remaining'[u] = Length
                        /\ status'[u] = "idle" => ptr'[u] = 0
                        /\ status'[u] = "running" => remaining'[u] > 0
                        /\ status'[u] = "returned" => remaining'[u] = 0
      BY DEF Accounted
    <3>1. CASE u = t
      <4>1. /\ remaining'[t] = remaining[t] - rc
            /\ ptr'[t] = ptr[t] + rc
            /\ status'[t] = IF remaining[t] = rc THEN "returned" ELSE status[t]
        BY <2>1 DEF IInv, TypeOK
      <4> QED
        BY <1>1, <3>1, <4>1
    <3>2. CASE u # t
      BY <2>1, <3>2 DEF IInv, TypeOK, Accounted
    <3> QED
      BY <3>1, <3>2
  <2>4. Positioned'
    <3> SUFFICES ASSUME NEW u \in Tasks, status'[u] = "running"
                 PROVE  /\ pos'[u] = Base[Source(u)] + ptr'[u]
                        /\ pos'[u] < Base[Source(u)] + Length
      BY <1>4, <2>1 DEF Positioned
    <3>1. CASE u = t
      <4>1. remaining[t] # rc
        BY <2>1, <3>1 DEF IInv, TypeOK
      <4>2. pos'[t] = pos[t] + rc /\ ptr'[t] = ptr[t] + rc
        BY <1>2, <2>1 DEF IInv, TypeOK
      <4> QED
        BY <1>1, <3>1, <4>1, <4>2
    <3>2. CASE u # t
      BY <1>2, <2>1, <3>2 DEF IInv, TypeOK, Positioned
    <3> QED
      BY <3>1, <3>2
  <2>5. remaining[t] # rc => ~SingleXferAttempt /\ xferRetries[t] <= MaxRetry
    BY <1>1, <1>6 DEF GivesUp
  <2>6. TriesLeft'
    BY <1>1, <2>1, <2>5 DEF TriesLeft, IInv, TypeOK
  <2> QED
    BY <1>1, <1>2, <1>3, <2>1, <2>2, <2>3, <2>4, <2>6 DEF IInv, TypeOK
<1> QED
  BY <1>5, <1>6

-----------------------------------------------------------------------------
\* A write() puts the next rc bytes of the buffer behind those already written.
LEMMA WriteCallKeeps ==
    ASSUME IInv, NEW t \in Tasks, NEW rc \in 0 .. Length, WriteCall(t, rc)
    PROVE  IInv'
<1> USE LengthAssumption, BaseAssumption
<1>0. /\ ~aborted /\ status[t] = "running" /\ access = "WRITE"
      /\ rc <= remaining[t]
      /\ Account(t, rc)
      /\ UNCHANGED <<access, buffer>>
      /\ size' = IF rc > 0 /\ pos[t] + rc > size THEN pos[t] + rc ELSE size
  BY DEF WriteCall, IInv, TypeOK
<1>1. /\ remaining' \in [Tasks -> 0 .. Length]
      /\ ptr' \in [Tasks -> 0 .. Length]
      /\ status' \in [Tasks -> {"idle", "running", "returned"}]
      /\ xferRetries' \in [Tasks -> Nat]
      /\ pos' \in [Tasks -> 0 .. FileBytes]
      /\ aborted' \in BOOLEAN
      /\ Accounted' /\ Positioned' /\ TriesLeft'
      /\ ptr'[t] \in {ptr[t], ptr[t] + rc}
      /\ \A u \in Tasks \ {t} : ptr'[u] = ptr[u]
  BY <1>0, AccountKeeps
<1>2. /\ pos[t] = Base[t] + ptr[t]
      /\ ptr[t] \in 0 .. Length /\ remaining[t] \in 0 .. Length
      /\ ptr[t] + rc <= Length
      /\ Base[t] \in Nat /\ Base[t] + Length <= FileBytes
      /\ size \in 0 .. FileBytes
  BY <1>0 DEF IInv, TypeOK, Accounted, Positioned, Source
<1>3. \A o \in Offsets : file'[o] =
          IF pos[t] <= o /\ o < pos[t] + rc THEN Pattern(t, o - Base[t]) ELSE file[o]
  <2> SUFFICES ASSUME NEW o \in Offsets, pos[t] <= o, o < pos[t] + rc
               PROVE  buffer[t][ptr[t] + o - pos[t]] = Pattern(t, o - Base[t])
    BY DEF WriteCall, Written
  <2>1. ptr[t] + o - pos[t] = o - Base[t] /\ o - Base[t] \in Bytes
    BY <1>2 DEF Bytes, Offsets
  <2> QED
    BY <1>0, <2>1 DEF IInv, Moved
<1>4. file' \in [Offsets -> Data]
  <2>1. \A o \in Offsets : (pos[t] <= o /\ o < pos[t] + rc) => o - Base[t] \in Bytes
    BY <1>2 DEF Offsets, Bytes
  <2>2. \A o \in Offsets : file'[o] \in Data
    BY <1>3, <2>1 DEF Data, IInv, TypeOK
  <2>3. file' = [o \in Offsets |-> file'[o]]
    BY DEF WriteCall
  <2> QED
    BY <2>2, <2>3
<1>5. size' \in 0 .. FileBytes /\ size <= size'
  BY <1>0, <1>2
<1>6. TypeOK'
  BY <1>0, <1>1, <1>4, <1>5 DEF TypeOK, IInv
<1>7. Moved'
  <2> SUFFICES ASSUME NEW u \in Tasks, NEW i \in Bytes, i < ptr'[u]
               PROVE  file'[Base[u] + i] = Pattern(u, i)
    BY <1>0 DEF Moved, IInv
  <2>0. Base[u] + i \in Offsets /\ Base[u] \in Nat /\ i \in Nat
    BY RegionInFile DEF Bytes
  <2>1. CASE u = t
    <3>1. CASE i < ptr[t]
      BY <1>2, <1>3, <2>0, <2>1, <3>1 DEF IInv, Moved
    <3>2. CASE ~(i < ptr[t])
      BY <1>1, <1>2, <1>3, <2>0, <2>1, <3>2
    <3> QED
      BY <3>1, <3>2
  <2>2. CASE u # t
    <3>1. ~(pos[t] <= Base[u] + i /\ Base[u] + i < pos[t] + rc)
      <4> SUFFICES ASSUME pos[t] <= Base[u] + i, Base[u] + i < pos[t] + rc
                   PROVE  FALSE
        OBVIOUS
      <4>1. Base[t] <= Base[u] + i /\ Base[u] + i < Base[t] + Length
        BY <1>2, <2>0
      <4>2. Base[u] + i \in Nat
        BY <2>0
      <4> QED
        BY <2>2, <4>1, <4>2, RegionsDisjoint
    <3>2. i < ptr[u]
      BY <1>1, <2>2
    <3> QED
      BY <1>3, <2>0, <3>1, <3>2 DEF IInv, Moved
  <2> QED
    BY <2>1, <2>2
<1>8. Reaches'
  <2> SUFFICES ASSUME NEW u \in Tasks, ptr'[u] > 0
               PROVE  Base[u] + ptr'[u] <= size'
    BY <1>0 DEF Reaches, Source
  <2>1. Base[u] \in Nat /\ ptr[u] \in 0 .. Length
    BY DEF IInv, TypeOK
  <2>2. ptr[u] > 0 => Base[u] + ptr[u] <= size
    BY <1>0 DEF IInv, Reaches, Source
  <2>3. CASE u # t
    BY <1>1, <1>2, <1>5, <2>1, <2>2, <2>3
  <2>4. CASE u = t
    BY <1>0, <1>1, <1>2, <1>5, <2>1, <2>2, <2>4
  <2> QED
    BY <2>3, <2>4
<1> QED
  BY <1>1, <1>6, <1>7, <1>8 DEF IInv

\* A read() appends the next rc bytes of the source's region to the buffer.
LEMMA ReadCallKeeps ==
    ASSUME IInv, NEW t \in Tasks, NEW rc \in 0 .. Length, ReadCall(t, rc)
    PROVE  IInv'
<1> USE LengthAssumption, BaseAssumption
<1>0. /\ ~aborted /\ status[t] = "running" /\ access = "READ"
      /\ rc <= remaining[t]
      /\ Account(t, rc)
      /\ UNCHANGED <<access, file, size>>
  BY DEF ReadCall, IInv, TypeOK
<1>1. /\ remaining' \in [Tasks -> 0 .. Length]
      /\ ptr' \in [Tasks -> 0 .. Length]
      /\ status' \in [Tasks -> {"idle", "running", "returned"}]
      /\ xferRetries' \in [Tasks -> Nat]
      /\ pos' \in [Tasks -> 0 .. FileBytes]
      /\ aborted' \in BOOLEAN
      /\ Accounted' /\ Positioned' /\ TriesLeft'
      /\ ptr'[t] \in {ptr[t], ptr[t] + rc}
      /\ \A u \in Tasks \ {t} : ptr'[u] = ptr[u]
  BY <1>0, AccountKeeps
<1> DEFINE s == ReadFrom[t]
<1>2. /\ s \in Tasks
      /\ pos[t] = Base[s] + ptr[t]
      /\ ptr[t] \in 0 .. Length
      /\ ptr[t] + rc <= Length
      /\ Base[s] \in Nat /\ Base[s] + Length <= FileBytes
  BY <1>0, ReadFromAssumption DEF IInv, TypeOK, Accounted, Positioned, Source
<1>3. /\ buffer' \in [Tasks -> [Bytes -> Data]]
      /\ \A u \in Tasks \ {t} : buffer'[u] = buffer[u]
      /\ \A i \in Bytes : buffer'[t][i] =
             IF ptr[t] <= i /\ i < ptr[t] + rc THEN Pattern(s, i) ELSE buffer[t][i]
  <2> DEFINE new == [i \in Bytes |-> IF ptr[t] <= i /\ i < ptr[t] + rc
                                      THEN file[pos[t] + i - ptr[t]]
                                      ELSE buffer[t][i]]
  <2>1. buffer' = [buffer EXCEPT ![t] = new]
    BY DEF ReadCall, Fetched
  <2>2. \A i \in Bytes : (ptr[t] <= i /\ i < ptr[t] + rc) =>
            file[pos[t] + i - ptr[t]] = Pattern(s, i)
    <3> SUFFICES ASSUME NEW i \in Bytes PROVE file[pos[t] + i - ptr[t]] = Pattern(s, i)
      OBVIOUS
    <3>1. pos[t] + i - ptr[t] = Base[s] + i
      BY <1>2 DEF Bytes
    <3> QED
      BY <1>0, <1>2, <3>1 DEF IInv, Moved
  <2>3. \A i \in Bytes : new[i] = IF ptr[t] <= i /\ i < ptr[t] + rc
                                  THEN Pattern(s, i) ELSE buffer[t][i]
    BY <2>2
  <2>4. new \in [Bytes -> Data]
    BY <1>2, <2>3 DEF Data, IInv, TypeOK
  <2>5. buffer \in [Tasks -> [Bytes -> Data]]
    BY DEF IInv, TypeOK
  <2> HIDE DEF new
  <2> QED
    BY <2>1, <2>3, <2>4, <2>5
<1>4. TypeOK'
  BY <1>0, <1>1, <1>3 DEF TypeOK, IInv
<1>5. Moved'
  <2> SUFFICES ASSUME NEW u \in Tasks, NEW i \in Bytes, i < ptr'[u]
               PROVE  buffer'[u][i] = Pattern(ReadFrom[u], i)
    BY <1>0 DEF Moved, IInv
  <2>1. CASE u # t
    BY <1>0, <1>1, <1>3, <2>1 DEF IInv, Moved
  <2>2. CASE u = t /\ i < ptr[t]
    BY <1>0, <1>2, <1>3, <2>2 DEF IInv, Moved, Bytes
  <2>3. CASE u = t /\ ~(i < ptr[t])
    <3>1. ptr[t] <= i /\ i < ptr[t] + rc
      BY <1>1, <1>2, <2>3 DEF Bytes
    <3> QED
      BY <1>3, <2>3, <3>1
  <2> QED
    BY <2>1, <2>2, <2>3
<1>6. Reaches'
  <2> SUFFICES ASSUME NEW u \in Tasks
               PROVE  /\ ptr'[u] > 0 => Base[ReadFrom[u]] + ptr'[u] <= size
                      /\ Base[u] + Length <= size
    BY <1>0 DEF Reaches, Source
  <2>1. \A v \in Tasks : Base[v] + Length <= size
    BY <1>0 DEF IInv, Reaches
  <2>2. ReadFrom[u] \in Tasks /\ Base[ReadFrom[u]] \in Nat /\ ptr'[u] \in 0 .. Length
    BY <1>1, ReadFromAssumption
  <2>3. size \in 0 .. FileBytes
    BY DEF IInv, TypeOK
  <2> QED
    BY <2>1, <2>2, <2>3
<1> QED
  BY <1>1, <1>4, <1>5, <1>6 DEF IInv

-----------------------------------------------------------------------------
LEMMA SeekKeeps ==
    ASSUME IInv, NEW t \in Tasks, Seek(t)
    PROVE  IInv'
<1> USE LengthAssumption, BaseAssumption
<1>1. /\ Source(t) \in Tasks /\ Base[Source(t)] \in Nat
      /\ Base[Source(t)] + Length <= FileBytes
      /\ \A u \in Tasks : Source(u)' = Source(u)
  BY SourceIsTask DEF Seek, Source
<1>2. ptr[t] = 0 /\ remaining[t] = Length
  BY DEF Seek, IInv, TypeOK, Accounted
<1>3. TypeOK'
  BY <1>1 DEF Seek, IInv, TypeOK
<1>4. Accounted'
  BY <1>2 DEF Seek, IInv, TypeOK, Accounted
<1>5. Positioned'
  BY <1>1, <1>2 DEF Seek, IInv, TypeOK, Positioned
<1>6. Moved' /\ TriesLeft'
  BY DEF Seek, IInv, TypeOK, Moved, TriesLeft
<1>7. Reaches'
  BY <1>1 DEF Seek, IInv, Reaches
<1> QED
  BY <1>3, <1>4, <1>5, <1>6, <1>7 DEF IInv

LEMMA CallFailsKeeps ==
    ASSUME IInv, NEW t \in Tasks, CallFails(t)
    PROVE  IInv'
<1>1. \A u \in Tasks : Source(u)' = Source(u)
  BY DEF CallFails, Source
<1> QED
  BY <1>1 DEF CallFails, IInv, TypeOK, Accounted, Positioned, Moved, Reaches, TriesLeft

\* When every write has returned, the whole of every region is in place.
LEMMA StartReadKeeps ==
    ASSUME IInv, StartRead
    PROVE  IInv'
<1> USE LengthAssumption, BaseAssumption, RetryAssumption DEF StartRead
<1>1. \A t \in Tasks : ptr[t] = Length
  BY DEF IInv, TypeOK, Accounted
<1>2. TypeOK'
  BY DEF IInv, TypeOK, Data
<1>3. Accounted' /\ Positioned' /\ TriesLeft'
  BY DEF Accounted, Positioned, TriesLeft
<1>4. Moved'
  <2>1. \A t \in Tasks, i \in Bytes : file[Base[t] + i] = Pattern(t, i)
    <3> SUFFICES ASSUME NEW t \in Tasks, NEW i \in Bytes
                 PROVE  file[Base[t] + i] = Pattern(t, i)
      OBVIOUS
    <3>1. i < ptr[t]
      BY <1>1 DEF Bytes
    <3> QED
      BY <3>1 DEF IInv, Moved
  <2>2. /\ access' = "READ" /\ UNCHANGED file
        /\ \A t \in Tasks : ptr'[t] = 0
    OBVIOUS
  <2>3. \A i \in Bytes : ~(i < 0)
    BY DEF Bytes
  <2> QED
    BY <2>1, <2>2, <2>3 DEF Moved
<1>5. Reaches'
  BY <1>1 DEF IInv, Reaches, Source
<1> QED
  BY <1>2, <1>3, <1>4, <1>5 DEF IInv

LEMMA NextKeeps == IInv /\ [Next]_vars => IInv'
<1> SUFFICES ASSUME IInv, [Next]_vars PROVE IInv'
  OBVIOUS
<1>1. CASE StartRead
  BY <1>1, StartReadKeeps
<1>2. ASSUME NEW t \in Tasks, Seek(t) PROVE IInv'
  BY <1>2, SeekKeeps
<1>3. ASSUME NEW t \in Tasks, NEW rc \in 0 .. Length, WriteCall(t, rc) PROVE IInv'
  BY <1>3, WriteCallKeeps
<1>4. ASSUME NEW t \in Tasks, NEW rc \in 0 .. Length, ReadCall(t, rc) PROVE IInv'
  BY <1>4, ReadCallKeeps
<1>5. ASSUME NEW t \in Tasks, CallFails(t) PROVE IInv'
  BY <1>5, CallFailsKeeps
<1>6. CASE UNCHANGED vars
  <2>1. \A u \in Tasks : Source(u)' = Source(u)
    BY <1>6 DEF vars, Source
  <2> QED
    BY <1>6, <2>1 DEF vars, IInv, TypeOK, Accounted, Positioned, Moved, Reaches, TriesLeft
<1> QED
  BY <1>1, <1>2, <1>3, <1>4, <1>5, <1>6 DEF Next, Xfer

(* The inductive invariant holds throughout.                                *)
THEOREM Inductive == Spec => []IInv
BY InitInv, NextKeeps, PTL DEF Spec

-----------------------------------------------------------------------------
(* The state has its type: in particular no transfer ever points outside    *)
(* its buffer or its file, and no counter of the loop goes negative.        *)
THEOREM TypeCorrect == Spec => []TypeOK
<1>1. IInv => TypeOK
  BY DEF IInv
<1> QED
  BY <1>1, Inductive, PTL

(* A write that returned put every byte of its buffer in its own region.    *)
THEOREM WritesWhole == Spec => []WriteIsWhole
<1>1. IInv => WriteIsWhole
  <2> SUFFICES ASSUME IInv, NEW t \in Tasks, NEW i \in Bytes,
                      access = "READ" \/ status[t] = "returned"
               PROVE  file[Base[t] + i] = Pattern(t, i)
    BY DEF WriteIsWhole
  <2>1. status[t] = "returned" => i < ptr[t]
    BY LengthAssumption DEF IInv, TypeOK, Accounted, Bytes
  <2> QED
    BY <2>1 DEF IInv, Moved
<1> QED
  BY <1>1, Inductive, PTL

(* A read that returned delivers the source's bytes in order, without gaps. *)
THEOREM ReadsWhole == Spec => []ReadIsWhole
<1>1. IInv => ReadIsWhole
  <2> SUFFICES ASSUME IInv, NEW t \in Tasks, NEW i \in Bytes,
                      access = "READ", status[t] = "returned"
               PROVE  buffer[t][i] = Pattern(ReadFrom[t], i)
    BY DEF ReadIsWhole
  <2>1. i < ptr[t]
    BY LengthAssumption DEF IInv, TypeOK, Accounted, Bytes
  <2> QED
    BY <2>1 DEF IInv, Moved
<1> QED
  BY <1>1, Inductive, PTL

(* A read pass after a complete write pass never meets the end of the file. *)
THEOREM NeverEOF == Spec => []NoEOF
<1>1. IInv => NoEOF
  <2> SUFFICES ASSUME IInv, NEW t \in Tasks, access = "READ", status[t] = "running"
               PROVE  pos[t] < size
    BY DEF NoEOF
  <2>1. ReadFrom[t] \in Tasks /\ Base[ReadFrom[t]] \in Nat
    BY ReadFromAssumption, BaseAssumption
  <2>2. pos[t] < Base[ReadFrom[t]] + Length /\ Base[ReadFrom[t]] + Length <= size
    BY <2>1 DEF IInv, Positioned, Reaches, Source
  <2> QED
    BY <2>1, <2>2, LengthAssumption DEF IInv, TypeOK
<1> QED
  BY <1>1, Inductive, PTL

(* No transfer makes more than MAX_RETRY + 2 calls, and none makes a second *)
(* one when retries are not wanted.                                         *)
THEOREM RetriesAreBounded == Spec => []RetriesBounded
<1>1. IInv => RetriesBounded
  BY DEF IInv, TriesLeft, RetriesBounded
<1> QED
  BY <1>1, Inductive, PTL

-----------------------------------------------------------------------------
(* The loop implements the one-step transfer of IorStore.                    *)

\* The region of t as t fills it.
Full(t) == [i \in Bytes |-> Pattern(t, i)]

\* What the mapping shows depends on nothing but the pass and who has returned.
LEMMA ShownContent ==
    ASSUME IInv, NEW t \in Tasks
    PROVE  RegionContent(t) = IF access = "READ" \/ status[t] = "returned"
                              THEN Full(t) ELSE Blank
<1> SUFFICES ASSUME access = "READ" \/ status[t] = "returned", NEW i \in Bytes
             PROVE  file[Base[t] + i] = Pattern(t, i)
  BY DEF RegionContent, Full
<1>1. status[t] = "returned" => i < ptr[t]
  BY LengthAssumption DEF IInv, TypeOK, Accounted, Bytes
<1> QED
  BY <1>1 DEF IInv, Moved

LEMMA ShownDelivery ==
    ASSUME IInv, NEW t \in Tasks
    PROVE  Delivered(t) = IF access = "READ" /\ status[t] = "returned"
                          THEN Full(ReadFrom[t]) ELSE Blank
<1> SUFFICES ASSUME access = "READ", status[t] = "returned"
             PROVE  buffer[t] = Full(ReadFrom[t])
  BY DEF Delivered
<1>1. buffer[t] \in [Bytes -> Data]
  BY DEF IInv, TypeOK
<1>2. \A i \in Bytes : buffer[t][i] = Pattern(ReadFrom[t], i)
  <2> TAKE i \in Bytes
  <2>1. i < ptr[t]
    BY LengthAssumption DEF IInv, TypeOK, Accounted, Bytes
  <2> QED
    BY <2>1 DEF IInv, Moved
<1> QED
  BY <1>1, <1>2 DEF Full

\* Both together, in this state and in the next.
Shown ==
    \A t \in Tasks :
        /\ RegionContent(t) = IF access = "READ" \/ status[t] = "returned"
                              THEN Full(t) ELSE Blank
        /\ Delivered(t) = IF access = "READ" /\ status[t] = "returned"
                          THEN Full(ReadFrom[t]) ELSE Blank

LEMMA ShownNow == IInv => Shown
BY ShownContent, ShownDelivery DEF Shown

LEMMA ShownNext == IInv' => Shown'
BY ShownNow, PTL

\* What t asks for while it runs.
Request(t) ==
    [write |-> access = "WRITE", cell |-> Source(t),
     datum |-> IF access = "WRITE" THEN Full(t) ELSE Blank]

LEMMA RequestIsOne ==
    ASSUME NEW t \in Tasks
    PROVE  /\ Request(t) \in [write : BOOLEAN, cell : Tasks, datum : Whole]
           /\ Asked(t) = IF status[t] = "running" THEN {Request(t)} ELSE {}
<1>1. Full(t) \in Whole /\ Blank \in Whole
  BY DEF Full, Blank, Whole, Data
<1> QED
  BY <1>1, SourceIsTask DEF Request, Asked, Full

\* A step that changes neither the pass nor anyone's status is invisible.
LEMMA Invisible ==
    ASSUME IInv, IInv', UNCHANGED <<access, status>>
    PROVE  UNCHANGED Store!svars
<1>1. \A t \in Tasks : /\ RegionContent(t)' = RegionContent(t)
                       /\ Delivered(t)' = Delivered(t)
                       /\ Asked(t)' = Asked(t)
  <2>1. Shown /\ Shown'
    BY ShownNow, ShownNext
  <2>2. \A t \in Tasks : Full(t)' = Full(t)
    BY DEF Full, Pattern, Bytes
  <2>3. \A t \in Tasks : Asked(t)' = Asked(t)
    BY DEF Asked, Source
  <2> QED
    BY <2>1, <2>2, <2>3 DEF Shown
<1> QED
  BY <1>1 DEF Store!svars

\* A step in which t alone returns is its whole transfer.
LEMMA Returning ==
    ASSUME IInv, IInv', UNCHANGED access,
           NEW t \in Tasks, status[t] = "running",
           status' = [status EXCEPT ![t] = "returned"]
    PROVE  Store!Next
<1>1. Shown /\ Shown'
  BY ShownNow, ShownNext
<1>2. /\ \A u \in Tasks : status'[u] = IF u = t THEN "returned" ELSE status[u]
      /\ access \in {"WRITE", "READ"}
  BY DEF IInv, TypeOK
<1>3. /\ \A u \in Tasks : Asked(u)' = IF u = t THEN {} ELSE Asked(u)
      /\ Asked(t) = {Request(t)}
      /\ Source(t) \in Tasks
  <2>1. \A u \in Tasks : Asked(u)' = IF u = t THEN {} ELSE Asked(u)
    BY <1>2 DEF Asked, Source
  <2>2. Asked(t) = {Request(t)}
    BY RequestIsOne
  <2> QED
    BY <2>1, <2>2, SourceIsTask
<1>4. CASE access = "WRITE"
  <2>1. \A u \in Tasks : /\ RegionContent(u)' = IF u = t THEN Full(t)
                                                ELSE RegionContent(u)
                         /\ Delivered(u)' = Delivered(u)
    BY <1>1, <1>2, <1>4 DEF Shown
  <2>2. Request(t).write /\ Request(t).cell = t /\ Request(t).datum = Full(t)
    BY <1>4 DEF Request, Source
  <2>3. Store!Write(t)
    BY ZenonT(30), <1>3, <2>1, <2>2 DEF Store!Write
  <2> QED
    BY <2>3 DEF Store!Next
<1>5. CASE access = "READ"
  <2>1. \A u \in Tasks : /\ RegionContent(u)' = RegionContent(u)
                         /\ Delivered(u)' = IF u = t THEN Full(ReadFrom[t])
                                            ELSE Delivered(u)
    BY <1>1, <1>2, <1>5 DEF Shown
  <2>2. ~Request(t).write /\ Request(t).cell = ReadFrom[t]
    BY <1>5 DEF Request, Source
  <2>3. RegionContent(ReadFrom[t]) = Full(ReadFrom[t]) /\ ReadFrom[t] \in Tasks
    BY <1>1, <1>5, ReadFromAssumption DEF Shown
  <2>4. Store!Read(t)
    BY <1>3, <2>1, <2>2, <2>3 DEF Store!Read
  <2> QED
    BY <2>4 DEF Store!Next
<1> QED
  BY <1>2, <1>4, <1>5

LEMMA SeekAsks ==
    ASSUME IInv, IInv', NEW t \in Tasks, Seek(t)
    PROVE  Store!Ask(t)
<1>1. Shown /\ Shown'
  BY ShownNow, ShownNext
<1>2. /\ \A u \in Tasks : status'[u] = IF u = t THEN "running" ELSE status[u]
      /\ status[t] = "idle" /\ UNCHANGED access
  BY DEF Seek, IInv, TypeOK
<1>3. /\ \A u \in Tasks : Asked(u)' = IF u = t THEN {Request(t)} ELSE Asked(u)
      /\ Asked(t) = {}
  BY <1>2, RequestIsOne DEF Asked, Source, Request, Full
<1>4. \A u \in Tasks : /\ RegionContent(u)' = RegionContent(u)
                       /\ Delivered(u)' = Delivered(u)
  BY <1>1, <1>2 DEF Shown
<1>5. Request(t) \in [write : BOOLEAN, cell : Tasks, datum : Whole]
  BY RequestIsOne
<1> QED
  BY <1>3, <1>4, <1>5 DEF Store!Ask, Store!Requests

\* One iteration either goes on, which nobody sees, or returns.
LEMMA AccountShows ==
    ASSUME IInv, IInv', NEW t \in Tasks, NEW rc \in 0 .. Length,
           status[t] = "running", Account(t, rc), UNCHANGED access
    PROVE  Store!Next \/ UNCHANGED Store!svars
<1>1. status \in [Tasks -> {"idle", "running", "returned"}]
  BY DEF IInv, TypeOK
<1>2. \/ status' = status
      \/ status' = [status EXCEPT ![t] = "returned"]
  BY <1>1 DEF Account
<1> QED
  BY <1>2, Invisible, Returning

LEMMA StartReadShows ==
    ASSUME IInv, IInv', StartRead
    PROVE  UNCHANGED Store!svars
<1>1. Shown /\ Shown'
  BY ShownNow, ShownNext
<1>2. /\ access = "WRITE" /\ access' = "READ"
      /\ \A t \in Tasks : status[t] = "returned" /\ status'[t] = "idle"
  BY DEF StartRead
<1>3. \A t \in Tasks : /\ RegionContent(t)' = RegionContent(t)
                       /\ Delivered(t)' = Delivered(t)
                       /\ Asked(t)' = Asked(t)
  BY <1>1, <1>2 DEF Shown, Asked
<1> QED
  BY <1>3 DEF Store!svars

LEMMA StepShows ==
    ASSUME IInv, IInv', [Next]_vars
    PROVE  [Store!Next]_Store!svars
<1>1. CASE StartRead
  BY <1>1, StartReadShows
<1>2. ASSUME NEW t \in Tasks, Seek(t) PROVE Store!Next
  BY <1>2, SeekAsks DEF Store!Next
<1>3. ASSUME NEW t \in Tasks, NEW rc \in 0 .. Length, WriteCall(t, rc) \/ ReadCall(t, rc)
      PROVE  Store!Next \/ UNCHANGED Store!svars
  BY <1>3, AccountShows DEF WriteCall, ReadCall
<1>4. ASSUME NEW t \in Tasks, CallFails(t) PROVE UNCHANGED Store!svars
  BY <1>4, Invisible DEF CallFails
<1>5. CASE UNCHANGED vars
  BY <1>5, Invisible DEF vars
<1> QED
  BY <1>1, <1>2, <1>3, <1>4, <1>5 DEF Next, Xfer

LEMMA InitShows == Init => Store!Init
<1> SUFFICES ASSUME Init PROVE Store!Init
  OBVIOUS
<1>1. /\ access = "WRITE"
      /\ \A t \in Tasks : status[t] = "idle"
  BY DEF Init
<1>2. \A t \in Tasks : RegionContent(t) = Blank /\ Delivered(t) = Blank /\ Asked(t) = {}
  BY <1>1 DEF RegionContent, Delivered, Asked
<1>3. Blank \in Whole
  BY DEF Blank, Whole, Data
<1> QED
  BY <1>2, <1>3 DEF Store!Init

(* POSIX_Xfer implements the one-step transfer: for any number of tasks,    *)
(* any transfer size and any way the kernel cuts the calls, what the test   *)
(* driver sees is a store whose cells change only as wholes.                *)
THEOREM LoopIsOneStep == Spec => ImplementsStore
<1>1. IInv /\ IInv' /\ [Next]_vars => [Store!Next]_Store!svars
  BY StepShows
<1> QED
  BY <1>1, InitShows, Inductive, PTL DEF Spec, ImplementsStore, Store!Spec
=============================================================================
