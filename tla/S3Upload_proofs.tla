--------------------------- MODULE S3Upload_proofs ---------------------------
(***************************************************************************)
(* Readers find what was written, and without a deadline no request is     *)
(* refused, for any number of tasks, transfers and repetitions, with parts *)
(* and with byte ranges.  Byte ranges of a shared object need the barrier  *)
(* between create and the first put: see NoPutIsLost.                      *)
(***************************************************************************)
EXTENDS S3Upload, RowsAndColumns

-----------------------------------------------------------------------------
(* The collectives of a repetition                                          *)

One(x) == IF x THEN 1 ELSE 0
Id == One(multi_part_upload_p /\ ~n_to_n)   \* the UploadId is sent, etags are counted
Bar == One(test.intraTestBarriers)
Meet == One(~n_to_n)

\* How many of this repetition's collectives a task at pc has entered ...
Entered == [ready |-> 1, bucket |-> 1, connect |-> 1, create |-> 1, initiate |-> 1, bcast |-> 2,
            opened |-> 2 + Id, write |-> 1 + Id + Bar, written |-> 2 + Id + Bar,
            close |-> 1 + Id + 2 * Bar, tally |-> 2 + Id + 2 * Bar, gather |-> 2 + Id + 2 * Bar,
            closed |-> 2 + 2 * Id + 2 * Bar, synced |-> 2 + 2 * Id + 2 * Bar + Meet,
            sizes |-> 3 + 2 * Id + 2 * Bar + Meet, reading |-> 4 + 2 * Id + 2 * Bar + Meet,
            read |-> 4 + 2 * Id + 2 * Bar + Meet, ended |-> 5 + 2 * Id + 2 * Bar + Meet, done |-> 0]
PerRepetition == 5 + 2 * Id + 2 * Bar + Meet

\* ... and how many of the last of them all tasks need not have entered: the one it
\* waits in, and the broadcast, which only waits for its root.
Loose == IF test.intraTestBarriers THEN 0 ELSE Id
Ahead == [ready |-> 1, bucket |-> 0, connect |-> 1, create |-> 0, initiate |-> 0, bcast |-> 1,
          opened |-> 1 + Id, write |-> Loose, written |-> 1, close |-> Loose, tally |-> 1 + Loose,
          gather |-> 0, closed |-> 1, synced |-> 1, sizes |-> 1, reading |-> 1, read |-> 0,
          ended |-> 1, done |-> 0]

Places == DOMAIN Entered
Here(p) == Entered[p.pc] + One(p.connected \/ p.pc = "connect")
All(p) == Here(p) - Ahead[p.pc]

Early == {"ready", "bucket", "connect", "create", "initiate", "bcast", "opened"}
Late == {"synced", "sizes", "reading", "read", "ended"}
After == {"closed"} \cup Late

Legal(p) ==
    /\ p.pc \in Places /\ p.rep \in Nat /\ p.connected \in BOOLEAN
    /\ p.pc = "initiate" => multi_part_upload_p
    /\ p.pc \in {"bcast", "tally", "gather"} => multi_part_upload_p /\ ~n_to_n
    /\ p.pc \in {"opened", "written"} => test.intraTestBarriers
    /\ p.pc = "closed" => ~n_to_n
    /\ p.pc \in {"bucket", "connect"} => p.rep = 0
    /\ p.pc = "done" => p.rep > 0
    /\ p.connected <=> (p.rep > 0 \/ p.pc \notin {"ready", "bucket", "connect"})
    /\ p.calls = PerRepetition * p.rep + Here(p)

Fields == DOMAIN Task0
Paced ==
    /\ DOMAIN st = Members
    /\ \A r \in Members : DOMAIN st[r] = Fields /\ Legal(st[r])
    /\ \A r, q \in Members : st[r].calls >= st[q].calls - Ahead[st[q].pc]

-----------------------------------------------------------------------------
(* What a task has written                                                  *)

Etags(r, rep, n) == [i \in 1 .. n |-> Cell(r, rep, i - 1)]
Row(r, rep, n) == [k \in 0 .. n - 1 |-> Cell(r, rep, k)]
Putting == {"write", "written", "close", "tally", "gather"}

Amount(p, r) ==
    /\ p.wrote \in 0 .. XfersPerTask /\ p.tallied \in 0 .. XfersPerTask
    /\ p.pc \in Early \cup {"done"} => p.wrote = 0
    /\ p.pc = "write" => p.wrote < XfersPerTask
    /\ p.pc \notin Early \cup {"done", "write"} =>
          p.wrote > 0 /\ (~test.deadlineForStonewalling => p.wrote = XfersPerTask)
    /\ IF multi_part_upload_p /\ p.pc \in Putting
       THEN p.part_number = p.wrote /\ p.etags = Etags(r, p.rep, p.wrote)
       ELSE p.part_number = 0 /\ p.etags = << >>
    /\ (multi_part_upload_p /\ p.pc \in {"tally", "gather", "closed"}) => p.tallied = p.wrote
    /\ p.pc = "read" => p.k \in 0 .. XfersPerTask - 1

Amounts == \A r \in Members : Amount(st[r], r)

\* The bucket is there before anybody puts.
BucketIsThere == \A r \in Members : (st[r].connected \/ (r = 0 /\ st[r].pc = "connect")) => bucket

\* The object's size that tasks are told.
Size(q) == Length(objects[Name(q)])
Sizes ==
    \A r \in Members :
        /\ st[r].pc \in Late \ {"synced"} => st[r].stat = Size(r)
        /\ st[r].pc \in {"reading", "read", "ended"} =>
              st[r].aggFileSize = Aggregate([q \in Members |-> Size(q)])

-----------------------------------------------------------------------------
(* An upload of all tasks                                                   *)

Takers == {"opened", "write", "written", "close", "tally"}
RootPuts == Takers \cup {"bcast", "gather"}

UploadIsShared ==
    \A r \in Members :
        /\ st[r].pc = "initiate" => r = 0
        /\ st[r].pc \in Takers =>
              st[0].pc \in RootPuts /\ st[r].rep = st[0].rep /\ st[r].UploadId = st[0].UploadId

Upload == uploads[st[0].UploadId]
PartsAreCells ==
    st[0].pc \in RootPuts =>
        /\ st[0].UploadId \in DOMAIN uploads /\ Upload.name = -1
        /\ \A j \in DOMAIN Upload.parts : \E v \in Members, m \in 0 .. XfersPerTask - 1 :
              j = PartNumber(v, m) /\ Upload.parts[j] = Cell(v, st[0].rep, m)
        /\ \A r \in Members : \A k \in 0 .. st[r].wrote - 1 :
              /\ PartNumber(r, k) \in DOMAIN Upload.parts
              /\ Upload.parts[PartNumber(r, k)] = Cell(r, st[0].rep, k)

Gathering ==
    /\ \A r \in Members : st[r].pc = "gather" => r = 0
    /\ \A r \in Members : gathered[r] # << >> =>
          /\ st[0].pc \in RootPuts /\ st[r].rep = st[0].rep /\ st[r].pc \in {"gather", "closed"}
          /\ gathered[r] = Etags(r, st[0].rep, st[r].wrote)
          /\ \A q \in Members : st[q].tallied <= st[r].tallied

\* Rank 0 has made the object of as many parts from each.
Assembled ==
    st[0].pc \in After =>
        /\ DOMAIN objects[-1] = 0 .. N * st[0].wrote - 1
        /\ \A w \in Members :
              /\ st[w].wrote = st[0].wrote \/ (st[w].wrote = 0 /\ st[w].pc \in {"ready", "done"})
              /\ \A k \in 0 .. st[0].wrote - 1 :
                    /\ OffsetOf(w, k) \in DOMAIN objects[-1]
                    /\ objects[-1][OffsetOf(w, k)] = Cell(w, st[0].rep, k)

SharedParts == UploadIsShared /\ PartsAreCells /\ Gathering /\ Assembled

-----------------------------------------------------------------------------
(* Own objects, and byte ranges of one                                      *)

OwnParts ==
    \A r \in Members :
        /\ st[r].pc \in {"opened", "write", "written", "close"} =>
              LET u == st[r].UploadId
              IN  /\ u \in DOMAIN uploads /\ uploads[u].name = r
                  /\ uploads[u].parts = Row(r, st[r].rep, st[r].wrote)
        /\ st[r].pc \in Late => objects[r] = Row(r, st[r].rep, st[r].wrote)

OwnBytes ==
    \A r \in Members : st[r].pc \in {"opened", "write", "written", "close"} \cup Late =>
        objects[r] = Row(r, st[r].rep, st[r].wrote)

SharedBytes ==
    /\ \A r \in Members : \A k \in 0 .. st[r].wrote - 1 :
          /\ OffsetOf(r, k) \in DOMAIN objects[-1]
          /\ objects[-1][OffsetOf(r, k)] = Cell(r, st[r].rep, k)
    /\ \A r \in Members : st[r].pc \in {"opened", "write", "written", "close"} \cup After =>
          \E length \in 0 .. N * XfersPerTask : DOMAIN objects[-1] = 0 .. length - 1

Shape ==
    /\ DOMAIN objects = -1 .. N - 1 /\ DOMAIN gathered = World
    /\ Len(uploads) \in Nat /\ uploads = [u \in 1 .. Len(uploads) |-> uploads[u]]
    /\ \A u \in DOMAIN uploads : DOMAIN uploads[u] = {"name", "parts", "done"}

Stored ==
    /\ Shape
    /\ IF multi_part_upload_p THEN IF n_to_n THEN OwnParts ELSE SharedParts
       ELSE IF n_to_n THEN OwnBytes ELSE SharedBytes

IInv ==
    /\ test \in Tests /\ Paced /\ Amounts /\ BucketIsThere /\ Sizes /\ Stored
    /\ NothingRefused

-----------------------------------------------------------------------------
(* Who can be where                                                         *)

LEMMA TestIs ==
    ASSUME test \in Tests
    PROVE  /\ N \in Nat \ {0} /\ Members \subseteq World /\ 0 \in Members
           /\ \A r \in Members : r \in Nat /\ r < N
           /\ test.segmentCount \in Nat \ {0} /\ test.xfersPerBlock \in Nat \ {0}
           /\ test.repetitions \in Nat \ {0} /\ test.rankOffset \in Nat
           /\ XfersPerTask \in Nat \ {0}
           /\ n_to_n \in BOOLEAN /\ test.intraTestBarriers \in BOOLEAN
           /\ test.deadlineForStonewalling \in BOOLEAN /\ multi_part_upload_p \in BOOLEAN
           /\ (~n_to_n /\ ~segmented) => test.xfersPerBlock = 1
<1>1. /\ test.numTasks \in 1 .. NumTasksWorld /\ test.segmentCount \in Nat \ {0}
      /\ test.xfersPerBlock \in Nat \ {0} /\ test.repetitions \in Nat \ {0}
      /\ test.rankOffset \in Nat
      /\ (~test.filePerProc /\ test.segmentCount # 1) => test.xfersPerBlock = 1
      /\ test.filePerProc \in BOOLEAN /\ test.intraTestBarriers \in BOOLEAN
      /\ test.deadlineForStonewalling \in BOOLEAN
  BY TestsAssumption
<1>2. XfersPerTask \in Nat \ {0}
  <2>1. test.xfersPerBlock * test.segmentCount \in Nat
    BY <1>1
  <2>2. 1 * test.segmentCount <= test.xfersPerBlock * test.segmentCount
    BY <1>1, Monotone
  <2> QED
    BY <1>1, <2>1, <2>2 DEF XfersPerTask
<1> QED
  BY <1>1, <1>2, WorldAssumption DEF N, Members, World, n_to_n, segmented, multi_part_upload_p

LEMMA NumbersAre ==
    ASSUME test \in Tests
    PROVE  /\ Id \in 0 .. 1 /\ Bar \in 0 .. 1 /\ Meet \in 0 .. 1 /\ Loose \in 0 .. 1
           /\ Id = 1 <=> multi_part_upload_p /\ ~n_to_n
           /\ Bar = 1 <=> test.intraTestBarriers
           /\ Meet = 1 <=> ~n_to_n
           /\ Loose = IF Bar = 1 THEN 0 ELSE Id
           /\ PerRepetition = 5 + 2 * Id + 2 * Bar + Meet /\ PerRepetition \in Nat
           /\ \A x \in BOOLEAN : One(x) \in 0 .. 1 /\ (One(x) = 1 <=> x)
  BY TestIs DEF Id, Bar, Meet, Loose, PerRepetition, One

LEMMA EnteredIs ==
    /\ Entered.ready = 1 /\ Entered.bucket = 1 /\ Entered.connect = 1 /\ Entered.create = 1
    /\ Entered.initiate = 1 /\ Entered.bcast = 2 /\ Entered.opened = 2 + Id
    /\ Entered.write = 1 + Id + Bar /\ Entered.written = 2 + Id + Bar
    /\ Entered.close = 1 + Id + 2 * Bar /\ Entered.tally = 2 + Id + 2 * Bar
    /\ Entered.gather = 2 + Id + 2 * Bar /\ Entered.closed = 2 + 2 * Id + 2 * Bar
    /\ Entered.synced = 2 + 2 * Id + 2 * Bar + Meet /\ Entered.sizes = 3 + 2 * Id + 2 * Bar + Meet
    /\ Entered.reading = 4 + 2 * Id + 2 * Bar + Meet /\ Entered.read = 4 + 2 * Id + 2 * Bar + Meet
    /\ Entered.ended = 5 + 2 * Id + 2 * Bar + Meet /\ Entered.done = 0
  BY DEF Entered

LEMMA AheadIs ==
    /\ Ahead.ready = 1 /\ Ahead.bucket = 0 /\ Ahead.connect = 1 /\ Ahead.create = 0
    /\ Ahead.initiate = 0 /\ Ahead.bcast = 1 /\ Ahead.opened = 1 + Id /\ Ahead.write = Loose
    /\ Ahead.written = 1 /\ Ahead.close = Loose /\ Ahead.tally = 1 + Loose /\ Ahead.gather = 0
    /\ Ahead.closed = 1 /\ Ahead.synced = 1 /\ Ahead.sizes = 1 /\ Ahead.reading = 1
    /\ Ahead.read = 0 /\ Ahead.ended = 1 /\ Ahead.done = 0
  BY DEF Ahead

LEMMA PlacesAre ==
    Places = {"ready", "bucket", "connect", "create", "initiate", "bcast", "opened", "write",
              "written", "close", "tally", "gather", "closed", "synced", "sizes", "reading",
              "read", "ended", "done"}
  BY DEF Places, Entered

LEMMA LabelsAre ==
    ASSUME test \in Tests, NEW c \in Places
    PROVE  /\ Entered[c] \in 0 .. PerRepetition
           /\ Entered[c] = PerRepetition => c = "ended"
           /\ Ahead[c] \in Nat /\ Ahead[c] <= Entered[c]
           /\ Entered[c] = Ahead[c] => c \in {"ready", "connect", "done"}
<1> USE PlacesAre, NumbersAre, EnteredIs
<1>1. Entered[c] \in 0 .. PerRepetition
  OBVIOUS
<1>2. Entered[c] = PerRepetition => c = "ended"
  OBVIOUS
<1> USE AheadIs
<1>3. Ahead[c] \in Nat
  OBVIOUS
<1>4. Ahead[c] <= Entered[c]
  OBVIOUS
<1>5. Entered[c] = Ahead[c] => c \in {"ready", "connect", "done"}
  OBVIOUS
<1> QED
  BY <1>1, <1>2, <1>3, <1>4, <1>5

LEMMA HereIs ==
    ASSUME test \in Tests, NEW p, Legal(p)
    PROVE  /\ Here(p) \in Nat /\ Here(p) <= PerRepetition + 1
           /\ Here(p) = PerRepetition + 1 => p.pc = "ended"
           /\ Ahead[p.pc] \in Nat /\ All(p) \in Nat /\ Here(p) = All(p) + Ahead[p.pc]
           /\ p.rep > 0 => All(p) > 0
           /\ (p.rep > 0 /\ All(p) = 1) => p.pc \in {"ready", "done"}
           /\ Entered[p.pc] \in Nat /\ Here(p) <= Entered[p.pc] + 1
           /\ p.connected \/ p.pc = "connect" => Here(p) = Entered[p.pc] + 1
<1> DEFINE c == p.pc
           x == One(p.connected \/ c = "connect")
<1>1. c \in Places /\ p.connected \in BOOLEAN /\ p.rep \in Nat
  BY DEF Legal
<1>2. /\ Entered[c] \in 0 .. PerRepetition
      /\ Entered[c] = PerRepetition => c = "ended"
      /\ Ahead[c] \in Nat /\ Ahead[c] <= Entered[c]
      /\ Entered[c] = Ahead[c] => c \in {"ready", "connect", "done"}
  BY <1>1, LabelsAre
<1>3. x \in 0 .. 1 /\ (x = 1 <=> (p.connected \/ c = "connect")) /\ (p.rep > 0 => x = 1)
  BY <1>1 DEF Legal, One
<1>4. Here(p) = Entered[c] + x /\ All(p) = (Entered[c] + x) - Ahead[c]
  BY DEF Here, All
<1>5. c = "connect" => p.rep = 0
  BY DEF Legal
<1>6. PerRepetition \in Nat
  BY NumbersAre
<1> HIDE DEF x, c
<1>7. Here(p) \in Nat /\ Here(p) <= PerRepetition + 1
  BY <1>2, <1>3, <1>4, <1>6
<1>8. Here(p) = PerRepetition + 1 => c = "ended"
  BY <1>2, <1>3, <1>4, <1>6
<1>9. All(p) \in Nat /\ Here(p) = All(p) + Ahead[c]
  BY <1>2, <1>3, <1>4
<1>10. p.rep > 0 => All(p) > 0
  BY <1>1, <1>2, <1>3, <1>4
<1>11. (p.rep > 0 /\ All(p) = 1) => c \in {"ready", "done"}
  BY <1>1, <1>2, <1>3, <1>4, <1>5
<1> QED
  BY <1>2, <1>3, <1>4, <1>7, <1>8, <1>9, <1>10, <1>11 DEF c

\* Two tasks are in the same repetition, and all barriers that one of them has left
\* the other has entered; or one has yet to leave the last barrier of a repetition
\* that the other has left.
LEMMA Pairs ==
    ASSUME test \in Tests, Paced, NEW r \in Members, NEW q \in Members
    PROVE  \/ st[q].rep = st[r].rep /\ Here(st[q]) >= All(st[r])
           \/ st[q].rep = st[r].rep + 1 /\ st[r].pc = "ended" /\ st[q].pc \in {"ready", "done"}
           \/ st[r].rep = st[q].rep + 1 /\ st[q].pc = "ended" /\ st[r].pc \in {"ready", "done"}
<1> DEFINE K == PerRepetition
<1>1. K \in Nat /\ K >= 5
  BY NumbersAre
<1>2. ASSUME NEW x \in Members
      PROVE  /\ st[x].calls = K * st[x].rep + Here(st[x]) /\ st[x].rep \in Nat
             /\ Here(st[x]) \in Nat /\ Here(st[x]) <= K + 1
             /\ Here(st[x]) = K + 1 => st[x].pc = "ended"
             /\ Ahead[st[x].pc] \in Nat /\ All(st[x]) \in Nat
             /\ Here(st[x]) = All(st[x]) + Ahead[st[x].pc]
             /\ st[x].rep > 0 => All(st[x]) > 0
             /\ (st[x].rep > 0 /\ All(st[x]) = 1) => st[x].pc \in {"ready", "done"}
  BY HereIs DEF Paced, Legal
<1> HIDE DEF K
<1>3. ASSUME NEW x \in Members, NEW y \in Members, st[x].rep < st[y].rep
      PROVE  st[y].rep = st[x].rep + 1 /\ st[x].pc = "ended" /\ st[y].pc \in {"ready", "done"}
  <2> DEFINE a == st[x].rep
             b == st[y].rep
  <2>1. a \in Nat /\ b \in Nat /\ a < b
    BY <1>2, <1>3
  <2>2. K * a + Here(st[x]) >= K * b + All(st[y])
    <3>1. st[x].calls >= st[y].calls - Ahead[st[y].pc]
      BY DEF Paced
    <3> QED
      <4> DEFINE ka == K * a
                 kb == K * b
      <4>1. ka \in Nat /\ kb \in Nat
        BY <1>1, <2>1
      <4>2. st[x].calls = ka + Here(st[x]) /\ st[y].calls = kb + Here(st[y])
        BY <1>2
      <4> HIDE DEF ka, kb
      <4>3. ka + Here(st[x]) >= kb + All(st[y])
        BY <1>2, <3>1, <4>1, <4>2
      <4> QED
        BY <4>3 DEF ka, kb
  <2>3. (a + 1) * K <= b * K /\ (a + 1) * K = K * a + K /\ b * K = K * b
    BY <1>1, <2>1, Monotone
  <2>4. b > a + 1 => (a + 2) * K <= b * K /\ (a + 2) * K = K * a + K + K
    BY <1>1, <2>1, Monotone
  <2>5. K * a \in Nat /\ K * b \in Nat
    BY <1>1, <2>1
  <2> DEFINE ka == K * a
             kb == K * b
  <2>6. /\ ka \in Nat /\ kb \in Nat /\ ka + K <= kb /\ ka + Here(st[x]) >= kb + All(st[y])
        /\ b > a + 1 => ka + K + K <= kb
    BY <2>2, <2>3, <2>4, <2>5
  <2> HIDE DEF ka, kb
  <2> DEFINE here == Here(st[x])
             all == All(st[y])
  <2>7. here \in Nat /\ here <= K + 1 /\ all \in Nat /\ all > 0
    BY <1>2, <2>1
  <2>8. b = a + 1 /\ here = K + 1 /\ all = 1
    <3> HIDE DEF here, all
    <3>1. ka + here >= kb + all
      BY <2>6 DEF here, all
    <3> QED
      BY <1>1, <2>1, <2>6, <2>7, <3>1
  <2> QED
    BY <1>2, <2>1, <2>8
<1>4. CASE st[r].rep = st[q].rep
  <2>1. st[q].calls >= st[r].calls - Ahead[st[r].pc]
    BY DEF Paced
  <2> DEFINE k == K * st[r].rep
  <2>2. k \in Nat /\ st[q].calls = k + Here(st[q]) /\ st[r].calls = k + Here(st[r])
    BY <1>1, <1>2, <1>4
  <2> HIDE DEF k
  <2> QED
    BY <1>2, <1>4, <2>1, <2>2
<1>5. st[r].rep \in Nat /\ st[q].rep \in Nat
  BY <1>2
<1> QED
  BY <1>3, <1>4, <1>5

\* ... which is so for the labels alone, once the one has connected.
LEMMA Order ==
    ASSUME test \in Tests, Paced, NEW r \in Members, NEW q \in Members,
           st[r].connected \/ st[r].pc = "connect"
    PROVE  \/ st[q].rep = st[r].rep /\ Entered[st[q].pc] >= Entered[st[r].pc] - Ahead[st[r].pc]
           \/ st[q].rep = st[r].rep + 1 /\ st[r].pc = "ended" /\ st[q].pc \in {"ready", "done"}
           \/ st[r].rep = st[q].rep + 1 /\ st[q].pc = "ended" /\ st[r].pc \in {"ready", "done"}
<1>1. Legal(st[r]) /\ Legal(st[q])
  BY DEF Paced
<1>2. /\ Entered[st[q].pc] \in Nat /\ Here(st[q]) \in Nat /\ Here(st[q]) <= Entered[st[q].pc] + 1
      /\ Entered[st[r].pc] \in Nat /\ Here(st[r]) = Entered[st[r].pc] + 1
      /\ Here(st[r]) = All(st[r]) + Ahead[st[r].pc] /\ All(st[r]) \in Nat /\ Ahead[st[r].pc] \in Nat
  BY <1>1, HereIs
<1>3. Here(st[q]) >= All(st[r]) => Entered[st[q].pc] >= Entered[st[r].pc] - Ahead[st[r].pc]
  BY <1>2
<1> QED
  BY <1>3, Pairs

\* A task in a collective that another has entered.
LEMMA Met ==
    ASSUME test \in Tests, Paced, NEW r \in Members, NEW q \in Members,
           st[r].connected \/ st[r].pc = "connect", st[r].pc # "done", st[q].calls >= st[r].calls
    PROVE  \/ st[q].rep = st[r].rep /\ Entered[st[q].pc] >= Entered[st[r].pc]
           \/ st[q].rep = st[r].rep + 1 /\ st[r].pc = "ended" /\ st[q].pc \in {"ready", "done"}
<1>1. Legal(st[r]) /\ Legal(st[q])
  BY DEF Paced
<1> DEFINE K == PerRepetition
           a == K * st[r].rep
           b == K * st[q].rep
<1>2. K \in Nat
  BY NumbersAre
<1>3. /\ a \in Nat /\ b \in Nat /\ st[r].rep \in Nat /\ st[q].rep \in Nat
      /\ st[r].calls = a + Here(st[r]) /\ st[q].calls = b + Here(st[q])
  BY <1>1, <1>2 DEF Legal
<1>4. /\ Here(st[r]) \in Nat /\ Here(st[q]) \in Nat /\ Here(st[q]) <= K + 1
      /\ Here(st[r]) = Entered[st[r].pc] + 1 /\ Here(st[q]) <= Entered[st[q].pc] + 1
      /\ Entered[st[q].pc] \in Nat /\ Entered[st[r].pc] \in Nat
  BY <1>1, HereIs
<1>5. CASE st[q].rep = st[r].rep
  <2>1. a = b
    BY <1>5
  <2> HIDE DEF a, b, K
  <2> QED
    BY <1>3, <1>4, <1>5, <2>1
<1>6. CASE st[r].rep = st[q].rep + 1 /\ st[q].pc = "ended" /\ st[r].pc = "ready"
  <2>1. a = b + K
    BY <1>2, <1>3, <1>6
  <2>2. Here(st[r]) = 2
    BY <1>4, <1>6, EnteredIs
  <2> HIDE DEF a, b, K
  <2> QED
    BY <1>2, <1>3, <1>4, <1>6, <2>1, <2>2
<1> QED
  BY <1>5, <1>6, Pairs

-----------------------------------------------------------------------------
(* A task moves: q is what becomes of it                                    *)

Core == test \in Tests /\ Paced /\ Amounts /\ BucketIsThere

Becomes(r, q) ==
    /\ st' = [st EXCEPT ![r] = q] /\ DOMAIN q = Fields
    /\ q.calls = st[r].calls + One(q.pc \in Collectives)
    /\ test' = test

\* Nothing but the place, the connection and what is learnt of sizes.
Quiet(r, q) ==
    /\ Becomes(r, q)
    /\ q.rep = st[r].rep /\ q.wrote = st[r].wrote /\ q.part_number = st[r].part_number
    /\ q.etags = st[r].etags /\ q.UploadId = st[r].UploadId /\ q.tallied = st[r].tallied
    /\ UNCHANGED <<objects, uploads, gathered, aborted>>

Leaves(r) == \A x \in Members : st[x].calls >= st[r].calls

LEMMA FieldsAre ==
    Fields = {"pc", "calls", "rep", "k", "wrote", "connected", "part_number", "etags", "UploadId",
              "tallied", "stat", "aggFileSize"}
  BY DEF Fields, Task0

LEMMA CallsAre ==
    ASSUME test \in Tests, Paced, NEW r \in Members
    PROVE  st[r].calls \in Nat /\ Ahead[st[r].pc] \in Nat /\ Legal(st[r])
<1>1. Legal(st[r])
  BY DEF Paced
<1>2. Here(st[r]) \in Nat /\ Ahead[st[r].pc] \in Nat
  BY <1>1, HereIs
<1>3. PerRepetition * st[r].rep \in Nat
  BY <1>1, NumbersAre DEF Legal
<1> HIDE DEF PerRepetition
<1> QED
  BY <1>1, <1>2, <1>3 DEF Legal

LEMMA GoIs ==
    ASSUME test \in Tests, Paced, NEW r \in Members, NEW t, DOMAIN t = Fields, t.calls = st[r].calls, NEW pc,
           Go(r, t, pc), test' = test
    PROVE  \E q : /\ Becomes(r, q) /\ q.pc = pc
                  /\ q.rep = t.rep /\ q.k = t.k /\ q.wrote = t.wrote /\ q.connected = t.connected
                  /\ q.part_number = t.part_number /\ q.etags = t.etags /\ q.UploadId = t.UploadId
                  /\ q.tallied = t.tallied /\ q.stat = t.stat /\ q.aggFileSize = t.aggFileSize
<1> DEFINE q == [t EXCEPT !.pc = pc, !.calls = IF pc \in Collectives THEN @ + 1 ELSE @]
<1>1. st' = [st EXCEPT ![r] = q]
  BY DEF Go
<1>2. /\ DOMAIN q = Fields /\ q.pc = pc /\ q.calls = IF pc \in Collectives THEN t.calls + 1 ELSE t.calls
      /\ q.rep = t.rep /\ q.k = t.k /\ q.wrote = t.wrote /\ q.connected = t.connected
      /\ q.part_number = t.part_number /\ q.etags = t.etags /\ q.UploadId = t.UploadId
      /\ q.tallied = t.tallied /\ q.stat = t.stat /\ q.aggFileSize = t.aggFileSize
  BY FieldsAre
<1>3. st[r].calls \in Nat
  BY CallsAre
<1> HIDE DEF q
<1>4. q.calls = st[r].calls + One(q.pc \in Collectives)
  BY <1>2, <1>3 DEF One
<1> QED
  BY <1>1, <1>2, <1>4 DEF Becomes

\* Its own state is right, and it has not run ahead.
LEMMA CoreMove ==
    ASSUME Core, NEW r \in Members, NEW q, Becomes(r, q), Legal(q), Amount(q, r),
           (q.connected \/ (r = 0 /\ q.pc = "connect")) => bucket', bucket => bucket',
           \/ q.calls - Ahead[q.pc] = st[r].calls - Ahead[st[r].pc]
           \/ q.calls - Ahead[q.pc] = st[r].calls /\ Leaves(r)
    PROVE  Core'
<1>1. /\ DOMAIN st' = Members /\ Members' = Members /\ test' \in Tests
      /\ \A x \in Members : st'[x] = IF x = r THEN q ELSE st[x]
  BY DEF Becomes, Core, Paced, Members, N
<1>2. ASSUME NEW x \in Members PROVE DOMAIN st'[x] = Fields /\ Legal(st[x])' /\ Amount(st[x], x)'
  <2>1. Legal(st'[x]) /\ DOMAIN st'[x] = Fields /\ Amount(st'[x], x)
    BY <1>1 DEF Becomes, Core, Paced, Amounts
  <2>2. Legal(st[x])' <=> Legal(st'[x])
    <3>1. Id' = Id /\ Bar' = Bar /\ Meet' = Meet
      BY DEF Becomes, Id, Bar, Meet, multi_part_upload_p, n_to_n
    <3>2. Entered' = Entered /\ PerRepetition' = PerRepetition
      BY <3>1 DEF Entered, PerRepetition
    <3>3. Here(st[x])' = Here(st'[x]) /\ Places' = Places
      BY <3>2 DEF Here, Places
    <3> QED
      BY <3>2, <3>3 DEF Becomes, Legal, multi_part_upload_p, n_to_n
  <2>3. Amount(st[x], x)' <=> Amount(st'[x], x)
    BY DEF Becomes, Amount, XfersPerTask, multi_part_upload_p
  <2> QED
    BY <2>1, <2>2, <2>3
<1>3. Ahead' = Ahead
  BY DEF Becomes, Ahead, Id, Bar, Loose, multi_part_upload_p, n_to_n
<1>4. ASSUME NEW x \in Members, NEW y \in Members
      PROVE  st'[x].calls >= st'[y].calls - Ahead[st'[y].pc]
  <2>1. \A z \in Members : st[z].calls \in Nat /\ Ahead[st[z].pc] \in Nat /\ Legal(st[z])
    BY CallsAre DEF Core
  <2>2. Ahead[q.pc] \in Nat
    BY HereIs DEF Core
  <2>3. q.calls \in Nat /\ q.calls >= st[r].calls /\ q.calls - Ahead[q.pc] <= q.calls
    BY <2>1, <2>2 DEF Becomes, One
  <2>4. \A z \in Members : st[z].calls >= st[r].calls - Ahead[st[r].pc]
                           /\ st[r].calls >= st[z].calls - Ahead[st[z].pc]
                           /\ st[x].calls >= st[z].calls - Ahead[st[z].pc]
    BY DEF Core, Paced
  <2>5. q.calls - Ahead[q.pc] = st[r].calls => Leaves(r) \/ st[r].calls <= st[r].calls - Ahead[st[r].pc]
    BY <2>1
  <2>6. CASE y = r
    <3>1. CASE x = r
      BY <1>1, <2>2, <2>3, <2>6, <3>1
    <3>2. CASE x # r
      <4>1. st[x].calls >= q.calls - Ahead[q.pc]
        BY <2>4, <2>5 DEF Leaves
      <4> QED
        BY <1>1, <2>6, <3>2, <4>1
    <3> QED
      BY <3>1, <3>2
  <2>7. CASE y # r
    <3>1. CASE x = r
      BY <1>1, <2>1, <2>3, <2>4, <2>7, <3>1
    <3>2. CASE x # r
      BY <1>1, <2>4, <2>7, <3>2
    <3> QED
      BY <3>1, <3>2
  <2> QED
    BY <2>6, <2>7
<1>5. BucketIsThere'
  BY <1>1 DEF Core, BucketIsThere
<1>6. Paced'
  BY <1>1, <1>2, <1>3, <1>4 DEF Paced, Fields
<1>7. Amounts'
  BY <1>1, <1>2 DEF Amounts
<1> QED
  BY <1>1, <1>5, <1>6, <1>7 DEF Core

-----------------------------------------------------------------------------
(* Steps that write nothing                                                 *)

Passage(r, q) ==
    LET p == st[r]
    IN  \/ /\ p.pc = "ready" /\ Leaves(r) /\ q.connected = p.connected /\ bucket' = bucket
           /\ \/ p.connected /\ q.pc = "create"
              \/ ~p.connected /\ (IF r = 0 THEN q.pc = "bucket" ELSE q.pc = "connect")
        \/ p.pc = "bucket" /\ q.pc = "connect" /\ q.connected = p.connected /\ bucket' = TRUE
        \/ p.pc = "connect" /\ q.pc = "create" /\ q.connected /\ Leaves(r) /\ bucket' = bucket
        \/ /\ q.connected = p.connected /\ bucket' = bucket
           /\ \/ /\ p.pc = "create" /\ q.pc = "bcast"
                 /\ multi_part_upload_p /\ ~n_to_n /\ r # 0
              \/ p.pc = "opened" /\ q.pc = "write" /\ Leaves(r)
              \/ p.pc = "written" /\ q.pc = "close" /\ Leaves(r)
              \/ p.pc = "close" /\ q.pc = "closed" /\ ~multi_part_upload_p /\ ~n_to_n
              \/ p.pc = "close" /\ q.pc = "synced" /\ ~multi_part_upload_p /\ n_to_n
              \/ p.pc = "closed" /\ q.pc = "synced" /\ Leaves(r)
              \/ p.pc = "synced" /\ q.pc = "sizes" /\ Leaves(r) /\ q.stat = Size(r)
              \/ /\ p.pc = "sizes" /\ q.pc = "reading" /\ Leaves(r) /\ q.stat = p.stat
                 /\ q.aggFileSize = Aggregate([x \in Members |-> st[x].stat])
              \/ /\ p.pc = "reading" /\ q.pc = "read" /\ Leaves(r) /\ q.k = 0
                 /\ q.stat = p.stat /\ q.aggFileSize = p.aggFileSize
              \/ /\ p.pc = "read" /\ q.stat = p.stat /\ q.aggFileSize = p.aggFileSize
                 /\ q.k = p.k + 1
                 /\ (q.pc = "read" /\ q.k < XfersPerTask) \/ q.pc = "ended"

LEMMA QuietIs ==
    ASSUME Core, ~aborted, ~aborted', NEW r \in Members,
           \/ StartCreate(r) \/ MakeBucket(r) \/ Connected(r) \/ AwaitId(r) \/ Opened(r)
           \/ Written(r) \/ CloseBytes(r) \/ Closed(r) \/ Stat(r) \/ Sized(r) \/ StartRead(r) \/ Get(r)
    PROVE  \E q : Quiet(r, q) /\ Passage(r, q)
<1> DEFINE p == st[r]
<1>0. test \in Tests /\ Paced /\ DOMAIN p = Fields
  BY DEF Core, Paced
<1>1. ASSUME NEW pc, Go(r, p, pc), test' = test, UNCHANGED <<objects, uploads, gathered, aborted>>
      PROVE  \E q : Quiet(r, q) /\ q.pc = pc /\ q.connected = p.connected
                    /\ q.k = p.k /\ q.stat = p.stat /\ q.aggFileSize = p.aggFileSize
  BY <1>0, <1>1, GoIs DEF Quiet
<1>2. CASE StartCreate(r)
  <2>1. /\ p.pc = "ready" /\ Leaves(r) /\ bucket' = bucket /\ test' = test
        /\ UNCHANGED <<objects, uploads, gathered, aborted>>
        /\ Go(r, p, IF p.connected THEN "create" ELSE IF r = 0 THEN "bucket" ELSE "connect")
    BY <1>2 DEF StartCreate, MayLeave, Leaves, store
  <2> QED
    BY <1>1, <2>1 DEF Passage
<1>3. CASE MakeBucket(r)
  BY <1>1, <1>3 DEF MakeBucket, Passage
<1>4. CASE AwaitId(r)
  <2>1. /\ p.pc = "create" /\ bucket' = bucket /\ test' = test /\ multi_part_upload_p /\ ~n_to_n /\ r # 0
        /\ UNCHANGED <<objects, uploads, gathered, aborted>> /\ Go(r, p, "bcast")
    BY <1>4 DEF AwaitId, Initiators, store
  <2> QED
    BY <1>1, <2>1 DEF Passage
<1>5. CASE Opened(r) \/ Written(r) \/ Closed(r)
  <2>1. /\ Leaves(r) /\ bucket' = bucket /\ test' = test
        /\ UNCHANGED <<objects, uploads, gathered, aborted>>
        /\ \/ p.pc = "opened" /\ Go(r, p, "write")
           \/ p.pc = "written" /\ Go(r, p, "close")
           \/ p.pc = "closed" /\ Go(r, p, "synced")
    BY <1>5 DEF Opened, Written, Closed, MayLeave, Leaves, store
  <2> QED
    BY <1>1, <2>1 DEF Passage
<1>6. CASE CloseBytes(r)
  <2>1. /\ p.pc = "close" /\ bucket' = bucket /\ test' = test /\ ~multi_part_upload_p
        /\ UNCHANGED <<objects, uploads, gathered, aborted>>
        /\ Go(r, p, IF ~n_to_n THEN "closed" ELSE "synced")
    BY <1>6 DEF CloseBytes, Meets, store
  <2> QED
    BY <1>1, <2>1 DEF Passage
<1>7. CASE Connected(r)
  <2> DEFINE t == [p EXCEPT !.connected = TRUE]
  <2>1. /\ p.pc = "connect" /\ Leaves(r) /\ Go(r, t, "create") /\ bucket' = bucket /\ test' = test
        /\ UNCHANGED <<objects, uploads, gathered, aborted>>
    BY <1>7 DEF Connected, MayLeave, Leaves, store
  <2>2. /\ DOMAIN t = Fields /\ t.calls = p.calls /\ t.connected /\ t.rep = p.rep /\ t.wrote = p.wrote
        /\ t.part_number = p.part_number /\ t.etags = p.etags /\ t.UploadId = p.UploadId
        /\ t.tallied = p.tallied
    BY <1>0, FieldsAre
  <2> HIDE DEF t
  <2> QED
    BY <1>0, <2>1, <2>2, GoIs DEF Quiet, Passage
<1>8. CASE Stat(r)
  <2> DEFINE t == [p EXCEPT !.stat = Length(objects[Name(r)])]
  <2>1. /\ p.pc = "synced" /\ Leaves(r) /\ Go(r, t, "sizes") /\ bucket' = bucket /\ test' = test
        /\ UNCHANGED <<objects, uploads, gathered, aborted>>
    BY <1>8 DEF Stat, Abort, MayLeave, Leaves, store
  <2>2. /\ DOMAIN t = Fields /\ t.calls = p.calls /\ t.connected = p.connected /\ t.rep = p.rep
        /\ t.wrote = p.wrote /\ t.stat = Size(r)
        /\ t.part_number = p.part_number /\ t.etags = p.etags /\ t.UploadId = p.UploadId
        /\ t.tallied = p.tallied
    BY <1>0, FieldsAre DEF Size
  <2> HIDE DEF t
  <2> QED
    BY <1>0, <2>1, <2>2, GoIs DEF Quiet, Passage
<1>9. CASE Sized(r)
  <2> DEFINE sum == Aggregate([x \in Members |-> st[x].stat])
             t == [p EXCEPT !.aggFileSize = sum]
  <2>1. /\ p.pc = "sizes" /\ Leaves(r) /\ Go(r, t, "reading") /\ bucket' = bucket /\ test' = test
        /\ UNCHANGED <<objects, uploads, gathered, aborted>>
    BY <1>9 DEF Sized, MayLeave, Leaves, store
  <2> HIDE DEF sum
  <2>2. /\ DOMAIN t = Fields /\ t.calls = p.calls /\ t.connected = p.connected /\ t.rep = p.rep
        /\ t.wrote = p.wrote /\ t.stat = p.stat /\ t.aggFileSize = sum
        /\ t.part_number = p.part_number /\ t.etags = p.etags /\ t.UploadId = p.UploadId
        /\ t.tallied = p.tallied
    BY <1>0, FieldsAre
  <2> HIDE DEF t
  <2>3. PICK q : Quiet(r, q) /\ q.pc = "reading" /\ q.connected = p.connected /\ q.stat = p.stat
                 /\ q.aggFileSize = sum
    BY <1>0, <2>1, <2>2, GoIs DEF Quiet
  <2> QED
    BY <2>1, <2>3 DEF Passage, sum
<1>10. CASE StartRead(r)
  <2> DEFINE t == [p EXCEPT !.k = 0]
  <2>1. /\ p.pc = "reading" /\ Leaves(r) /\ Go(r, t, "read") /\ bucket' = bucket /\ test' = test
        /\ UNCHANGED <<objects, uploads, gathered, aborted>>
    BY <1>10 DEF StartRead, MayLeave, Leaves, store
  <2>2. /\ DOMAIN t = Fields /\ t.calls = p.calls /\ t.connected = p.connected /\ t.rep = p.rep
        /\ t.wrote = p.wrote /\ t.stat = p.stat /\ t.aggFileSize = p.aggFileSize /\ t.k = 0
        /\ t.part_number = p.part_number /\ t.etags = p.etags /\ t.UploadId = p.UploadId
        /\ t.tallied = p.tallied
    BY <1>0, FieldsAre
  <2> HIDE DEF t
  <2> QED
    BY <1>0, <2>1, <2>2, GoIs DEF Quiet, Passage
<1>11. CASE Get(r)
  <2> DEFINE t == [p EXCEPT !.k = @ + 1]
  <2>1. /\ p.pc = "read" /\ bucket' = bucket /\ test' = test
        /\ UNCHANGED <<objects, uploads, gathered, aborted>>
        /\ (p.k + 1 < XfersPerTask /\ Go(r, t, "read")) \/ Go(r, t, "ended")
    BY <1>11 DEF Get, Abort, store
  <2>2. /\ DOMAIN t = Fields /\ t.calls = p.calls /\ t.connected = p.connected /\ t.rep = p.rep
        /\ t.wrote = p.wrote /\ t.stat = p.stat /\ t.aggFileSize = p.aggFileSize /\ t.k = p.k + 1
        /\ t.part_number = p.part_number /\ t.etags = p.etags /\ t.UploadId = p.UploadId
        /\ t.tallied = p.tallied
    BY <1>0, FieldsAre
  <2> HIDE DEF t
  <2> QED
    BY <1>0, <2>1, <2>2, GoIs DEF Quiet, Passage
<1> QED
  BY <1>2, <1>3, <1>4, <1>5, <1>6, <1>7, <1>8, <1>9, <1>10, <1>11

\* Its count of collectives goes on as its place does.
LEMMA Further ==
    ASSUME Core, NEW r \in Members, NEW q, Becomes(r, q), q.rep = st[r].rep, q.pc \in Places,
           q.connected \in BOOLEAN, Here(q) = Here(st[r]) + One(q.pc \in Collectives)
    PROVE  q.calls = PerRepetition * q.rep + Here(q)
<1>1. st[r].calls = PerRepetition * st[r].rep + Here(st[r]) /\ Here(st[r]) \in Nat
      /\ PerRepetition \in Nat /\ st[r].rep \in Nat
  BY CallsAre, HereIs, NumbersAre DEF Core, Legal
<1>2. One(q.pc \in Collectives) \in 0 .. 1
  BY DEF One
<1> DEFINE k == PerRepetition * st[r].rep
           h == Here(st[r])
<1>3. k \in Nat /\ h \in Nat /\ st[r].calls = k + h
  BY <1>1
<1>4. Here(q) = h + One(q.pc \in Collectives) /\ PerRepetition * q.rep = k
      /\ q.calls = st[r].calls + One(q.pc \in Collectives)
  BY DEF Becomes
<1> HIDE DEF k, h
<1> QED
  BY <1>2, <1>3, <1>4

LEMMA CollectivesAre ==
    Collectives = {"ready", "connect", "opened", "written", "closed", "synced", "reading", "ended",
                   "bcast", "tally", "sizes"}
  BY DEF Collectives, Barriers

\* Rank 0 is past the making of the bucket when a task leaves the barrier behind it.
LEMMA BucketFirst ==
    ASSUME Core, NEW r \in Members, st[r].pc = "connect", Leaves(r)
    PROVE  bucket
<1>1. Legal(st[r]) /\ Legal(st[0]) /\ 0 \in Members /\ st[0].calls >= st[r].calls
  BY CallsAre, TestIs DEF Core, Leaves
<1>2. st[r].calls = 2 /\ PerRepetition \in Nat
  <2>1. st[r].rep = 0 /\ Here(st[r]) = 2
    BY <1>1, EnteredIs DEF Legal, Here, One
  <2>2. PerRepetition \in Nat /\ PerRepetition * 0 = 0
    BY NumbersAre DEF Core
  <2> HIDE DEF PerRepetition
  <2> QED
    BY <1>1, <2>1, <2>2 DEF Legal
<1>3. st[0].connected \/ st[0].pc = "connect"
  <2> SUFFICES ASSUME ~(st[0].connected \/ st[0].pc = "connect") PROVE FALSE
    OBVIOUS
  <2>1. st[0].pc \in {"ready", "bucket"} /\ st[0].rep = 0
    BY <1>1 DEF Legal
  <2>2. Here(st[0]) = 1
    BY <2>1, EnteredIs DEF Here, One
  <2>3. PerRepetition * 0 = 0
    BY <1>2
  <2> HIDE DEF PerRepetition
  <2> QED
    BY <1>1, <1>2, <2>1, <2>2, <2>3 DEF Legal
<1> QED
  BY <1>1, <1>3 DEF Core, BucketIsThere

LEMMA QuietCore == ASSUME Core, NEW r \in Members, NEW q, Quiet(r, q), Passage(r, q) PROVE Core'
<1> DEFINE p == st[r]
<1>0. /\ test \in Tests /\ Legal(p) /\ Amount(p, r) /\ Becomes(r, q) /\ p.calls \in Nat
      /\ p.rep \in Nat /\ p.connected \in BOOLEAN /\ p.pc \in Places
      /\ p.connected <=> (p.rep > 0 \/ p.pc \notin {"ready", "bucket", "connect"})
      /\ q.rep = p.rep /\ q.calls = p.calls + One(q.pc \in Collectives)
  BY CallsAre DEF Core, Amounts, Quiet, Becomes, Legal
<1> USE <1>0
<1>1. q.pc \in Places /\ q.connected \in BOOLEAN
  BY PlacesAre DEF Passage
<1>2. /\ Id \in 0 .. 1 /\ Bar \in 0 .. 1 /\ Meet \in 0 .. 1
      /\ Id = 1 <=> multi_part_upload_p /\ ~n_to_n
      /\ Bar = 1 <=> test.intraTestBarriers
      /\ Meet = 1 <=> ~n_to_n
      /\ Loose = IF Bar = 1 THEN 0 ELSE Id
  BY NumbersAre
<1>3. Here(q) = Here(p) + One(q.pc \in Collectives)
  <2>1. CASE p.pc \in {"ready", "bucket", "connect", "create"}
    <3>1. CASE p.pc = "ready" /\ p.connected
      <4>1. q.pc = "create" /\ q.connected
        BY <3>1 DEF Passage
      <4> QED
        BY <3>1, <4>1, EnteredIs, CollectivesAre DEF Here, One
    <3>2. CASE p.pc = "ready" /\ ~p.connected
      <4>1. q.pc \in {"bucket", "connect"} /\ ~q.connected
        BY <3>2 DEF Passage
      <4> QED
        BY <3>2, <4>1, EnteredIs, CollectivesAre DEF Here, One
    <3>3. CASE p.pc = "bucket"
      <4>1. q.pc = "connect" /\ ~q.connected /\ ~p.connected
        BY <3>3 DEF Passage, Legal
      <4> QED
        BY <3>3, <4>1, EnteredIs, CollectivesAre DEF Here, One
    <3>4. CASE p.pc = "connect"
      <4>1. q.pc = "create" /\ q.connected
        BY <3>4 DEF Passage
      <4> QED
        BY <3>4, <4>1, EnteredIs, CollectivesAre DEF Here, One
    <3>5. CASE p.pc = "create"
      <4>1. q.pc = "bcast" /\ q.connected /\ p.connected
        BY <3>5 DEF Passage
      <4> QED
        BY <3>5, <4>1, EnteredIs, CollectivesAre DEF Here, One
    <3> QED
      BY <2>1, <3>1, <3>2, <3>3, <3>4, <3>5
  <2>2. p.pc \notin {"ready", "bucket", "connect"} => p.connected /\ q.connected
    BY DEF Passage
  <2>3. p.pc \notin {"ready", "bucket", "connect", "create"} =>
          Entered[q.pc] = Entered[p.pc] + One(q.pc \in Collectives)
    <3>1. CASE p.pc \in {"opened", "written", "close", "closed"}
      BY <1>2, <3>1, EnteredIs, CollectivesAre DEF Passage, Legal, One
    <3>2. CASE p.pc = "synced"
      <4>1. q.pc = "sizes"
        BY <3>2 DEF Passage
      <4> QED
        BY <1>2, <3>2, <4>1, EnteredIs, CollectivesAre DEF One
    <3>3. CASE p.pc = "sizes"
      <4>1. q.pc = "reading"
        BY <3>3 DEF Passage
      <4> QED
        BY <1>2, <3>3, <4>1, EnteredIs, CollectivesAre DEF One
    <3>4. CASE p.pc \in {"reading", "read"}
      <4>1. q.pc = "read" \/ (q.pc = "ended" /\ p.pc = "read")
        BY <3>4 DEF Passage
      <4> QED
        BY <1>2, <3>4, <4>1, EnteredIs, CollectivesAre DEF One
    <3> QED
      BY <3>1, <3>2, <3>3, <3>4 DEF Passage
  <2>4. \A c \in Places : Entered[c] \in Nat
    BY LabelsAre, NumbersAre
  <2> QED
    BY <1>1, <2>1, <2>2, <2>3, <2>4 DEF Here, One
<1>4. q.calls = PerRepetition * q.rep + Here(q)
  BY <1>1, <1>3, Further
<1>5. Legal(q)
  BY <1>1, <1>4 DEF Passage, Legal
<1>6. Amount(q, r)
  <2>1. q.wrote = p.wrote /\ q.tallied = p.tallied /\ q.part_number = p.part_number /\ q.etags = p.etags
    BY DEF Quiet
  <2>2. q.pc = "read" => q.k \in 0 .. XfersPerTask - 1
    <3>1. XfersPerTask \in Nat \ {0}
      BY TestIs
    <3>2. p.pc = "read" => p.k \in 0 .. XfersPerTask - 1
      BY DEF Amount
    <3> HIDE DEF XfersPerTask
    <3> QED
      BY <3>1, <3>2 DEF Passage
  <2> HIDE DEF XfersPerTask
  <2>3. CASE p.pc \in {"ready", "bucket", "connect", "create"}
    BY <2>1, <2>3 DEF Passage, Amount, Early, Putting
  <2>4. CASE p.pc \in {"opened"}
    <3>1. q.pc = "write" /\ p.wrote = 0 /\ p.part_number = 0 /\ p.etags = << >>
      BY <2>4 DEF Passage, Amount, Early, Putting
    <3>2. Etags(r, q.rep, 0) = << >>
      BY DEF Etags
    <3>3. XfersPerTask \in Nat \ {0}
      BY TestIs
    <3> QED
      BY <2>1, <2>2, <3>1, <3>2, <3>3 DEF Amount, Early, Putting
  <2>5. CASE p.pc \in {"written", "close"}
    BY <2>1, <2>2, <2>5 DEF Passage, Amount, Early, Putting
  <2>6. CASE p.pc \in {"closed", "synced", "sizes", "reading", "read"}
    BY <2>1, <2>2, <2>6 DEF Passage, Amount, Early, Putting
  <2> QED
    BY <2>3, <2>4, <2>5, <2>6 DEF Passage
<1>7. \/ q.calls - Ahead[q.pc] = p.calls - Ahead[p.pc]
      \/ q.calls - Ahead[q.pc] = p.calls /\ Leaves(r)
  <2>1. CASE p.pc \in {"ready", "bucket", "connect", "create"}
    BY <2>1, AheadIs, CollectivesAre DEF Passage, One
  <2>2. CASE p.pc \in {"opened", "written", "close", "closed"}
    BY <1>2, <2>2, AheadIs, CollectivesAre DEF Passage, One, Legal
  <2>3. CASE p.pc \in {"synced", "sizes", "reading", "read"}
    BY <2>3, AheadIs, CollectivesAre DEF Passage, One
  <2> QED
    BY <2>1, <2>2, <2>3 DEF Passage
<1>8. (q.connected \/ (r = 0 /\ q.pc = "connect")) => bucket'
  <2>1. CASE p.pc = "connect"
    <3>1. Leaves(r) /\ bucket' = bucket
      BY <2>1 DEF Passage
    <3> QED
      BY <2>1, <3>1, BucketFirst
  <2>2. CASE p.pc = "bucket"
    BY <2>2 DEF Passage
  <2>3. CASE p.pc \notin {"connect", "bucket"}
    BY <2>3 DEF Passage, Core, BucketIsThere
  <2> QED
    BY <2>1, <2>2, <2>3
<1>9. bucket => bucket'
  BY DEF Passage
<1> QED
  BY <1>5, <1>6, <1>7, <1>8, <1>9, CoreMove

-----------------------------------------------------------------------------
(* Steps that write                                                         *)

Way(r, q) ==
    LET p == st[r]
    IN  \/ p.pc = "create" /\ multi_part_upload_p /\ q.pc = "initiate"
        \/ p.pc = "create" /\ ~multi_part_upload_p /\ q.pc = AfterCreate
        \/ p.pc = "initiate" /\ n_to_n /\ q.pc = AfterCreate
        \/ p.pc = "initiate" /\ ~n_to_n /\ q.pc = "bcast"
        \/ p.pc = "bcast" /\ q.pc = AfterCreate
        \/ p.pc = "write" /\ (q.pc = "write" \/ q.pc = AfterWrite)
        \/ p.pc = "close" /\ multi_part_upload_p /\ (q.pc = IF n_to_n THEN "synced" ELSE "tally")
        \/ p.pc = "tally" /\ (q.pc = "gather" \/ q.pc = "closed") /\ Leaves(r)
        \/ p.pc = "gather" /\ q.pc = "closed"

LEMMA WayCore ==
    ASSUME Core, NEW r \in Members, NEW q, Becomes(r, q), q.rep = st[r].rep,
           q.connected = st[r].connected, Way(r, q), Amount(q, r), bucket' = bucket
    PROVE  Core'
<1> DEFINE p == st[r]
<1>0. /\ test \in Tests /\ Legal(p) /\ Becomes(r, q) /\ p.calls \in Nat
      /\ p.rep \in Nat /\ p.connected \in BOOLEAN /\ p.pc \in Places
      /\ p.connected <=> (p.rep > 0 \/ p.pc \notin {"ready", "bucket", "connect"})
      /\ q.rep = p.rep /\ q.calls = p.calls + One(q.pc \in Collectives)
      /\ q.connected = p.connected
  BY CallsAre DEF Core, Becomes, Legal
<1>1. /\ Id \in 0 .. 1 /\ Bar \in 0 .. 1
      /\ Meet = 1 <=> ~n_to_n
      /\ Meet \in 0 .. 1
      /\ Id = 1 <=> multi_part_upload_p /\ ~n_to_n
      /\ Bar = 1 <=> test.intraTestBarriers
      /\ Loose = IF Bar = 1 THEN 0 ELSE Id
  BY <1>0, NumbersAre
<1>2. AfterCreate = (IF Bar = 1 THEN "opened" ELSE "write")
      /\ AfterWrite = (IF Bar = 1 THEN "written" ELSE "close")
  BY <1>1 DEF AfterCreate, AfterWrite
<1>3. /\ p.pc = "initiate" => multi_part_upload_p
      /\ p.pc \in {"bcast", "tally", "gather"} => multi_part_upload_p /\ ~n_to_n
  BY <1>0 DEF Legal
<1> DEFINE From == {"create", "initiate", "bcast", "write", "close", "tally", "gather"}
           Fits == /\ Entered[q.pc] = Entered[p.pc] + One(q.pc \in Collectives)
                   /\ \/ One(q.pc \in Collectives) - Ahead[q.pc] = 0 - Ahead[p.pc]
                      \/ One(q.pc \in Collectives) - Ahead[q.pc] = 0 /\ Leaves(r)
                   /\ q.pc \in Places \ {"ready", "bucket", "connect", "done"}
                   /\ q.pc = "initiate" => multi_part_upload_p
                   /\ q.pc \in {"bcast", "tally", "gather"} => multi_part_upload_p /\ ~n_to_n
                   /\ q.pc \in {"opened", "written"} => test.intraTestBarriers
                   /\ q.pc = "closed" => ~n_to_n
<1>4. p.pc \in From
  BY DEF Way
<1>5. Fits
  <2> USE <1>1, <1>2, <1>3, EnteredIs, AheadIs, CollectivesAre, PlacesAre DEF One
  <2>1. CASE p.pc = "create" /\ multi_part_upload_p
    <3>1. q.pc = "initiate"
      BY <2>1 DEF Way
    <3> QED
      BY <2>1, <3>1
  <2>2. CASE p.pc = "create" /\ ~multi_part_upload_p
    <3>1. q.pc = AfterCreate
      BY <2>2 DEF Way
    <3> QED
      BY <2>2, <3>1
  <2>3. CASE p.pc = "initiate" /\ n_to_n
    <3>1. q.pc = AfterCreate
      BY <2>3 DEF Way
    <3> QED
      BY <2>3, <3>1
  <2>4. CASE p.pc = "initiate" /\ ~n_to_n
    <3>1. q.pc = "bcast"
      BY <2>4 DEF Way
    <3> QED
      BY <2>4, <3>1
  <2>5. CASE p.pc = "bcast"
    <3>1. q.pc = AfterCreate
      BY <2>5 DEF Way
    <3> QED
      BY <2>5, <3>1
  <2>6. CASE p.pc = "write"
    <3>1. q.pc = "write" \/ q.pc = AfterWrite
      BY <2>6 DEF Way
    <3> QED
      BY <2>6, <3>1
  <2>7. CASE p.pc = "close"
    <3>1. multi_part_upload_p /\ q.pc = IF n_to_n THEN "synced" ELSE "tally"
      BY <2>7 DEF Way
    <3> QED
      BY <2>7, <3>1
  <2>8. CASE p.pc = "tally"
    <3>1. Leaves(r) /\ (q.pc = "gather" \/ q.pc = "closed")
      BY <2>8 DEF Way
    <3> QED
      BY <2>8, <3>1
  <2>9. CASE p.pc = "gather"
    <3>1. q.pc = "closed"
      BY <2>9 DEF Way
    <3> QED
      BY <2>9, <3>1
  <2> QED
    BY <1>4, <2>1, <2>2, <2>3, <2>4, <2>5, <2>6, <2>7, <2>8, <2>9
<1> HIDE DEF Way
<1>6. p.connected
  BY <1>0, <1>4
<1>7. One(q.pc \in Collectives) \in 0 .. 1 /\ Entered[p.pc] \in Nat /\ Ahead[p.pc] \in Nat
      /\ Ahead[q.pc] \in Nat
  BY <1>0, <1>5, LabelsAre, NumbersAre DEF One
<1>8. Here(q) = Here(p) + One(q.pc \in Collectives)
  <2>1. Here(q) = Entered[q.pc] + 1 /\ Here(p) = Entered[p.pc] + 1
    BY <1>0, <1>6 DEF Here, One
  <2> QED
    BY <1>5, <1>7, <2>1
<1>9. q.calls = PerRepetition * q.rep + Here(q)
  BY <1>0, <1>5, <1>8, Further
<1>10. Legal(q)
  BY <1>0, <1>5, <1>6, <1>9 DEF Legal
<1>11. \/ q.calls - Ahead[q.pc] = p.calls - Ahead[p.pc]
       \/ q.calls - Ahead[q.pc] = p.calls /\ Leaves(r)
  BY <1>0, <1>5, <1>7
<1>12. bucket
  BY <1>6 DEF Core, BucketIsThere
<1> QED
  BY <1>0, <1>10, <1>11, <1>12, CoreMove

\* What it knows of its upload stays.
SameUpload(r, q) ==
    q.part_number = st[r].part_number /\ q.etags = st[r].etags /\ q.UploadId = st[r].UploadId
    /\ q.tallied = st[r].tallied

\* Within a repetition.
Goes(r, q) ==
    Becomes(r, q) /\ q.rep = st[r].rep /\ q.connected = st[r].connected /\ UNCHANGED <<bucket, aborted>>

Resets(r, q) ==
    /\ Goes(r, q) /\ st[r].pc = "create" /\ (multi_part_upload_p => n_to_n \/ r = 0)
    /\ q.pc = (IF multi_part_upload_p THEN "initiate" ELSE AfterCreate)
    /\ q.wrote = st[r].wrote /\ SameUpload(r, q)
    /\ objects' = [objects EXCEPT ![Name(r)] = Blank] /\ UNCHANGED <<uploads, gathered>>

Initiates(r, q) ==
    /\ Goes(r, q) /\ st[r].pc = "initiate"
    /\ q.pc = (IF n_to_n THEN AfterCreate ELSE "bcast")
    /\ q.wrote = st[r].wrote /\ q.part_number = st[r].part_number /\ q.etags = st[r].etags
    /\ q.UploadId = Len(uploads') /\ q.tallied = st[r].tallied
    /\ uploads' = Append(uploads, [name |-> Name(r), parts |-> Blank, done |-> FALSE])
    /\ UNCHANGED <<objects, gathered>>

Takes(r, q) ==
    /\ Goes(r, q) /\ st[r].pc = "bcast" /\ st[0].calls >= st[r].calls /\ q.pc = AfterCreate
    /\ q.wrote = st[r].wrote /\ q.part_number = st[r].part_number /\ q.etags = st[r].etags
    /\ q.UploadId = st[0].UploadId /\ q.tallied = st[r].tallied
    /\ UNCHANGED <<objects, uploads, gathered>>

PutsPart(r, q) ==
    LET j == PartNumber(r, st[r].part_number)
        cell == Cell(r, st[r].rep, st[r].wrote)
        u == st[r].UploadId
    IN  /\ multi_part_upload_p
        /\ q.part_number = st[r].part_number + 1 /\ q.etags = Append(st[r].etags, cell)
        /\ uploads' = [uploads EXCEPT ![u].parts = [i \in DOMAIN @ \cup {j} |-> IF i = j THEN cell ELSE @[i]]]
        /\ UNCHANGED objects

PutsBytes(r, q) ==
    /\ ~multi_part_upload_p
    /\ q.part_number = st[r].part_number /\ q.etags = st[r].etags
    /\ objects' = [objects EXCEPT ![Name(r)] =
                      PutRange(@, ByteRange(r, st[r].wrote, @), Cell(r, st[r].rep, st[r].wrote))]
    /\ UNCHANGED uploads

Puts(r, q) ==
    /\ Goes(r, q) /\ st[r].pc = "write" /\ q.wrote = st[r].wrote + 1
    /\ \/ q.pc = "write" /\ q.wrote < XfersPerTask
       \/ q.pc = AfterWrite /\ (q.wrote = XfersPerTask \/ test.deadlineForStonewalling)
    /\ q.UploadId = st[r].UploadId /\ q.tallied = st[r].tallied
    /\ PutsPart(r, q) \/ PutsBytes(r, q)
    /\ UNCHANGED gathered

List(r) == IF n_to_n THEN [i \in 0 .. Len(st[r].etags) - 1 |-> st[r].etags[i + 1]]
           ELSE PartList(gathered, Len(st[r].etags))
Accepted(r) ==
    \A i \in DOMAIN List(r) : /\ i \in DOMAIN uploads[st[r].UploadId].parts
                              /\ uploads[st[r].UploadId].parts[i] = List(r)[i]

Completes(r, q) ==
    /\ Goes(r, q) /\ multi_part_upload_p /\ Accepted(r)
    /\ IF n_to_n THEN st[r].pc = "close" /\ q.pc = "synced" /\ UNCHANGED gathered
       ELSE /\ st[r].pc = "gather" /\ q.pc = "closed" /\ (\A w \in World : gathered[w] # << >>)
            /\ gathered' = [w \in World |-> << >>]
    /\ q.wrote = st[r].wrote /\ q.tallied = st[r].tallied /\ q.etags = << >> /\ q.part_number = 0
    /\ q.UploadId = st[r].UploadId
    /\ objects' = [objects EXCEPT ![uploads[st[r].UploadId].name] = List(r)]
    /\ uploads' = [uploads EXCEPT ![st[r].UploadId].done = TRUE]

Tallies(r, q) ==
    /\ Goes(r, q) /\ st[r].pc = "close" /\ multi_part_upload_p /\ ~n_to_n /\ q.pc = "tally"
    /\ q.wrote = st[r].wrote /\ q.tallied = Len(st[r].etags) /\ q.etags = st[r].etags
    /\ q.part_number = st[r].part_number /\ q.UploadId = st[r].UploadId
    /\ UNCHANGED <<objects, uploads, gathered>>

Sends(r, q) ==
    /\ Goes(r, q) /\ st[r].pc = "tally" /\ Leaves(r) /\ st[r].tallied = Max(EtagCounts)
    /\ q.wrote = st[r].wrote /\ q.tallied = st[r].tallied /\ q.UploadId = st[r].UploadId
    /\ IF r = 0 THEN q.pc = "gather" /\ q.etags = st[r].etags /\ q.part_number = st[r].part_number
       ELSE q.pc = "closed" /\ q.etags = << >> /\ q.part_number = 0
    /\ gathered' = [gathered EXCEPT ![r] = st[r].etags]
    /\ UNCHANGED <<objects, uploads>>

Ends(r, q) ==
    /\ Becomes(r, q) /\ st[r].pc = "ended" /\ Leaves(r) /\ q.pc \in {"ready", "done"}
    /\ q.rep = st[r].rep + 1 /\ q.connected = st[r].connected /\ q.wrote = 0 /\ SameUpload(r, q)
    /\ UNCHANGED <<bucket, objects, uploads, gathered, aborted>>

\* The job is gone: at most the etags gathered by rank 0 with it.
Dies == aborted' /\ UNCHANGED <<test, st, store>> /\ gathered' \in {gathered, [w \in World |-> << >>]}

LEMMA StepIs ==
    ASSUME Core, ~aborted, ~aborted', NEW r \in Members, TaskStep(r)
    PROVE  \E q : \/ Quiet(r, q) /\ Passage(r, q)
                  \/ Resets(r, q) \/ Initiates(r, q) \/ Takes(r, q) \/ Puts(r, q)
                  \/ Completes(r, q) \/ Tallies(r, q) \/ Sends(r, q) \/ Ends(r, q)
<1> DEFINE p == st[r]
<1>0. test \in Tests /\ Paced /\ DOMAIN p = Fields
  BY DEF Core, Paced
<1>1. ASSUME NEW pc, Go(r, p, pc), test' = test
      PROVE  \E q : /\ Becomes(r, q) /\ q.pc = pc /\ q.rep = p.rep /\ q.connected = p.connected
                    /\ q.wrote = p.wrote /\ SameUpload(r, q)
  BY <1>0, <1>1, GoIs DEF SameUpload
<1>2. CASE Reset(r)
  <2>1. /\ p.pc = "create" /\ (multi_part_upload_p => n_to_n \/ r = 0) /\ test' = test
        /\ UNCHANGED <<bucket, uploads, gathered, aborted>>
        /\ objects' = [objects EXCEPT ![Name(r)] = Blank]
        /\ Go(r, p, IF multi_part_upload_p THEN "initiate" ELSE AfterCreate)
    BY <1>2 DEF Reset, Initiators, Abort
  <2>2. PICK q : /\ Becomes(r, q) /\ q.pc = (IF multi_part_upload_p THEN "initiate" ELSE AfterCreate)
                 /\ q.rep = p.rep /\ q.connected = p.connected /\ q.wrote = p.wrote /\ SameUpload(r, q)
    BY <1>1, <2>1
  <2>3. Resets(r, q)
    BY <2>1, <2>2 DEF Resets, Goes
  <2> QED
    BY <2>3
<1>3. CASE Initiate(r)
  <2> DEFINE t == [p EXCEPT !.UploadId = Len(uploads')]
  <2>1. /\ p.pc = "initiate" /\ test' = test /\ UNCHANGED <<bucket, objects, gathered, aborted>>
        /\ uploads' = Append(uploads, [name |-> Name(r), parts |-> Blank, done |-> FALSE])
        /\ Go(r, t, IF n_to_n THEN AfterCreate ELSE "bcast")
    BY <1>3 DEF Initiate
  <2>2. /\ DOMAIN t = Fields /\ t.calls = p.calls /\ t.connected = p.connected /\ t.rep = p.rep
        /\ t.wrote = p.wrote /\ t.part_number = p.part_number /\ t.etags = p.etags
        /\ t.UploadId = Len(uploads') /\ t.tallied = p.tallied
    BY <1>0, FieldsAre
  <2> HIDE DEF t
  <2>3. PICK q : /\ Becomes(r, q) /\ q.pc = (IF n_to_n THEN AfterCreate ELSE "bcast")
                 /\ q.rep = t.rep /\ q.wrote = t.wrote /\ q.connected = t.connected
                 /\ q.part_number = t.part_number /\ q.etags = t.etags /\ q.UploadId = t.UploadId
                 /\ q.tallied = t.tallied
    BY <1>0, <2>1, <2>2, GoIs
  <2>4. Initiates(r, q)
    BY <2>1, <2>2, <2>3 DEF Initiates, Goes
  <2> QED
    BY <2>4
<1>4. CASE TakeId(r)
  <2> DEFINE t == [p EXCEPT !.UploadId = st[0].UploadId]
  <2>1. /\ p.pc = "bcast" /\ st[0].calls >= p.calls /\ test' = test
        /\ UNCHANGED <<bucket, objects, uploads, gathered, aborted>> /\ Go(r, t, AfterCreate)
    BY <1>4 DEF TakeId, MayLeave, store
  <2>2. /\ DOMAIN t = Fields /\ t.calls = p.calls /\ t.connected = p.connected /\ t.rep = p.rep
        /\ t.wrote = p.wrote /\ t.part_number = p.part_number /\ t.etags = p.etags
        /\ t.UploadId = st[0].UploadId /\ t.tallied = p.tallied
    BY <1>0, FieldsAre
  <2> HIDE DEF t
  <2>3. PICK q : /\ Becomes(r, q) /\ q.pc = AfterCreate
                 /\ q.rep = t.rep /\ q.wrote = t.wrote /\ q.connected = t.connected
                 /\ q.part_number = t.part_number /\ q.etags = t.etags /\ q.UploadId = t.UploadId
                 /\ q.tallied = t.tallied
    BY <1>0, <2>1, <2>2, GoIs
  <2>4. Takes(r, q)
    BY <2>1, <2>2, <2>3 DEF Takes, Goes
  <2> QED
    BY <2>4
<1>5. CASE PutPart(r)
  <2> DEFINE cell == Cell(r, p.rep, p.wrote)
             t == [p EXCEPT !.wrote = @ + 1, !.part_number = @ + 1, !.etags = Append(@, cell)]
  <2>1. /\ p.pc = "write" /\ multi_part_upload_p /\ test' = test /\ PutDone(r, t)
        /\ UNCHANGED <<bucket, objects, gathered, aborted>>
        /\ uploads' = [uploads EXCEPT ![p.UploadId].parts =
                          [i \in DOMAIN @ \cup {PartNumber(r, p.part_number)} |->
                              IF i = PartNumber(r, p.part_number) THEN cell ELSE @[i]]]
    BY <1>5 DEF PutPart
  <2>2. /\ DOMAIN t = Fields /\ t.calls = p.calls /\ t.connected = p.connected /\ t.rep = p.rep
        /\ t.wrote = p.wrote + 1 /\ t.part_number = p.part_number + 1 /\ t.etags = Append(p.etags, cell)
        /\ t.UploadId = p.UploadId /\ t.tallied = p.tallied
    BY <1>0, FieldsAre
  <2> HIDE DEF t
  <2>3. PICK pc : /\ Go(r, t, pc)
                  /\ \/ pc = "write" /\ t.wrote < XfersPerTask
                     \/ pc = AfterWrite /\ (t.wrote = XfersPerTask \/ test.deadlineForStonewalling)
    BY <2>1 DEF PutDone
  <2>4. PICK q : /\ Becomes(r, q) /\ q.pc = pc
                 /\ q.rep = t.rep /\ q.wrote = t.wrote /\ q.connected = t.connected
                 /\ q.part_number = t.part_number /\ q.etags = t.etags /\ q.UploadId = t.UploadId
                 /\ q.tallied = t.tallied
    BY <1>0, <2>1, <2>2, <2>3, GoIs
  <2>5. PutsPart(r, q)
    BY <2>1, <2>2, <2>4 DEF PutsPart
  <2>6. Puts(r, q)
    BY <2>1, <2>2, <2>3, <2>4, <2>5 DEF Puts, Goes
  <2> QED
    BY <2>6
<1>6. CASE PutBytes(r)
  <2> DEFINE t == [p EXCEPT !.wrote = @ + 1]
  <2>1. /\ p.pc = "write" /\ ~multi_part_upload_p /\ test' = test /\ PutDone(r, t)
        /\ UNCHANGED <<bucket, uploads, gathered, aborted>>
        /\ objects' = [objects EXCEPT ![Name(r)] =
                          PutRange(@, ByteRange(r, p.wrote, @), Cell(r, p.rep, p.wrote))]
    BY <1>6 DEF PutBytes
  <2>2. /\ DOMAIN t = Fields /\ t.calls = p.calls /\ t.connected = p.connected /\ t.rep = p.rep
        /\ t.wrote = p.wrote + 1 /\ t.part_number = p.part_number /\ t.etags = p.etags
        /\ t.UploadId = p.UploadId /\ t.tallied = p.tallied
    BY <1>0, FieldsAre
  <2> HIDE DEF t
  <2>3. PICK pc : /\ Go(r, t, pc)
                  /\ \/ pc = "write" /\ t.wrote < XfersPerTask
                     \/ pc = AfterWrite /\ (t.wrote = XfersPerTask \/ test.deadlineForStonewalling)
    BY <2>1 DEF PutDone
  <2>4. PICK q : /\ Becomes(r, q) /\ q.pc = pc
                 /\ q.rep = t.rep /\ q.wrote = t.wrote /\ q.connected = t.connected
                 /\ q.part_number = t.part_number /\ q.etags = t.etags /\ q.UploadId = t.UploadId
                 /\ q.tallied = t.tallied
    BY <1>0, <2>1, <2>2, <2>3, GoIs
  <2>5. PutsBytes(r, q)
    BY <2>1, <2>2, <2>4 DEF PutsBytes
  <2>6. Puts(r, q)
    BY <2>1, <2>2, <2>3, <2>4, <2>5 DEF Puts, Goes
  <2> QED
    BY <2>6
<1>7. CASE CloseOwn(r) \/ CompleteShared(r)
  <2> DEFINE pc == IF n_to_n THEN "synced" ELSE "closed"
             t == s3_MPU_reset(p)
  <2>1. /\ multi_part_upload_p /\ Complete(r, List(r), pc)
        /\ IF n_to_n THEN p.pc = "close" /\ UNCHANGED gathered
           ELSE /\ p.pc = "gather" /\ (\A w \in World : gathered[w] # << >>)
                /\ gathered' = [w \in World |-> << >>]
    <3>1. CASE CloseOwn(r)
      BY <3>1 DEF CloseOwn, List
    <3>2. CASE CompleteShared(r)
      <4>1. multi_part_upload_p /\ ~n_to_n
        BY <1>0, <3>2 DEF CompleteShared, Paced, Legal
      <4> QED
        BY <3>2, <4>1 DEF CompleteShared, List
    <3> QED
      BY <1>7, <3>1, <3>2
  <2>2. /\ Accepted(r) /\ Go(r, t, pc) /\ UNCHANGED <<test, bucket, aborted>>
        /\ objects' = [objects EXCEPT ![uploads[p.UploadId].name] = List(r)]
        /\ uploads' = [uploads EXCEPT ![p.UploadId].done = TRUE]
    BY <2>1 DEF Complete, Accepted
  <2>3. /\ DOMAIN t = Fields /\ t.calls = p.calls /\ t.connected = p.connected /\ t.rep = p.rep
        /\ t.wrote = p.wrote /\ t.part_number = 0 /\ t.etags = << >>
        /\ t.UploadId = p.UploadId /\ t.tallied = p.tallied
    BY <1>0, FieldsAre DEF s3_MPU_reset
  <2> HIDE DEF t
  <2>4. PICK q : /\ Becomes(r, q) /\ q.pc = pc
                 /\ q.rep = t.rep /\ q.wrote = t.wrote /\ q.connected = t.connected
                 /\ q.part_number = t.part_number /\ q.etags = t.etags /\ q.UploadId = t.UploadId
                 /\ q.tallied = t.tallied
    BY <1>0, <2>2, <2>3, GoIs
  <2>5. Completes(r, q)
    BY <2>1, <2>2, <2>3, <2>4 DEF Completes, Goes
  <2> QED
    BY <2>5
<1>8. CASE CloseShared(r)
  <2> DEFINE t == [p EXCEPT !.tallied = Len(p.etags)]
  <2>1. /\ p.pc = "close" /\ multi_part_upload_p /\ ~n_to_n /\ test' = test
        /\ UNCHANGED <<bucket, objects, uploads, gathered, aborted>> /\ Go(r, t, "tally")
    BY <1>8 DEF CloseShared, store
  <2>2. /\ DOMAIN t = Fields /\ t.calls = p.calls /\ t.connected = p.connected /\ t.rep = p.rep
        /\ t.wrote = p.wrote /\ t.part_number = p.part_number /\ t.etags = p.etags
        /\ t.UploadId = p.UploadId /\ t.tallied = Len(p.etags)
    BY <1>0, FieldsAre
  <2> HIDE DEF t
  <2>3. PICK q : /\ Becomes(r, q) /\ q.pc = "tally"
                 /\ q.rep = t.rep /\ q.wrote = t.wrote /\ q.connected = t.connected
                 /\ q.part_number = t.part_number /\ q.etags = t.etags /\ q.UploadId = t.UploadId
                 /\ q.tallied = t.tallied
    BY <1>0, <2>1, <2>2, GoIs
  <2>4. Tallies(r, q)
    BY <2>1, <2>2, <2>3 DEF Tallies, Goes
  <2> QED
    BY <2>4
<1>9. CASE SendEtags(r)
  <2>1. /\ p.pc = "tally" /\ Leaves(r) /\ p.tallied = Max(EtagCounts) /\ test' = test
        /\ UNCHANGED <<bucket, objects, uploads, aborted>>
        /\ gathered' = [gathered EXCEPT ![r] = p.etags]
    BY <1>9 DEF SendEtags, MayLeave, Leaves, store
  <2>2. CASE r = 0
    <3>1. Go(r, p, "gather")
      BY <1>9, <2>2 DEF SendEtags
    <3>2. PICK q : /\ Becomes(r, q) /\ q.pc = "gather" /\ q.rep = p.rep /\ q.connected = p.connected
                   /\ q.wrote = p.wrote /\ SameUpload(r, q)
      BY <1>1, <2>1, <3>1
    <3>3. Sends(r, q)
      BY <2>1, <2>2, <3>2 DEF Sends, Goes, SameUpload
    <3> QED
      BY <3>3
  <2>3. CASE r # 0
    <3> DEFINE t == s3_MPU_reset(p)
    <3>1. Go(r, t, "closed")
      BY <1>9, <2>3 DEF SendEtags
    <3>2. /\ DOMAIN t = Fields /\ t.calls = p.calls /\ t.connected = p.connected /\ t.rep = p.rep
          /\ t.wrote = p.wrote /\ t.part_number = 0 /\ t.etags = << >>
          /\ t.UploadId = p.UploadId /\ t.tallied = p.tallied
      BY <1>0, FieldsAre DEF s3_MPU_reset
    <3> HIDE DEF t
    <3>3. PICK q : /\ Becomes(r, q) /\ q.pc = "closed"
                   /\ q.rep = t.rep /\ q.wrote = t.wrote /\ q.connected = t.connected
                   /\ q.part_number = t.part_number /\ q.etags = t.etags /\ q.UploadId = t.UploadId
                   /\ q.tallied = t.tallied
      BY <1>0, <2>1, <3>1, <3>2, GoIs
    <3>4. Sends(r, q)
      BY <2>1, <2>3, <3>2, <3>3 DEF Sends, Goes
    <3> QED
      BY <3>4
  <2> QED
    BY <2>2, <2>3
<1>10. CASE NextRepetition(r)
  <2> DEFINE t == [p EXCEPT !.rep = @ + 1, !.wrote = 0, !.k = 0]
             pc == IF p.rep + 1 < test.repetitions THEN "ready" ELSE "done"
  <2>1. /\ p.pc = "ended" /\ Leaves(r) /\ test' = test
        /\ UNCHANGED <<bucket, objects, uploads, gathered, aborted>> /\ Go(r, t, pc)
    BY <1>10 DEF NextRepetition, MayLeave, Leaves, store
  <2>2. /\ DOMAIN t = Fields /\ t.calls = p.calls /\ t.connected = p.connected /\ t.rep = p.rep + 1
        /\ t.wrote = 0 /\ t.part_number = p.part_number /\ t.etags = p.etags
        /\ t.UploadId = p.UploadId /\ t.tallied = p.tallied
    BY <1>0, FieldsAre
  <2>3. pc \in {"ready", "done"}
    OBVIOUS
  <2> HIDE DEF t, pc
  <2>4. PICK q : /\ Becomes(r, q) /\ q.pc = pc
                 /\ q.rep = t.rep /\ q.wrote = t.wrote /\ q.connected = t.connected
                 /\ q.part_number = t.part_number /\ q.etags = t.etags /\ q.UploadId = t.UploadId
                 /\ q.tallied = t.tallied
    BY <1>0, <2>1, <2>2, GoIs
  <2>5. Ends(r, q)
    BY <2>1, <2>2, <2>3, <2>4 DEF Ends, SameUpload
  <2> QED
    BY <2>5
<1>11. ~MismatchAborts(r)
  BY DEF MismatchAborts, Abort
<1>12. CASE \/ StartCreate(r) \/ MakeBucket(r) \/ Connected(r) \/ AwaitId(r) \/ Opened(r)
            \/ Written(r) \/ CloseBytes(r) \/ Closed(r) \/ Stat(r) \/ Sized(r) \/ StartRead(r) \/ Get(r)
  BY <1>12, QuietIs
<1> QED
  BY <1>2, <1>3, <1>4, <1>5, <1>6, <1>7, <1>8, <1>9, <1>10, <1>11, <1>12 DEF TaskStep

LEMMA EtagsGrow ==
    ASSUME NEW r, NEW rep, NEW n \in Nat
    PROVE  /\ Append(Etags(r, rep, n), Cell(r, rep, n)) = Etags(r, rep, n + 1)
           /\ Len(Etags(r, rep, n)) = n /\ Etags(r, rep, 0) = << >>
  BY DEF Etags

Loud(r, q) ==
    \/ Resets(r, q) \/ Initiates(r, q) \/ Takes(r, q) \/ Puts(r, q)
    \/ Completes(r, q) \/ Tallies(r, q) \/ Sends(r, q)

LEMMA LoudAmount ==
    ASSUME Core, NEW r \in Members, NEW q, Loud(r, q)
    PROVE  Amount(q, r)
<1> DEFINE p == st[r]
           X == XfersPerTask
<1>0. test \in Tests /\ Legal(p) /\ Amount(p, r) /\ p.rep \in Nat
  BY CallsAre DEF Core, Amounts, Legal
<1>1. X \in Nat \ {0}
  BY <1>0, TestIs
<1>2. p.wrote \in 0 .. X /\ p.tallied \in 0 .. X
  BY <1>0 DEF Amount
<1>3. AfterCreate \in {"opened", "write"} /\ AfterWrite \in {"written", "close"}
  BY DEF AfterCreate, AfterWrite
<1>4. Etags(r, p.rep, 0) = << >>
  BY EtagsGrow
<1>5. (multi_part_upload_p /\ p.pc \in Putting) => p.part_number = p.wrote /\ p.etags = Etags(r, p.rep, p.wrote)
  BY <1>0 DEF Amount
<1>6. ~(multi_part_upload_p /\ p.pc \in Putting) => p.part_number = 0 /\ p.etags = << >>
  BY <1>0 DEF Amount
<1>7. p.pc \in Early => p.wrote = 0
  BY <1>0 DEF Amount
<1>8. p.pc \in {"close", "tally", "gather"} =>
        p.wrote > 0 /\ (~test.deadlineForStonewalling => p.wrote = X)
  BY <1>0 DEF Amount, Early
<1>9. Len(Etags(r, p.rep, p.wrote)) = p.wrote
  BY <1>2, EtagsGrow
<1> HIDE DEF X
<1>10. CASE Resets(r, q)
  <2>1. /\ p.pc = "create" /\ q.pc = (IF multi_part_upload_p THEN "initiate" ELSE AfterCreate)
        /\ q.wrote = p.wrote /\ q.part_number = p.part_number /\ q.etags = p.etags /\ q.tallied = p.tallied
    BY <1>10 DEF Resets, SameUpload
  <2> QED
    BY <1>1, <1>2, <1>3, <1>6, <1>7, <2>1 DEF Amount, Early, Putting, X
<1>11. CASE Initiates(r, q)
  <2>1. /\ p.pc = "initiate" /\ q.pc \in {"opened", "write", "bcast"} /\ q.rep = p.rep
        /\ q.wrote = p.wrote /\ q.part_number = p.part_number /\ q.etags = p.etags /\ q.tallied = p.tallied
    BY <1>3, <1>11 DEF Initiates, Goes
  <2> QED
    BY <1>1, <1>2, <1>4, <1>6, <1>7, <2>1 DEF Amount, Early, Putting, X
<1>12. CASE Takes(r, q)
  <2>1. /\ p.pc = "bcast" /\ q.pc \in {"opened", "write"} /\ q.rep = p.rep
        /\ q.wrote = p.wrote /\ q.part_number = p.part_number /\ q.etags = p.etags /\ q.tallied = p.tallied
    BY <1>3, <1>12 DEF Takes, Goes
  <2> QED
    BY <1>1, <1>2, <1>4, <1>6, <1>7, <2>1 DEF Amount, Early, Putting, X
<1>13. CASE Puts(r, q)
  <2>1. /\ p.pc = "write" /\ q.rep = p.rep /\ q.wrote = p.wrote + 1 /\ q.tallied = p.tallied
        /\ \/ q.pc = "write" /\ q.wrote < X
           \/ q.pc \in {"written", "close"} /\ (q.wrote = X \/ test.deadlineForStonewalling)
    BY <1>3, <1>13 DEF Puts, Goes, X
  <2>2. p.wrote < X
    BY <1>0, <2>1 DEF Amount, X
  <2>3. q.wrote \in 0 .. X /\ q.wrote > 0
    BY <1>1, <1>2, <2>1, <2>2
  <2>4. IF multi_part_upload_p
        THEN q.part_number = q.wrote /\ q.etags = Etags(r, q.rep, q.wrote)
        ELSE q.part_number = 0 /\ q.etags = << >>
    <3>0. p.wrote \in Nat
      BY <1>1, <1>2
    <3>1. Append(Etags(r, p.rep, p.wrote), Cell(r, p.rep, p.wrote)) = Etags(r, p.rep, p.wrote + 1)
      BY <3>0, EtagsGrow, Zenon
    <3> QED
      BY <1>5, <1>6, <1>13, <2>1, <3>1 DEF Puts, PutsPart, PutsBytes, Putting
  <2> QED
    BY <1>2, <2>1, <2>3, <2>4 DEF Amount, Early, Putting, X
<1>14. CASE Completes(r, q)
  <2>1. /\ p.pc \in {"close", "gather"} /\ q.pc \in {"synced", "closed"} /\ multi_part_upload_p
        /\ (q.pc = "closed" => p.pc = "gather")
        /\ q.wrote = p.wrote /\ q.part_number = 0 /\ q.etags = << >> /\ q.tallied = p.tallied
    BY <1>14 DEF Completes
  <2>2. p.pc = "gather" => p.tallied = p.wrote
    BY <1>0, <2>1 DEF Amount
  <2> QED
    BY <1>2, <1>8, <2>1, <2>2 DEF Amount, Early, Putting, X
<1>15. CASE Tallies(r, q)
  <2>1. /\ p.pc = "close" /\ q.pc = "tally" /\ q.rep = p.rep /\ multi_part_upload_p
        /\ q.wrote = p.wrote /\ q.part_number = p.part_number /\ q.etags = p.etags
        /\ q.tallied = Len(p.etags)
    BY <1>15 DEF Tallies, Goes
  <2>2. p.part_number = p.wrote /\ p.etags = Etags(r, p.rep, p.wrote)
    BY <1>5, <2>1 DEF Putting
  <2> QED
    BY <1>2, <1>8, <1>9, <2>1, <2>2 DEF Amount, Early, Putting, X
<1>16. CASE Sends(r, q)
  <2>1. /\ p.pc = "tally" /\ q.rep = p.rep
        /\ q.wrote = p.wrote /\ q.tallied = p.tallied
        /\ \/ q.pc = "gather" /\ q.etags = p.etags /\ q.part_number = p.part_number
           \/ q.pc = "closed" /\ q.etags = << >> /\ q.part_number = 0
    BY <1>16 DEF Sends, Goes
  <2>2. multi_part_upload_p /\ p.tallied = p.wrote
    BY <1>0, <2>1 DEF Amount, Legal
  <2>3. p.part_number = p.wrote /\ p.etags = Etags(r, p.rep, p.wrote)
    BY <1>5, <2>1, <2>2 DEF Putting
  <2> QED
    BY <1>2, <1>8, <2>1, <2>2, <2>3 DEF Amount, Early, Putting, X
<1> QED
  BY <1>10, <1>11, <1>12, <1>13, <1>14, <1>15, <1>16 DEF Loud

LEMMA LoudCore ==
    ASSUME Core, NEW r \in Members, NEW q, Loud(r, q)
    PROVE  Core'
<1>1. Goes(r, q)
  BY DEF Loud, Resets, Initiates, Takes, Puts, Completes, Tallies, Sends
<1>2. Way(r, q)
  <2> DEFINE p == st[r]
  <2>1. Legal(p)
    BY CallsAre DEF Core
  <2>2. CASE Resets(r, q)
    BY <2>2 DEF Resets, Way
  <2>3. CASE Initiates(r, q)
    BY <2>3 DEF Initiates, Way
  <2>4. CASE Takes(r, q)
    BY <2>4 DEF Takes, Way
  <2>5. CASE Puts(r, q)
    BY <2>5 DEF Puts, Way
  <2>6. CASE Completes(r, q)
    BY <2>6 DEF Completes, Way
  <2>7. CASE Tallies(r, q)
    BY <2>7 DEF Tallies, Way
  <2>8. CASE Sends(r, q)
    BY <2>8 DEF Sends, Way
  <2> QED
    BY <2>2, <2>3, <2>4, <2>5, <2>6, <2>7, <2>8 DEF Loud
<1>3. Amount(q, r)
  BY LoudAmount
<1> QED
  BY <1>1, <1>2, <1>3, WayCore DEF Goes

LEMMA EndsCore ==
    ASSUME Core, NEW r \in Members, NEW q, Ends(r, q)
    PROVE  Core'
<1> DEFINE p == st[r]
           K == PerRepetition
<1>1. /\ test \in Tests /\ Legal(p) /\ Amount(p, r) /\ p.calls \in Nat /\ p.rep \in Nat
      /\ p.pc = "ended" /\ q.rep = p.rep + 1 /\ q.connected = p.connected /\ q.wrote = 0
      /\ q.pc \in {"ready", "done"} /\ Leaves(r) /\ Becomes(r, q) /\ bucket' = bucket
      /\ q.part_number = p.part_number /\ q.etags = p.etags /\ q.tallied = p.tallied
      /\ q.calls = p.calls + One(q.pc \in Collectives)
  BY CallsAre DEF Core, Amounts, Legal, Ends, SameUpload, Becomes
<1>2. K \in Nat /\ Entered.ended = K /\ p.connected
  BY <1>1, NumbersAre, EnteredIs DEF Legal, PerRepetition
<1>3. Here(p) = K + 1
  BY <1>1, <1>2 DEF Here, One
<1>4. p.calls = K * p.rep + K + 1
  <2> HIDE DEF K
  <2>1. p.calls = K * p.rep + Here(p)
    BY <1>1 DEF Legal, K
  <2>2. K * p.rep \in Nat
    BY <1>1, <1>2
  <2> QED
    BY <1>2, <1>3, <2>1, <2>2
<1>5. Here(q) = 1 + One(q.pc \in Collectives) /\ One(q.pc \in Collectives) = Ahead[q.pc]
  BY <1>1, <1>2, EnteredIs, AheadIs, CollectivesAre DEF Here, One
<1>6. One(q.pc \in Collectives) \in 0 .. 1
  BY DEF One
<1> HIDE DEF K
<1>7. q.calls = K * q.rep + Here(q)
  <2>1. K * q.rep = K * p.rep + K /\ K * p.rep \in Nat
    BY <1>1, <1>2
  <2> DEFINE k == K * p.rep
             o == One(q.pc \in Collectives)
  <2>2. k \in Nat /\ K * q.rep = k + K /\ q.calls = k + K + 1 + o /\ o \in 0 .. 1 /\ Here(q) = 1 + o
    BY <1>1, <1>4, <1>5, <1>6, <2>1
  <2> HIDE DEF k, o
  <2> QED
    BY <1>2, <2>2
<1>8. Legal(q)
  <2>1. q.rep \in Nat /\ q.rep > 0
    BY <1>1
  <2> QED
    BY <1>1, <1>2, <1>7, <2>1, PlacesAre DEF Legal, K
<1>9. Amount(q, r)
  BY <1>1, TestIs DEF Amount, Early, Putting
<1>10. q.calls - Ahead[q.pc] = p.calls
  BY <1>1, <1>5, <1>6
<1> QED
  BY <1>1, <1>2, <1>8, <1>9, <1>10, CoreMove DEF Core, BucketIsThere

-----------------------------------------------------------------------------
(* Nobody writes while somebody looks                                       *)

\* Facts on labels, for the lemmas that compare tasks.
LEMMA Marks ==
    ASSUME Core
    PROVE  /\ Id \in 0 .. 1 /\ Bar \in 0 .. 1 /\ Meet \in 0 .. 1
           /\ Id = 1 <=> multi_part_upload_p /\ ~n_to_n
           /\ Bar = 1 <=> test.intraTestBarriers
           /\ Meet = 1 <=> ~n_to_n
           /\ Loose = IF Bar = 1 THEN 0 ELSE Id
           /\ \A x \in Members :
                 /\ st[x].pc \in Places
                 /\ st[x].pc = "initiate" => multi_part_upload_p
                 /\ st[x].pc \in {"bcast", "tally", "gather"} => multi_part_upload_p /\ ~n_to_n
                 /\ st[x].pc \in {"opened", "written"} => test.intraTestBarriers
                 /\ st[x].pc = "closed" => ~n_to_n
                 /\ st[x].pc \notin {"ready", "bucket", "connect"} => st[x].connected
  BY NumbersAre, CallsAre DEF Core, Legal

LEMMA NobodyReads ==
    ASSUME Core, NEW q \in Members, st[q].pc \in {"create", "write", "close", "gather"}
    PROVE  \A r \in Members : st[r].pc \notin Late \ {"synced"}
<1> SUFFICES ASSUME NEW r \in Members, st[r].pc \in Late \ {"synced"} PROVE FALSE
  OBVIOUS
<1>1. st[r].connected /\ st[r].pc \in {"sizes", "reading", "read", "ended"}
  BY Marks DEF Late
<1>2. Entered[st[q].pc] >= Entered[st[r].pc] - Ahead[st[r].pc]
  BY <1>1, Order DEF Core
<1>3. Entered[st[r].pc] - Ahead[st[r].pc] >= 2 + 2 * Id + 2 * Bar + Meet
  BY <1>1, Marks, EnteredIs, AheadIs
<1>4. Entered[st[q].pc] < 2 + 2 * Id + 2 * Bar + Meet
  BY Marks, EnteredIs
<1>5. Entered[st[q].pc] \in Int /\ Entered[st[r].pc] - Ahead[st[r].pc] \in Int
      /\ 2 + 2 * Id + 2 * Bar + Meet \in Int
  BY <1>1, Marks, EnteredIs, AheadIs
<1> QED
  BY <1>2, <1>3, <1>4, <1>5

LEMMA ReadTogether ==
    ASSUME Core, NEW r \in Members, st[r].pc = "read", NEW q \in Members
    PROVE  st[q].rep = st[r].rep /\ st[q].pc \in {"reading", "read", "ended"}
<1>1. st[r].connected
  BY Marks
<1>2. st[q].rep = st[r].rep /\ Entered[st[q].pc] >= Entered[st[r].pc] - Ahead[st[r].pc]
  BY <1>1, Order DEF Core
<1>3. Entered[st[q].pc] >= 4 + 2 * Id + 2 * Bar + Meet
  BY <1>2, Marks, EnteredIs, AheadIs
<1> QED
  BY <1>2, <1>3, Marks, EnteredIs, PlacesAre

LEMMA SizedTogether ==
    ASSUME Core, NEW r \in Members, st[r].pc = "sizes", Leaves(r), NEW q \in Members
    PROVE  st[q].pc \in Late \ {"synced"}
<1>1. st[r].connected
  BY Marks
<1>2. Entered[st[q].pc] >= Entered[st[r].pc]
  BY <1>1, Met DEF Core, Leaves
<1>3. Entered[st[q].pc] >= 3 + 2 * Id + 2 * Bar + Meet
  BY <1>2, Marks, EnteredIs
<1> QED
  BY <1>3, Marks, EnteredIs, PlacesAre DEF Late

LEMMA AggregateIs ==
    \A f : Aggregate(f) = IF n_to_n THEN SumOn(f, Members) ELSE Min(Range(f))
  BY Zenon DEF Aggregate, SumOn, MapThenSumSet, MapThenFoldSet

LEMMA SizesStep ==
    ASSUME Core, Sizes, NEW r \in Members, NEW q,
           (Quiet(r, q) /\ Passage(r, q)) \/ Loud(r, q) \/ Ends(r, q)
    PROVE  Sizes'
<1> DEFINE Told(p, x) == /\ p.pc \in Late \ {"synced"} => p.stat = Size(x)
                         /\ p.pc \in {"reading", "read", "ended"} =>
                               p.aggFileSize = Aggregate([y \in Members |-> Size(y)])
<1>1. Becomes(r, q)
  BY DEF Quiet, Loud, Ends, Goes, Resets, Initiates, Takes, Puts, Completes, Tallies, Sends
<1>2. /\ Members' = Members /\ n_to_n' = n_to_n
      /\ \A x \in Members : st'[x] = IF x = r THEN q ELSE st[x]
  BY <1>1 DEF Becomes, Core, Paced, Members, N, n_to_n
<1>3. CASE UNCHANGED objects
  <2>1. \A x \in Members : Size(x)' = Size(x)
    BY <1>2, <1>3 DEF Size, Name, Length
  <2>2. Aggregate([y \in Members |-> Size(y)])' = Aggregate([y \in Members |-> Size(y)])
    <3> DEFINE f == [y \in Members |-> Size(y)]
    <3>1. f' = f
      BY <1>2, <2>1
    <3> HIDE DEF f
    <3>2. Aggregate(f) = IF n_to_n THEN SumOn(f, Members) ELSE Min(Range(f))
      BY AggregateIs
    <3>3. Aggregate(f)' = IF n_to_n' THEN SumOn(f', Members') ELSE Min(Range(f'))
      BY Zenon DEF Aggregate, SumOn, MapThenSumSet, MapThenFoldSet
    <3>4. Aggregate(f)' = Aggregate(f)
      BY <1>2, <3>1, <3>2, <3>3
    <3> QED
      BY <3>4 DEF f
  <2>3. ASSUME NEW x \in Members PROVE Told(st[x], x)
    BY DEF Sizes
  <2>4. Told(q, r)
    <3>1. CASE Quiet(r, q) /\ Passage(r, q)
      <4>1. CASE st[r].pc = "synced"
        BY <3>1, <4>1 DEF Passage
      <4>2. CASE st[r].pc = "sizes"
        <5>1. q.pc = "reading" /\ q.stat = st[r].stat /\ Leaves(r)
              /\ q.aggFileSize = Aggregate([x \in Members |-> st[x].stat])
          BY <3>1, <4>2 DEF Passage
        <5>2. \A x \in Members : st[x].stat = Size(x)
          BY <4>2, <5>1, SizedTogether DEF Sizes
        <5>3. [x \in Members |-> st[x].stat] = [x \in Members |-> Size(x)]
          BY <5>2
        <5> QED
          BY <5>1, <5>2, <5>3
      <4>3. CASE st[r].pc \in {"reading", "read"}
        <5>1. q.stat = st[r].stat /\ q.aggFileSize = st[r].aggFileSize
          BY <3>1, <4>3 DEF Passage
        <5> QED
          BY <2>3, <4>3, <5>1 DEF Late
      <4>4. CASE st[r].pc \notin {"synced", "sizes", "reading", "read"}
        BY <3>1, <4>4 DEF Passage, Late
      <4> QED
        BY <4>1, <4>2, <4>3, <4>4
    <3>2. CASE Loud(r, q)
      <4>1. AfterCreate \in {"opened", "write"} /\ AfterWrite \in {"written", "close"}
        BY DEF AfterCreate, AfterWrite
      <4>2. q.pc \notin Late \ {"synced"}
        BY <3>2, <4>1 DEF Loud, Late, Resets, Initiates, Takes, Puts, Completes, Tallies, Sends
      <4> QED
        BY <4>2 DEF Late
    <3>3. CASE Ends(r, q)
      BY <3>3 DEF Ends, Late
    <3> QED
      BY <3>1, <3>2, <3>3
  <2> QED
    BY <1>2, <2>1, <2>2, <2>3, <2>4 DEF Sizes
<1>4. CASE Resets(r, q) \/ Puts(r, q) \/ Completes(r, q)
  <2>1. st[r].pc \in {"create", "write", "close", "gather"}
    BY <1>4 DEF Resets, Puts, Completes
  <2>2. \A x \in Members : st[x].pc \notin Late \ {"synced"}
    BY <2>1, NobodyReads
  <2>3. AfterCreate \in {"opened", "write"} /\ AfterWrite \in {"written", "close"}
    BY DEF AfterCreate, AfterWrite
  <2>4. q.pc \notin Late \ {"synced"}
    BY <1>4, <2>3 DEF Late, Resets, Puts, Completes
  <2>5. \A x \in Members : st'[x].pc \notin Late \ {"synced"}
    BY <1>2, <2>2, <2>4
  <2> QED
    BY <1>2, <2>5 DEF Sizes, Late
<1> QED
  BY <1>3, <1>4 DEF Quiet, Loud, Ends, Initiates, Takes, Tallies, Sends

-----------------------------------------------------------------------------
(* What becomes of uploads                                                  *)

Anything(r, q) == (Quiet(r, q) /\ Passage(r, q)) \/ Loud(r, q) \/ Ends(r, q)

LEMMA OneMoreUpload ==
    ASSUME Shape, NEW r, NEW q, Initiates(r, q)
    PROVE  LET u == Len(uploads) + 1
           IN  /\ Len(uploads') = u /\ DOMAIN uploads' = 1 .. u /\ u \notin DOMAIN uploads
               /\ uploads' = [x \in 1 .. u |-> uploads'[x]]
               /\ uploads'[u] = [name |-> Name(r), parts |-> Blank, done |-> FALSE]
               /\ \A x \in DOMAIN uploads : x \in DOMAIN uploads' /\ uploads'[x] = uploads[x]
<1> DEFINE e == [name |-> Name(r), parts |-> Blank, done |-> FALSE]
           n == Len(uploads)
<1>1. n \in Nat /\ uploads = [u \in 1 .. n |-> uploads[u]] /\ DOMAIN uploads = 1 .. n
  BY DEF Shape
<1>2. uploads' = Append(uploads, e)
  BY DEF Initiates
<1> HIDE DEF e
<1>3. uploads \in Seq({uploads[u] : u \in 1 .. n} \cup {e})
  <2> DEFINE S == {uploads[u] : u \in 1 .. n} \cup {e}
  <2>1. \A u \in 1 .. n : uploads[u] \in S
    OBVIOUS
  <2> HIDE DEF S
  <2>2. uploads \in [1 .. n -> S]
    BY <1>1, <2>1
  <2>3. uploads \in Seq(S)
    BY <1>1, <2>2
  <2> QED
    BY <2>3 DEF S
<1> DEFINE S == {uploads[u] : u \in 1 .. n} \cup {e}
<1>4. e \in S
  OBVIOUS
<1> HIDE DEF S
<1>5. uploads \in Seq(S)
  BY <1>3 DEF S
<1>6. /\ uploads' \in Seq(S) /\ Len(uploads') = n + 1 /\ uploads'[n + 1] = e
      /\ \A x \in 1 .. n : uploads'[x] = uploads[x]
  BY <1>2, <1>4, <1>5
<1>7. DOMAIN uploads' = 1 .. n + 1 /\ uploads' = [x \in 1 .. n + 1 |-> uploads'[x]]
  BY <1>1, <1>6
<1> QED
  BY <1>1, <1>6, <1>7 DEF e

\* A part, or the last request, changes one upload.
LEMMA OneUpload ==
    ASSUME Shape, NEW u \in DOMAIN uploads, NEW v, DOMAIN v = {"name", "parts", "done"},
           uploads' = [uploads EXCEPT ![u] = v]
    PROVE  /\ DOMAIN uploads' = DOMAIN uploads /\ Len(uploads') = Len(uploads)
           /\ uploads' = [x \in 1 .. Len(uploads') |-> uploads'[x]]
           /\ \A x \in DOMAIN uploads : uploads'[x] = IF x = u THEN v ELSE uploads[x]
<1> DEFINE n == Len(uploads)
<1>1. n \in Nat /\ uploads = [x \in 1 .. n |-> uploads[x]] /\ DOMAIN uploads = 1 .. n
  BY DEF Shape
<1>2. /\ DOMAIN uploads' = 1 .. n /\ uploads' = [x \in 1 .. n |-> uploads'[x]]
      /\ \A x \in DOMAIN uploads : uploads'[x] = IF x = u THEN v ELSE uploads[x]
  BY <1>1
<1>3. Len(uploads') = n
  BY <1>1, <1>2
<1> QED
  BY <1>1, <1>2, <1>3

LEMMA PutUpload ==
    ASSUME Shape, NEW r, NEW q, Puts(r, q), multi_part_upload_p, st[r].UploadId \in DOMAIN uploads
    PROVE  LET u == st[r].UploadId
               j == PartNumber(r, st[r].part_number)
               parts == uploads[u].parts
           IN  /\ DOMAIN uploads' = DOMAIN uploads /\ Len(uploads') = Len(uploads)
               /\ uploads' = [x \in 1 .. Len(uploads') |-> uploads'[x]]
               /\ \A x \in DOMAIN uploads :
                     /\ DOMAIN uploads'[x] = DOMAIN uploads[x] /\ uploads'[x].name = uploads[x].name
                     /\ x # u => uploads'[x] = uploads[x]
               /\ uploads'[u].parts = [i \in DOMAIN parts \cup {j} |->
                                          IF i = j THEN Cell(r, st[r].rep, st[r].wrote) ELSE parts[i]]
<1> DEFINE u == st[r].UploadId
           j == PartNumber(r, st[r].part_number)
           parts == [i \in DOMAIN uploads[u].parts \cup {j} |->
                        IF i = j THEN Cell(r, st[r].rep, st[r].wrote) ELSE uploads[u].parts[i]]
           v == [uploads[u] EXCEPT !.parts = parts]
<1>1. uploads' = [uploads EXCEPT ![u] = v]
  BY DEF Puts, PutsPart, PutsBytes
<1>2. DOMAIN uploads[u] = {"name", "parts", "done"}
  BY DEF Shape
<1> HIDE DEF parts
<1>3. DOMAIN v = {"name", "parts", "done"} /\ v.parts = parts /\ v.name = uploads[u].name
  BY <1>2
<1> HIDE DEF v
<1>4. /\ DOMAIN uploads' = DOMAIN uploads /\ Len(uploads') = Len(uploads)
      /\ uploads' = [x \in 1 .. Len(uploads') |-> uploads'[x]]
      /\ \A x \in DOMAIN uploads : uploads'[x] = IF x = u THEN v ELSE uploads[x]
  BY <1>1, <1>3, OneUpload
<1> QED
  BY <1>2, <1>3, <1>4 DEF parts

LEMMA CompleteUpload ==
    ASSUME Shape, NEW r, NEW q, Completes(r, q), st[r].UploadId \in DOMAIN uploads
    PROVE  /\ DOMAIN uploads' = DOMAIN uploads /\ Len(uploads') = Len(uploads)
           /\ uploads' = [x \in 1 .. Len(uploads') |-> uploads'[x]]
           /\ \A x \in DOMAIN uploads :
                 /\ DOMAIN uploads'[x] = DOMAIN uploads[x] /\ uploads'[x].name = uploads[x].name
                 /\ uploads'[x].parts = uploads[x].parts
<1> DEFINE u == st[r].UploadId
           v == [uploads[u] EXCEPT !.done = TRUE]
<1>1. uploads' = [uploads EXCEPT ![u] = v]
  BY DEF Completes
<1>2. DOMAIN uploads[u] = {"name", "parts", "done"}
  BY DEF Shape
<1>3. DOMAIN v = {"name", "parts", "done"} /\ v.parts = uploads[u].parts /\ v.name = uploads[u].name
  BY <1>2
<1> HIDE DEF v
<1>4. /\ DOMAIN uploads' = DOMAIN uploads /\ Len(uploads') = Len(uploads)
      /\ uploads' = [x \in 1 .. Len(uploads') |-> uploads'[x]]
      /\ \A x \in DOMAIN uploads : uploads'[x] = IF x = u THEN v ELSE uploads[x]
  BY <1>1, <1>3, OneUpload
<1> QED
  BY <1>2, <1>3, <1>4

LEMMA ShapeStep ==
    ASSUME Core, Shape, NEW r \in Members, NEW q, Anything(r, q),
           (multi_part_upload_p /\ Puts(r, q)) \/ Completes(r, q) => st[r].UploadId \in DOMAIN uploads
    PROVE  Shape'
<1>1. Becomes(r, q) /\ N' = N
  BY SMTT(30) DEF Anything, Quiet, Loud, Ends, Goes, Resets, Initiates, Takes, Puts, Completes, Tallies, Sends,
         Becomes, N
<1>2. DOMAIN objects' = DOMAIN objects
  BY DEF Anything, Quiet, Loud, Ends, Resets, Initiates, Takes, Puts, PutsPart, PutsBytes, Completes,
         Tallies, Sends
<1>3. DOMAIN gathered' = World
  BY DEF Anything, Quiet, Loud, Ends, Resets, Initiates, Takes, Puts, Completes, Tallies, Sends, Shape
<1>4. /\ Len(uploads') \in Nat /\ uploads' = [u \in 1 .. Len(uploads') |-> uploads'[u]]
      /\ \A u \in DOMAIN uploads' : DOMAIN uploads'[u] = {"name", "parts", "done"}
  <2>1. CASE UNCHANGED uploads
    BY <2>1 DEF Shape
  <2>2. CASE Initiates(r, q)
    <3> DEFINE e == [name |-> Name(r), parts |-> Blank, done |-> FALSE]
               u == Len(uploads) + 1
    <3>1. DOMAIN e = {"name", "parts", "done"}
      OBVIOUS
    <3> HIDE DEF e
    <3>2. /\ Len(uploads') = u /\ DOMAIN uploads' = 1 .. u
          /\ uploads' = [x \in 1 .. u |-> uploads'[x]]
          /\ uploads'[u] = e
          /\ \A x \in DOMAIN uploads : x \in DOMAIN uploads' /\ uploads'[x] = uploads[x]
      BY <2>2, OneMoreUpload DEF e
    <3>3. Len(uploads) \in Nat /\ DOMAIN uploads = 1 .. Len(uploads)
      BY DEF Shape
    <3>4. \A x \in 1 .. u : x = u \/ x \in DOMAIN uploads
      BY <3>3
    <3> QED
      BY <3>1, <3>2, <3>3, <3>4 DEF Shape
  <2>3. CASE Puts(r, q) /\ multi_part_upload_p
    <3>1. /\ DOMAIN uploads' = DOMAIN uploads /\ Len(uploads') = Len(uploads)
          /\ uploads' = [x \in 1 .. Len(uploads') |-> uploads'[x]]
          /\ \A x \in DOMAIN uploads : DOMAIN uploads'[x] = DOMAIN uploads[x]
      BY <2>3, PutUpload
    <3> QED
      BY <3>1 DEF Shape
  <2>4. CASE Completes(r, q)
    <3>1. /\ DOMAIN uploads' = DOMAIN uploads /\ Len(uploads') = Len(uploads)
          /\ uploads' = [x \in 1 .. Len(uploads') |-> uploads'[x]]
          /\ \A x \in DOMAIN uploads : DOMAIN uploads'[x] = DOMAIN uploads[x]
      BY <2>4, CompleteUpload
    <3> QED
      BY <3>1 DEF Shape
  <2>5. Puts(r, q) /\ ~multi_part_upload_p => UNCHANGED uploads
    BY DEF Puts, PutsPart, PutsBytes
  <2> QED
    BY <2>1, <2>2, <2>3, <2>4, <2>5 DEF Anything, Quiet, Loud, Ends, Resets, Takes, Tallies, Sends
<1> QED
  BY <1>1, <1>2, <1>3, <1>4 DEF Shape

-----------------------------------------------------------------------------
(* Own objects                                                              *)

LEMMA RowGrows ==
    ASSUME NEW r, NEW rep, NEW n \in Nat
    PROVE  [i \in DOMAIN Row(r, rep, n) \cup {n} |-> IF i = n THEN Cell(r, rep, n) ELSE Row(r, rep, n)[i]]
              = Row(r, rep, n + 1)
<1> DEFINE f == [i \in DOMAIN Row(r, rep, n) \cup {n} |-> IF i = n THEN Cell(r, rep, n) ELSE Row(r, rep, n)[i]]
           g == Row(r, rep, n + 1)
<1>1. DOMAIN Row(r, rep, n) = 0 .. n - 1 /\ \A k \in 0 .. n - 1 : Row(r, rep, n)[k] = Cell(r, rep, k)
  BY DEF Row
<1>2. (0 .. n - 1) \cup {n} = 0 .. n
  OBVIOUS
<1>3. DOMAIN f = 0 .. n /\ \A k \in 0 .. n : f[k] = Cell(r, rep, k)
  BY <1>1, <1>2
<1>4. g = [k \in 0 .. n |-> Cell(r, rep, k)]
  BY DEF Row
<1>5. f = [k \in 0 .. n |-> f[k]]
  BY <1>3
<1> HIDE DEF f, g
<1> QED
  BY <1>3, <1>4, <1>5 DEF f, g

LEMMA RowListed ==
    ASSUME NEW r, NEW rep, NEW n \in Nat
    PROVE  [i \in 0 .. Len(Etags(r, rep, n)) - 1 |-> Etags(r, rep, n)[i + 1]] = Row(r, rep, n)
<1>1. Len(Etags(r, rep, n)) = n
  BY EtagsGrow
<1>2. \A i \in 0 .. n - 1 : Etags(r, rep, n)[i + 1] = Cell(r, rep, i)
  <2>1. \A i \in 0 .. n - 1 : i + 1 \in 1 .. n /\ (i + 1) - 1 = i
    OBVIOUS
  <2> QED
    BY <2>1 DEF Etags
<1> QED
  BY <1>1, <1>2 DEF Row

LEMMA RowsAre ==
    ASSUME NEW r, NEW rep, NEW n \in Nat
    PROVE  /\ Row(r, rep, 0) = Blank
           /\ DOMAIN Row(r, rep, n) = 0 .. n - 1 /\ Length(Row(r, rep, n)) = n
<1>1. Row(r, rep, 0) = Blank
  <2>1. 0 .. 0 - 1 = {}
    OBVIOUS
  <2> QED
    BY <2>1 DEF Row, Blank
<1>2. DOMAIN Row(r, rep, n) = 0 .. n - 1
  BY DEF Row
<1>3. Length(Row(r, rep, n)) = n
  <2>1. Cardinality(0 .. n - 1) = n
    BY FS_Interval
  <2> QED
    BY <1>2, <2>1 DEF Length
<1> QED
  BY <1>1, <1>2, <1>3

LEMMA WroteIs ==
    ASSUME Core, NEW r \in Members
    PROVE  /\ st[r].wrote \in Nat /\ st[r].wrote \in 0 .. XfersPerTask /\ XfersPerTask \in Nat \ {0}
           /\ st[r].pc \in Early \cup {"done"} => st[r].wrote = 0
           /\ st[r].pc = "write" => st[r].wrote < XfersPerTask
           /\ (multi_part_upload_p /\ st[r].pc \in Putting) =>
                 st[r].part_number = st[r].wrote /\ st[r].etags = Etags(r, st[r].rep, st[r].wrote)
           /\ (multi_part_upload_p /\ st[r].pc \in {"tally", "gather", "closed"}) => st[r].tallied = st[r].wrote
           /\ st[r].pc \notin Early \cup {"done", "write"} =>
                 st[r].wrote > 0 /\ (~test.deadlineForStonewalling => st[r].wrote = XfersPerTask)
<1>1. Amount(st[r], r) /\ XfersPerTask \in Nat \ {0}
  BY TestIs DEF Core, Amounts
<1> QED
  BY <1>1 DEF Amount

\* What becomes of the rest when r moves.
LEMMA Others ==
    ASSUME Core, NEW r \in Members, NEW q, Anything(r, q)
    PROVE  /\ Becomes(r, q) /\ Members' = Members /\ n_to_n' = n_to_n /\ N' = N
           /\ multi_part_upload_p' = multi_part_upload_p /\ segmented' = segmented
           /\ XfersPerTask' = XfersPerTask /\ test' = test
           /\ \A x \in Members : st'[x] = IF x = r THEN q ELSE st[x]
<1>1. Becomes(r, q)
  BY DEF Anything, Quiet, Loud, Ends, Goes, Resets, Initiates, Takes, Puts, Completes, Tallies, Sends
<1> QED
  BY <1>1 DEF Becomes, Core, Paced, Members, N, n_to_n, multi_part_upload_p, segmented, XfersPerTask

LEMMA OwnPartsStep ==
    ASSUME Core, Shape, multi_part_upload_p, n_to_n, OwnParts, NEW r \in Members, NEW q, Anything(r, q)
    PROVE  OwnParts'
<1> DEFINE p == st[r]
           Open == {"opened", "write", "written", "close"}
           Mine(t, x, ups) == /\ t.UploadId \in DOMAIN ups /\ ups[t.UploadId].name = x
                              /\ ups[t.UploadId].parts = Row(x, t.rep, t.wrote)
<1>0. /\ Becomes(r, q) /\ Members' = Members
      /\ \A x \in Members : st'[x] = IF x = r THEN q ELSE st[x]
  BY Others
<1>1. Members \subseteq Nat
  BY TestIs DEF Core
<1>2. \A x \in Members : /\ st[x].pc \in Open => Mine(st[x], x, uploads)
                         /\ st[x].pc \in Late => objects[x] = Row(x, st[x].rep, st[x].wrote)
  BY DEF OwnParts
<1>3. DOMAIN objects = -1 .. N - 1 /\ \A x \in Members : x \in -1 .. N - 1
  BY <1>1, TestIs DEF Shape, Core
<1>4. ~Takes(r, q) /\ ~Tallies(r, q) /\ ~Sends(r, q) /\ p.pc # "closed"
  BY Marks DEF Takes, Tallies, Sends
<1>5. ASSUME NEW x \in Members, x # r, st[x].pc \in Open
      PROVE  Mine(st[x], x, uploads')
  <2> DEFINE u == st[x].UploadId
  <2>1. u \in DOMAIN uploads /\ uploads[u].name = x /\ uploads[u].parts = Row(x, st[x].rep, st[x].wrote)
    BY <1>2, <1>5
  <2>2. CASE UNCHANGED uploads
    BY <2>1, <2>2
  <2>3. CASE Initiates(r, q)
    <3>1. u \in DOMAIN uploads' /\ uploads'[u] = uploads[u]
      BY <2>1, <2>3, OneMoreUpload
    <3> QED
      BY <2>1, <3>1
  <2>4. CASE Puts(r, q)
    <3>1. p.UploadId \in DOMAIN uploads /\ uploads[p.UploadId].name = r
      BY <1>2, <2>4 DEF Puts
    <3>2. u # p.UploadId
      BY <1>5, <2>1, <3>1
    <3>3. u \in DOMAIN uploads' /\ uploads'[u] = uploads[u]
      BY <2>1, <2>4, <3>1, <3>2, PutUpload
    <3> QED
      BY <2>1, <3>3
  <2>5. CASE Completes(r, q)
    <3>1. p.UploadId \in DOMAIN uploads
      BY <1>2, <2>5 DEF Completes
    <3>2. u \in DOMAIN uploads' /\ uploads'[u].name = uploads[u].name /\ uploads'[u].parts = uploads[u].parts
      BY <2>1, <2>5, <3>1, CompleteUpload
    <3> QED
      BY <2>1, <3>2
  <2> QED
    BY <1>4, <2>2, <2>3, <2>4, <2>5 DEF Anything, Quiet, Loud, Ends, Resets
<1>6. ASSUME NEW x \in Members, x # r PROVE objects'[x] = objects[x]
  <2>1. Name(r) = r
    BY DEF Name
  <2>2. CASE UNCHANGED objects
    BY <2>2
  <2>3. CASE Resets(r, q)
    BY <1>3, <1>6, <2>1, <2>3 DEF Resets
  <2>4. CASE Completes(r, q)
    <3>1. uploads[p.UploadId].name = r /\ objects' = [objects EXCEPT ![uploads[p.UploadId].name] = List(r)]
      BY <1>2, <2>4 DEF Completes
    <3> QED
      BY <1>3, <1>6, <3>1
  <2> QED
    BY <1>4, <2>2, <2>3, <2>4 DEF Anything, Quiet, Loud, Ends, Initiates, Puts, PutsPart, PutsBytes
<1>7. (q.pc \in Open => Mine(q, r, uploads')) /\ (q.pc \in Late => objects'[r] = Row(r, q.rep, q.wrote))
  <2>1. CASE Quiet(r, q) /\ Passage(r, q)
    <3>1. q.rep = p.rep /\ q.wrote = p.wrote /\ q.UploadId = p.UploadId /\ UNCHANGED <<objects, uploads>>
      BY <2>1 DEF Quiet
    <3>2. (q.pc \in Open => p.pc \in Open) /\ (q.pc \in Late => p.pc \in Late)
      BY <1>4, <2>1 DEF Passage, Late
    <3> QED
      BY <1>2, <3>1, <3>2
  <2>2. CASE Resets(r, q)
    BY <2>2 DEF Resets, Late
  <2>3. CASE Initiates(r, q)
    <3>1. /\ q.UploadId \in DOMAIN uploads'
          /\ uploads'[q.UploadId] = [name |-> Name(r), parts |-> Blank, done |-> FALSE]
      <4>1. q.UploadId = Len(uploads')
        BY <2>3 DEF Initiates
      <4>2. Len(uploads') = Len(uploads) + 1 /\ DOMAIN uploads' = 1 .. Len(uploads) + 1
            /\ uploads'[Len(uploads) + 1] = [name |-> Name(r), parts |-> Blank, done |-> FALSE]
        BY <2>3, OneMoreUpload
      <4>3. Len(uploads) + 1 \in 1 .. Len(uploads) + 1
        BY DEF Shape
      <4> QED
        BY <4>1, <4>2, <4>3
    <3>2. uploads'[q.UploadId].name = r /\ uploads'[q.UploadId].parts = Blank
      BY <3>1 DEF Name
    <3>3. q.wrote = 0 /\ q.pc \notin Late
      <4>1. AfterCreate \in {"opened", "write"}
        BY DEF AfterCreate
      <4> QED
        BY <2>3, <4>1, WroteIs DEF Initiates, Early, Late
    <3>4. Row(r, q.rep, 0) = Blank
      BY RowsAre
    <3> QED
      BY <3>1, <3>2, <3>3, <3>4
  <2>4. CASE Puts(r, q)
    <3>1. p.pc = "write" /\ q.UploadId = p.UploadId /\ q.rep = p.rep /\ q.wrote = p.wrote + 1
      BY <2>4 DEF Puts, Goes
    <3>2. Mine(p, r, uploads) /\ p.part_number = p.wrote /\ p.wrote \in Nat
      BY <1>2, <3>1, WroteIs DEF Putting
    <3>3. PartNumber(r, p.part_number) = p.wrote
      BY <3>2 DEF PartNumber
    <3> DEFINE u == p.UploadId
    <3>4. /\ u \in DOMAIN uploads' /\ uploads'[u].name = r
          /\ uploads'[u].parts = [i \in DOMAIN uploads[u].parts \cup {PartNumber(r, p.part_number)} |->
                IF i = PartNumber(r, p.part_number) THEN Cell(r, p.rep, p.wrote) ELSE uploads[u].parts[i]]
      <4>1. u \in DOMAIN uploads /\ uploads[u].name = r
        BY <3>2
      <4> QED
        BY <2>4, <4>1, PutUpload
    <3>5. uploads'[u].parts = Row(r, p.rep, p.wrote + 1)
      <4>1. uploads[u].parts = Row(r, p.rep, p.wrote)
        BY <3>2
      <4>2. uploads'[u].parts =
                [i \in DOMAIN Row(r, p.rep, p.wrote) \cup {p.wrote} |->
                    IF i = p.wrote THEN Cell(r, p.rep, p.wrote) ELSE Row(r, p.rep, p.wrote)[i]]
        BY <3>3, <3>4, <4>1, Zenon
      <4>3. p.wrote \in Nat
        BY <3>2
      <4>4. [i \in DOMAIN Row(r, p.rep, p.wrote) \cup {p.wrote} |->
                    IF i = p.wrote THEN Cell(r, p.rep, p.wrote) ELSE Row(r, p.rep, p.wrote)[i]]
               = Row(r, p.rep, p.wrote + 1)
        BY <4>3, RowGrows, Zenon
      <4> QED
        BY <4>2, <4>4, Zenon
    <3>6. q.pc \notin Late
      <4>1. AfterWrite \in {"written", "close"}
        BY DEF AfterWrite
      <4> QED
        BY <2>4, <4>1 DEF Puts, Late
    <3> QED
      BY <3>1, <3>4, <3>5, <3>6
  <2>5. CASE Completes(r, q)
    <3>1. /\ p.pc = "close" /\ q.pc = "synced" /\ q.rep = p.rep /\ q.wrote = p.wrote
          /\ objects' = [objects EXCEPT ![uploads[p.UploadId].name] = List(r)]
      BY <2>5 DEF Completes, Goes
    <3>2. uploads[p.UploadId].name = r /\ p.etags = Etags(r, p.rep, p.wrote) /\ p.wrote \in Nat
      BY <1>2, <3>1, WroteIs DEF Putting
    <3>3. List(r) = Row(r, p.rep, p.wrote)
      <4> DEFINE e == Etags(r, p.rep, p.wrote)
      <4>1. List(r) = [i \in 0 .. Len(e) - 1 |-> e[i + 1]]
        BY <3>2, Zenon DEF List
      <4>2. p.wrote \in Nat
        BY <3>2
      <4>3. [i \in 0 .. Len(e) - 1 |-> e[i + 1]] = Row(r, p.rep, p.wrote)
        BY <4>2, RowListed, Zenon
      <4> QED
        BY <4>1, <4>3, Zenon
    <3>4. objects'[r] = List(r)
      BY <1>3, <3>1, <3>2
    <3> QED
      BY <3>1, <3>3, <3>4
  <2>6. CASE Ends(r, q)
    BY <2>6 DEF Ends, Late
  <2> QED
    BY <1>4, <2>1, <2>2, <2>3, <2>4, <2>5, <2>6 DEF Anything, Loud
<1>8. ASSUME NEW x \in Members
      PROVE  /\ st'[x].pc \in Open => Mine(st'[x], x, uploads')
             /\ st'[x].pc \in Late => objects'[x] = Row(x, st'[x].rep, st'[x].wrote)
  BY <1>0, <1>2, <1>5, <1>6, <1>7
<1> HIDE DEF p
<1> QED
  BY <1>0, <1>8 DEF OwnParts, Row, Cell, Late

LEMMA GreatestIs ==
    ASSUME NEW S \in SUBSET Int, NEW m \in S, \A x \in S : x <= m
    PROVE  Max(S) = m
<1>1. \A y \in S : (\A x \in S : y >= x) => y = m
  OBVIOUS
<1>2. \A x \in S : m >= x
  OBVIOUS
<1> QED
  BY <1>1, <1>2 DEF Max

LEMMA LeastIs ==
    ASSUME NEW S \in SUBSET Int, NEW m \in S, \A x \in S : m <= x
    PROVE  Min(S) = m
<1>1. \A y \in S : (\A x \in S : y <= x) => y = m
  OBVIOUS
<1>2. \A x \in S : m <= x
  OBVIOUS
<1> QED
  BY <1>1, <1>2 DEF Min

\* A put at or before the end of an object, or just behind it.
LEMMA PutRangeIs ==
    ASSUME NEW obj, NEW n \in Nat, DOMAIN obj = 0 .. n - 1, NEW at \in Nat, NEW cell
    PROVE  LET new == PutRange(obj, at, cell)
               m == IF at >= n THEN at + 1 ELSE n
           IN  /\ DOMAIN new = 0 .. m - 1 /\ new[at] = cell /\ m \in Nat
               /\ \A i \in 0 .. n - 1 : i \in DOMAIN new /\ (i # at => new[i] = obj[i])
<1> DEFINE new == PutRange(obj, at, cell)
           m == IF at >= n THEN at + 1 ELSE n
<1>1. Length(obj) = n
  <2>1. Cardinality(0 .. n - 1) = n
    BY FS_Interval
  <2> QED
    BY <2>1 DEF Length
<1>2. Max({at, n - 1}) = m - 1
  <2>1. CASE at >= n
    BY <2>1, GreatestIs
  <2>2. CASE at < n
    <3>1. {at, n - 1} \in SUBSET Int /\ n - 1 \in {at, n - 1} /\ \A x \in {at, n - 1} : x <= n - 1
      BY <2>2
    <3>2. Max({at, n - 1}) = n - 1
      BY <3>1, GreatestIs
    <3> QED
      BY <2>2, <3>2
  <2> QED
    BY <2>1, <2>2
<1>3. new = [i \in 0 .. m - 1 |-> IF i = at THEN cell ELSE IF i < n THEN obj[i] ELSE Hole]
  BY <1>1, <1>2 DEF PutRange
<1>4. at \in 0 .. m - 1 /\ m \in Nat /\ \A i \in 0 .. n - 1 : i \in 0 .. m - 1 /\ i < n
  OBVIOUS
<1> HIDE DEF m
<1> QED
  BY <1>3, <1>4 DEF m

LEMMA PutBehind ==
    ASSUME NEW r, NEW rep, NEW n \in Nat
    PROVE  PutRange(Row(r, rep, n), n, Cell(r, rep, n)) = Row(r, rep, n + 1)
<1> DEFINE new == PutRange(Row(r, rep, n), n, Cell(r, rep, n))
<1>1. DOMAIN Row(r, rep, n) = 0 .. n - 1 /\ \A k \in 0 .. n - 1 : Row(r, rep, n)[k] = Cell(r, rep, k)
  BY DEF Row
<1>2. DOMAIN new = 0 .. n /\ new[n] = Cell(r, rep, n) /\ \A i \in 0 .. n - 1 : new[i] = Cell(r, rep, i)
  <2>1. /\ DOMAIN new = 0 .. (n + 1) - 1 /\ new[n] = Cell(r, rep, n)
        /\ \A i \in 0 .. n - 1 : i # n => new[i] = Row(r, rep, n)[i]
    BY <1>1, PutRangeIs
  <2> HIDE DEF new
  <2> QED
    BY <1>1, <2>1
<1>3. new = [i \in DOMAIN new |-> new[i]]
  BY DEF PutRange
<1> HIDE DEF new
<1>4. \A i \in 0 .. n : i = n \/ i \in 0 .. n - 1
  OBVIOUS
<1>5. \A i \in 0 .. n : new[i] = Cell(r, rep, i)
  BY <1>2, <1>4
<1>6. new = [i \in 0 .. n |-> Cell(r, rep, i)]
  BY <1>2, <1>3, <1>5
<1>7. Row(r, rep, n + 1) = [i \in 0 .. n |-> Cell(r, rep, i)]
  BY DEF Row
<1>8. new = Row(r, rep, n + 1)
  BY <1>6, <1>7
<1> QED
  BY <1>8 DEF new

LEMMA OwnBytesStep ==
    ASSUME Core, Shape, ~multi_part_upload_p, n_to_n, OwnBytes, NEW r \in Members, NEW q, Anything(r, q)
    PROVE  OwnBytes'
<1> DEFINE p == st[r]
           Open == {"opened", "write", "written", "close"} \cup Late
<1>0. /\ Becomes(r, q) /\ Members' = Members
      /\ \A x \in Members : st'[x] = IF x = r THEN q ELSE st[x]
  BY Others
<1>1. Members \subseteq Nat
  BY TestIs DEF Core
<1>2. \A x \in Members : st[x].pc \in Open => objects[x] = Row(x, st[x].rep, st[x].wrote)
  BY DEF OwnBytes
<1>3. DOMAIN objects = -1 .. N - 1 /\ \A x \in Members : x \in -1 .. N - 1
  BY <1>1, TestIs DEF Shape, Core
<1>4. ~Initiates(r, q) /\ ~Takes(r, q) /\ ~Tallies(r, q) /\ ~Sends(r, q) /\ ~Completes(r, q) /\ p.pc # "closed"
  BY Marks DEF Initiates, Takes, Tallies, Sends, Completes
<1>5. Name(r) = r
  BY DEF Name
<1>6. ASSUME NEW x \in Members, x # r PROVE objects'[x] = objects[x]
  <2>1. CASE UNCHANGED objects
    BY <2>1
  <2>2. CASE Resets(r, q) \/ Puts(r, q)
    BY <1>3, <1>5, <1>6, <2>2 DEF Resets, Puts, PutsPart, PutsBytes
  <2> QED
    BY <1>4, <2>1, <2>2 DEF Anything, Quiet, Loud, Ends
<1>7. q.pc \in Open => objects'[r] = Row(r, q.rep, q.wrote)
  <2>1. CASE Quiet(r, q) /\ Passage(r, q)
    <3>1. q.rep = p.rep /\ q.wrote = p.wrote /\ UNCHANGED objects
      BY <2>1 DEF Quiet
    <3>2. q.pc \in Open => p.pc \in Open
      BY <1>4, <2>1 DEF Passage, Late
    <3> QED
      BY <1>2, <3>1, <3>2
  <2>2. CASE Resets(r, q)
    <3>1. q.wrote = 0 /\ objects' = [objects EXCEPT ![r] = Blank]
      BY <1>5, <2>2, WroteIs DEF Resets, Early
    <3> QED
      BY <1>3, <3>1, RowsAre
  <2>3. CASE Puts(r, q)
    <3> DEFINE old == Row(r, p.rep, p.wrote)
               cell == Cell(r, p.rep, p.wrote)
    <3>1. /\ p.pc = "write" /\ q.rep = p.rep /\ q.wrote = p.wrote + 1 /\ p.wrote \in Nat
          /\ objects' = [objects EXCEPT ![r] = PutRange(@, ByteRange(r, p.wrote, @), cell)]
      BY <1>5, <2>3, WroteIs DEF Puts, Goes, PutsPart, PutsBytes
    <3>2. objects[r] = old /\ DOMAIN old = 0 .. p.wrote - 1 /\ Length(old) = p.wrote
      BY <1>2, <3>1, RowsAre
    <3>3. ByteRange(r, p.wrote, old) = p.wrote
      BY <3>2 DEF ByteRange
    <3>4. objects'[r] = PutRange(old, p.wrote, cell)
      BY <1>3, <3>1, <3>2, <3>3
    <3>5. PutRange(old, p.wrote, cell) = Row(r, p.rep, p.wrote + 1)
      BY <3>1, PutBehind
    <3> QED
      BY <3>1, <3>4, <3>5
  <2>4. CASE Ends(r, q)
    BY <2>4 DEF Ends, Late
  <2> QED
    BY <1>4, <2>1, <2>2, <2>3, <2>4 DEF Anything, Loud
<1>8. ASSUME NEW x \in Members
      PROVE  st'[x].pc \in Open => objects'[x] = Row(x, st'[x].rep, st'[x].wrote)
  BY <1>0, <1>2, <1>6, <1>7
<1> HIDE DEF p
<1> QED
  BY <1>0, <1>8 DEF OwnBytes, Row, Cell, Late

-----------------------------------------------------------------------------
(* Byte ranges of one object                                                *)

LEMMA Offsets ==
    ASSUME test \in Tests, ~n_to_n, NEW r \in Members, NEW k \in 0 .. XfersPerTask - 1
    PROVE  /\ OffsetOf(r, k) \in 0 .. N * XfersPerTask - 1 /\ PartNumber(r, k) = OffsetOf(r, k)
           /\ \A w \in Members : \A m \in 0 .. XfersPerTask - 1 :
                 OffsetOf(r, k) = OffsetOf(w, m) => r = w /\ k = m
<1> DEFINE X == XfersPerTask
           x == test.xfersPerBlock
<1>1. X \in Nat \ {0} /\ N \in Nat \ {0} /\ x \in Nat \ {0} /\ \A w \in Members : w \in 0 .. N - 1
  BY TestIs DEF Members
<1>2. CASE segmented
  <2>1. X = x
    <3>1. x * 1 = x
      BY <1>1
    <3> QED
      BY <1>2, <3>1 DEF segmented, XfersPerTask
  <2>2. \A w \in Members : \A m : OffsetOf(w, m) = w * x + m /\ PartNumber(w, m) = w * x + m
    BY <1>2 DEF OffsetOf, PartNumber
  <2> HIDE DEF X, x
  <2>3. r * x + k \in 0 .. N * x - 1
    BY <1>1, <2>1, InTable DEF X
  <2>4. ASSUME NEW w \in Members, NEW m \in 0 .. X - 1, r * x + k = w * x + m
        PROVE  r = w /\ k = m
    <3>1. r \in Nat /\ w \in Nat /\ k \in 0 .. x - 1 /\ m \in 0 .. x - 1
      BY <1>1, <2>1 DEF X
    <3> QED
      BY <1>1, <2>4, <3>1, RowColumn
  <2> QED
    BY <2>1, <2>2, <2>3, <2>4 DEF X
<1>3. CASE ~segmented
  <2>1. \A w \in Members : \A m : OffsetOf(w, m) = m * N + w /\ PartNumber(w, m) = m * N + w
    BY <1>3 DEF OffsetOf, PartNumber
  <2> HIDE DEF X, x
  <2>2. k * N + r \in 0 .. X * N - 1
    BY <1>1, InTable DEF X
  <2>3. X * N = N * X
    BY <1>1
  <2>4. ASSUME NEW w \in Members, NEW m \in 0 .. X - 1, k * N + r = m * N + w
        PROVE  r = w /\ k = m
    <3>1. r \in 0 .. N - 1 /\ w \in 0 .. N - 1 /\ k \in Nat /\ m \in Nat
      BY <1>1 DEF X
    <3> QED
      BY <1>1, <2>4, <3>1, RowColumn
  <2> QED
    BY <2>1, <2>2, <2>3, <2>4 DEF X
<1> QED
  BY <1>2, <1>3

LEMMA NobodyHasWritten ==
    ASSUME Core, test.intraTestBarriers, NEW q \in Members, st[q].pc = "create", NEW x \in Members
    PROVE  st[x].wrote = 0
<1> SUFFICES ASSUME st[x].wrote # 0 PROVE FALSE
  OBVIOUS
<1>1. st[x].pc \notin Early \cup {"done"} /\ st[x].pc \in Places
  BY WroteIs, Marks
<1>2. st[x].connected
  BY <1>1, Marks DEF Early
<1>3. Entered[st[q].pc] >= Entered[st[x].pc] - Ahead[st[x].pc]
  BY <1>2, Order DEF Core
<1>4. Entered[st[x].pc] - Ahead[st[x].pc] >= 2
  BY <1>1, Marks, EnteredIs, AheadIs, PlacesAre DEF Early
<1>5. Entered[st[q].pc] = 1
  BY EnteredIs
<1>6. Entered[st[x].pc] - Ahead[st[x].pc] \in Int
  BY <1>1, Marks, EnteredIs, AheadIs, PlacesAre DEF Early
<1> QED
  BY <1>3, <1>4, <1>5, <1>6

LEMMA SharedBytesStep ==
    ASSUME Core, Shape, ~multi_part_upload_p, ~n_to_n, test.intraTestBarriers, SharedBytes,
           NEW r \in Members, NEW q, Anything(r, q)
    PROVE  SharedBytes'
<1> DEFINE p == st[r]
           X == XfersPerTask
           Open == {"opened", "write", "written", "close"} \cup After
           Whole(obj) == \E length \in 0 .. N * X : DOMAIN obj = 0 .. length - 1
           Has(obj, x, rep, k) == OffsetOf(x, k) \in DOMAIN obj /\ obj[OffsetOf(x, k)] = Cell(x, rep, k)
           old == objects[-1]
           new == objects'[-1]
<1>0. /\ Becomes(r, q) /\ Members' = Members /\ n_to_n' = n_to_n /\ segmented' = segmented /\ N' = N
      /\ X' = X /\ test' = test /\ test \in Tests
      /\ \A x \in Members : st'[x] = IF x = r THEN q ELSE st[x]
  BY Others DEF Core
<1>1. X \in Nat \ {0} /\ N \in Nat \ {0} /\ N * X \in Nat
  BY <1>0, TestIs
<1>2. \A x \in Members : /\ st[x].wrote \in 0 .. X
                         /\ \A k \in 0 .. st[x].wrote - 1 : Has(old, x, st[x].rep, k) /\ k \in 0 .. X - 1
  <2>1. \A x \in Members : st[x].wrote \in 0 .. X
    BY WroteIs
  <2>2. \A x \in Members : \A k \in 0 .. st[x].wrote - 1 : k \in 0 .. X - 1
    <3> HIDE DEF X
    <3> QED
      BY <1>1, <2>1
  <2> QED
    BY <2>1, <2>2 DEF SharedBytes
<1>3. \A x \in Members : st[x].pc \in Open => Whole(old)
  BY DEF SharedBytes
<1>4. -1 \in DOMAIN objects /\ Name(r) = -1
  BY <1>1 DEF Shape, Name
<1>5. ~Initiates(r, q) /\ ~Takes(r, q) /\ ~Tallies(r, q) /\ ~Sends(r, q) /\ ~Completes(r, q)
  BY Marks DEF Initiates, Takes, Tallies, Sends, Completes
<1> DEFINE Goal == /\ \A x \in Members : \A k \in 0 .. st'[x].wrote - 1 : Has(new, x, st'[x].rep, k)
                   /\ \A x \in Members : st'[x].pc \in Open => Whole(new)
<1> HIDE DEF X
<1>6. Quiet(r, q) /\ Passage(r, q) => Goal
  <2> SUFFICES ASSUME Quiet(r, q) /\ Passage(r, q) PROVE Goal
    OBVIOUS
  <2>1. q.rep = p.rep /\ q.wrote = p.wrote /\ new = old
    BY DEF Quiet
  <2>2. q.pc \in Open => p.pc \in Open
    BY Marks DEF Passage, After, Late
  <2>3. \A x \in Members : st'[x].rep = st[x].rep /\ st'[x].wrote = st[x].wrote
                           /\ (st'[x].pc \in Open => st[x].pc \in Open)
    BY <1>0, <2>1, <2>2
  <2>4. \A x \in Members : st'[x].pc \in Open => Whole(new)
    BY <1>3, <2>1, <2>3
  <2>5. \A x \in Members : \A k \in 0 .. st'[x].wrote - 1 : Has(new, x, st'[x].rep, k)
    BY <1>2, <2>1, <2>3
  <2> QED
    BY <2>4, <2>5
<1>7. Resets(r, q) => Goal
  <2> SUFFICES ASSUME Resets(r, q) PROVE Goal
    OBVIOUS
  <2>1. \A x \in Members : st[x].wrote = 0
    BY NobodyHasWritten DEF Resets
  <2>2. q.wrote = 0 /\ new = Blank
    BY <1>4, <2>1 DEF Resets
  <2>3. \A x \in Members : st'[x].wrote = 0
    BY <1>0, <2>1, <2>2
  <2>4. Whole(new)
    <3>1. DOMAIN new = 0 .. 0 - 1
      BY <2>2 DEF Blank
    <3> QED
      BY <1>1, <3>1
  <2>5. \A x \in Members : \A k \in 0 .. st'[x].wrote - 1 : Has(new, x, st'[x].rep, k)
    <3>1. 0 .. 0 - 1 = {}
      OBVIOUS
    <3> QED
      BY <2>3, <3>1
  <2> QED
    BY <2>4, <2>5
<1>8. Puts(r, q) => Goal
  <2> SUFFICES ASSUME Puts(r, q) PROVE Goal
    OBVIOUS
  <2> DEFINE n == p.wrote
             at == OffsetOf(r, n)
             cell == Cell(r, p.rep, n)
  <2>1. /\ p.pc = "write" /\ q.rep = p.rep /\ q.wrote = n + 1 /\ n \in 0 .. X - 1
        /\ objects' = [objects EXCEPT ![-1] = PutRange(@, ByteRange(r, n, @), cell)]
    <3>1. p.pc = "write" /\ n \in Nat /\ n < X
      BY WroteIs DEF Puts, X
    <3> QED
      BY <1>1, <1>4, <3>1 DEF Puts, Goes, PutsPart, PutsBytes
  <2>2. new = PutRange(old, at, cell)
    BY <1>4, <2>1 DEF ByteRange
  <2>3. PICK length \in 0 .. N * X : DOMAIN old = 0 .. length - 1
    BY <1>3, <2>1
  <2>4. at \in 0 .. N * X - 1
    BY <1>0, <2>1, Offsets DEF X
  <2> HIDE DEF at, cell
  <2>5. /\ DOMAIN new = 0 .. (IF at >= length THEN at + 1 ELSE length) - 1 /\ new[at] = cell
        /\ \A i \in 0 .. length - 1 : i \in DOMAIN new /\ (i # at => new[i] = old[i])
        /\ at \in DOMAIN new
    <3>1. length \in Nat /\ at \in Nat
      BY <1>1, <2>3, <2>4
    <3>2. /\ DOMAIN new = 0 .. (IF at >= length THEN at + 1 ELSE length) - 1 /\ new[at] = cell
          /\ \A i \in 0 .. length - 1 : i \in DOMAIN new /\ (i # at => new[i] = old[i])
      BY <2>2, <2>3, <3>1, PutRangeIs
    <3>3. at \in 0 .. (IF at >= length THEN at + 1 ELSE length) - 1
      BY <3>1
    <3> QED
      BY <3>2, <3>3
  <2>6. Whole(new)
    <3>1. (IF at >= length THEN at + 1 ELSE length) \in 0 .. N * X
      BY <1>1, <2>3, <2>4
    <3> QED
      BY <2>5, <3>1
  <2>7. ASSUME NEW x \in Members, NEW k \in 0 .. st[x].wrote - 1 PROVE Has(new, x, st[x].rep, k)
    <3>1. k \in 0 .. X - 1 /\ OffsetOf(x, k) \in 0 .. length - 1 /\ old[OffsetOf(x, k)] = Cell(x, st[x].rep, k)
      BY <1>2, <2>3
    <3>2. OffsetOf(x, k) # at
      <4>1. ~(x = r /\ k = n)
        BY <2>1
      <4> QED
        BY <1>0, <2>1, <3>1, <4>1, Offsets DEF X, at
    <3> QED
      BY <2>5, <3>1, <3>2
  <2>8. Has(new, r, p.rep, n)
    BY <2>5 DEF at, cell
  <2>9. ASSUME NEW x \in Members, NEW k \in 0 .. st'[x].wrote - 1 PROVE Has(new, x, st'[x].rep, k)
    <3>1. st'[x].rep = st[x].rep
      BY <1>0, <2>1
    <3>2. k \in 0 .. st[x].wrote - 1 \/ (x = r /\ k = n)
      BY <1>0, <1>2, <2>1
    <3> QED
      BY <2>7, <2>8, <3>1, <3>2
  <2> QED
    BY <2>6, <2>9
<1>9. Ends(r, q) => Goal
  <2> SUFFICES ASSUME Ends(r, q) PROVE Goal
    OBVIOUS
  <2>1. q.wrote = 0 /\ q.pc \notin Open /\ new = old
    BY DEF Ends, After, Late
  <2>2. \A x \in Members : st'[x].pc \in Open => Whole(new)
    BY <1>0, <1>3, <2>1
  <2>3. \A x \in Members : \A k \in 0 .. st'[x].wrote - 1 : Has(new, x, st'[x].rep, k)
    <3>1. 0 .. 0 - 1 = {}
      OBVIOUS
    <3> QED
      BY <1>0, <1>2, <2>1, <3>1
  <2> QED
    BY <2>2, <2>3
<1> HIDE DEF Goal
<1>10. Goal
  BY <1>5, <1>6, <1>7, <1>8, <1>9 DEF Anything, Loud
<1>11. \A x, k : OffsetOf(x, k)' = OffsetOf(x, k)
  BY <1>0 DEF OffsetOf
<1> HIDE DEF old, new
<1> USE DEF Goal
<1>12. \A x \in Members : \A k \in 0 .. st'[x].wrote - 1 :
          OffsetOf(x, k)' \in DOMAIN objects'[-1] /\ objects'[-1][OffsetOf(x, k)'] = Cell(x, st'[x].rep, k)
  BY <1>10, <1>11 DEF new
<1>13. \A x \in Members : st'[x].pc \in Open =>
          \E length \in 0 .. N' * XfersPerTask' : DOMAIN objects'[-1] = 0 .. length - 1
  BY <1>0, <1>10 DEF new, X
<1> QED
  BY <1>0, <1>12, <1>13 DEF SharedBytes, Cell, After, Late

-----------------------------------------------------------------------------
(* The upload of all tasks: who can be where                                *)

Shared == Core /\ multi_part_upload_p /\ ~n_to_n

LEMMA SharedMarks ==
    ASSUME Shared
    PROVE  /\ Id = 1 /\ Meet = 1 /\ Bar \in 0 .. 1 /\ Loose = 1 - Bar
           /\ Bar = 1 <=> test.intraTestBarriers
           /\ 0 \in Members /\ test \in Tests
           /\ \A x \in Members :
                 /\ st[x].pc \in Places /\ st[x].rep \in Nat
                 /\ st[x].pc \in {"opened", "written"} => test.intraTestBarriers
                 /\ st[x].pc \notin {"ready", "bucket", "connect"} => st[x].connected
                 /\ ~st[x].connected => st[x].rep = 0
  BY Marks, CallsAre, TestIs DEF Shared, Core, Legal

LEMMA RootOpens ==
    ASSUME Shared, NEW r \in Members, st[r].pc = "bcast", st[0].calls >= st[r].calls
    PROVE  st[0].rep = st[r].rep /\ st[0].pc \in RootPuts
<1>1. st[0].rep = st[r].rep /\ Entered[st[0].pc] >= 2
  <2>1. st[r].connected
    BY SharedMarks
  <2> QED
    BY <2>1, SharedMarks, Met, EnteredIs DEF Shared, Core
<1>2. st[0].pc \notin {"create", "initiate", "ready", "bucket", "connect", "done"}
  BY <1>1, EnteredIs
<1>3. st[0].connected
  BY <1>2, SharedMarks
<1>4. 2 >= Entered[st[0].pc] - Ahead[st[0].pc]
  BY <1>1, <1>3, SharedMarks, Order, EnteredIs DEF Shared, Core
<1>5. st[0].pc \notin After
  BY <1>4, SharedMarks, EnteredIs, AheadIs DEF After, Late
<1> QED
  BY <1>1, <1>2, <1>5, SharedMarks, PlacesAre DEF RootPuts, Takers, After, Late

LEMMA NotFarBehind ==
    ASSUME Shared, NEW r \in Members, st[r].pc \in {"gather"} \cup After, NEW x \in Members
    PROVE  st[x].pc \notin {"create", "initiate", "close"}
<1> SUFFICES ASSUME st[x].pc \in {"create", "initiate", "close"} PROVE FALSE
  OBVIOUS
<1>1. st[r].connected
  BY SharedMarks DEF After, Late
<1>2. Entered[st[x].pc] >= Entered[st[r].pc] - Ahead[st[r].pc]
  BY <1>1, SharedMarks, Order DEF Shared, Core
<1>3. Entered[st[r].pc] - Ahead[st[r].pc] >= 3 + 2 * Bar /\ Entered[st[r].pc] - Ahead[st[r].pc] \in Int
  BY SharedMarks, EnteredIs, AheadIs DEF After, Late
<1>4. Entered[st[x].pc] <= 2 + 2 * Bar /\ Entered[st[x].pc] \in Int
  BY SharedMarks, EnteredIs
<1> QED
  BY <1>2, <1>3, <1>4, SharedMarks

LEMMA RootHasClosed ==
    ASSUME Shared, NEW r \in Members, st[r].pc = "closed", Leaves(r)
    PROVE  st[0].pc \in After
<1>1. st[r].connected
  BY SharedMarks
<1>2. Entered[st[0].pc] >= 4 + 2 * Bar
  BY <1>1, SharedMarks, Met, EnteredIs DEF Shared, Core, Leaves
<1> QED
  BY <1>2, SharedMarks, EnteredIs, PlacesAre DEF After, Late

\* Nobody begins the next repetition while rank 0 is in this one.
LEMMA NotAhead ==
    ASSUME Shared, NEW w \in Members, st[w].pc = "ready", Leaves(w)
    PROVE  st[0].pc \notin After
<1> SUFFICES ASSUME st[0].pc \in After PROVE FALSE
  OBVIOUS
<1>1. st[0].connected /\ 0 \in Members
  BY SharedMarks DEF After, Late
<1>2. Entered[st[0].pc] - Ahead[st[0].pc] >= 3 /\ Entered[st[0].pc] - Ahead[st[0].pc] \in Int
  BY SharedMarks, EnteredIs, AheadIs DEF After, Late
<1>3. st[w].rep = st[0].rep + 1
  BY <1>1, <1>2, Order, EnteredIs DEF Shared, Core
<1>4. st[w].connected
  BY <1>3, SharedMarks
<1>5. st[0].rep = st[w].rep
  BY <1>1, <1>4, Met DEF Shared, Core, Leaves
<1> QED
  BY <1>3, <1>5, SharedMarks

LEMMA RootStep ==
    ASSUME Shared, SharedParts, NEW q, Anything(0, q)
    PROVE  /\ st[0].pc \in RootPuts =>
                 \/ q.pc \in RootPuts /\ q.rep = st[0].rep /\ q.UploadId = st[0].UploadId
                 \/ Completes(0, q)
           /\ st[0].pc \notin RootPuts => q.pc \notin RootPuts \/ Initiates(0, q)
           /\ q.pc \in After => st[0].pc \in After \/ Completes(0, q)
<1> DEFINE p == st[0]
<1>1. multi_part_upload_p /\ ~n_to_n /\ AfterCreate \in {"opened", "write"} /\ AfterWrite \in {"written", "close"}
  BY DEF Shared, AfterCreate, AfterWrite
<1>2. CASE Quiet(0, q) /\ Passage(0, q)
  <2>1. q.rep = p.rep /\ q.UploadId = p.UploadId
    BY <1>2 DEF Quiet
  <2> QED
    BY <1>1, <1>2, <2>1 DEF Passage, RootPuts, Takers, After, Late
<1>3. CASE Resets(0, q)
  BY <1>1, <1>3 DEF Resets, RootPuts, Takers, After, Late
<1>4. CASE Initiates(0, q)
  BY <1>1, <1>4 DEF Initiates, RootPuts, Takers, After, Late
<1>5. CASE Takes(0, q)
  BY <1>1, <1>5 DEF Takes, Goes, RootPuts, Takers, After, Late
<1>6. CASE Puts(0, q)
  BY <1>1, <1>6 DEF Puts, Goes, RootPuts, Takers, After, Late
<1>7. CASE Completes(0, q)
  BY <1>1, <1>7 DEF Completes, RootPuts, Takers
<1>8. CASE Tallies(0, q)
  BY <1>1, <1>8 DEF Tallies, Goes, RootPuts, Takers, After, Late
<1>9. CASE Sends(0, q)
  BY <1>1, <1>9 DEF Sends, Goes, RootPuts, Takers, After, Late
<1>10. CASE Ends(0, q)
  BY <1>1, <1>10 DEF Ends, RootPuts, Takers, After, Late
<1> QED
  BY <1>2, <1>3, <1>4, <1>5, <1>6, <1>7, <1>8, <1>9, <1>10 DEF Anything, Loud

\* Only rank 0 asks for the upload and completes it, once all have sent.
LEMMA OnlyRoot ==
    ASSUME Shared, SharedParts, NEW r \in Members, NEW q
    PROVE  /\ Resets(r, q) \/ Initiates(r, q) \/ Completes(r, q) => r = 0
           /\ Completes(r, q) => \A x \in Members :
                 /\ gathered[x] = Etags(x, st[0].rep, st[0].wrote) /\ st[x].wrote = st[0].wrote
                 /\ st[x].pc \in {"gather", "closed"} /\ st[x].rep = st[0].rep
<1>1. Resets(r, q) => r = 0
  BY DEF Resets, Shared
<1>2. Initiates(r, q) => r = 0
  BY DEF Initiates, SharedParts, UploadIsShared
<1>3. Completes(r, q) => r = 0
  BY DEF Completes, SharedParts, Gathering, Shared
<1>4. ASSUME Completes(r, q), NEW x \in Members
      PROVE  /\ gathered[x] = Etags(x, st[0].rep, st[0].wrote) /\ st[x].wrote = st[0].wrote
             /\ st[x].pc \in {"gather", "closed"} /\ st[x].rep = st[0].rep
  <2>1. \A y \in Members : gathered[y] # << >>
    BY <1>4, TestIs DEF Completes, Shared, Core
  <2>2. \A y \in Members :
           /\ st[y].pc \in {"gather", "closed"} /\ st[y].rep = st[0].rep
           /\ gathered[y] = Etags(y, st[0].rep, st[y].wrote)
           /\ \A z \in Members : st[z].tallied <= st[y].tallied
    BY <2>1 DEF SharedParts, Gathering
  <2>3. \A y \in Members : st[y].tallied = st[y].wrote /\ st[y].wrote \in Nat
    BY <2>2, WroteIs DEF Shared
  <2>4. st[x].wrote = st[0].wrote
    <3>1. 0 \in Members
      BY SharedMarks
    <3>2. st[x].tallied <= st[0].tallied /\ st[0].tallied <= st[x].tallied
      BY <2>2, <3>1
    <3> QED
      BY <2>3, <3>1, <3>2
  <2> QED
    BY <2>2, <2>4
<1> QED
  BY <1>1, <1>2, <1>3, <1>4

LEMMA UploadIsSharedStep ==
    ASSUME Shared, SharedParts, NEW r \in Members, NEW q, Anything(r, q)
    PROVE  UploadIsShared'
<1> DEFINE p == st[r]
<1>0. /\ Members' = Members /\ 0 \in Members
      /\ \A x \in Members : st'[x] = IF x = r THEN q ELSE st[x]
  BY Others, SharedMarks DEF Shared
<1>1. \A x \in Members :
         /\ st[x].pc = "initiate" => x = 0
         /\ st[x].pc \in Takers =>
               st[0].pc \in RootPuts /\ st[x].rep = st[0].rep /\ st[x].UploadId = st[0].UploadId
  BY DEF SharedParts, UploadIsShared
<1>2. multi_part_upload_p /\ ~n_to_n /\ AfterCreate \in {"opened", "write"} /\ AfterWrite \in {"written", "close"}
  BY DEF Shared, AfterCreate, AfterWrite
<1>3. q.pc = "initiate" => r = 0
  <2>1. CASE Quiet(r, q) /\ Passage(r, q)
    BY <2>1 DEF Passage
  <2>2. CASE Loud(r, q) \/ Ends(r, q)
    BY <1>2, <2>2, OnlyRoot DEF Loud, Initiates, Takes, Puts, Completes, Tallies, Sends, Ends
  <2> QED
    BY <2>1, <2>2 DEF Anything
<1>4. CASE r # 0
  <2>1. st'[0] = st[0]
    BY <1>0, <1>4
  <2>2. q.pc \in Takers => st[0].pc \in RootPuts /\ q.rep = st[0].rep /\ q.UploadId = st[0].UploadId
    <3>1. CASE Quiet(r, q) /\ Passage(r, q)
      <4>1. q.rep = p.rep /\ q.UploadId = p.UploadId
        BY <3>1 DEF Quiet
      <4>2. q.pc \in Takers => p.pc \in Takers
        BY <1>2, <3>1 DEF Passage, Takers
      <4> QED
        BY <1>1, <4>1, <4>2
    <3>2. CASE Takes(r, q)
      <4>1. st[0].rep = st[r].rep /\ st[0].pc \in RootPuts
        BY <3>2, RootOpens DEF Takes
      <4> QED
        BY <3>2, <4>1 DEF Takes, Goes
    <3>3. CASE Puts(r, q) \/ Tallies(r, q)
      <4>1. p.pc \in Takers /\ q.rep = p.rep /\ q.UploadId = p.UploadId
        BY <3>3 DEF Puts, Tallies, Goes, Takers
      <4> QED
        BY <1>1, <4>1
    <3>4. CASE Sends(r, q)
      BY <1>4, <3>4 DEF Sends, Takers
    <3>5. CASE Ends(r, q)
      BY <3>5 DEF Ends, Takers
    <3>6. ~Resets(r, q) /\ ~Initiates(r, q) /\ ~Completes(r, q)
      BY <1>4, OnlyRoot
    <3> QED
      BY <3>1, <3>2, <3>3, <3>4, <3>5, <3>6 DEF Anything, Loud
  <2>3. \A x \in Members : st'[x].pc \in Takers =>
           st'[0].pc \in RootPuts /\ st'[x].rep = st'[0].rep /\ st'[x].UploadId = st'[0].UploadId
    BY <1>0, <1>1, <2>1, <2>2
  <2> QED
    BY <1>0, <1>1, <1>3, <2>3 DEF UploadIsShared, Takers, RootPuts
<1>5. CASE r = 0
  <2>1. st'[0] = q /\ p = st[0]
    BY <1>0, <1>5
  <2>2. CASE Completes(0, q)
    <3>1. \A x \in Members : st[x].pc \notin Takers
      BY <1>0, <2>2, OnlyRoot DEF Takers
    <3>2. q.pc \notin Takers
      BY <1>2, <2>2 DEF Completes, Takers
    <3> QED
      BY <1>0, <1>1, <1>3, <3>1, <3>2 DEF UploadIsShared, Takers
  <2>3. CASE st[0].pc \in RootPuts /\ ~Completes(0, q)
    <3>1. q.pc \in RootPuts /\ q.rep = st[0].rep /\ q.UploadId = st[0].UploadId
      BY <1>5, <2>3, RootStep
    <3>2. \A x \in Members : st'[x].pc \in Takers =>
             st'[0].pc \in RootPuts /\ st'[x].rep = st'[0].rep /\ st'[x].UploadId = st'[0].UploadId
      BY <1>0, <1>1, <2>1, <3>1
    <3> QED
      BY <1>0, <1>1, <1>3, <3>2 DEF UploadIsShared, Takers, RootPuts
  <2>4. CASE st[0].pc \notin RootPuts
    <3>1. \A x \in Members : st[x].pc \notin Takers
      BY <1>1, <2>4
    <3>2. q.pc \notin Takers
      <4>1. CASE q.pc \notin RootPuts
        BY <4>1 DEF RootPuts
      <4>2. CASE Initiates(0, q)
        BY <1>2, <4>2 DEF Initiates, Takers
      <4> QED
        BY <1>5, <2>4, <4>1, <4>2, RootStep
    <3> QED
      BY <1>0, <1>1, <1>3, <3>1, <3>2 DEF UploadIsShared, Takers
  <2> QED
    BY <2>2, <2>3, <2>4
<1> QED
  BY <1>4, <1>5

\* No part has been put when the upload begins.
LEMMA NothingYet ==
    ASSUME Shared, SharedParts, st[0].pc \in {"create", "initiate"}, NEW x \in Members
    PROVE  st[x].wrote = 0
<1>1. st[x].pc \notin Takers
  BY DEF SharedParts, UploadIsShared, RootPuts, Takers
<1>2. st[x].pc \notin {"gather"} \cup After
  BY NotFarBehind, SharedMarks
<1>3. st[x].pc \in Early \cup {"done"}
  BY <1>1, <1>2, SharedMarks, PlacesAre DEF Early, After, Late, Takers
<1> QED
  BY <1>3, WroteIs DEF Shared

LEMMA PartsAreCellsStep ==
    ASSUME Shared, Shape, SharedParts, NEW r \in Members, NEW q, Anything(r, q)
    PROVE  PartsAreCells'
<1> DEFINE p == st[r]
           X == XfersPerTask
           u == st'[0].UploadId
           rep == st'[0].rep
           From(v, parts) == \A j \in DOMAIN parts : \E w \in Members, m \in 0 .. X - 1 :
                                j = PartNumber(w, m) /\ parts[j] = Cell(w, v, m)
           Has(v, parts, x, k) == PartNumber(x, k) \in DOMAIN parts /\ parts[PartNumber(x, k)] = Cell(x, v, k)
           Goal == /\ u \in DOMAIN uploads' /\ uploads'[u].name = -1
                   /\ From(rep, uploads'[u].parts)
                   /\ \A x \in Members : \A k \in 0 .. st'[x].wrote - 1 : Has(rep, uploads'[u].parts, x, k)
<1>0. /\ Members' = Members /\ 0 \in Members /\ X' = X /\ n_to_n' = n_to_n /\ segmented' = segmented
      /\ N' = N /\ test' = test /\ multi_part_upload_p /\ ~n_to_n /\ test \in Tests
      /\ \A x \in Members : st'[x] = IF x = r THEN q ELSE st[x]
  BY Others, SharedMarks DEF Shared
<1>1. st'[0].pc \in RootPuts => Goal
  <2> SUFFICES ASSUME st'[0].pc \in RootPuts PROVE Goal
    OBVIOUS
  <2>1. CASE st[0].pc \notin RootPuts
    <3>1. r = 0 /\ Initiates(0, q)
      BY <1>0, <2>1, RootStep
    <3>2. /\ u = Len(uploads') /\ Len(uploads') = Len(uploads) + 1 /\ Len(uploads) \in Nat
          /\ DOMAIN uploads' = 1 .. Len(uploads) + 1
          /\ uploads'[Len(uploads) + 1] = [name |-> Name(0), parts |-> Blank, done |-> FALSE]
      BY <1>0, <3>1, OneMoreUpload DEF Initiates, Shape
    <3>3. u \in DOMAIN uploads' /\ uploads'[u] = [name |-> Name(0), parts |-> Blank, done |-> FALSE]
      <4>1. Len(uploads) + 1 \in 1 .. Len(uploads) + 1
        BY <3>2
      <4> QED
        BY <3>2, <4>1
    <3>4. uploads'[u].name = -1 /\ DOMAIN uploads'[u].parts = {}
      BY <1>0, <3>3 DEF Name, Blank
    <3>5. \A x \in Members : st'[x].wrote = 0
      <4>1. \A x \in Members : st[x].wrote = 0
        BY <3>1, NothingYet DEF Initiates
      <4> QED
        BY <1>0, <3>1, <4>1 DEF Initiates
    <3>6. 0 .. 0 - 1 = {}
      OBVIOUS
    <3>7. \A x \in Members : \A k \in 0 .. st'[x].wrote - 1 : FALSE
      BY <3>5, <3>6
    <3> HIDE DEF u
    <3> QED
      BY <3>3, <3>4, <3>7
  <2>2. CASE st[0].pc \in RootPuts
    <3> DEFINE parts == uploads[u].parts
    <3>1. rep = st[0].rep /\ u = st[0].UploadId /\ ~Completes(r, q)
      <4>1. ~Completes(0, q) \/ r # 0
        BY <1>0 DEF Completes, RootPuts, Takers
      <4>2. ~Completes(r, q)
        BY <4>1, OnlyRoot
      <4> QED
        BY <1>0, <2>2, <4>2, RootStep
    <3>2. /\ u \in DOMAIN uploads /\ uploads[u].name = -1 /\ From(rep, parts)
          /\ \A x \in Members : \A k \in 0 .. st[x].wrote - 1 : Has(rep, parts, x, k)
      BY <2>2, <3>1 DEF SharedParts, PartsAreCells, Upload
    <3> HIDE DEF u, rep
    <3>3. CASE Puts(r, q)
      <4> DEFINE n == p.wrote
                 j == PartNumber(r, n)
                 cell == Cell(r, rep, n)
                 new == uploads'[u].parts
      <4>1. /\ p.pc = "write" /\ q.wrote = n + 1 /\ p.rep = rep /\ p.UploadId = u
            /\ p.part_number = n /\ n \in 0 .. X - 1
        <5>1. p.pc = "write" /\ q.wrote = n + 1
          BY <3>3 DEF Puts
        <5>2. p.rep = rep /\ p.UploadId = u
          BY <3>1, <5>1 DEF SharedParts, UploadIsShared, Takers
        <5>3. p.part_number = n /\ n \in Nat /\ n < X /\ X \in Nat
          BY <1>0, <5>1, WroteIs DEF Shared, Putting
        <5>4. n \in 0 .. X - 1
          BY <5>3
        <5> QED
          BY <5>1, <5>2, <5>3, <5>4
      <4>2. /\ u \in DOMAIN uploads' /\ uploads'[u].name = -1
            /\ new = [i \in DOMAIN parts \cup {j} |-> IF i = j THEN cell ELSE parts[i]]
        <5>1. /\ DOMAIN uploads' = DOMAIN uploads /\ uploads'[p.UploadId].name = uploads[p.UploadId].name
              /\ uploads'[p.UploadId].parts =
                    [i \in DOMAIN uploads[p.UploadId].parts \cup {PartNumber(r, p.part_number)} |->
                        IF i = PartNumber(r, p.part_number) THEN Cell(r, p.rep, p.wrote)
                        ELSE uploads[p.UploadId].parts[i]]
          BY <1>0, <3>2, <3>3, <4>1, PutUpload
        <5>2. u \in DOMAIN uploads' /\ uploads'[u].name = -1
          BY <3>2, <4>1, <5>1
        <5> QED
          BY <4>1, <5>1, <5>2, Zenon
      <4> HIDE DEF new, parts, j, cell
      <4>3. DOMAIN new = DOMAIN parts \cup {j} /\ new[j] = cell /\ \A i \in DOMAIN parts : i # j => new[i] = parts[i]
        BY <4>2
      <4>4. From(rep, new)
        <5> SUFFICES ASSUME NEW i \in DOMAIN new
                     PROVE  \E w \in Members, m \in 0 .. X - 1 : i = PartNumber(w, m) /\ new[i] = Cell(w, rep, m)
          OBVIOUS
        <5>1. CASE i = j
          BY <4>1, <4>3, <5>1 DEF j, cell
        <5>2. CASE i # j
          BY <3>2, <4>3, <5>2 DEF parts
        <5> QED
          BY <5>1, <5>2
      <4>5. ASSUME NEW x \in Members, NEW k \in 0 .. st'[x].wrote - 1 PROVE Has(rep, new, x, k)
        <5>1. CASE x = r /\ k = n
          BY <4>3, <5>1 DEF j, cell
        <5>2. CASE ~(x = r /\ k = n)
          <6>1. k \in 0 .. st[x].wrote - 1 /\ k \in 0 .. X - 1
            <7>1. st[x].wrote \in 0 .. X /\ X \in Nat
              BY WroteIs DEF Shared
            <7> QED
              BY <1>0, <4>1, <4>5, <5>2, <7>1
          <6>2. Has(rep, parts, x, k)
            BY <3>2, <6>1 DEF parts
          <6>3. PartNumber(x, k) # j
            BY <1>0, <4>1, <5>2, <6>1, Offsets DEF j
          <6> QED
            BY <4>3, <6>2, <6>3
        <5> QED
          BY <5>1, <5>2
      <4> QED
        BY <4>2, <4>4, <4>5 DEF new, u, rep
    <3>4. CASE ~Puts(r, q)
      <4>1. UNCHANGED uploads
        <5>1. ~Initiates(r, q)
          BY <2>2, OnlyRoot DEF Initiates, RootPuts, Takers
        <5> QED
          BY <3>1, <3>4, <5>1 DEF Anything, Quiet, Loud, Resets, Takes, Tallies, Sends, Ends
      <4>2. q.wrote = p.wrote \/ q.wrote = 0
        BY <3>1, <3>4 DEF Anything, Quiet, Loud, Resets, Initiates, Takes, Tallies, Sends, Ends
      <4>3. \A x \in Members : \A k \in 0 .. st'[x].wrote - 1 : k \in 0 .. st[x].wrote - 1
        <5>1. 0 .. 0 - 1 = {}
          OBVIOUS
        <5> QED
          BY <1>0, <4>2, <5>1
      <4>4. \A x \in Members : \A k \in 0 .. st'[x].wrote - 1 : Has(rep, parts, x, k)
        BY <3>2, <4>3
      <4> QED
        BY <3>2, <4>1, <4>4 DEF u, rep
    <3> QED
      BY <3>3, <3>4
  <2> QED
    BY <2>1, <2>2
<1>2. \A x, k : PartNumber(x, k)' = PartNumber(x, k)
  BY <1>0 DEF PartNumber
<1> HIDE DEF X
<1>3. st'[0].pc \in RootPuts =>
        /\ st'[0].UploadId \in DOMAIN uploads' /\ uploads'[st'[0].UploadId].name = -1
        /\ \A j \in DOMAIN uploads'[st'[0].UploadId].parts : \E v \in Members', m \in 0 .. X' - 1 :
              j = PartNumber(v, m)' /\ uploads'[st'[0].UploadId].parts[j] = Cell(v, st'[0].rep, m)
        /\ \A x \in Members' : \A k \in 0 .. st'[x].wrote - 1 :
              /\ PartNumber(x, k)' \in DOMAIN uploads'[st'[0].UploadId].parts
              /\ uploads'[st'[0].UploadId].parts[PartNumber(x, k)'] = Cell(x, st'[0].rep, k)
  BY <1>0, <1>1, <1>2
<1> QED
  BY <1>3 DEF PartsAreCells, Upload, Cell, RootPuts, Takers, X

LEMMA CountsAre ==
    ASSUME Core
    PROVE  Max(EtagCounts) \in EtagCounts /\ \A x \in Members : st[x].tallied <= Max(EtagCounts)
<1> DEFINE X == XfersPerTask
           Left == {X - y : y \in EtagCounts}
<1>1. X \in Nat /\ \A y \in EtagCounts : y \in 0 .. X
  <2>1. \A x \in Members : st[x].tallied \in 0 .. X
    BY DEF Core, Amounts, Amount
  <2> QED
    BY <2>1, TestIs DEF Core, EtagCounts
<1>2. EtagCounts # {}
  BY TestIs DEF Core, EtagCounts
<1> HIDE DEF X
<1>3. Left \in SUBSET Nat /\ Left # {}
  BY <1>1, <1>2
<1>4. PICK l \in Left : \A y \in Left : l <= y
  BY <1>3, Least
<1>5. PICK m \in EtagCounts : l = X - m
  BY <1>4
<1>6. ASSUME NEW y \in EtagCounts PROVE y <= m
  <2>1. X - y \in Left /\ y \in Nat /\ m \in Nat
    BY <1>1
  <2>2. l <= X - y
    BY <1>4, <2>1
  <2> QED
    BY <1>1, <1>5, <2>1, <2>2
<1>7. Max(EtagCounts) = m
  <2>1. EtagCounts \in SUBSET Int
    BY <1>1
  <2> QED
    BY <1>5, <1>6, <2>1, GreatestIs
<1> QED
  BY <1>5, <1>6, <1>7 DEF EtagCounts

LEMMA GatheringStep ==
    ASSUME Shared, Shape, SharedParts, NEW r \in Members, NEW q, Anything(r, q)
    PROVE  Gathering'
<1> DEFINE p == st[r]
           Sent(x, t, e, zero) == /\ zero.pc \in RootPuts /\ t.rep = zero.rep /\ t.pc \in {"gather", "closed"}
                                  /\ e = Etags(x, zero.rep, t.wrote)
<1>0. /\ Members' = Members /\ 0 \in Members /\ Members \subseteq World
      /\ \A x \in Members : st'[x] = IF x = r THEN q ELSE st[x]
  BY Others, SharedMarks, TestIs DEF Shared
<1>1. /\ \A x \in Members : st[x].pc = "gather" => x = 0
      /\ \A x \in Members : gathered[x] # << >> =>
            Sent(x, st[x], gathered[x], st[0]) /\ \A y \in Members : st[y].tallied <= st[x].tallied
  BY DEF SharedParts, Gathering
<1>2. multi_part_upload_p /\ ~n_to_n /\ AfterCreate \in {"opened", "write"} /\ AfterWrite \in {"written", "close"}
  BY DEF Shared, AfterCreate, AfterWrite
<1>3. q.pc = "gather" => r = 0
  BY <1>2 DEF Anything, Quiet, Passage, Loud, Ends, Resets, Initiates, Takes, Puts, Completes, Tallies, Sends
<1>4. CASE Completes(r, q)
  <2>1. \A x \in Members : gathered'[x] = << >>
    BY <1>0, <1>2, <1>4 DEF Completes
  <2> QED
    BY <1>0, <1>1, <1>3, <2>1 DEF Gathering
<1>5. CASE ~Completes(r, q)
  <2>1. ASSUME NEW x \in Members, gathered[x] # << >>, gathered'[x] = gathered[x]
        PROVE  /\ Sent(x, st'[x], gathered'[x], st'[0])
               /\ \A y \in Members : st'[y].tallied <= st'[x].tallied
    <3>1. Sent(x, st[x], gathered[x], st[0]) /\ \A y \in Members : st[y].tallied <= st[x].tallied
      BY <1>1, <2>1
    <3>2. x # r
      <4> SUFFICES ASSUME x = r PROVE FALSE
        OBVIOUS
      <4>1. CASE p.pc = "closed"
        <5>1. Leaves(r)
          BY <1>5, <4>1 DEF Anything, Quiet, Passage, Loud, Ends, Resets, Initiates, Takes, Puts, Tallies, Sends
        <5>2. st[0].pc \in After
          BY <4>1, <5>1, RootHasClosed
        <5> QED
          BY <3>1, <5>2 DEF After, Late, RootPuts, Takers
      <4>2. CASE p.pc = "gather"
        BY <1>2, <1>5, <4>2 DEF Anything, Quiet, Passage, Loud, Ends, Resets, Initiates, Takes, Puts, Tallies, Sends
      <4> QED
        BY <3>1, <4>1, <4>2
    <3>3. q.tallied = p.tallied
      <4>1. ~Tallies(r, q)
        <5> SUFFICES ASSUME Tallies(r, q) PROVE FALSE
          OBVIOUS
        <5>1. p.pc = "close"
          BY DEF Tallies
        <5>2. st[x].pc \in {"gather"} \cup After
          BY <3>1 DEF After
        <5> QED
          BY <5>1, <5>2, NotFarBehind
      <4> QED
        BY <1>5, <4>1 DEF Anything, Quiet, Loud, Ends, Resets, Initiates, Takes, Puts, Sends, SameUpload
    <3>4. st'[0].pc \in RootPuts /\ st'[0].rep = st[0].rep
      <4>1. CASE r # 0
        BY <1>0, <3>1, <4>1
      <4>2. CASE r = 0
        <5>1. q.pc \in RootPuts /\ q.rep = st[0].rep
          BY <1>5, <3>1, <4>2, RootStep
        <5> QED
          BY <1>0, <4>2, <5>1
      <4> QED
        BY <4>1, <4>2
    <3>5. \A y \in Members : st'[y].tallied = st[y].tallied
      BY <1>0, <3>3
    <3>6. st'[x] = st[x]
      BY <1>0, <3>2
    <3> QED
      BY <2>1, <3>1, <3>4, <3>5, <3>6
  <2>2. CASE Sends(r, q)
    <3>1. p.pc = "tally" /\ gathered' = [gathered EXCEPT ![r] = p.etags] /\ p.tallied = Max(EtagCounts)
          /\ q.wrote = p.wrote /\ q.rep = p.rep /\ q.tallied = p.tallied
          /\ q.pc = IF r = 0 THEN "gather" ELSE "closed"
      BY <2>2 DEF Sends, Goes
    <3>2. st[0].pc \in RootPuts /\ p.rep = st[0].rep
      BY <3>1 DEF SharedParts, UploadIsShared, Takers
    <3>3. p.etags = Etags(r, p.rep, p.wrote)
      BY <1>2, <3>1, WroteIs DEF Shared, Putting
    <3>4. r \in DOMAIN gathered
      BY <1>0 DEF Shape
    <3>5. st'[0].pc \in RootPuts /\ st'[0].rep = st[0].rep
      BY <1>0, <3>1, <3>2 DEF RootPuts, Takers
    <3>6. Sent(r, st'[r], gathered'[r], st'[0])
      BY <1>0, <3>1, <3>2, <3>3, <3>4, <3>5
    <3>7. \A y \in Members : st'[y].tallied <= st'[r].tallied
      <4>1. \A y \in Members : st[y].tallied <= p.tallied
        BY <3>1, CountsAre DEF Shared
      <4> QED
        BY <1>0, <3>1, <4>1
    <3>8. \A x \in Members : x # r => gathered'[x] = gathered[x]
      BY <3>1
    <3>9. \A x \in Members : gathered'[x] # << >> =>
            Sent(x, st'[x], gathered'[x], st'[0]) /\ \A y \in Members : st'[y].tallied <= st'[x].tallied
      BY <2>1, <3>6, <3>7, <3>8
    <3> QED
      BY <1>0, <1>1, <1>3, <3>9 DEF Gathering, Etags, Cell, RootPuts, Takers
  <2>3. CASE ~Sends(r, q)
    <3>1. gathered' = gathered
      BY <1>5, <2>3 DEF Anything, Quiet, Loud, Ends, Resets, Initiates, Takes, Puts, Tallies
    <3>2. \A x \in Members : gathered'[x] # << >> =>
            Sent(x, st'[x], gathered'[x], st'[0]) /\ \A y \in Members : st'[y].tallied <= st'[x].tallied
      BY <2>1, <3>1
    <3> QED
      BY <1>0, <1>1, <1>3, <3>2 DEF Gathering, Etags, Cell, RootPuts, Takers
  <2> QED
    BY <2>2, <2>3
<1> QED
  BY <1>4, <1>5

\* Rank 0's list has every part of every task.
LEMMA Listed ==
    ASSUME test \in Tests, ~n_to_n, NEW perTask, NEW rep, NEW P \in Nat \ {0},
           \A w \in Members : perTask[w] = Etags(w, rep, P)
    PROVE  /\ DOMAIN PartList(perTask, P) = 0 .. N * P - 1
           /\ \A w \in Members : \A k \in 0 .. P - 1 :
                 \E i \in 0 .. N * P - 1 : PartList(perTask, P)[i] = Cell(w, rep, k)
<1>1. N \in Nat \ {0} /\ \A w \in Members : w \in 0 .. N - 1
  BY TestIs DEF Members
<1>2. DOMAIN PartList(perTask, P) = 0 .. N * P - 1
  BY DEF PartList
<1>3. \A w \in Members : \A k \in 0 .. P - 1 : perTask[w][k + 1] = Cell(w, rep, k)
  <2>1. \A k \in 0 .. P - 1 : k + 1 \in 1 .. P /\ (k + 1) - 1 = k
    OBVIOUS
  <2>2. \A w \in Members : \A k \in 0 .. P - 1 : Etags(w, rep, P)[k + 1] = Cell(w, rep, k)
    BY <2>1 DEF Etags
  <2> QED
    BY <2>2
<1>4. ASSUME NEW w \in Members, NEW k \in 0 .. P - 1
      PROVE  \E i \in 0 .. N * P - 1 : PartList(perTask, P)[i] = Cell(w, rep, k)
  <2>1. CASE segmented
    <3> DEFINE i == w * P + k
    <3>1. i \in 0 .. N * P - 1
      BY <1>1, InTable
    <3>2. i \div P = w /\ i % P = k
      <4>1. w \in Nat
        BY <1>1
      <4> QED
        BY <4>1, BackFromTable
    <3> HIDE DEF i
    <3>3. PartList(perTask, P)[i] = perTask[i \div P][(i % P) + 1]
      BY <2>1, <3>1 DEF PartList
    <3> QED
      BY <1>3, <3>1, <3>2, <3>3
  <2>2. CASE ~segmented
    <3> DEFINE i == k * N + w
    <3>1. i \in 0 .. N * P - 1
      <4>1. i \in 0 .. P * N - 1
        BY <1>1, InTable
      <4>2. P * N = N * P
        BY <1>1
      <4> QED
        BY <4>1, <4>2
    <3>2. i \div N = k /\ i % N = w
      BY <1>1, BackFromTable
    <3> HIDE DEF i
    <3>3. PartList(perTask, P)[i] = perTask[i % N][(i \div N) + 1]
      BY <2>2, <3>1 DEF PartList
    <3> QED
      BY <1>3, <3>1, <3>2, <3>3
  <2> QED
    BY <2>1, <2>2
<1> QED
  BY <1>2, <1>4

LEMMA AssembledStep ==
    ASSUME Shared, Shape, SharedParts, NEW r \in Members, NEW q, Anything(r, q)
    PROVE  Assembled'
<1> DEFINE p == st[r]
           Has(obj, w, rep, k) == OffsetOf(w, k) \in DOMAIN obj /\ obj[OffsetOf(w, k)] = Cell(w, rep, k)
           Same(t, zero) == t.wrote = zero.wrote \/ (t.wrote = 0 /\ t.pc \in {"ready", "done"})
           Goal == /\ DOMAIN objects'[-1] = 0 .. N * st'[0].wrote - 1
                   /\ \A w \in Members :
                         /\ Same(st'[w], st'[0])
                         /\ \A k \in 0 .. st'[0].wrote - 1 : Has(objects'[-1], w, st'[0].rep, k)
<1>0. /\ Members' = Members /\ 0 \in Members /\ n_to_n' = n_to_n /\ segmented' = segmented
      /\ N' = N /\ test' = test /\ multi_part_upload_p /\ ~n_to_n /\ test \in Tests
      /\ \A x \in Members : st'[x] = IF x = r THEN q ELSE st[x]
  BY Others, SharedMarks DEF Shared
<1>1. CASE Completes(r, q)
  <2> DEFINE P == st[0].wrote
             rep == st[0].rep
             list == PartList(gathered, P)
             parts == uploads[st[0].UploadId].parts
  <2>1. /\ r = 0 /\ \A x \in Members : gathered[x] = Etags(x, rep, P) /\ st[x].wrote = P
      BY <1>1, OnlyRoot
  <2>2. /\ st[0].pc = "gather" /\ q.wrote = P /\ q.rep = rep
        /\ objects' = [objects EXCEPT ![uploads[st[0].UploadId].name] = List(0)]
    BY <1>0, <1>1, <2>1 DEF Completes, Goes
  <2>3. st[0].etags = Etags(0, rep, P) /\ P \in Nat \ {0} /\ P <= XfersPerTask /\ XfersPerTask \in Nat
    <3>1. st[0].etags = Etags(0, rep, P) /\ P > 0 /\ P \in 0 .. XfersPerTask /\ XfersPerTask \in Nat
      BY <1>0, <2>2, WroteIs DEF Shared, Putting, Early
    <3> QED
      BY <3>1
  <2>4. List(0) = list
    <3>1. Len(Etags(0, rep, P)) = P
      BY <2>3, EtagsGrow
    <3> QED
      BY <1>0, <2>3, <3>1 DEF List
  <2>5. /\ uploads[st[0].UploadId].name = -1
        /\ \A j \in DOMAIN parts : \E v \in Members, m \in 0 .. XfersPerTask - 1 :
              j = PartNumber(v, m) /\ parts[j] = Cell(v, rep, m)
    BY <2>2 DEF SharedParts, PartsAreCells, Upload, RootPuts
  <2>6. objects'[-1] = list
    <3>1. -1 \in DOMAIN objects
      BY <1>0, TestIs DEF Shape
    <3> QED
      BY <2>2, <2>4, <2>5, <3>1
  <2>7. \A i \in DOMAIN list : i \in DOMAIN parts /\ parts[i] = list[i]
    BY <1>1, <2>1, <2>4 DEF Completes, Accepted
  <2> HIDE DEF list, parts, P, rep
  <2>8. /\ DOMAIN list = 0 .. N * P - 1
        /\ \A w \in Members : \A k \in 0 .. P - 1 : \E i \in 0 .. N * P - 1 : list[i] = Cell(w, rep, k)
    <3>1. P \in Nat \ {0} /\ test \in Tests /\ ~n_to_n
      BY <1>0, <2>3
    <3>2. \A w \in Members : gathered[w] = Etags(w, rep, P)
      BY <2>1
    <3> QED
      BY SMTT(30), <3>1, <3>2, Listed DEF list
  <2>9. ASSUME NEW w \in Members, NEW k \in 0 .. P - 1 PROVE Has(list, w, rep, k)
    <3>1. PICK i \in DOMAIN list : list[i] = Cell(w, rep, k)
      BY <2>8
    <3>2. i \in DOMAIN parts /\ parts[i] = Cell(w, rep, k)
      BY <2>7, <3>1
    <3>3. PICK v \in Members, m \in 0 .. XfersPerTask - 1 : i = PartNumber(v, m) /\ parts[i] = Cell(v, rep, m)
      BY <2>5, <3>2
    <3>4. v = w /\ m = k
      BY <3>2, <3>3 DEF Cell
    <3>5. i = OffsetOf(w, k)
      BY <1>0, <3>3, <3>4, Offsets
    <3> QED
      BY <3>1, <3>5
  <2>10. st'[0].wrote = P /\ st'[0].rep = rep
    BY <1>0, <2>1, <2>2
  <2>11. \A w \in Members : st'[w].wrote = P
    BY <1>0, <2>1, <2>2 DEF P
  <2>12. Goal
    BY <2>6, <2>8, <2>9, <2>10, <2>11
  <2>13. \A x, k : OffsetOf(x, k)' = OffsetOf(x, k)
    BY <1>0 DEF OffsetOf
  <2> QED
    BY <1>0, <2>12, <2>13 DEF Assembled, Cell
<1>2. CASE ~Completes(r, q)
  <2> SUFFICES ASSUME st'[0].pc \in After PROVE Goal
    <3>1. st'[0].pc \in After => Goal
      OBVIOUS
    <3>2. \A x, k : OffsetOf(x, k)' = OffsetOf(x, k)
      BY <1>0 DEF OffsetOf
    <3> QED
      BY <1>0, <3>1, <3>2 DEF Assembled, Cell, After, Late
  <2>1. st[0].pc \in After
    <3>1. CASE r = 0
      <4>1. q.pc \in After
        BY <1>0, <3>1
      <4> QED
        BY <1>2, <3>1, <4>1, RootStep
    <3>2. CASE r # 0
      BY <1>0, <3>2
    <3> QED
      BY <3>1, <3>2
  <2>2. /\ DOMAIN objects[-1] = 0 .. N * st[0].wrote - 1
        /\ \A w \in Members :
              /\ Same(st[w], st[0])
              /\ \A k \in 0 .. st[0].wrote - 1 : Has(objects[-1], w, st[0].rep, k)
    BY <2>1 DEF SharedParts, Assembled
  <2>3. ~Puts(r, q)
    <3> SUFFICES ASSUME Puts(r, q) PROVE FALSE
      OBVIOUS
    <3>1. st[0].pc \in RootPuts
      BY DEF Puts, SharedParts, UploadIsShared, Takers
    <3> QED
      BY <2>1, <3>1 DEF RootPuts, Takers, After, Late
  <2>4. ~Resets(r, q)
    <3> SUFFICES ASSUME Resets(r, q) PROVE FALSE
      OBVIOUS
    <3>1. st[0].pc = "create"
      BY OnlyRoot DEF Resets
    <3> QED
      BY <2>1, <3>1 DEF After, Late
  <2>5. objects' = objects
    BY <1>2, <2>3, <2>4 DEF Anything, Quiet, Loud, Ends, Initiates, Takes, Tallies, Sends
  <2>6. st'[0].wrote = st[0].wrote /\ st'[0].rep = st[0].rep
    <3>1. CASE r # 0
      BY <1>0, <3>1
    <3>2. CASE r = 0
      <4>1. q.pc \in After /\ ~Ends(r, q)
        BY <1>0, <3>2 DEF Ends, After, Late
      <4> QED
        BY <1>0, <1>2, <2>3, <3>2, <4>1
          DEF Anything, Quiet, Loud, Resets, Initiates, Takes, Tallies, Sends, Goes
    <3> QED
      BY <3>1, <3>2
  <2>7. Same(q, st[0]) \/ r = 0
    <3>1. CASE Ends(r, q)
      BY <3>1 DEF Ends
    <3>2. CASE ~Ends(r, q)
      <4>1. q.wrote = p.wrote
        BY <1>2, <2>3, <3>2 DEF Anything, Quiet, Loud, Resets, Initiates, Takes, Tallies, Sends
      <4>2. p.pc \notin {"ready", "done"}
        <5>1. p.pc # "ready"
          <6> SUFFICES ASSUME p.pc = "ready" PROVE FALSE
            OBVIOUS
          <6>1. Leaves(r)
            BY <3>2 DEF Anything, Quiet, Passage, Loud, Resets, Initiates, Takes, Puts, Completes, Tallies, Sends
          <6> QED
            BY <2>1, <6>1, NotAhead
        <5>2. p.pc # "done"
          BY <3>2 DEF Anything, Quiet, Passage, Loud, Resets, Initiates, Takes, Puts, Completes, Tallies, Sends
        <5> QED
          BY <5>1, <5>2
      <4> QED
        BY <2>2, <4>1, <4>2
    <3> QED
      BY <3>1, <3>2
  <2>8. \A w \in Members : Same(st'[w], st'[0])
    BY <1>0, <2>2, <2>6, <2>7
  <2> QED
    BY <2>2, <2>5, <2>6, <2>8
<1> QED
  BY <1>1, <1>2
-----------------------------------------------------------------------------
(* What is stored                                                           *)

Guarded == (~multi_part_upload_p /\ ~n_to_n) => test.intraTestBarriers

LEMMA UploadIsKnown ==
    ASSUME Core, Stored, multi_part_upload_p, NEW r \in Members, NEW q,
           Puts(r, q) \/ Completes(r, q)
    PROVE  st[r].UploadId \in DOMAIN uploads
<1>1. CASE n_to_n
  <2>1. st[r].pc \in {"write", "close"}
    BY <1>1 DEF Puts, Completes
  <2> QED
    BY <1>1, <2>1 DEF Stored, OwnParts
<1>2. CASE ~n_to_n
  <2>1. Shared /\ SharedParts
    BY <1>2 DEF Shared, Stored
  <2>2. st[r].pc = "write" \/ (st[r].pc = "gather" /\ r = 0)
    BY <1>2, <2>1, OnlyRoot DEF Puts, Completes
  <2>3. st[0].pc \in RootPuts /\ st[r].UploadId = st[0].UploadId
    BY <2>1, <2>2 DEF SharedParts, UploadIsShared, Takers, RootPuts
  <2> QED
    BY <2>1, <2>3 DEF SharedParts, PartsAreCells
<1> QED
  BY <1>1, <1>2 DEF Core

LEMMA StoredStep ==
    ASSUME Core, Stored, Guarded, NEW r \in Members, NEW q, Anything(r, q)
    PROVE  Stored'
<1>1. Shape
  BY DEF Stored
<1>2. (multi_part_upload_p /\ Puts(r, q)) \/ Completes(r, q) => st[r].UploadId \in DOMAIN uploads
  BY UploadIsKnown DEF Completes
<1>3. Shape'
  BY <1>1, <1>2, ShapeStep
<1>4. multi_part_upload_p' = multi_part_upload_p /\ n_to_n' = n_to_n
  BY Others
<1>5. CASE multi_part_upload_p /\ n_to_n
  <2>1. OwnParts'
    BY <1>1, <1>5, OwnPartsStep DEF Stored
  <2> QED
    BY <1>3, <1>4, <1>5, <2>1 DEF Stored
<1>6. CASE multi_part_upload_p /\ ~n_to_n
  <2>1. Shared /\ SharedParts
    BY <1>6 DEF Shared, Stored
  <2>2. UploadIsShared' /\ PartsAreCells'
    BY <1>1, <2>1, UploadIsSharedStep, PartsAreCellsStep
  <2>3. Gathering' /\ Assembled'
    BY <1>1, <2>1, GatheringStep, AssembledStep
  <2> QED
    BY <1>3, <1>4, <1>6, <2>2, <2>3 DEF Stored, SharedParts
<1>7. CASE ~multi_part_upload_p /\ n_to_n
  <2>1. OwnBytes'
    BY <1>1, <1>7, OwnBytesStep DEF Stored
  <2> QED
    BY <1>3, <1>4, <1>7, <2>1 DEF Stored
<1>8. CASE ~multi_part_upload_p /\ ~n_to_n
  <2>1. SharedBytes'
    BY <1>1, <1>8, SharedBytesStep DEF Stored, Guarded
  <2> QED
    BY <1>3, <1>4, <1>8, <2>1 DEF Stored
<1> QED
  BY <1>5, <1>6, <1>7, <1>8

LEMMA InitIsRight == Init => IInv
<1> SUFFICES ASSUME Init PROVE IInv
  OBVIOUS
<1>1. test \in Tests /\ st = [r \in Members |-> Task0] /\ objects = [n \in -1 .. N - 1 |-> NoObject]
      /\ uploads = << >> /\ gathered = [r \in World |-> << >>] /\ aborted = FALSE
  BY DEF Init
<1>2. /\ Members \subseteq World /\ 0 \in Members /\ XfersPerTask \in Nat \ {0}
  BY <1>1, TestIs
<1>3. \A r \in Members : st[r] = Task0
  BY <1>1
<1>4. /\ Task0.pc = "ready" /\ Task0.calls = 1 /\ Task0.rep = 0 /\ Task0.wrote = 0 /\ Task0.tallied = 0
      /\ Task0.connected = FALSE /\ Task0.part_number = 0 /\ Task0.etags = << >> /\ DOMAIN Task0 = Fields
  BY DEF Task0, Fields
<1>5. Here(Task0) = 1
  BY <1>4, EnteredIs DEF Here, One
<1>6. Legal(Task0)
  <2>1. PerRepetition * Task0.rep = 0
    BY <1>1, <1>4, NumbersAre
  <2>2. "ready" \in Places
    BY PlacesAre
  <2>3. Task0.calls = PerRepetition * Task0.rep + Here(Task0)
    BY <1>4, <1>5, <2>1
  <2>4. Task0.pc \in Places /\ Task0.rep \in Nat
    BY <1>4, <2>2
  <2>5. Task0.connected \in BOOLEAN
    BY Zenon, <1>4
  <2> QED
    BY <1>4, <2>3, <2>4, <2>5 DEF Legal
<1>7. \A r, q \in Members : st[r].calls >= st[q].calls - Ahead[st[q].pc]
  BY <1>3, <1>4, AheadIs
<1>8. Paced
  <2>1. DOMAIN st = Members
    BY <1>1
  <2>2. \A r \in Members : DOMAIN st[r] = Fields /\ Legal(st[r])
    BY <1>3, <1>4, <1>6
  <2> QED
    BY <1>7, <2>1, <2>2 DEF Paced
<1>9. Amounts
  <2>1. ASSUME NEW r \in Members PROVE Amount(Task0, r)
    BY <1>2, <1>4 DEF Amount, Early, Putting
  <2> QED
    BY <1>3, <2>1 DEF Amounts
<1>10. BucketIsThere
  BY <1>3, <1>4 DEF BucketIsThere
<1>11. Sizes
  BY <1>3, <1>4 DEF Sizes, Late
<1>12. Shape
  <2>1. DOMAIN objects = -1 .. N - 1 /\ DOMAIN gathered = World
    BY <1>1
  <2>2. Len(uploads) = 0 /\ DOMAIN uploads = {} /\ uploads = [u \in 1 .. 0 |-> uploads[u]]
    BY <1>1
  <2> QED
    BY <2>1, <2>2 DEF Shape
<1>13. OwnParts /\ OwnBytes
  BY <1>3, <1>4 DEF OwnParts, OwnBytes, Late
<1>14. SharedBytes
  <2>1. \A r \in Members : st[r].wrote = 0 /\ st[r].pc = "ready"
    BY <1>3, <1>4
  <2> QED
    BY <2>1 DEF SharedBytes, After, Late
<1>15. SharedParts
  <2>1. \A r \in Members : gathered[r] = << >> /\ st[r].pc = "ready"
    BY <1>1, <1>2, <1>3, <1>4
  <2>2. UploadIsShared /\ PartsAreCells
    BY <1>2, <2>1 DEF UploadIsShared, PartsAreCells, Takers, RootPuts
  <2>3. Gathering /\ Assembled
    BY <1>2, <2>1 DEF Gathering, Assembled, After, Late
  <2> QED
    BY <2>2, <2>3 DEF SharedParts
<1>16. NothingRefused
  BY <1>1 DEF NothingRefused
<1> QED
  BY <1>1, <1>8, <1>9, <1>10, <1>11, <1>12, <1>13, <1>14, <1>15, <1>16 DEF IInv, Stored

-----------------------------------------------------------------------------
(* What readers find                                                        *)

Has(w, rep, k) ==
    OffsetOf(w, k) \in DOMAIN objects[Name(w)] /\ objects[Name(w)][OffsetOf(w, k)] = Cell(w, rep, k)

LEMMA OwnIsFound ==
    ASSUME Core, n_to_n, NEW w \in Members, objects[Name(w)] = Row(w, st[w].rep, st[w].wrote)
    PROVE  /\ DOMAIN objects[Name(w)] = 0 .. st[w].wrote - 1 /\ Size(w) = st[w].wrote
           /\ \A k \in 0 .. st[w].wrote - 1 : Has(w, st[w].rep, k)
<1>1. st[w].wrote \in Nat
  BY WroteIs
<1>2. DOMAIN objects[Name(w)] = 0 .. st[w].wrote - 1 /\ Size(w) = st[w].wrote
  BY <1>1, RowsAre DEF Size
<1>3. ASSUME NEW k \in 0 .. st[w].wrote - 1 PROVE Has(w, st[w].rep, k)
  <2>1. OffsetOf(w, k) = k
    BY DEF OffsetOf
  <2>2. objects[Name(w)][k] = Cell(w, st[w].rep, k)
    BY DEF Row
  <2> QED
    BY <1>2, <2>1, <2>2 DEF Has
<1> QED
  BY <1>2, <1>3

LEMMA RootIsAfter ==
    ASSUME Shared, NEW r \in Members, st[r].pc \in Late \ {"ended"}
    PROVE  st[0].pc \in After
<1>1. st[r].connected /\ st[r].pc \in {"synced", "sizes", "reading", "read"}
  BY SharedMarks DEF Late
<1>2. \/ Entered[st[0].pc] >= Entered[st[r].pc] - Ahead[st[r].pc]
      \/ st[0].pc = "ended"
  BY <1>1, SharedMarks, Order DEF Shared, Core
<1>3. Entered[st[r].pc] - Ahead[st[r].pc] >= 4 + 2 * Bar /\ Entered[st[r].pc] - Ahead[st[r].pc] \in Int
  BY <1>1, SharedMarks, EnteredIs, AheadIs
<1> QED
  BY <1>2, <1>3, SharedMarks, EnteredIs, PlacesAre DEF After, Late

\* Whoever asks for the size of an object, or reads it, finds one.
LEMMA ObjectIsThere ==
    ASSUME Core, Stored, NEW r \in Members, st[r].pc \in Late \ {"ended"}
    PROVE  \E length \in Nat : DOMAIN objects[Name(r)] = 0 .. length - 1
<1>0. /\ multi_part_upload_p \in BOOLEAN /\ n_to_n \in BOOLEAN
      /\ st[r].wrote \in Nat /\ XfersPerTask \in Nat /\ N \in Nat
  BY TestIs, WroteIs DEF Core
<1>1. CASE n_to_n
  <2>1. Name(r) = r
    BY <1>1 DEF Name
  <2>2. objects[r] = Row(r, st[r].rep, st[r].wrote)
    BY <1>1 DEF Stored, OwnParts, OwnBytes
  <2> QED
    BY <1>0, <1>1, <2>1, <2>2, OwnIsFound
<1>2. CASE ~n_to_n /\ multi_part_upload_p
  <2>1. Shared /\ SharedParts
    BY <1>2 DEF Shared, Stored
  <2>2. DOMAIN objects[-1] = 0 .. N * st[0].wrote - 1
    BY <2>1, RootIsAfter DEF SharedParts, Assembled
  <2>3. N * st[0].wrote \in Nat
    BY <1>0, TestIs, WroteIs DEF Core
  <2> QED
    BY <1>2, <2>2, <2>3 DEF Name
<1>3. CASE ~n_to_n /\ ~multi_part_upload_p
  <2>1. SharedBytes /\ st[r].pc \in After
    BY <1>3 DEF Stored, After
  <2>2. PICK length \in 0 .. N * XfersPerTask : DOMAIN objects[-1] = 0 .. length - 1
    BY <2>1 DEF SharedBytes
  <2>3. length \in Nat
    BY <1>0
  <2> QED
    BY <1>3, <2>2, <2>3 DEF Name
<1> QED
  BY <1>0, <1>1, <1>2, <1>3

LEMMA NotNothing ==
    ASSUME NEW obj, NEW length \in Nat, DOMAIN obj = 0 .. length - 1
    PROVE  obj # NoObject /\ Length(obj) = length
<1>1. Length(obj) = length
  <2>1. Cardinality(0 .. length - 1) = length
    <3>1. Cardinality(0 .. length - 1) = IF 0 > length - 1 THEN 0 ELSE (length - 1) - 0 + 1
      BY FS_Interval
    <3> QED
      BY <3>1
  <2> QED
    BY <2>1 DEF Length
<1>2. DOMAIN NoObject = 1 .. 2
  BY DEF NoObject
<1>3. 0 .. length - 1 # 1 .. 2
  <2>1. 1 \in 1 .. 2 /\ 0 \notin 1 .. 2
    OBVIOUS
  <2>2. 1 \in 0 .. length - 1 => 0 \in 0 .. length - 1
    OBVIOUS
  <2> QED
    BY <2>1, <2>2
<1> QED
  BY <1>1, <1>2, <1>3

\* Once one task reads, whatever any task has written is in its place.
LEMMA AllIsFound ==
    ASSUME Core, Stored, NEW r \in Members, st[r].pc = "read", NEW w \in Members
    PROVE  /\ st[w].rep = st[r].rep /\ st[w].pc \in Late
           /\ \A k \in 0 .. st[w].wrote - 1 : Has(w, st[w].rep, k)
<1>1. st[w].rep = st[r].rep /\ st[w].pc \in {"reading", "read", "ended"}
  BY ReadTogether
<1>2. multi_part_upload_p \in BOOLEAN /\ n_to_n \in BOOLEAN
  BY TestIs DEF Core
<1>3. CASE n_to_n
  <2>1. Name(w) = w
    BY <1>3 DEF Name
  <2>2. objects[w] = Row(w, st[w].rep, st[w].wrote)
    BY <1>1, <1>3 DEF Stored, OwnParts, OwnBytes, Late
  <2>3. \A k \in 0 .. st[w].wrote - 1 : Has(w, st[w].rep, k)
    BY <1>3, <2>1, <2>2, OwnIsFound
  <2> QED
    BY <1>1, <2>3 DEF Late
<1>4. CASE ~n_to_n /\ multi_part_upload_p
  <2>1. Shared /\ SharedParts
    BY <1>4 DEF Shared, Stored
  <2>2. st[0].pc \in {"reading", "read", "ended"} /\ st[0].rep = st[r].rep
    BY <2>1, SharedMarks, ReadTogether
  <2>3. /\ st[w].wrote = st[0].wrote
        /\ \A k \in 0 .. st[0].wrote - 1 :
              /\ OffsetOf(w, k) \in DOMAIN objects[-1]
              /\ objects[-1][OffsetOf(w, k)] = Cell(w, st[0].rep, k)
    BY <1>1, <2>1, <2>2 DEF SharedParts, Assembled, After, Late
  <2>4. \A k \in 0 .. st[w].wrote - 1 : Has(w, st[w].rep, k)
    BY <1>1, <1>4, <2>2, <2>3 DEF Has, Name
  <2> QED
    BY <1>1, <2>4 DEF Late
<1>5. CASE ~n_to_n /\ ~multi_part_upload_p
  <2>1. \A k \in 0 .. st[w].wrote - 1 : Has(w, st[w].rep, k)
    BY <1>5 DEF Stored, SharedBytes, Has, Name
  <2> QED
    BY <1>1, <2>1 DEF Late
<1> QED
  BY <1>2, <1>3, <1>4, <1>5

-----------------------------------------------------------------------------
(* What ends the job                                                        *)

LEMMA OwnAccepted ==
    ASSUME Core, Stored, multi_part_upload_p, n_to_n, NEW r \in Members, st[r].pc = "close"
    PROVE  Accepted(r)
<1>1. /\ uploads[st[r].UploadId].parts = Row(r, st[r].rep, st[r].wrote)
      /\ st[r].etags = Etags(r, st[r].rep, st[r].wrote) /\ st[r].wrote \in Nat
  BY WroteIs DEF Stored, OwnParts, Putting
<1>2. List(r) = Row(r, st[r].rep, st[r].wrote)
  <2> DEFINE e == Etags(r, st[r].rep, st[r].wrote)
  <2>1. [i \in 0 .. Len(e) - 1 |-> e[i + 1]] = Row(r, st[r].rep, st[r].wrote)
    BY <1>1, RowListed
  <2> HIDE DEF e
  <2>2. st[r].etags = e
    BY <1>1 DEF e
  <2> QED
    BY <2>1, <2>2 DEF List
<1> QED
  BY <1>1, <1>2 DEF Accepted

LEMMA AllGathered ==
    ASSUME Shared, SharedParts, NEW r \in Members, st[r].pc = "gather", \A w \in World : gathered[w] # << >>
    PROVE  /\ r = 0
           /\ \A x \in Members :
                 gathered[x] = Etags(x, st[0].rep, st[0].wrote) /\ st[x].wrote = st[0].wrote
<1>1. r = 0
  BY DEF SharedParts, Gathering
<1>2. \A y \in Members :
         /\ st[y].pc \in {"gather", "closed"} /\ gathered[y] = Etags(y, st[0].rep, st[y].wrote)
         /\ \A z \in Members : st[z].tallied <= st[y].tallied
  BY TestIs DEF SharedParts, Gathering, Shared, Core
<1>3. \A y \in Members : st[y].tallied = st[y].wrote /\ st[y].wrote \in Nat
  BY <1>2, WroteIs DEF Shared
<1>4. ASSUME NEW x \in Members PROVE st[x].wrote = st[0].wrote
  <2>1. 0 \in Members
    BY SharedMarks
  <2>2. st[x].tallied <= st[0].tallied /\ st[0].tallied <= st[x].tallied
    BY <1>2, <2>1
  <2> QED
    BY <1>3, <2>1, <2>2
<1> QED
  BY <1>1, <1>2, <1>4

\* Without a deadline the numbers in rank 0's list are those the tasks chose.
LEMMA SharedAccepted ==
    ASSUME Shared, SharedParts, NEW r \in Members, st[r].pc = "gather",
           \A w \in World : gathered[w] # << >>, ~test.deadlineForStonewalling
    PROVE  Accepted(r)
<1> DEFINE P == XfersPerTask
           rep == st[0].rep
           list == PartList(gathered, P)
           parts == uploads[st[0].UploadId].parts
           x == test.xfersPerBlock
<1>1. /\ r = 0 /\ 0 \in Members /\ test \in Tests /\ multi_part_upload_p /\ ~n_to_n /\ Core
      /\ P \in Nat \ {0} /\ N \in Nat \ {0} /\ Members = 0 .. N - 1
  BY AllGathered, SharedMarks, TestIs DEF Shared, Members
<1>2. st[0].wrote = P /\ st[0].etags = Etags(0, rep, P)
  BY <1>1, WroteIs DEF Putting, Early
<1>3. \A w \in Members : gathered[w] = Etags(w, rep, P) /\ st[w].wrote = P
  BY <1>2, AllGathered
<1>4. List(r) = list
  <2>1. Len(Etags(0, rep, P)) = P
    BY <1>1, EtagsGrow
  <2> QED
    BY <1>1, <1>2, <2>1 DEF List
<1>5. \A w \in Members : \A k \in 0 .. P - 1 :
         PartNumber(w, k) \in DOMAIN parts /\ parts[PartNumber(w, k)] = Cell(w, rep, k)
  BY <1>1, <1>3 DEF SharedParts, PartsAreCells, Upload, RootPuts
<1> HIDE DEF P, rep, parts
<1>6. \A w \in Members : \A k \in 0 .. P - 1 : gathered[w][k + 1] = Cell(w, rep, k)
  <2>1. \A k \in 0 .. P - 1 : k + 1 \in 1 .. P /\ (k + 1) - 1 = k
    BY <1>1
  <2>2. \A w \in Members : \A k \in 0 .. P - 1 : Etags(w, rep, P)[k + 1] = Cell(w, rep, k)
    BY <2>1 DEF Etags
  <2> QED
    BY <1>3, <2>2
<1>7. ASSUME NEW i \in 0 .. N * P - 1 PROVE i \in DOMAIN parts /\ parts[i] = list[i]
  <2>1. CASE segmented
    <3>1. i \div P \in Members /\ i % P \in 0 .. P - 1 /\ i = (i \div P) * P + (i % P)
      BY <1>1, FromTable
    <3>2. PartNumber(i \div P, i % P) = i
      <4>1. P = x
        <5>1. x \in Nat /\ x * 1 = x
          BY <1>1, TestIs
        <5> QED
          BY <2>1, <5>1 DEF segmented, XfersPerTask, P
      <4> QED
        BY <1>1, <2>1, <3>1, <4>1 DEF PartNumber
    <3>3. list[i] = gathered[i \div P][(i % P) + 1]
      BY <2>1 DEF PartList
    <3> QED
      BY <1>5, <1>6, <3>1, <3>2, <3>3
  <2>2. CASE ~segmented
    <3>1. i % N \in Members /\ i \div N \in 0 .. P - 1 /\ i = (i \div N) * N + (i % N)
      <4>1. i \in 0 .. P * N - 1
        BY <1>1
      <4> QED
        BY <1>1, <4>1, FromTable
    <3>2. PartNumber(i % N, i \div N) = i
      BY <1>1, <2>2, <3>1 DEF PartNumber
    <3>3. list[i] = gathered[i % N][(i \div N) + 1]
      BY <2>2 DEF PartList
    <3> QED
      BY <1>5, <1>6, <3>1, <3>2, <3>3
  <2> QED
    BY <2>1, <2>2
<1>8. DOMAIN list = 0 .. N * P - 1
  BY DEF PartList
<1> QED
  BY <1>1, <1>4, <1>7, <1>8 DEF Accepted, parts

\* The task whose data another reads is there, and so are they.
LEMMA EveryGetIsInside ==
    ASSUME Core, Stored, NEW r \in Members, st[r].pc = "read", ~test.deadlineForStonewalling
    PROVE  /\ objects[ReadName(r)] # NoObject
           /\ ~(OffsetOf(PretendRank(r), st[r].k) >= Length(objects[ReadName(r)]))
<1> DEFINE w == PretendRank(r)
           k == st[r].k
<1>1. w \in Members
  <2>1. r \in Nat /\ test.rankOffset \in Nat /\ N \in Nat \ {0} /\ Members = 0 .. N - 1
    BY TestIs DEF Core, Members
  <2>2. r + test.rankOffset \in Nat
    BY <2>1
  <2>3. (r + test.rankOffset) % N \in 0 .. N - 1
    BY <2>1, <2>2, QuotientIs
  <2> QED
    BY <2>1, <2>3 DEF PretendRank
<1>2. ReadName(r) = Name(w)
  BY DEF ReadName, Name
<1>3. k \in 0 .. XfersPerTask - 1
  BY DEF Core, Amounts, Amount
<1> HIDE DEF w, k
<1>4. st[w].pc \in Late /\ \A m \in 0 .. st[w].wrote - 1 : Has(w, st[w].rep, m)
  BY <1>1, AllIsFound
<1>5. st[w].wrote = XfersPerTask
  BY <1>1, <1>4, WroteIs DEF Late, Early
<1>6. OffsetOf(w, k) \in DOMAIN objects[Name(w)]
  BY <1>3, <1>4, <1>5 DEF Has
<1>7. PICK length \in Nat : DOMAIN objects[Name(w)] = 0 .. length - 1
  <2>1. CASE n_to_n
    <3>1. st[w].pc \in {"reading", "read", "ended"}
      BY <1>1, ReadTogether
    <3>2. objects[w] = Row(w, st[w].rep, st[w].wrote) /\ Name(w) = w
      <4>1. multi_part_upload_p \in BOOLEAN
        BY TestIs DEF Core
      <4> QED
        BY <1>1, <2>1, <3>1, <4>1 DEF Stored, OwnParts, OwnBytes, Late, Name
    <3>3. DOMAIN objects[Name(w)] = 0 .. XfersPerTask - 1 /\ XfersPerTask \in Nat
      BY <1>1, <1>5, <2>1, <3>2, OwnIsFound, WroteIs
    <3> QED
      BY <3>3
  <2>2. CASE ~n_to_n
    <3>1. Name(w) = Name(r)
      BY <2>2 DEF Name
    <3> QED
      BY <3>1, ObjectIsThere DEF Late
  <2> QED
    BY <2>1, <2>2, TestIs DEF Core
<1>8. objects[Name(w)] # NoObject /\ Length(objects[Name(w)]) = length
  BY <1>7, NotNothing
<1>9. ~(OffsetOf(w, k) >= length)
  BY <1>6, <1>7
<1> QED
  BY <1>2, <1>8, <1>9 DEF w, k

\* Without a deadline all have as many etags.
LEMMA NoMismatch ==
    ASSUME Core, NEW r \in Members, MayLeave(r, "tally"), ~test.deadlineForStonewalling
    PROVE  ~(st[r].tallied < Max(EtagCounts))
<1>1. st[r].pc = "tally" /\ \A q \in Members : st[q].calls >= st[r].calls
  BY DEF MayLeave
<1>2. multi_part_upload_p /\ ~n_to_n /\ Shared
  BY <1>1, Marks DEF Shared
<1>3. ASSUME NEW x \in Members PROVE st[x].tallied <= XfersPerTask
  BY DEF Core, Amounts, Amount
<1>4. st[r].tallied = XfersPerTask /\ XfersPerTask \in Nat
  BY <1>1, <1>2, WroteIs DEF Early
<1>5. PICK x \in Members : Max(EtagCounts) = st[x].tallied
  <2>1. Max(EtagCounts) \in EtagCounts
    BY CountsAre
  <2> QED
    BY <2>1 DEF EtagCounts
<1>6. Max(EtagCounts) \in Int
  BY <1>5 DEF Core, Amounts, Amount
<1>7. Max(EtagCounts) <= XfersPerTask
  BY <1>3, <1>5
<1> QED
  BY <1>4, <1>6, <1>7

\* What can end the job: a count of etags that another exceeds, a list that the
\* server refuses, or a GET outside the object, none of them without a deadline.
LEMMA DeathIs ==
    ASSUME Core, Stored, ~aborted, aborted', NEW r \in Members, TaskStep(r)
    PROVE  Dies /\ test.deadlineForStonewalling
<1>0. multi_part_upload_p \in BOOLEAN /\ n_to_n \in BOOLEAN /\ test.deadlineForStonewalling \in BOOLEAN
  BY TestIs DEF Core
<1>1. \/ Reset(r) \/ MismatchAborts(r) \/ CloseOwn(r) \/ CompleteShared(r) \/ Stat(r) \/ Get(r)
  <2>1. ~(StartCreate(r) \/ MakeBucket(r) \/ Connected(r) \/ Initiate(r) \/ AwaitId(r) \/ TakeId(r))
    BY DEF StartCreate, MakeBucket, Connected, Initiate, AwaitId, TakeId
  <2>2. ~(Opened(r) \/ PutPart(r) \/ PutBytes(r) \/ Written(r) \/ CloseShared(r) \/ SendEtags(r))
    BY DEF Opened, PutPart, PutBytes, Written, CloseShared, SendEtags
  <2>3. ~(CloseBytes(r) \/ Closed(r) \/ Sized(r) \/ StartRead(r) \/ NextRepetition(r))
    BY DEF CloseBytes, Closed, Sized, StartRead, NextRepetition
  <2> QED
    BY <2>1, <2>2, <2>3 DEF TaskStep
<1>2. Abort => Dies
  BY DEF Abort, Dies, store
<1>3. CASE Reset(r)
  <2>1. st[r].pc = "create" /\ ~bucket
    BY <1>3 DEF Reset
  <2>2. st[r].connected
    BY <2>1, Marks
  <2> QED
    BY <2>1, <2>2 DEF Core, BucketIsThere
<1>4. CASE MismatchAborts(r)
  BY <1>0, <1>2, <1>4, NoMismatch DEF MismatchAborts
<1>5. CASE CloseOwn(r)
  <2>1. st[r].pc = "close" /\ multi_part_upload_p /\ n_to_n /\ ~Accepted(r)
    BY <1>5 DEF CloseOwn, Complete, Accepted, List
  <2> QED
    BY <2>1, OwnAccepted
<1>6. CASE CompleteShared(r)
  <2>1. /\ st[r].pc = "gather" /\ (\A w \in World : gathered[w] # << >>)
        /\ Complete(r, PartList(gathered, Len(st[r].etags)), "closed")
        /\ gathered' = [w \in World |-> << >>]
    BY <1>6 DEF CompleteShared
  <2>2. multi_part_upload_p /\ ~n_to_n
    BY <2>1, Marks
  <2>3. Shared /\ SharedParts
    BY <2>2 DEF Shared, Stored
  <2>4. ~Accepted(r) /\ UNCHANGED <<test, st, store>>
    <3>1. List(r) = PartList(gathered, Len(st[r].etags))
      BY <2>2 DEF List
    <3> QED
      BY <2>1, <3>1 DEF Complete, Accepted
  <2>5. test.deadlineForStonewalling
    BY <1>0, <2>1, <2>3, <2>4, SharedAccepted
  <2> QED
    BY <2>1, <2>4, <2>5 DEF Dies
<1>7. CASE Stat(r)
  <2>1. st[r].pc = "synced" /\ objects[Name(r)] = NoObject
    BY <1>7 DEF Stat, MayLeave
  <2> QED
    BY <2>1, ObjectIsThere, NotNothing DEF Late
<1>8. CASE Get(r)
  <2>1. /\ st[r].pc = "read" /\ Abort
        /\ objects[ReadName(r)] = NoObject \/ OffsetOf(PretendRank(r), st[r].k) >= Length(objects[ReadName(r)])
    BY <1>8 DEF Get
  <2>2. CASE ~test.deadlineForStonewalling
    <3>1. /\ objects[ReadName(r)] # NoObject
          /\ ~(OffsetOf(PretendRank(r), st[r].k) >= Length(objects[ReadName(r)]))
      BY <2>1, <2>2, EveryGetIsInside
    <3> QED
      BY <2>1, <3>1
  <2> QED
    BY <1>0, <1>2, <2>1, <2>2
<1> QED
  BY <1>1, <1>3, <1>4, <1>5, <1>6, <1>7, <1>8

\* Nothing moves, and rank 0 may lose what it has gathered.
LEMMA Frozen ==
    ASSUME Core, Sizes, Stored, UNCHANGED <<test, st, bucket, objects, uploads>>,
           gathered' \in {gathered, [w \in World |-> << >>]}
    PROVE  Core' /\ Sizes' /\ Stored'
<1>1. /\ Members' = Members /\ N' = N /\ n_to_n' = n_to_n /\ segmented' = segmented
      /\ multi_part_upload_p' = multi_part_upload_p /\ XfersPerTask' = XfersPerTask
      /\ test' = test /\ st' = st /\ bucket' = bucket /\ objects' = objects /\ uploads' = uploads
  BY DEF Members, N, n_to_n, segmented, multi_part_upload_p, XfersPerTask
<1>2. Id' = Id /\ Bar' = Bar /\ Meet' = Meet
  BY <1>1 DEF Id, Bar, Meet
<1>3. Loose' = Loose /\ Entered' = Entered /\ PerRepetition' = PerRepetition
  BY <1>1, <1>2 DEF Loose, Entered, PerRepetition
<1>4. Ahead' = Ahead /\ Places' = Places
  BY <1>2, <1>3 DEF Ahead, Places
<1>5. \A x : /\ Name(x)' = Name(x)
            /\ \A k : OffsetOf(x, k)' = OffsetOf(x, k) /\ PartNumber(x, k)' = PartNumber(x, k)
  BY <1>1 DEF OffsetOf, PartNumber, Name
<1>6. Core'
  <2>1. \A r : Legal(st[r])' <=> Legal(st[r])
    BY <1>1, <1>3, <1>4 DEF Legal, Here
  <2>2. Paced'
    BY <1>1, <1>4, <2>1 DEF Core, Paced
  <2>3. Amounts'
    <3>1. \A r : Amount(st[r], r)' <=> Amount(st[r], r)
      BY <1>1 DEF Amount
    <3> QED
      BY <1>1, <3>1 DEF Core, Amounts
  <2>4. BucketIsThere'
    BY <1>1 DEF Core, BucketIsThere
  <2> QED
    BY <1>1, <2>2, <2>3, <2>4 DEF Core
<1>7. Sizes'
  <2>1. \A r : Size(r)' = Size(r)
    BY <1>1, <1>5 DEF Size
  <2>2. [q \in Members |-> Size(q)]' = [q \in Members |-> Size(q)]
    BY <1>1, <2>1
  <2>3. Aggregate([q \in Members |-> Size(q)])' = Aggregate([q \in Members |-> Size(q)])
    <3>1. Aggregate([q \in Members |-> Size(q)])'
            = IF n_to_n' THEN SumOn([q \in Members |-> Size(q)]', Members') ELSE Min(Range([q \in Members |-> Size(q)]'))
      BY Zenon DEF Aggregate, SumOn, MapThenSumSet, MapThenFoldSet
    <3> QED
      BY <1>1, <2>2, <3>1, AggregateIs
  <2> QED
    BY <1>1, <2>1, <2>3 DEF Sizes
<1>8. Shape'
  <2>1. DOMAIN gathered' = World
    BY DEF Stored, Shape
  <2> QED
    BY <1>1, <2>1 DEF Stored, Shape
<1>9. (OwnParts' <=> OwnParts) /\ (OwnBytes' <=> OwnBytes)
  BY <1>1 DEF OwnParts, OwnBytes
<1>10. SharedBytes' <=> SharedBytes
  BY <1>1, <1>5 DEF SharedBytes, Cell
<1>11. SharedParts => SharedParts'
  <2> SUFFICES ASSUME SharedParts PROVE SharedParts'
    OBVIOUS
  <2>1. UploadIsShared'
    BY <1>1 DEF SharedParts, UploadIsShared
  <2>2. PartsAreCells'
    <3>1. Upload' = Upload
      BY <1>1 DEF Upload
    <3> QED
      BY <1>1, <1>5, <3>1 DEF SharedParts, PartsAreCells, Cell
  <2>3. Gathering'
    <3>1. CASE gathered' = gathered
      BY <1>1, <3>1 DEF SharedParts, Gathering
    <3>2. CASE gathered' = [w \in World |-> << >>]
      <4>1. Members \subseteq World
        BY TestIs DEF Core
      <4>2. \A r \in Members : gathered'[r] = << >>
        BY <3>2, <4>1
      <4> QED
        BY <1>1, <4>2 DEF SharedParts, Gathering
    <3> QED
      BY <3>1, <3>2
  <2>4. Assembled'
    BY <1>1, <1>5 DEF SharedParts, Assembled, Cell
  <2> QED
    BY <2>1, <2>2, <2>3, <2>4 DEF SharedParts
<1>12. Stored'
  <2>1. (multi_part_upload_p' <=> multi_part_upload_p) /\ (n_to_n' <=> n_to_n)
    BY <1>1
  <2> QED
    BY <1>8, <1>9, <1>10, <1>11, <2>1 DEF Stored
<1> QED
  BY <1>6, <1>7, <1>12

LEMMA NextIsRight == ASSUME IInv, Guarded, [Next]_vars PROVE IInv'
<1>0. Core /\ Sizes /\ Stored /\ NothingRefused
  BY DEF IInv, Core
<1>1. Core' /\ Sizes' /\ Stored' /\ NothingRefused' => IInv'
  BY DEF IInv, Core
<1>2. CASE UNCHANGED vars
  <2>1. UNCHANGED <<test, st, bucket, objects, uploads, gathered, aborted>>
    BY <1>2 DEF vars
  <2>2. Core' /\ Sizes' /\ Stored'
    BY <1>0, <2>1, Frozen
  <2>3. NothingRefused'
    BY <1>0, <2>1 DEF NothingRefused
  <2> QED
    BY <1>1, <2>2, <2>3
<1>3. CASE Next
  <2>1. ~aborted /\ \E r \in Members : TaskStep(r)
    BY <1>3 DEF Next
  <2>2. PICK r \in Members : TaskStep(r)
    BY <2>1
  <2>3. CASE ~aborted'
    <3>1. PICK q : Anything(r, q)
      <4>1. \E q : \/ Quiet(r, q) /\ Passage(r, q)
                  \/ Resets(r, q) \/ Initiates(r, q) \/ Takes(r, q) \/ Puts(r, q)
                  \/ Completes(r, q) \/ Tallies(r, q) \/ Sends(r, q) \/ Ends(r, q)
        BY <1>0, <2>1, <2>2, <2>3, StepIs
      <4> QED
        BY <4>1 DEF Anything, Loud
    <3>2. Core'
      BY <1>0, <3>1, QuietCore, LoudCore, EndsCore DEF Anything
    <3>3. Sizes'
      BY <1>0, <3>1, SizesStep DEF Anything
    <3>4. Stored'
      BY <1>0, <3>1, StoredStep
    <3>5. NothingRefused'
      BY <2>3 DEF NothingRefused
    <3> QED
      BY <1>1, <3>2, <3>3, <3>4, <3>5
  <2>4. CASE aborted'
    <3>1. Dies /\ test.deadlineForStonewalling
      BY <1>0, <2>1, <2>2, <2>4, DeathIs
    <3>2. /\ UNCHANGED <<test, st, bucket, objects, uploads>>
          /\ gathered' \in {gathered, [w \in World |-> << >>]}
      BY <3>1 DEF Dies, store
    <3>3. Core' /\ Sizes' /\ Stored'
      BY <1>0, <3>2, Frozen
    <3>4. NothingRefused'
      BY <3>1, <3>2 DEF NothingRefused
    <3> QED
      BY <1>1, <3>3, <3>4
  <2> QED
    BY <2>3, <2>4
<1> QED
  BY <1>2, <1>3

-----------------------------------------------------------------------------
(* The size that readers are told                                           *)

LEMMA MovedIs == Moved = SumOn([w \in Members |-> st[w].wrote], Members)
  BY Zenon DEF Moved, SumOn, MapThenSumSet, MapThenFoldSet

\* With one object per task the sizes add up to what was written.
LEMMA OwnSize ==
    ASSUME Core, n_to_n, \A w \in Members : Size(w) = st[w].wrote
    PROVE  Aggregate([q \in Members |-> Size(q)]) = Moved
<1>1. IsFiniteSet(Members)
  <2>1. N - 1 \in Int
    BY TestIs DEF Core
  <2> QED
    BY <2>1, FS_Interval DEF Members
<1>2. SumOn([q \in Members |-> Size(q)], Members) = SumOn([w \in Members |-> st[w].wrote], Members)
  BY <1>1, SameSum
<1> QED
  BY <1>2, AggregateIs, MovedIs

\* All tasks see the same size of a shared object.
LEMMA OneSize ==
    ASSUME Core, ~n_to_n, NEW length \in Nat, DOMAIN objects[-1] = 0 .. length - 1
    PROVE  Aggregate([q \in Members |-> Size(q)]) = length
<1> DEFINE f == [q \in Members |-> Size(q)]
<1>1. \A q \in Members : Size(q) = length
  BY NotNothing DEF Size, Name
<1>2. Range(f) = {length}
  <2>1. 0 \in Members
    BY TestIs DEF Core
  <2> QED
    BY <1>1, <2>1 DEF Range
<1>3. Min({length}) = length
  <2>1. {length} \in SUBSET Int /\ length \in {length} /\ \A x \in {length} : length <= x
    OBVIOUS
  <2> QED
    BY <2>1, LeastIs
<1> QED
  BY <1>2, <1>3, AggregateIs

\* If all wrote as much, they wrote so much between them.
LEMMA MovedAlike ==
    ASSUME Core, NEW P \in Nat, \A w \in Members : st[w].wrote = P
    PROVE  Moved = N * P
<1> DEFINE f == [w \in Members |-> st[w].wrote]
<1>1. N \in Nat /\ Members = 0 .. N - 1 /\ P \in Int
  BY TestIs DEF Core, Members
<1>2. \A x \in 0 .. N - 1 : f[x] = P
  BY <1>1
<1> HIDE DEF f
<1>3. SumOn(f, 0 .. N - 1) = N * P
  BY <1>1, <1>2, SumOfSame
<1> QED
  BY <1>1, <1>3, MovedIs DEF f

\* No two transfers go to the same place: the object is at least as long.
LEMMA MovedFits ==
    ASSUME Core, ~n_to_n, NEW length \in Nat,
           \A w \in Members : \A k \in 0 .. st[w].wrote - 1 : OffsetOf(w, k) \in 0 .. length - 1
    PROVE  Moved <= length
<1> DEFINE f == [w \in Members |-> st[w].wrote]
           U == Under(f, N)
           at == [c \in U |-> OffsetOf(c[1], c[2])]
<1>1. N \in Nat /\ Members = 0 .. N - 1 /\ test \in Tests /\ length - 1 \in Int
  BY TestIs DEF Core, Members
<1>2. \A w \in Members : f[w] = st[w].wrote /\ f[w] \in 0 .. XfersPerTask /\ f[w] \in Nat /\ XfersPerTask \in Nat
  BY WroteIs
<1>3. ASSUME NEW c \in U
      PROVE  /\ c = <<c[1], c[2]>> /\ c[1] \in Members /\ c[2] \in 0 .. st[c[1]].wrote - 1
             /\ c[2] \in 0 .. XfersPerTask - 1
  <2>1. c = <<c[1], c[2]>> /\ c[1] \in Members /\ c[2] \in Nat /\ c[2] < f[c[1]]
    BY <1>1 DEF Under
  <2>2. f[c[1]] = st[c[1]].wrote /\ f[c[1]] \in 0 .. XfersPerTask /\ XfersPerTask \in Nat
    BY <1>2, <2>1
  <2> HIDE DEF f
  <2> QED
    BY <2>1, <2>2
<1>4. IsFiniteSet(U) /\ Cardinality(U) = SumOn(f, 0 .. N - 1)
  <2> HIDE DEF f
  <2> QED
    BY <1>1, <1>2, SumIsCount
<1> HIDE DEF U
<1>5. at \in Injection(U, 0 .. length - 1)
  <2>1. at \in [U -> 0 .. length - 1]
    BY <1>3
  <2>2. ASSUME NEW c \in U, NEW d \in U, at[c] = at[d] PROVE c = d
    <3>1. OffsetOf(c[1], c[2]) = OffsetOf(d[1], d[2])
      BY <2>2
    <3>2. c[1] = d[1] /\ c[2] = d[2]
      BY <1>1, <1>3, <3>1, Offsets
    <3> QED
      BY <1>3, <3>2
  <2> QED
    BY <2>1, <2>2 DEF Injection, IsInjective
<1>6. Cardinality(U) <= Cardinality(0 .. length - 1) /\ Cardinality(0 .. length - 1) = length
  <2>1. IsFiniteSet(0 .. length - 1)
    BY <1>1, FS_Interval
  <2>2. Cardinality(0 .. length - 1) = IF 0 > length - 1 THEN 0 ELSE (length - 1) - 0 + 1
    BY <1>1, FS_Interval
  <2>3. Cardinality(U) <= Cardinality(0 .. length - 1)
    BY <1>5, <2>1, FS_Injection
  <2> QED
    BY <2>2, <2>3
<1>7. Moved = SumOn(f, 0 .. N - 1)
  BY <1>1, MovedIs
<1> QED
  BY <1>4, <1>6, <1>7

LEMMA SizeIsTold ==
    ASSUME IInv, NEW r \in Members, st[r].pc = "read"
    PROVE  /\ st[r].aggFileSize >= Moved
           /\ ~test.deadlineForStonewalling => st[r].aggFileSize = Moved
<1> DEFINE all == Aggregate([q \in Members |-> Size(q)])
<1>0. /\ Core /\ Sizes /\ Stored /\ multi_part_upload_p \in BOOLEAN /\ n_to_n \in BOOLEAN
      /\ XfersPerTask \in Nat /\ N \in Nat /\ test \in Tests /\ 0 \in Members
  BY TestIs DEF IInv, Core
<1>1. st[r].aggFileSize = all
  BY <1>0 DEF Sizes
<1>2. \A w \in Members : st[w].pc \in {"reading", "read", "ended"}
  BY <1>0, ReadTogether
<1>3. \A w \in Members : st[w].wrote \in Nat /\ (~test.deadlineForStonewalling => st[w].wrote = XfersPerTask)
  BY <1>0, <1>2, WroteIs DEF Early
<1> HIDE DEF all
<1>4. CASE n_to_n
  <2>1. ASSUME NEW w \in Members PROVE Size(w) = st[w].wrote
    <3>1. Name(w) = w
      BY <1>4 DEF Name
    <3>2. objects[w] = Row(w, st[w].rep, st[w].wrote)
      BY <1>0, <1>2, <1>4 DEF Stored, OwnParts, OwnBytes, Late
    <3> QED
      BY <1>0, <1>4, <3>1, <3>2, OwnIsFound
  <2>2. all = Moved
    BY <1>0, <1>4, <2>1, OwnSize DEF all
  <2>3. Moved \in Int
    <3>1. N - 1 \in Int /\ \A w \in Members : [x \in Members |-> st[x].wrote][w] \in Int
      BY <1>0, <1>3
    <3>2. IsFiniteSet(Members)
      BY <3>1, FS_Interval DEF Members
    <3> QED
      BY <3>1, <3>2, SumIsInt, MovedIs
  <2> QED
    BY <1>1, <2>2, <2>3
<1>5. CASE ~n_to_n /\ multi_part_upload_p
  <2>1. Assembled
    BY <1>0, <1>5 DEF Stored, SharedParts
  <2>2. /\ DOMAIN objects[-1] = 0 .. N * st[0].wrote - 1
        /\ \A w \in Members : st[w].wrote = st[0].wrote
    BY <1>0, <1>2, <2>1 DEF Assembled, After, Late
  <2>3. N * st[0].wrote \in Nat /\ st[0].wrote \in Nat
    BY <1>0, <1>3
  <2>4. all = N * st[0].wrote
    BY <1>0, <1>5, <2>2, <2>3, OneSize DEF all
  <2>5. Moved = N * st[0].wrote
    BY <1>0, <2>2, <2>3, MovedAlike
  <2> QED
    BY <1>1, <2>3, <2>4, <2>5
<1>6. CASE ~n_to_n /\ ~multi_part_upload_p
  <2>1. SharedBytes
    BY <1>0, <1>6 DEF Stored
  <2>2. PICK length \in 0 .. N * XfersPerTask : DOMAIN objects[-1] = 0 .. length - 1
    BY <2>1 DEF SharedBytes, After, Late
  <2>3. N * XfersPerTask \in Nat
    BY <1>0
  <2>4. length \in Nat /\ length <= N * XfersPerTask
    BY <2>3
  <2>5. all = length
    BY <1>0, <1>6, <2>2, <2>4, OneSize DEF all
  <2>6. Moved <= length
    <3>1. \A w \in Members : \A k \in 0 .. st[w].wrote - 1 : OffsetOf(w, k) \in 0 .. length - 1
      BY <2>1, <2>2 DEF SharedBytes
    <3> QED
      BY <1>0, <1>6, <2>4, <3>1, MovedFits
  <2>7. ~test.deadlineForStonewalling => Moved = N * XfersPerTask
    BY <1>0, <1>3, MovedAlike
  <2>8. Moved \in Int
    <3>1. N - 1 \in Int /\ \A w \in Members : [x \in Members |-> st[x].wrote][w] \in Int
      BY <1>0, <1>3
    <3>2. IsFiniteSet(Members)
      BY <3>1, FS_Interval DEF Members
    <3> QED
      BY <3>1, <3>2, SumIsInt, MovedIs
  <2> QED
    BY <1>1, <2>3, <2>4, <2>5, <2>6, <2>7, <2>8
<1> QED
  BY <1>0, <1>4, <1>5, <1>6

-----------------------------------------------------------------------------
(* The theorems.  Byte ranges of a shared object are put only after a        *)
(* barrier: NoPutIsLost shows what happens without.                          *)

BarriersGuardBytes ==
    \A p \in Tests : (p.api = "S3_EMC" /\ ~p.filePerProc) => p.intraTestBarriers

\* In every reachable state the collectives order the tasks, and objects, uploads
\* and what is gathered hold what their places in the program say.
THEOREM S3Inductive == ASSUME BarriersGuardBytes PROVE Spec => []IInv
<1>1. IInv => Guarded
  <2>1. \A p \in Tests : p.api \in {"S3", "S3_EMC"}
    BY TestsAssumption
  <2> QED
    BY <2>1 DEF IInv, Guarded, BarriersGuardBytes, multi_part_upload_p, n_to_n
<1>2. IInv /\ [Next]_vars => IInv'
  BY <1>1, NextIsRight
<1> QED
  BY <1>2, InitIsRight, PTL DEF Spec

\* S3_Close and IOR's barriers let nobody read an object that is not assembled in
\* order from the parts of this repetition, and S3_GetFileSize tells its size, for any
\* number of tasks, segments, transfers and repetitions and any deadline.
THEOREM ObjectsAreWhole == ASSUME BarriersGuardBytes PROVE Spec => []ReadersFindTheData
<1>1. IInv => ReadersFindTheData
  <2> SUFFICES ASSUME IInv, NEW r \in Members, st[r].pc = "read"
               PROVE  /\ \A w \in Members :
                           /\ st[w].rep = st[r].rep
                           /\ \A k \in 0 .. st[w].wrote - 1 :
                                /\ OffsetOf(w, k) \in DOMAIN objects[Name(w)]
                                /\ objects[Name(w)][OffsetOf(w, k)] = Cell(w, st[w].rep, k)
                      /\ st[r].aggFileSize >= Moved
                      /\ ~test.deadlineForStonewalling => st[r].aggFileSize = Moved
    BY DEF ReadersFindTheData
  <2>1. Core /\ Stored
    BY DEF IInv, Core
  <2>2. \A w \in Members : st[w].rep = st[r].rep /\ \A k \in 0 .. st[w].wrote - 1 : Has(w, st[w].rep, k)
    BY <2>1, AllIsFound
  <2>3. st[r].aggFileSize >= Moved /\ (~test.deadlineForStonewalling => st[r].aggFileSize = Moved)
    BY SizeIsTold
  <2> QED
    BY <2>2, <2>3 DEF Has
<1> QED
  BY <1>1, S3Inductive, PTL

\* Without a deadline nothing aborts the job: s3_connect has made the bucket before any
\* put, rank 0's list has the numbers the tasks chose, and no GET leaves its object.
THEOREM NothingIsRefused == ASSUME BarriersGuardBytes PROVE Spec => []NothingRefused
<1>1. IInv => NothingRefused
  BY DEF IInv
<1> QED
  BY <1>1, S3Inductive, PTL

\* Behind the barrier between create and the first put, no task resets the shared object
\* after another has put into it: the comment "there should be no races" then holds.
THEOREM BarrierSavesPuts == ASSUME BarriersGuardBytes PROVE Spec => []NoPutIsLost
<1>1. IInv => NoPutIsLost
  <2> SUFFICES ASSUME IInv, NEW w \in Members, NEW k \in 0 .. st[w].wrote - 1,
                      ~multi_part_upload_p, st[w].pc \in {"write", "close"}
               PROVE  Has(w, st[w].rep, k)
    BY DEF NoPutIsLost, Has
  <2>1. CASE n_to_n
    <3>1. objects[Name(w)] = Row(w, st[w].rep, st[w].wrote)
      BY <2>1 DEF IInv, Stored, OwnBytes, Name
    <3> QED
      BY <2>1, <3>1, OwnIsFound DEF IInv, Core
  <2>2. CASE ~n_to_n
    BY <2>2 DEF IInv, Stored, SharedBytes, Has, Name
  <2> QED
    BY <2>1, <2>2, TestIs DEF IInv
<1> QED
  BY <1>1, S3Inductive, PTL
=============================================================================
