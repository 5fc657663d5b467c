------------------------ MODULE HaccCheckpoint_proofs ------------------------
(***************************************************************************)
(* A checkpoint whose close has returned is complete, a restart reads what *)
(* the same rank wrote, and a job of another shape is refused: for any     *)
(* record, any plans of jobs, any number of ranks and particles.           *)
(***************************************************************************)
EXTENDS HaccCheckpoint, RowsAndColumns, SequenceTheorems

\* Where rank r of job j has the values of variable k in its file.
SpotOf(j, r, k) ==
    (IF j.perRank THEN 0 ELSE r) * j.particles * RecordCells + j.particles * CellsBefore(k)
CellsOf(j, k) == j.particles * Record[k]
SizeOf(j) == IF j.perRank THEN 1 ELSE j.ranks
Ranked(j) == 0 .. j.ranks - 1

Cells == [job : Nat, rank : Nat, var : Nat, cell : Int]
Headers == [job : Nat, ranks : Nat, particles : Nat, first : Nat]

Vars == Len(Record)
\* What a job does before it reads.
Before == IF job.kind = "read" THEN 0 ELSE Vars + 10
Writes == job.kind # "read"
Reads == job.kind # "write"

-----------------------------------------------------------------------------
(* The inductive invariant                                                  *)

TypeOK ==
    /\ plan \in Plans /\ number \in 1 .. Len(plan)
    /\ status \in {"running", "ended", "killed", "aborted"}
    /\ pc \in [Ranks -> 1 .. Len(Program)]
    /\ base \in [Ranks -> Nat] /\ count \in [Ranks -> Int]
    /\ DOMAIN memory = Ranks
    /\ files \in [Names -> [exists : BOOLEAN, header : Headers, data : Seq(Cells)]]
    /\ sound \in [Names -> 0 .. number]

\* Nobody is past a barrier that another rank of the partition has not reached.
Gate(b) == \A r \in Ranks : \A q \in Partition(r) : pc[r] > b => pc[q] >= b
Gates ==
    /\ Writes => Gate(4) /\ Gate(9 + Vars)
    /\ Reads => Gate(Before + 4)

Counts == \A r \in Ranks :
    /\ Writes /\ pc[r] <= 10 + Vars => count[r] = job.particles
    /\ Reads /\ pc[r] \in Before + 4 .. Before + 7 + Vars => count[r] = CountWord(r)
    /\ Reads /\ pc[r] \in Before + 6 .. Before + 8 + Vars => count[r] = job.particles
Bases == \A r \in Ranks : pc[r] >= 7 => base[r] = PartitionRank(r) * job.particles

\* What the ranks of the running job have made of its files.
Holds(data, j, m, r, k) ==
    \A c \in 0 .. CellsOf(j, k) - 1 :
        LET i == SpotOf(j, r, k) + c + 1 IN i <= Len(data) /\ data[i] = Value(m, r, k, c)
InPlace(f, m, r, k) == Holds(files[f].data, plan[m], m, r, k)
Wrote == Writes => \A r \in Ranks :
    /\ IsRoot(r) /\ pc[r] > 2 => files[FileName(r)].exists
    /\ \A k \in Arrays : pc[r] > 6 + k => InPlace(FileName(r), number, r, k)
    /\ IsRoot(r) /\ pc[r] > 7 + Vars =>
          files[FileName(r)].header = [job |-> number, ranks |-> PartitionSize,
                                       particles |-> job.particles, first |-> r]

\* A header is that of a job that had the file.
HeadersAre == \A f \in Names :
    LET h == files[f].header
    IN  h = NoHeader \/
        LET j == plan[h.job]
        IN  /\ h.job \in 1 .. number
            /\ h.ranks = SizeOf(j) /\ h.particles = j.particles
            /\ h.first \in Ranked(j) /\ FileOf(j, h.first) = f
            /\ ~j.perRank => h.first = 0

\* A sound file is that of the last job that has closed it, and whoever is to write
\* it has not opened it yet.
SoundIs == \A f \in Names :
    /\ sound[f] > 0 =>
          /\ files[f].header.job = sound[f]
          /\ \A r \in Ranked(plan[sound[f]]) : FileOf(plan[sound[f]], r) = f =>
                \A k \in Arrays : InPlace(f, sound[f], r, k)
    /\ sound[f] = number => \A r \in Ranks : FileName(r) = f => pc[r] >= 9 + Vars
    /\ Writes /\ sound[f] \notin {0, number} =>
          \A r \in Ranks : FileName(r) = f /\ IsRoot(r) => pc[r] <= 2

Fetched(r, k) ==
    LET from == SpotOf(job, r, k)
        data == files[FileName(r)].data
    IN  [c \in 1 .. CellsOf(job, k) |->
            IF from + c <= Len(data) THEN data[from + c] ELSE Garbage]
HasRead(r) ==
    LET n == pc[r] - (Before + 7) IN IF n < 0 THEN 0 ELSE IF n > Vars THEN Vars ELSE n
Restarts == Reads => \A r \in Ranks :
    /\ pc[r] >= Before + 4 => RankWord(r) = r
    /\ pc[r] >= Before + 6 => CountWord(r) = job.particles
    /\ memory[r] = [k \in 1 .. HasRead(r) |-> Fetched(r, k)]
Persists == job.kind = "both" => status # "aborted"

\* With jobs of one shape a cell is in its place whoever wrote it.
PlacedIn(data, j, f) == \A c \in DOMAIN data :
    LET x == data[c]
    IN  x = Hole \/
        /\ x.rank \in Ranked(j) /\ FileOf(j, x.rank) = f /\ x.var \in Arrays
        /\ x.cell \in 0 .. CellsOf(j, x.var) - 1
        /\ c = SpotOf(j, x.rank, x.var) + x.cell + 1
Mixed == SameShapes => \A f \in Names :
    /\ PlacedIn(files[f].data, job, f)
    /\ files[f].header.job > 0 => Len(files[f].data) >= FileCells
    /\ Writes => \A r \in Ranks :
          FileName(r) = f /\ IsRoot(r) /\ pc[r] > 3 => Len(files[f].data) >= FileCells

IInv == TypeOK /\ Gates /\ Counts /\ Bases /\ Wrote /\ HeadersAre /\ SoundIs /\ Restarts
        /\ Persists /\ Mixed

-----------------------------------------------------------------------------
(* The places of the variables                                              *)

LEMMA RecordIs ==
    /\ Vars \in Nat \ {0} /\ Arrays = 1 .. Vars
    /\ \A k \in Arrays : Record[k] \in {1, 2, 4}
  BY RecordAssumption DEF Vars, Arrays

LEMMA CellsBeforeIs == ASSUME NEW k PROVE CellsBefore(k) = SumOn(Record, 1 .. k - 1)
  BY Zenon DEF CellsBefore, SumOn, MapThenSumSet, MapThenFoldSet

LEMMA CellsBeforeNext ==
    ASSUME NEW k \in 1 .. Vars
    PROVE  /\ CellsBefore(k) \in Nat
           /\ CellsBefore(k + 1) = CellsBefore(k) + Record[k]
<1>1. /\ \A i \in 1 .. k : Record[i] \in {1, 2, 4}
      /\ k - 1 \in Int /\ k \in Int
  BY RecordIs
<1>2. IsFiniteSet(1 .. k - 1)
  BY <1>1, FS_Interval
<1>3. /\ \A i \in 1 .. k - 1 : Record[i] \in Nat
      /\ \A i \in (1 .. k - 1) \cup {k} : Record[i] \in Int
      /\ k \notin 1 .. k - 1
  BY <1>1
<1>4. SumOn(Record, 1 .. k - 1) \in Nat
  BY <1>2, <1>3, SumsGrow
<1>5. SumOn(Record, (1 .. k - 1) \cup {k}) = Record[k] + SumOn(Record, 1 .. k - 1)
  BY <1>2, <1>3, SumOfAdded
<1>6. 1 .. (k + 1) - 1 = (1 .. k - 1) \cup {k}
  BY <1>1
<1>7. CellsBefore(k + 1) = Record[k] + CellsBefore(k) /\ CellsBefore(k) \in Nat
  BY <1>4, <1>5, <1>6, CellsBeforeIs, Zenon
<1> QED
  BY <1>1, <1>7

LEMMA CellsBeforeGrows ==
    /\ \A k \in 1 .. Vars + 1 : CellsBefore(k) \in Nat
    /\ \A k, l \in 1 .. Vars + 1 : k <= l => CellsBefore(k) <= CellsBefore(l)
<1>1. \A k \in 1 .. Vars : /\ CellsBefore(k) \in Nat
                           /\ CellsBefore(k + 1) = CellsBefore(k) + Record[k]
  BY CellsBeforeNext
<1>2. \A k \in 1 .. Vars : Record[k] \in Nat
  BY RecordIs
<1>3. \A k \in 1 .. Vars + 1 : CellsBefore(k) \in Nat
  <2> SUFFICES ASSUME NEW k \in 1 .. Vars + 1 PROVE CellsBefore(k) \in Nat
    OBVIOUS
  <2>1. CASE k <= Vars
    BY <1>1, <2>1, RecordIs
  <2>2. CASE k = Vars + 1
    <3>1. Vars \in 1 .. Vars
      BY RecordIs
    <3>2. CellsBefore(Vars + 1) \in Nat
      BY <1>1, <1>2, <3>1
    <3> QED
      BY <2>2, <3>2
  <2> QED
    BY <2>1, <2>2, RecordIs
<1>4. \A k, l \in 1 .. Vars + 1 : k <= l => CellsBefore(k) <= CellsBefore(l)
  <2> DEFINE Good(n) == \A k, l \in 1 .. Vars + 1 : l = k + n => CellsBefore(k) <= CellsBefore(l)
             Wrong == {n \in Nat : ~Good(n)}
  <2>1. Wrong = {}
    <3> SUFFICES ASSUME Wrong # {} PROVE FALSE
      OBVIOUS
    <3>1. Wrong \subseteq Nat
      OBVIOUS
    <3>2. PICK n \in Wrong : \A m \in Wrong : n <= m
      <4> HIDE DEF Wrong
      <4> QED
        BY <3>1, Least
    <3>3. n \in Nat /\ ~Good(n)
      BY <3>2
    <3>4. PICK k \in 1 .. Vars + 1, l \in 1 .. Vars + 1 :
              l = k + n /\ ~(CellsBefore(k) <= CellsBefore(l))
      BY <3>3
    <3>5. n # 0
      BY <1>3, <3>4, RecordIs
    <3>6. n - 1 \in Nat /\ Good(n - 1)
      BY <3>2, <3>3, <3>5
    <3>7. l - 1 \in 1 .. Vars /\ l - 1 \in 1 .. Vars + 1 /\ l - 1 = k + (n - 1) /\ (l - 1) + 1 = l
      BY <3>3, <3>4, <3>5, RecordIs
    <3>8. CellsBefore(k) <= CellsBefore(l - 1)
      BY <3>6, <3>7
    <3>9. CellsBefore((l - 1) + 1) = CellsBefore(l - 1) + Record[l - 1] /\ Record[l - 1] \in Nat
      BY <1>1, <1>2, <3>7
    <3>10. CellsBefore(l) = CellsBefore(l - 1) + Record[l - 1]
      BY <3>7, <3>9
    <3>11. CellsBefore(k) \in Nat /\ CellsBefore(l - 1) \in Nat
      BY <1>3, <3>7
    <3> QED
      BY <3>4, <3>8, <3>9, <3>10, <3>11
  <2> SUFFICES ASSUME NEW k \in 1 .. Vars + 1, NEW l \in 1 .. Vars + 1, k <= l
               PROVE  CellsBefore(k) <= CellsBefore(l)
    OBVIOUS
  <2>2. l - k \in Nat /\ l = k + (l - k)
    BY RecordIs
  <2>3. Good(l - k)
    BY <2>1, <2>2
  <2> QED
    BY <2>2, <2>3
<1> QED
  BY <1>3, <1>4

LEMMA VariablesApart ==
    /\ RecordCells \in Nat \ {0}
    /\ \A k \in Arrays : /\ CellsBefore(k) \in Nat /\ Record[k] \in Nat \ {0}
                         /\ CellsBefore(k) + Record[k] <= RecordCells
    /\ \A k, l \in Arrays : k < l => CellsBefore(k) + Record[k] <= CellsBefore(l)
<1>1. \A k \in Arrays : /\ k \in 1 .. Vars /\ k \in 1 .. Vars + 1 /\ k + 1 \in 1 .. Vars + 1
                        /\ Record[k] \in Nat \ {0}
  BY RecordIs
<1>2. \A k \in Arrays : CellsBefore(k) \in Nat /\ CellsBefore(k + 1) = CellsBefore(k) + Record[k]
  BY <1>1, CellsBeforeNext
<1>3. RecordCells = CellsBefore(Vars + 1) /\ Vars + 1 \in 1 .. Vars + 1
  BY RecordIs DEF RecordCells, Vars
<1>4. \A k \in Arrays : CellsBefore(k) + Record[k] <= RecordCells
  <2> SUFFICES ASSUME NEW k \in Arrays PROVE CellsBefore(k) + Record[k] <= RecordCells
    OBVIOUS
  <2>1. k + 1 <= Vars + 1
    BY RecordIs
  <2>2. CellsBefore(k + 1) <= CellsBefore(Vars + 1)
    BY <1>1, <1>3, <2>1, CellsBeforeGrows
  <2> QED
    BY <1>2, <1>3, <2>2
<1>5. \A k, l \in Arrays : k < l => CellsBefore(k) + Record[k] <= CellsBefore(l)
  <2> SUFFICES ASSUME NEW k \in Arrays, NEW l \in Arrays, k < l
               PROVE  CellsBefore(k) + Record[k] <= CellsBefore(l)
    OBVIOUS
  <2>1. k + 1 <= l
    BY RecordIs
  <2>2. CellsBefore(k + 1) <= CellsBefore(l)
    BY <1>1, <2>1, CellsBeforeGrows
  <2> QED
    BY <1>2, <2>2
<1>6. RecordCells \in Nat \ {0}
  <2>1. 1 \in Arrays
    BY RecordIs
  <2>2. RecordCells \in Nat
    BY <1>3, CellsBeforeGrows
  <2> QED
    BY <1>1, <1>2, <1>4, <2>1, <2>2
<1> QED
  BY <1>1, <1>2, <1>4, <1>5, <1>6

Shapes == [kind : {"write", "read", "both"}, ranks : Nat \ {0}, particles : Nat \ {0},
           perRank : BOOLEAN]
Row(j, r) == IF j.perRank THEN 0 ELSE r

LEMMA SpotInFile ==
    ASSUME NEW j \in Shapes, NEW r \in Ranked(j), NEW k \in Arrays
    PROVE  /\ SpotOf(j, r, k) \in Nat /\ CellsOf(j, k) \in Nat \ {0}
           /\ Row(j, r) * j.particles * RecordCells <= SpotOf(j, r, k)
           /\ SpotOf(j, r, k) + CellsOf(j, k) <= (Row(j, r) + 1) * j.particles * RecordCells
           /\ SpotOf(j, r, k) + CellsOf(j, k) <= SizeOf(j) * j.particles * RecordCells
<1> DEFINE p == j.particles
           R == RecordCells
           x == Row(j, r)
           b == CellsBefore(k)
           c == Record[k]
<1>1. p \in Nat \ {0} /\ R \in Nat \ {0} /\ b \in Nat /\ c \in Nat \ {0} /\ b + c <= R
  BY VariablesApart DEF Shapes
<1>2. x \in Nat /\ x + 1 <= SizeOf(j) /\ SizeOf(j) \in Nat
  BY DEF Row, SizeOf, Ranked, Shapes
<1>3. SpotOf(j, r, k) = x * p * R + p * b /\ CellsOf(j, k) = p * c
  BY DEF SpotOf, CellsOf, Row
<1> HIDE DEF p, R, x, b, c
<1>4. x * p \in Nat /\ x * p * R \in Nat /\ p * b \in Nat /\ p * c \in Nat \ {0} /\ p * R \in Nat
  BY <1>1, <1>2
<1>5. p * b + p * c <= p * R
  <2>1. (b + c) * p <= R * p
    BY <1>1, Monotone
  <2>2. (b + c) * p = p * b + p * c /\ R * p = p * R
    BY <1>1
  <2> QED
    BY <2>1, <2>2
<1>6. (x + 1) * p * R = x * p * R + p * R
  BY <1>1, <1>2
<1>7. (x + 1) * p * R <= SizeOf(j) * p * R
  <2>1. (x + 1) * (p * R) <= SizeOf(j) * (p * R)
    BY <1>1, <1>2, <1>4, Monotone
  <2>2. (x + 1) * (p * R) = (x + 1) * p * R /\ SizeOf(j) * (p * R) = SizeOf(j) * p * R
    BY <1>1, <1>2
  <2> QED
    BY <2>1, <2>2
<1>8. SizeOf(j) * p * R \in Nat /\ (x + 1) * p * R \in Nat
  BY <1>1, <1>2
<1>9. x * p * R <= SpotOf(j, r, k) /\ SpotOf(j, r, k) \in Nat
  BY <1>3, <1>4
<1>10. SpotOf(j, r, k) + CellsOf(j, k) <= (x + 1) * p * R
  BY <1>3, <1>4, <1>5, <1>6
<1>11. SpotOf(j, r, k) + CellsOf(j, k) <= SizeOf(j) * p * R
  BY <1>3, <1>4, <1>7, <1>8, <1>10
<1>12. CellsOf(j, k) \in Nat \ {0}
  BY <1>3, <1>4
<1> QED
  BY <1>9, <1>10, <1>11, <1>12 DEF p, R, x

\* In one file no two variables of any ranks overlap.
LEMMA SpotsApart ==
    ASSUME NEW j \in Shapes, NEW r \in Ranked(j), NEW q \in Ranked(j), NEW k \in Arrays, NEW l \in Arrays,
           FileOf(j, r) = FileOf(j, q), r # q \/ k # l
    PROVE  \/ SpotOf(j, r, k) + CellsOf(j, k) <= SpotOf(j, q, l)
           \/ SpotOf(j, q, l) + CellsOf(j, l) <= SpotOf(j, r, k)
<1>1. \A s, t \in Ranked(j) : \A m, n \in Arrays : Row(j, s) < Row(j, t) =>
          SpotOf(j, s, m) + CellsOf(j, m) <= SpotOf(j, t, n)
  <2> SUFFICES ASSUME NEW s \in Ranked(j), NEW t \in Ranked(j), NEW m \in Arrays, NEW n \in Arrays,
                      Row(j, s) < Row(j, t)
               PROVE  SpotOf(j, s, m) + CellsOf(j, m) <= SpotOf(j, t, n)
    OBVIOUS
  <2> DEFINE p == j.particles
             R == RecordCells
             x == Row(j, s)
             y == Row(j, t)
  <2>1. SpotOf(j, s, m) + CellsOf(j, m) <= (x + 1) * p * R /\ y * p * R <= SpotOf(j, t, n)
    BY SpotInFile
  <2>2. SpotOf(j, s, m) \in Nat /\ CellsOf(j, m) \in Nat /\ SpotOf(j, t, n) \in Nat
    BY SpotInFile
  <2>3. p \in Nat /\ R \in Nat /\ x \in Nat /\ y \in Nat /\ x + 1 <= y
    BY VariablesApart DEF Shapes, Row, Ranked
  <2> HIDE DEF p, R, x, y
  <2>4. p * R \in Nat /\ (x + 1) * (p * R) = (x + 1) * p * R /\ y * (p * R) = y * p * R
    BY <2>3
  <2>5. (x + 1) * (p * R) <= y * (p * R)
    BY <2>3, <2>4, Monotone
  <2>6. (x + 1) * p * R \in Nat /\ y * p * R \in Nat
    BY <2>3
  <2> QED
    BY <2>1, <2>2, <2>4, <2>5, <2>6
<1>2. \A s \in Ranked(j) : \A m, n \in Arrays : m < n =>
          SpotOf(j, s, m) + CellsOf(j, m) <= SpotOf(j, s, n)
  <2> SUFFICES ASSUME NEW s \in Ranked(j), NEW m \in Arrays, NEW n \in Arrays, m < n
               PROVE  SpotOf(j, s, m) + CellsOf(j, m) <= SpotOf(j, s, n)
    OBVIOUS
  <2> DEFINE p == j.particles
             z == Row(j, s) * j.particles * RecordCells
             b == CellsBefore(m)
             c == Record[m]
             d == CellsBefore(n)
  <2>1. SpotOf(j, s, m) = z + p * b /\ CellsOf(j, m) = p * c /\ SpotOf(j, s, n) = z + p * d
    BY DEF SpotOf, CellsOf, Row
  <2>2. p \in Nat /\ b \in Nat /\ c \in Nat /\ d \in Nat /\ b + c <= d /\ z \in Nat
    BY VariablesApart DEF Shapes, Row, Ranked
  <2> HIDE DEF p, z, b, c, d
  <2>3. (b + c) * p <= d * p
    BY <2>2, Monotone
  <2>4. (b + c) * p = p * b + p * c /\ d * p = p * d
    BY <2>2
  <2>5. p * b \in Nat /\ p * c \in Nat /\ p * d \in Nat
    BY <2>2
  <2> QED
    BY <2>1, <2>2, <2>3, <2>4, <2>5
<1>3. r \in Nat /\ q \in Nat /\ k \in Nat /\ l \in Nat
  BY RecordIs DEF Ranked, Shapes
<1>4. CASE r # q
  <2>1. Row(j, r) = r /\ Row(j, q) = q
    BY <1>4 DEF FileOf, Row
  <2>2. r < q \/ q < r
    BY <1>3, <1>4
  <2> QED
    BY <1>1, <2>1, <2>2
<1>5. CASE r = q
  <2>1. k < l \/ l < k
    BY <1>3, <1>5
  <2> QED
    BY <1>2, <1>5, <2>1
<1> QED
  BY <1>4, <1>5

-----------------------------------------------------------------------------
(* The program of a rank                                                    *)

Labels == {"sums", "create", "truncate", "created", "opened", "scan", "write", "header",
           "written", "closed", "stats", "read header", "header read", "scatter",
           "restart opened", "compare", "read", "restart closed", "verify", "end", "done"}

LEMMA Joined ==
    ASSUME NEW a \in Seq(Labels), NEW b \in Seq(Labels), NEW m, NEW n, Len(a) = m, Len(b) = n
    PROVE  /\ a \o b \in Seq(Labels) /\ Len(a \o b) = m + n
           /\ \A i \in 1 .. m + n : (a \o b)[i] = IF i <= m THEN a[i] ELSE b[i - m]
<1>1. /\ a \o b \in Seq(Labels) /\ Len(a \o b) = Len(a) + Len(b)
      /\ \A i \in 1 .. Len(a) + Len(b) : (a \o b)[i] = IF i <= Len(a) THEN a[i] ELSE b[i - Len(a)]
  <2> HIDE DEF Labels
  <2> QED
    BY ConcatProperties, Zenon
<1> QED
  BY <1>1, Zenon

LEMMA WriteStepsAre ==
    /\ WriteSteps \in Seq(Labels) /\ Len(WriteSteps) = Vars + 10
    /\ WriteSteps[1] = "sums" /\ WriteSteps[2] = "create" /\ WriteSteps[3] = "truncate"
    /\ WriteSteps[4] = "created" /\ WriteSteps[5] = "opened" /\ WriteSteps[6] = "scan"
    /\ \A i \in 7 .. 6 + Vars : WriteSteps[i] = "write"
    /\ WriteSteps[7 + Vars] = "header" /\ WriteSteps[8 + Vars] = "written"
    /\ WriteSteps[9 + Vars] = "closed" /\ WriteSteps[10 + Vars] = "stats"
<1> DEFINE a == <<"sums", "create", "truncate", "created", "opened", "scan">>
           na == 6
           nc == 4
           b == [k \in Arrays |-> "write"]
           c == <<"header", "written", "closed", "stats">>
<1>1. a \in Seq(Labels) /\ c \in Seq(Labels) /\ Len(a) = 6 /\ Len(c) = 4
  BY DEF Labels
<1>2. b \in Seq(Labels) /\ Len(b) = Vars /\ \A i \in 1 .. Vars : b[i] = "write"
  BY RecordIs DEF Labels
<1>3. a[1] = "sums" /\ a[2] = "create" /\ a[3] = "truncate" /\ a[4] = "created"
      /\ a[5] = "opened" /\ a[6] = "scan"
  OBVIOUS
<1>4. c[1] = "header" /\ c[2] = "written" /\ c[3] = "closed" /\ c[4] = "stats"
  OBVIOUS
<1>5. WriteSteps = (a \o b) \o c
  BY DEF WriteSteps
<1>0. /\ a \in Seq(Labels) /\ b \in Seq(Labels) /\ c \in Seq(Labels)
      /\ Len(a) = na /\ Len(b) = Vars /\ Len(c) = nc
  BY <1>1, <1>2
<1> HIDE DEF a, b, c, na, nc
<1>6. /\ a \o b \in Seq(Labels) /\ Len(a \o b) = na + Vars
      /\ \A i \in 1 .. na + Vars : (a \o b)[i] = IF i <= na THEN a[i] ELSE b[i - na]
  BY <1>0, Joined
<1>7. /\ (a \o b) \o c \in Seq(Labels) /\ Len((a \o b) \o c) = na + Vars + nc
      /\ \A i \in 1 .. na + Vars + nc : ((a \o b) \o c)[i] =
             IF i <= na + Vars THEN (a \o b)[i] ELSE c[i - (na + Vars)]
  BY <1>0, <1>6, Joined
<1> DEFINE d == a \o b
<1>8. /\ WriteSteps \in Seq(Labels) /\ Len(WriteSteps) = Vars + 10
      /\ \A i \in 1 .. Vars + 10 : WriteSteps[i] = IF i <= 6 + Vars THEN d[i] ELSE c[i - (6 + Vars)]
      /\ \A i \in 1 .. 6 + Vars : d[i] = IF i <= 6 THEN a[i] ELSE b[i - 6]
  BY <1>5, <1>6, <1>7, RecordIs DEF na, nc
<1> HIDE DEF d
<1>9. \A i \in 1 .. 6 : WriteSteps[i] = a[i]
  BY <1>8, RecordIs
<1>10. \A i \in 7 .. 6 + Vars : WriteSteps[i] = "write"
  <2> SUFFICES ASSUME NEW i \in 7 .. 6 + Vars PROVE WriteSteps[i] = "write"
    OBVIOUS
  <2>1. i \in 1 .. Vars + 10 /\ i <= 6 + Vars /\ i \in 1 .. 6 + Vars /\ ~(i <= 6) /\ i - 6 \in 1 .. Vars
    BY RecordIs
  <2> QED
    BY <1>2, <1>8, <2>1
<1>11. \A i \in 1 .. 4 : WriteSteps[6 + Vars + i] = c[i]
  <2> SUFFICES ASSUME NEW i \in 1 .. 4 PROVE WriteSteps[6 + Vars + i] = c[i]
    OBVIOUS
  <2>1. 6 + Vars + i \in 1 .. Vars + 10 /\ ~(6 + Vars + i <= 6 + Vars) /\ (6 + Vars + i) - (6 + Vars) = i
    BY RecordIs
  <2> QED
    BY <1>8, <2>1
<1>12. /\ 6 + Vars + 1 = 7 + Vars /\ 6 + Vars + 2 = 8 + Vars
       /\ 6 + Vars + 3 = 9 + Vars /\ 6 + Vars + 4 = 10 + Vars
  BY RecordIs
<1> QED
  BY <1>3, <1>4, <1>8, <1>9, <1>10, <1>11, <1>12

LEMMA ReadStepsAre ==
    /\ ReadSteps \in Seq(Labels) /\ Len(ReadSteps) = Vars + 8
    /\ ReadSteps[1] = "read header" /\ ReadSteps[2] = "header read" /\ ReadSteps[3] = "scatter"
    /\ ReadSteps[4] = "restart opened" /\ ReadSteps[5] = "compare" /\ ReadSteps[6] = "scan"
    /\ \A i \in 7 .. 6 + Vars : ReadSteps[i] = "read"
    /\ ReadSteps[7 + Vars] = "restart closed" /\ ReadSteps[8 + Vars] = "stats"
<1> DEFINE a == <<"read header", "header read", "scatter", "restart opened", "compare", "scan">>
           na == 6
           nc == 2
           b == [k \in Arrays |-> "read"]
           c == <<"restart closed", "stats">>
<1>1. a \in Seq(Labels) /\ c \in Seq(Labels) /\ Len(a) = 6 /\ Len(c) = 2
  BY DEF Labels
<1>2. b \in Seq(Labels) /\ Len(b) = Vars /\ \A i \in 1 .. Vars : b[i] = "read"
  BY RecordIs DEF Labels
<1>3. a[1] = "read header" /\ a[2] = "header read" /\ a[3] = "scatter" /\ a[4] = "restart opened"
      /\ a[5] = "compare" /\ a[6] = "scan"
  OBVIOUS
<1>4. c[1] = "restart closed" /\ c[2] = "stats"
  OBVIOUS
<1>5. ReadSteps = (a \o b) \o c
  BY DEF ReadSteps
<1>0. /\ a \in Seq(Labels) /\ b \in Seq(Labels) /\ c \in Seq(Labels)
      /\ Len(a) = na /\ Len(b) = Vars /\ Len(c) = nc
  BY <1>1, <1>2
<1> HIDE DEF a, b, c, na, nc
<1>6. /\ a \o b \in Seq(Labels) /\ Len(a \o b) = na + Vars
      /\ \A i \in 1 .. na + Vars : (a \o b)[i] = IF i <= na THEN a[i] ELSE b[i - na]
  BY <1>0, Joined
<1>7. /\ (a \o b) \o c \in Seq(Labels) /\ Len((a \o b) \o c) = na + Vars + nc
      /\ \A i \in 1 .. na + Vars + nc : ((a \o b) \o c)[i] =
             IF i <= na + Vars THEN (a \o b)[i] ELSE c[i - (na + Vars)]
  BY <1>0, <1>6, Joined
<1> DEFINE d == a \o b
<1>8. /\ ReadSteps \in Seq(Labels) /\ Len(ReadSteps) = Vars + 8
      /\ \A i \in 1 .. Vars + 8 : ReadSteps[i] = IF i <= 6 + Vars THEN d[i] ELSE c[i - (6 + Vars)]
      /\ \A i \in 1 .. 6 + Vars : d[i] = IF i <= 6 THEN a[i] ELSE b[i - 6]
  BY <1>5, <1>6, <1>7, RecordIs DEF na, nc
<1> HIDE DEF d
<1>9. \A i \in 1 .. 6 : ReadSteps[i] = a[i]
  BY <1>8, RecordIs
<1>10. \A i \in 7 .. 6 + Vars : ReadSteps[i] = "read"
  <2> SUFFICES ASSUME NEW i \in 7 .. 6 + Vars PROVE ReadSteps[i] = "read"
    OBVIOUS
  <2>1. i \in 1 .. Vars + 8 /\ i <= 6 + Vars /\ i \in 1 .. 6 + Vars /\ ~(i <= 6) /\ i - 6 \in 1 .. Vars
    BY RecordIs
  <2> QED
    BY <1>2, <1>8, <2>1
<1>11. \A i \in 1 .. 2 : ReadSteps[6 + Vars + i] = c[i]
  <2> SUFFICES ASSUME NEW i \in 1 .. 2 PROVE ReadSteps[6 + Vars + i] = c[i]
    OBVIOUS
  <2>1. 6 + Vars + i \in 1 .. Vars + 8 /\ ~(6 + Vars + i <= 6 + Vars) /\ (6 + Vars + i) - (6 + Vars) = i
    BY RecordIs
  <2> QED
    BY <1>8, <2>1
<1>12. 6 + Vars + 1 = 7 + Vars /\ 6 + Vars + 2 = 8 + Vars
  BY RecordIs
<1>13. ReadSteps[7 + Vars] = "restart closed" /\ ReadSteps[8 + Vars] = "stats"
  <2>1. ReadSteps[6 + Vars + 1] = c[1] /\ ReadSteps[6 + Vars + 2] = c[2]
    BY <1>11
  <2> QED
    BY <1>4, <1>12, <2>1
<1>14. /\ ReadSteps[1] = "read header" /\ ReadSteps[2] = "header read" /\ ReadSteps[3] = "scatter"
       /\ ReadSteps[4] = "restart opened" /\ ReadSteps[5] = "compare" /\ ReadSteps[6] = "scan"
  <2>1. /\ ReadSteps[1] = a[1] /\ ReadSteps[2] = a[2] /\ ReadSteps[3] = a[3]
        /\ ReadSteps[4] = a[4] /\ ReadSteps[5] = a[5] /\ ReadSteps[6] = a[6]
    BY <1>9
  <2> QED
    BY <1>3, <2>1, Zenon
<1> QED
  BY <1>8, <1>10, <1>13, <1>14

LEMMA ProgramIs ==
    ASSUME job \in Shapes
    PROVE  /\ Len(Program) = Before + (IF Reads THEN Vars + 8 ELSE 0)
                             + (IF job.kind = "both" THEN 2 ELSE 0) + 1
           /\ DOMAIN Program = 1 .. Len(Program)
           /\ Writes => \A i \in 1 .. Vars + 10 : Program[i] = WriteSteps[i]
           /\ Reads => \A i \in 1 .. Vars + 8 : Program[Before + i] = ReadSteps[i]
           /\ job.kind = "both" => /\ Program[Before + Vars + 9] = "verify"
                                   /\ Program[Before + Vars + 10] = "end"
           /\ Program[Len(Program)] = "done"
<1> DEFINE a == IF job.kind = "read" THEN <<>> ELSE WriteSteps
           b == IF job.kind = "write" THEN <<>> ELSE ReadSteps
           c == IF job.kind = "both" THEN <<"verify", "end">> ELSE <<>>
           d == <<"done">>
           nb == IF Reads THEN Vars + 8 ELSE 0
           nc == IF job.kind = "both" THEN 2 ELSE 0
<1>1. a \in Seq(Labels) /\ Len(a) = Before /\ (Writes => a = WriteSteps)
  <2>1. CASE Writes
    BY <2>1, WriteStepsAre DEF Before, Writes
  <2>2. CASE ~Writes
    <3>1. a = <<>> /\ Before = 0
      BY <2>2 DEF Before, Writes
    <3> QED
      BY <2>2, <3>1, EmptySeq, Zenon
  <2> QED
    BY <2>1, <2>2
<1>2. b \in Seq(Labels) /\ Len(b) = nb /\ (Reads => b = ReadSteps)
  <2>1. CASE Reads
    BY <2>1, ReadStepsAre DEF Reads
  <2>2. CASE ~Reads
    <3>1. b = <<>> /\ nb = 0
      BY <2>2 DEF Reads
    <3> QED
      BY <2>2, <3>1, EmptySeq, Zenon
  <2> QED
    BY <2>1, <2>2
<1>3. c \in Seq(Labels) /\ Len(c) = nc /\ (job.kind = "both" => c[1] = "verify" /\ c[2] = "end")
  <2>1. CASE job.kind = "both"
    <3>1. c = <<"verify", "end">> /\ nc = 2
      BY <2>1
    <3> HIDE DEF c
    <3> QED
      BY <3>1 DEF Labels
  <2>2. CASE job.kind # "both"
    <3>1. c = <<>> /\ nc = 0
      BY <2>2
    <3> QED
      BY <2>2, <3>1, EmptySeq, Zenon
  <2> QED
    BY <2>1, <2>2
<1>4. d \in Seq(Labels) /\ Len(d) = 1 /\ d[1] = "done"
  BY DEF Labels
<1>5. Before \in Nat /\ nb \in Nat /\ nc \in Nat
  BY RecordIs DEF Before
<1>6. Program = ((a \o b) \o c) \o d
  BY DEF Program
<1>7. (Writes => Before = Vars + 10) /\ (Reads => nb = Vars + 8) /\ (job.kind = "both" => nc = 2)
  BY DEF Before, Writes
<1>8. job.kind = "both" => Reads
  BY DEF Reads
<1> HIDE DEF a, b, c, d, nb, nc
<1>9. /\ a \o b \in Seq(Labels) /\ Len(a \o b) = Before + nb
      /\ \A i \in 1 .. Before + nb : (a \o b)[i] = IF i <= Before THEN a[i] ELSE b[i - Before]
  BY <1>1, <1>2, Joined
<1> DEFINE ab == a \o b
<1>10. ab \in Seq(Labels) /\ Len(ab) = Before + nb
  BY <1>9
<1>11. \A i \in 1 .. Before + nb : ab[i] = IF i <= Before THEN a[i] ELSE b[i - Before]
  BY <1>9
<1>12. Program = (ab \o c) \o d
  BY <1>6
<1> HIDE DEF ab
<1>13. /\ ab \o c \in Seq(Labels) /\ Len(ab \o c) = Before + nb + nc
       /\ \A i \in 1 .. Before + nb + nc :
              (ab \o c)[i] = IF i <= Before + nb THEN ab[i] ELSE c[i - (Before + nb)]
  BY <1>3, <1>10, Joined
<1> DEFINE abc == ab \o c
<1>14. abc \in Seq(Labels) /\ Len(abc) = Before + nb + nc
  BY <1>13
<1>15. \A i \in 1 .. Before + nb + nc : abc[i] = IF i <= Before + nb THEN ab[i] ELSE c[i - (Before + nb)]
  BY <1>13
<1>16. Program = abc \o d
  BY <1>12
<1> HIDE DEF abc
<1>17. /\ Program \in Seq(Labels) /\ Len(Program) = Before + nb + nc + 1
       /\ \A i \in 1 .. Before + nb + nc + 1 :
              Program[i] = IF i <= Before + nb + nc THEN abc[i] ELSE d[i - (Before + nb + nc)]
  <2> DEFINE nd == 1
  <2>1. Len(d) = nd
    BY <1>4
  <2> HIDE DEF nd
  <2>2. /\ abc \o d \in Seq(Labels) /\ Len(abc \o d) = Before + nb + nc + nd
        /\ \A i \in 1 .. Before + nb + nc + nd :
               (abc \o d)[i] = IF i <= Before + nb + nc THEN abc[i] ELSE d[i - (Before + nb + nc)]
    BY <1>4, <1>14, <2>1, Joined
  <2> QED
    BY <1>16, <2>2, Zenon DEF nd
<1>18. Writes => \A i \in 1 .. Vars + 10 : Program[i] = WriteSteps[i]
  <2> SUFFICES ASSUME Writes, NEW i \in 1 .. Vars + 10 PROVE Program[i] = WriteSteps[i]
    OBVIOUS
  <2>1. /\ i \in 1 .. Before + nb + nc + 1 /\ i <= Before + nb + nc /\ i \in 1 .. Before + nb + nc
        /\ i <= Before + nb /\ i \in 1 .. Before + nb /\ i <= Before
    BY <1>5, <1>7
  <2> QED
    BY <1>1, <1>11, <1>15, <1>17, <2>1
<1>19. Reads => \A i \in 1 .. Vars + 8 : Program[Before + i] = ReadSteps[i]
  <2> SUFFICES ASSUME Reads, NEW i \in 1 .. Vars + 8 PROVE Program[Before + i] = ReadSteps[i]
    OBVIOUS
  <2> DEFINE x == Before + i
  <2>1. /\ x \in 1 .. Before + nb + nc + 1 /\ x <= Before + nb + nc /\ x \in 1 .. Before + nb + nc
        /\ x <= Before + nb /\ x \in 1 .. Before + nb /\ ~(x <= Before) /\ x - Before = i
    BY <1>5, <1>7, RecordIs
  <2> HIDE DEF x
  <2>2. Program[x] = ReadSteps[i]
    BY <1>2, <1>11, <1>15, <1>17, <2>1
  <2> QED
    BY <2>2 DEF x
<1>20. job.kind = "both" => /\ Program[Before + Vars + 9] = "verify"
                            /\ Program[Before + Vars + 10] = "end"
  <2> SUFFICES ASSUME job.kind = "both", NEW i \in 1 .. 2 PROVE Program[Before + Vars + 8 + i] = c[i]
    BY <1>3, <1>5, RecordIs
  <2> DEFINE x == Before + Vars + 8 + i
  <2>1. /\ x \in 1 .. Before + nb + nc + 1 /\ x <= Before + nb + nc /\ x \in 1 .. Before + nb + nc
        /\ ~(x <= Before + nb) /\ x - (Before + nb) = i
    BY <1>5, <1>7, <1>8, RecordIs
  <2> HIDE DEF x
  <2>2. Program[x] = c[i]
    BY <1>15, <1>17, <2>1
  <2> QED
    BY <2>2 DEF x
<1>21. Program[Len(Program)] = "done"
  <2>1. /\ Len(Program) \in 1 .. Before + nb + nc + 1 /\ ~(Len(Program) <= Before + nb + nc)
        /\ Len(Program) - (Before + nb + nc) = 1
    BY <1>5, <1>17
  <2> QED
    BY <1>4, <1>17, <2>1
<1>22. DOMAIN Program = 1 .. Len(Program)
  BY <1>17
<1>23. Len(Program) = Before + (IF Reads THEN Vars + 8 ELSE 0) + (IF job.kind = "both" THEN 2 ELSE 0) + 1
  BY <1>17 DEF nb, nc
<1> QED
  BY <1>18, <1>19, <1>20, <1>21, <1>22, <1>23

InWrite(i) ==
    \/ i = 1 /\ Program[i] = "sums"
    \/ i = 2 /\ Program[i] = "create"
    \/ i = 3 /\ Program[i] = "truncate"
    \/ i = 4 /\ Program[i] = "created"
    \/ i = 5 /\ Program[i] = "opened"
    \/ i = 6 /\ Program[i] = "scan"
    \/ i \in 7 .. 6 + Vars /\ Program[i] = "write"
    \/ i = 7 + Vars /\ Program[i] = "header"
    \/ i = 8 + Vars /\ Program[i] = "written"
    \/ i = 9 + Vars /\ Program[i] = "closed"
    \/ i = 10 + Vars /\ Program[i] = "stats"
InRead(i, m) ==
    \/ m = 1 /\ Program[i] = "read header"
    \/ m = 2 /\ Program[i] = "header read"
    \/ m = 3 /\ Program[i] = "scatter"
    \/ m = 4 /\ Program[i] = "restart opened"
    \/ m = 5 /\ Program[i] = "compare"
    \/ m = 6 /\ Program[i] = "scan"
    \/ m \in 7 .. 6 + Vars /\ Program[i] = "read"
    \/ m = 7 + Vars /\ Program[i] = "restart closed"
    \/ m = 8 + Vars /\ Program[i] = "stats"

LEMMA Located ==
    ASSUME job \in Shapes, NEW i \in 1 .. Len(Program)
    PROVE  \/ Writes /\ InWrite(i) /\ i <= Before
           \/ Reads /\ InRead(i, i - Before) /\ i > Before /\ i <= Before + Vars + 8
           \/ job.kind = "both" /\ i = Before + Vars + 9 /\ Program[i] = "verify"
           \/ job.kind = "both" /\ i = Before + Vars + 10 /\ Program[i] = "end"
           \/ i = Len(Program) /\ Program[i] = "done"
<1>1. Vars \in Nat \ {0} /\ Before \in Nat /\ (Writes => Before = Vars + 10) /\ (~Writes => Before = 0)
  BY RecordIs DEF Before, Writes
<1>2. CASE Writes /\ i <= Before
  <2>1. Program[i] = WriteSteps[i] /\ i \in 1 .. Vars + 10
    BY <1>1, <1>2, ProgramIs
  <2>2. \/ i = 1 \/ i = 2 \/ i = 3 \/ i = 4 \/ i = 5 \/ i = 6 \/ i \in 7 .. 6 + Vars
        \/ i = 7 + Vars \/ i = 8 + Vars \/ i = 9 + Vars \/ i = 10 + Vars
    BY <1>1, <2>1
  <2>3. CASE i \in 1 .. 6
    <3>1. WriteSteps[i] = Program[i] /\ (i = 1 \/ i = 2 \/ i = 3 \/ i = 4 \/ i = 5 \/ i = 6)
      BY <2>1, <2>3
    <3> QED
      BY <1>2, <3>1, WriteStepsAre, Zenon DEF InWrite
  <2>4. CASE ~(i \in 1 .. 6)
    <3>1. i \in 7 .. 6 + Vars \/ i = 7 + Vars \/ i = 8 + Vars \/ i = 9 + Vars \/ i = 10 + Vars
      BY <2>2, <2>4
    <3> QED
      BY <1>2, <2>1, <3>1, WriteStepsAre, Zenon DEF InWrite
  <2> QED
    BY <2>3, <2>4
<1>3. CASE Reads /\ i > Before /\ i <= Before + Vars + 8
  <2> DEFINE m == i - Before
  <2>1. m \in 1 .. Vars + 8 /\ i = Before + m
    BY <1>1, <1>3
  <2>2. Program[i] = ReadSteps[m]
    BY <1>3, <2>1, ProgramIs
  <2>3. \/ m = 1 \/ m = 2 \/ m = 3 \/ m = 4 \/ m = 5 \/ m = 6 \/ m \in 7 .. 6 + Vars
        \/ m = 7 + Vars \/ m = 8 + Vars
    BY <1>1, <2>1
  <2> HIDE DEF m
  <2>4. InRead(i, m)
    BY <2>2, <2>3, ReadStepsAre, Zenon DEF InRead
  <2> QED
    BY <1>3, <2>4 DEF m
<1>4. CASE ~(Writes /\ i <= Before) /\ ~(Reads /\ i > Before /\ i <= Before + Vars + 8)
  <2>1. /\ Len(Program) = Before + (IF Reads THEN Vars + 8 ELSE 0)
                             + (IF job.kind = "both" THEN 2 ELSE 0) + 1
        /\ (job.kind = "both" => Program[Before + Vars + 9] = "verify" /\ Program[Before + Vars + 10] = "end")
        /\ Program[Len(Program)] = "done"
    BY ProgramIs
  <2>2. i > Before
    BY <1>1, <1>4
  <2>3. job.kind = "both" => Reads
    BY DEF Reads
  <2>4. CASE job.kind = "both"
    <3>1. Len(Program) = Before + (Vars + 8) + 2 + 1
      BY <2>1, <2>3, <2>4
    <3>2. i > Before + Vars + 8
      BY <1>1, <1>4, <2>2, <2>3, <2>4
    <3>3. i = Before + Vars + 9 \/ i = Before + Vars + 10 \/ i = Len(Program)
      BY <1>1, <3>1, <3>2
    <3> QED
      BY <2>1, <2>4, <3>3
  <2>5. CASE job.kind # "both"
    <3>1. i = Len(Program)
      BY <1>1, <1>4, <2>1, <2>2, <2>5
    <3> QED
      BY <2>1, <3>1
  <2> QED
    BY <2>4, <2>5
<1> QED
  BY <1>1, <1>2, <1>3, <1>4

\* Where each step of the program is.
LEMMA Positions ==
    ASSUME job \in Shapes, NEW i \in 1 .. Len(Program)
    PROVE  /\ Program[i] = "sums" => Writes /\ i = 1
           /\ Program[i] = "create" => Writes /\ i = 2
           /\ Program[i] = "truncate" => Writes /\ i = 3
           /\ Program[i] = "created" => Writes /\ i = 4
           /\ Program[i] = "opened" => Writes /\ i = 5
           /\ Program[i] = "scan" => (Writes /\ i = 6) \/ (Reads /\ i = Before + 6)
           /\ Program[i] = "write" => Writes /\ i \in 7 .. 6 + Vars
           /\ Program[i] = "header" => Writes /\ i = 7 + Vars
           /\ Program[i] = "written" => Writes /\ i = 8 + Vars
           /\ Program[i] = "closed" => Writes /\ i = 9 + Vars
           /\ Program[i] = "stats" => (Writes /\ i = 10 + Vars) \/ (Reads /\ i = Before + 8 + Vars)
           /\ Program[i] = "read header" => Reads /\ i = Before + 1
           /\ Program[i] = "header read" => Reads /\ i = Before + 2
           /\ Program[i] = "scatter" => Reads /\ i = Before + 3
           /\ Program[i] = "restart opened" => Reads /\ i = Before + 4
           /\ Program[i] = "compare" => Reads /\ i = Before + 5
           /\ Program[i] = "read" => Reads /\ i \in Before + 7 .. Before + 6 + Vars
           /\ Program[i] = "restart closed" => Reads /\ i = Before + 7 + Vars
           /\ Program[i] = "verify" => job.kind = "both" /\ i = Before + 9 + Vars
           /\ Program[i] = "end" => job.kind = "both" /\ i = Before + 10 + Vars
           /\ Program[i] # "done" => i < Len(Program)
<1>1. Vars \in Nat /\ Before \in Nat
  BY RecordIs DEF Before
<1>2. CASE Writes /\ InWrite(i) /\ i <= Before
  <2>1. i < Len(Program)
    BY <1>1, <1>2, ProgramIs
  <2> QED
    BY <1>2, <2>1 DEF InWrite
<1>3. CASE Reads /\ InRead(i, i - Before) /\ i > Before /\ i <= Before + Vars + 8
  <2> DEFINE m == i - Before
  <2>1. i < Len(Program)
    BY <1>1, <1>3, ProgramIs
  <2>2. /\ \A n \in Int : m = n => i = Before + n
        /\ m \in 7 .. 6 + Vars => i \in Before + 7 .. Before + 6 + Vars
        /\ m = 7 + Vars => i = Before + 7 + Vars
        /\ m = 8 + Vars => i = Before + 8 + Vars
    BY <1>1
  <2>3. /\ m = 1 => i = Before + 1
        /\ m = 2 => i = Before + 2
        /\ m = 3 => i = Before + 3
        /\ m = 4 => i = Before + 4
        /\ m = 5 => i = Before + 5
        /\ m = 6 => i = Before + 6
    BY <1>1
  <2>4. InRead(i, m) /\ Reads
    BY <1>3
  <2> HIDE DEF m
  <2> QED
    BY <2>1, <2>2, <2>3, <2>4 DEF InRead
<1>4. CASE \/ job.kind = "both" /\ i = Before + Vars + 9 /\ Program[i] = "verify"
           \/ job.kind = "both" /\ i = Before + Vars + 10 /\ Program[i] = "end"
  <2>1. i < Len(Program)
    BY <1>1, <1>4, ProgramIs DEF Reads
  <2>2. Before + Vars + 9 = Before + 9 + Vars /\ Before + Vars + 10 = Before + 10 + Vars
    BY <1>1
  <2> QED
    BY <1>4, <2>1, <2>2
<1>5. CASE i = Len(Program) /\ Program[i] = "done"
  BY <1>5
<1> QED
  BY <1>2, <1>3, <1>4, <1>5, Located

LEMMA VarsFromAre ==
    ASSUME job \in Shapes
    PROVE  /\ Writes => VarsFrom("write") = 7
           /\ Reads => VarsFrom("read") = Before + 7
<1>1. Vars \in Nat \ {0} /\ Before \in Nat
  BY RecordIs DEF Before
<1>2. \A s, n : n \in DOMAIN Program /\ Program[n] = s /\ (\A i \in 1 .. n - 1 : Program[i] # s)
          => VarsFrom(s) = n
  <2> SUFFICES ASSUME NEW s, NEW n \in DOMAIN Program, Program[n] = s,
                      \A i \in 1 .. n - 1 : Program[i] # s
               PROVE  VarsFrom(s) = n
    OBVIOUS
  <2> DEFINE P(i) == i \in DOMAIN Program /\ Program[i] = s /\ \A j \in 1 .. i - 1 : Program[j] # s
  <2>1. \A i : P(i) => i = n
    <3> SUFFICES ASSUME NEW i, P(i) PROVE i = n
      OBVIOUS
    <3>1. i \in 1 .. Len(Program) /\ n \in 1 .. Len(Program)
      BY ProgramIs
    <3>2. Len(Program) \in Int
      BY <1>1, ProgramIs
    <3>3. ~(i < n) /\ ~(n < i)
      BY <3>1, <3>2
    <3> QED
      BY <3>1, <3>2, <3>3
  <2>2. P(n)
    OBVIOUS
  <2>3. VarsFrom(s) = CHOOSE i : P(i)
    BY Zenon DEF VarsFrom
  <2> HIDE DEF P
  <2> QED
    BY <2>1, <2>2, <2>3, Zenon
<1>3. Len(Program) \in Int /\ DOMAIN Program = 1 .. Len(Program)
  BY <1>1, ProgramIs
<1>4. ASSUME Writes PROVE VarsFrom("write") = 7
  <2>1. 7 \in DOMAIN Program
    BY <1>1, <1>3, <1>4, ProgramIs DEF Before, Writes
  <2>2. 7 \in 1 .. Vars + 10 /\ 7 \in 7 .. 6 + Vars
    BY <1>1
  <2>3. Program[7] = "write"
    BY <1>4, <2>2, ProgramIs, WriteStepsAre
  <2>4. \A i \in 1 .. 7 - 1 : Program[i] # "write"
    <3> SUFFICES ASSUME NEW i \in 1 .. 6 PROVE Program[i] # "write"
      OBVIOUS
    <3>1. i \in 1 .. Len(Program) /\ i \notin 7 .. 6 + Vars
      BY <1>1, <1>3, <2>1
    <3> QED
      BY <3>1, Positions
  <2> QED
    BY <1>2, <2>1, <2>3, <2>4
<1>5. ASSUME Reads PROVE VarsFrom("read") = Before + 7
  <2> DEFINE n == Before + 7
  <2>1. n \in DOMAIN Program
    BY <1>1, <1>3, <1>5, ProgramIs
  <2>2. 7 \in 1 .. Vars + 8 /\ 7 \in 7 .. 6 + Vars
    BY <1>1
  <2>3. Program[n] = "read"
    BY <1>5, <2>2, ProgramIs, ReadStepsAre
  <2>4. \A i \in 1 .. n - 1 : Program[i] # "read"
    <3> SUFFICES ASSUME NEW i \in 1 .. n - 1 PROVE Program[i] # "read"
      OBVIOUS
    <3>1. i \in 1 .. Len(Program) /\ i \notin Before + 7 .. Before + 6 + Vars
      BY <1>1, <1>3, <2>1
    <3> QED
      BY <3>1, Positions
  <2> QED
    BY <1>2, <2>1, <2>3, <2>4
<1> QED
  BY <1>4, <1>5

-----------------------------------------------------------------------------
(* What a step does                                                         *)

LEMMA JobsAre ==
    ASSUME TypeOK
    PROVE  /\ job \in Shapes /\ \A m \in 1 .. Len(plan) : plan[m] \in Shapes
           /\ DOMAIN plan = 1 .. Len(plan) /\ Len(plan) \in Nat /\ number \in DOMAIN plan
<1>1. plan \in Seq(Shapes)
  BY JobsAssumption DEF TypeOK, Shapes
<1>2. DOMAIN plan = 1 .. Len(plan) /\ \A m \in 1 .. Len(plan) : plan[m] \in Shapes
  BY <1>1, LenProperties, ElementOfSeq
<1>3. number \in 1 .. Len(plan) /\ Len(plan) \in Nat
  BY <1>1 DEF TypeOK
<1> QED
  BY <1>2, <1>3 DEF job

LEMMA RanksAre ==
    ASSUME job \in Shapes
    PROVE  /\ Ranks = Ranked(job) /\ SizeOf(job) = PartitionSize /\ PartitionSize \in Nat \ {0}
           /\ \A r \in Ranks : /\ r \in Nat /\ PartitionRank(r) = Row(job, r) /\ PartitionRank(r) \in Nat
                               /\ FileName(r) = FileOf(job, r) /\ Partition(r) \subseteq Ranks
                               /\ r \in Partition(r) /\ PartitionRank(r) < PartitionSize
           /\ 0 \in Ranks
  BY DEF Ranks, Ranked, SizeOf, PartitionSize, PartitionRank, Row, FileName, Partition, Shapes

LEMMA FilesOfJobs ==
    ASSUME TypeOK
    PROVE  /\ \A m \in 1 .. Len(plan) : \A r \in Ranked(plan[m]) : FileOf(plan[m], r) \in Names
           /\ \A r \in Ranks : FileName(r) \in Names
<1>1. \A m \in 1 .. Len(plan) : \A r \in Ranked(plan[m]) : FileOf(plan[m], r) \in Names
  BY JobsAre DEF Names, Ranked
<1>2. number \in 1 .. Len(plan) /\ job = plan[number]
  BY DEF TypeOK, job
<1> QED
  BY <1>1, <1>2, RanksAre, JobsAre

\* The ranks that have a file are a partition.
LEMMA Partners ==
    ASSUME job \in Shapes, NEW r \in Ranks
    PROVE  /\ \A q \in Ranks : q \in Partition(r) <=> FileName(q) = FileName(r)
           /\ \E q \in Partition(r) : IsRoot(q)
           /\ \A p, q \in Partition(r) : IsRoot(p) /\ IsRoot(q) => p = q
<1>1. CASE job.perRank
  BY <1>1, RanksAre DEF FileName, FileOf, Partition, IsRoot, PartitionRank
<1>2. CASE ~job.perRank
  BY <1>2, RanksAre DEF FileName, FileOf, Partition, IsRoot, PartitionRank
<1> QED
  BY <1>1, <1>2 DEF Shapes

Same == plan' = plan /\ number' = number
Moved(r) == status = "running" /\ status' = status /\ pc' = [pc EXCEPT ![r] = pc[r] + 1]

Aborts(r) ==
    /\ status = "running" /\ status' = "aborted"
    /\ UNCHANGED <<pc, base, count, memory, files, sound>>
    /\ \/ Reads /\ pc[r] = Before + 1 /\ IsRoot(r) /\ ~files[FileName(r)].exists
       \/ Reads /\ pc[r] = Before + 3 /\ RankWord(r) # r
       \/ Reads /\ pc[r] = Before + 5 /\ count[r] # job.particles
       \/ job.kind = "both" /\ pc[r] = Before + 9 + Vars /\ ~Matches(r)
\* A step that only waits, or does nothing on this rank.
Plain(r, i) ==
    /\ Writes => /\ i \notin 6 .. 6 + Vars /\ i \notin {9 + Vars, 10 + Vars}
                 /\ IsRoot(r) => i \notin {2, 3, 7 + Vars}
    /\ Reads => i \notin Before + 6 .. Before + 6 + Vars /\ i \notin {Before + 3, Before + 8 + Vars}
Passes(r) ==
    /\ Moved(r) /\ UNCHANGED <<base, count, memory, files, sound>>
    /\ Plain(r, pc[r])
    /\ Writes /\ pc[r] = 4 => Entered(r, Partition(r))
    /\ Reads /\ pc[r] = Before + 4 => Entered(r, Partition(r))
    /\ Reads /\ pc[r] = Before + 5 => count[r] = job.particles
Creates(r) ==
    /\ Moved(r) /\ Writes /\ pc[r] = 2 /\ IsRoot(r)
    /\ files' = [files EXCEPT ![FileName(r)].exists = TRUE]
    /\ sound' = [sound EXCEPT ![FileName(r)] = 0]
    /\ UNCHANGED <<base, count, memory>>
Truncates(r) ==
    /\ Moved(r) /\ Writes /\ pc[r] = 3 /\ IsRoot(r)
    /\ files' = [files EXCEPT ![FileName(r)].data = Resized(@, FileCells)]
    /\ UNCHANGED <<base, count, memory, sound>>
Scans(r) ==
    /\ Moved(r) /\ ((Writes /\ pc[r] = 6) \/ (Reads /\ pc[r] = Before + 6))
    /\ base' = [base EXCEPT ![r] = Exscan(r)]
    /\ UNCHANGED <<count, memory, files, sound>>
Puts(r) ==
    /\ Moved(r) /\ Writes /\ pc[r] \in 7 .. 6 + Vars
    /\ files' = [files EXCEPT ![FileName(r)].data = Written(r, count[r] * Record[Variable(r)])]
    /\ Step(r) = "write"
    /\ UNCHANGED <<base, count, memory, sound>>
Heads(r) ==
    /\ Moved(r) /\ Writes /\ pc[r] = 7 + Vars /\ IsRoot(r)
    /\ files' = [files EXCEPT ![FileName(r)].header =
                    [job |-> number, ranks |-> PartitionSize,
                     particles |-> job.particles, first |-> r]]
    /\ UNCHANGED <<base, count, memory, sound>>
Closes(r) ==
    /\ Moved(r) /\ Writes /\ pc[r] = 9 + Vars /\ Entered(r, Partition(r))
    /\ sound' = [sound EXCEPT ![FileName(r)] = number]
    /\ UNCHANGED <<base, count, memory, files>>
Resets(r) ==
    /\ Moved(r) /\ ((Writes /\ pc[r] = 10 + Vars) \/ (Reads /\ pc[r] = Before + 8 + Vars))
    /\ count' = [count EXCEPT ![r] = -1]
    /\ UNCHANGED <<base, memory, files, sound>>
Scatters(r) ==
    /\ Moved(r) /\ Reads /\ pc[r] = Before + 3 /\ RankWord(r) = r
    /\ count' = [count EXCEPT ![r] = CountWord(r)]
    /\ UNCHANGED <<base, memory, files, sound>>
Gets(r) ==
    /\ Moved(r) /\ Reads /\ pc[r] \in Before + 7 .. Before + 6 + Vars
    /\ memory' = [memory EXCEPT ![r] = Append(@, Fetch(r, Variable(r)))]
    /\ Step(r) = "read"
    /\ UNCHANGED <<base, count, files, sound>>

Effects(r) ==
    \/ Aborts(r) \/ Passes(r) \/ Creates(r) \/ Truncates(r) \/ Scans(r) \/ Puts(r)
    \/ Heads(r) \/ Closes(r) \/ Resets(r) \/ Scatters(r) \/ Gets(r)

LEMMA StepIs ==
    ASSUME TypeOK, NEW r \in Ranks, RankStep(r)
    PROVE  Same /\ Effects(r) /\ (pc[r] < Len(Program) \/ Aborts(r))
<1>1. job \in Shapes /\ pc[r] \in 1 .. Len(Program)
  BY JobsAre DEF TypeOK
<1>2. Vars \in Nat \ {0} /\ Before \in Nat /\ (Writes => Before = Vars + 10) /\ (~Writes => Before = 0)
      /\ (~Writes => Reads) /\ (job.kind = "both" => Reads)
  BY RecordIs DEF Before, Writes, Reads
<1> DEFINE i == pc[r]
<1>0. /\ Step(r) = "sums" => Writes /\ i = 1
      /\ Step(r) = "create" => Writes /\ i = 2
      /\ Step(r) = "truncate" => Writes /\ i = 3
      /\ Step(r) = "created" => Writes /\ i = 4
      /\ Step(r) = "opened" => Writes /\ i = 5
      /\ Step(r) = "scan" => (Writes /\ i = 6) \/ (Reads /\ i = Before + 6)
      /\ Step(r) = "write" => Writes /\ i \in 7 .. 6 + Vars
      /\ Step(r) = "header" => Writes /\ i = 7 + Vars
      /\ Step(r) = "written" => Writes /\ i = 8 + Vars
      /\ Step(r) = "closed" => Writes /\ i = 9 + Vars
      /\ Step(r) = "stats" => (Writes /\ i = 10 + Vars) \/ (Reads /\ i = Before + 8 + Vars)
      /\ Step(r) = "read header" => Reads /\ i = Before + 1
      /\ Step(r) = "header read" => Reads /\ i = Before + 2
      /\ Step(r) = "scatter" => Reads /\ i = Before + 3
      /\ Step(r) = "restart opened" => Reads /\ i = Before + 4
      /\ Step(r) = "compare" => Reads /\ i = Before + 5
      /\ Step(r) = "read" => Reads /\ i \in Before + 7 .. Before + 6 + Vars
      /\ Step(r) = "restart closed" => Reads /\ i = Before + 7 + Vars
      /\ Step(r) = "verify" => job.kind = "both" /\ i = Before + 9 + Vars
      /\ Step(r) = "end" => job.kind = "both" /\ i = Before + 10 + Vars
      /\ Step(r) # "done" => i < Len(Program)
  BY <1>1, Positions DEF Step
<1>1a. /\ Writes /\ i = 4 => Step(r) = "created"
       /\ Reads /\ i = Before + 4 => Step(r) = "restart opened"
       /\ Reads /\ i = Before + 5 => Step(r) = "compare"
  <2>1. /\ Writes => Program[4] = "created"
        /\ Reads => Program[Before + 4] = "restart opened" /\ Program[Before + 5] = "compare"
    <3>1. 4 \in 1 .. Vars + 10 /\ 4 \in 1 .. Vars + 8 /\ 5 \in 1 .. Vars + 8
      BY <1>2
    <3> QED
      BY <1>1, <3>1, ProgramIs, WriteStepsAre, ReadStepsAre
  <2> QED
    BY <2>1 DEF Step
<1>1b. ASSUME Reads, NEW n \in Nat, i = Before + n, n > 0, n \notin {3, 8 + Vars}, n \notin 6 .. 6 + Vars
       PROVE  Plain(r, i)
  BY <1>1b, <1>2 DEF Plain
<1>1c. ASSUME Writes, i \in {1, 4, 5, 8 + Vars} PROVE Plain(r, i)
  BY <1>1c, <1>2 DEF Plain
<1>1d. ASSUME Writes, ~IsRoot(r), i \in {2, 3, 7 + Vars} PROVE Plain(r, i)
  BY <1>1d, <1>2 DEF Plain
<1>1e. Step(r) \in {"sums", "created", "opened", "written"} => Plain(r, i)
  BY <1>0, <1>1c
<1>1f. Step(r) \in {"create", "truncate", "header"} /\ ~IsRoot(r) => Plain(r, i)
  BY <1>0, <1>1d
<1>1g. Step(r) \in {"header read", "restart opened", "read header", "compare"} => Plain(r, i)
  <2>1. ASSUME NEW n \in {1, 2, 4, 5}, Reads, i = Before + n PROVE Plain(r, i)
    BY <1>2, <1>1b, <2>1
  <2> QED
    BY <1>0, <2>1
<1>1h. Step(r) \in {"restart closed", "end", "verify"} => Plain(r, i)
  <2>1. ASSUME NEW n \in {7, 9, 10}, Reads, i = Before + n + Vars PROVE Plain(r, i)
    <3>1. n + Vars \in Nat /\ i = Before + (n + Vars) /\ n + Vars > 0
          /\ n + Vars \notin {3, 8 + Vars} /\ n + Vars \notin 6 .. 6 + Vars
      BY <1>2, <2>1
    <3> QED
      BY <1>1b, <2>1, <3>1
  <2> QED
    BY <1>0, <1>2, <2>1
<1> USE DEF At, Go, local, fixed
<1>3. ASSUME Sums(r) PROVE Same /\ Passes(r) /\ Step(r) # "done"
  BY <1>1a, <1>1e, <1>3 DEF Sums, Pass, Same, Passes, Moved
<1>4. ASSUME Created(r) PROVE Same /\ Passes(r) /\ Step(r) # "done"
  BY <1>1a, <1>1e, <1>4 DEF Created, Pass, Same, Passes, Moved
<1>5. ASSUME Opened(r) PROVE Same /\ Passes(r) /\ Step(r) # "done"
  BY <1>1a, <1>1e, <1>5 DEF Opened, Pass, Same, Passes, Moved
<1>6. ASSUME HeaderWritten(r) PROVE Same /\ Passes(r) /\ Step(r) # "done"
  BY <1>1a, <1>1e, <1>6 DEF HeaderWritten, Pass, Same, Passes, Moved
<1>7. ASSUME HeaderRead(r) PROVE Same /\ Passes(r) /\ Step(r) # "done"
  BY <1>1a, <1>1g, <1>7 DEF HeaderRead, Pass, Same, Passes, Moved
<1>8. ASSUME RestartOpened(r) PROVE Same /\ Passes(r) /\ Step(r) # "done"
  BY <1>1a, <1>1g, <1>8 DEF RestartOpened, Pass, Same, Passes, Moved
<1>9. ASSUME RestartClosed(r) PROVE Same /\ Passes(r) /\ Step(r) # "done"
  BY <1>1a, <1>1h, <1>9 DEF RestartClosed, Pass, Same, Passes, Moved
<1>10. ASSUME End(r) PROVE Same /\ Passes(r) /\ Step(r) # "done"
  BY <1>1a, <1>1h, <1>10 DEF End, Pass, Same, Passes, Moved
<1>11. ASSUME Create(r) PROVE Same /\ (Passes(r) \/ Creates(r)) /\ Step(r) # "done"
  BY <1>0, <1>1a, <1>1f, <1>11 DEF Create, Same, Passes, Creates, Moved
<1>12. ASSUME Truncate(r) PROVE Same /\ (Passes(r) \/ Truncates(r)) /\ Step(r) # "done"
  BY <1>0, <1>1a, <1>1f, <1>12 DEF Truncate, Same, Passes, Truncates, Moved
<1>13. ASSUME Scan(r) PROVE Same /\ Scans(r) /\ Step(r) # "done"
  BY <1>0, <1>13 DEF Scan, Same, Scans, Moved
<1>14. ASSUME WriteVar(r) PROVE Same /\ Puts(r) /\ Step(r) # "done"
  BY <1>0, <1>14 DEF WriteVar, Same, Puts, Moved
<1>15. ASSUME WriteHeader(r) PROVE Same /\ (Passes(r) \/ Heads(r)) /\ Step(r) # "done"
  BY <1>0, <1>1a, <1>1f, <1>15 DEF WriteHeader, Same, Passes, Heads, Moved
<1>16. ASSUME Closed(r) PROVE Same /\ Closes(r) /\ Step(r) # "done"
  BY <1>0, <1>16 DEF Closed, Pass, Waiters, Same, Closes, Moved
<1>17. ASSUME Stats(r) PROVE Same /\ Resets(r) /\ Step(r) # "done"
  BY <1>0, <1>17 DEF Stats, Same, Resets, Moved
<1>18. ASSUME ReadHeader(r) PROVE Same /\ (Aborts(r) \/ (Passes(r) /\ Step(r) # "done"))
  BY <1>0, <1>1a, <1>1g, <1>18 DEF ReadHeader, Abort, Same, Aborts, Passes, Moved
<1>19. ASSUME Scatter(r) PROVE Same /\ (Aborts(r) \/ (Scatters(r) /\ Step(r) # "done"))
  BY <1>0, <1>2, <1>19 DEF Scatter, Abort, Same, Aborts, Scatters, Moved
<1>20. ASSUME CompareCounts(r) PROVE Same /\ (Aborts(r) \/ (Passes(r) /\ Step(r) # "done"))
  BY <1>0, <1>1a, <1>1g, <1>20 DEF CompareCounts, Abort, Same, Aborts, Passes, Moved
<1>21. ASSUME ReadVar(r) PROVE Same /\ Gets(r) /\ Step(r) # "done"
  BY <1>0, <1>21 DEF ReadVar, Same, Gets, Moved
<1>22. ASSUME Verify(r) PROVE Same /\ (Aborts(r) \/ (Passes(r) /\ Step(r) # "done"))
  BY <1>0, <1>1a, <1>1h, <1>22 DEF Verify, Abort, Same, Aborts, Passes, Moved
<1> HIDE DEF i
<1>23. Same /\ Effects(r) /\ (Step(r) # "done" \/ Aborts(r))
  BY <1>3, <1>4, <1>5, <1>6, <1>7, <1>8, <1>9, <1>10, <1>11, <1>12, <1>13, <1>14, <1>15, <1>16,
     <1>17, <1>18, <1>19, <1>20, <1>21, <1>22 DEF RankStep, Effects
<1> QED
  BY <1>0, <1>23 DEF i

LEMMA Still ==
    ASSUME Same
    PROVE  /\ job' = job /\ Ranks' = Ranks /\ Program' = Program /\ Names' = Names
           /\ Before' = Before /\ Writes' = Writes /\ Reads' = Reads /\ SameShapes' = SameShapes
           /\ PartitionSize' = PartitionSize /\ FileCells' = FileCells
           /\ \A r : /\ Partition(r)' = Partition(r) /\ PartitionRank(r)' = PartitionRank(r)
                     /\ IsRoot(r)' = IsRoot(r) /\ FileName(r)' = FileName(r)
<1>1. job' = job
  BY DEF Same, job
<1>2. Ranks' = Ranks /\ PartitionSize' = PartitionSize
  BY <1>1 DEF Ranks, PartitionSize
<1>3. Before' = Before /\ Writes' = Writes /\ Reads' = Reads
  BY <1>1 DEF Before, Writes, Reads
<1>4. Program' = Program
  BY <1>1, Zenon DEF Program
<1>5. Names' = Names
  BY DEF Names, Same, FileOf
<1>6. SameShapes' = SameShapes
  BY DEF SameShapes, Same
<1>7. FileCells' = FileCells
  BY <1>1, <1>2, Zenon DEF FileCells
<1>8. ASSUME NEW r PROVE /\ Partition(r)' = Partition(r) /\ PartitionRank(r)' = PartitionRank(r)
                         /\ FileName(r)' = FileName(r)
  BY <1>1, <1>2 DEF Partition, PartitionRank, FileName
<1>9. ASSUME NEW r PROVE IsRoot(r)' = IsRoot(r)
  BY <1>8 DEF IsRoot
<1> QED
  BY <1>1, <1>2, <1>3, <1>4, <1>5, <1>6, <1>7, <1>8, <1>9

-----------------------------------------------------------------------------
(* What the calls make of a file                                            *)

LEMMA ResizedIs ==
    ASSUME NEW data \in Seq(Cells), NEW n \in Nat
    PROVE  /\ Resized(data, n) \in Seq(Cells) /\ Len(Resized(data, n)) = n
           /\ \A c \in 1 .. n : Resized(data, n)[c] = IF c <= Len(data) THEN data[c] ELSE Hole
<1>1. Hole \in Cells
  BY DEF Hole, Value, Cells
<1>2. \A c \in 1 .. n : (IF c <= Len(data) THEN data[c] ELSE Hole) \in Cells
  <2> HIDE DEF Cells
  <2> QED
    BY <1>1, ElementOfSeq, LenProperties
<1> QED
  BY <1>2 DEF Resized

Put(data, from, n, m, r, k) ==
    [c \in 1 .. (IF from + n > Len(data) THEN from + n ELSE Len(data)) |->
        IF c - 1 \in from .. from + n - 1 THEN Value(m, r, k, c - 1 - from)
        ELSE IF c <= Len(data) THEN data[c] ELSE Hole]

\* What D holds when it is data with the n cells of an array put at from.
IsPut(D, data, from, n, m, r, k) ==
    /\ Len(D) = IF from + n > Len(data) THEN from + n ELSE Len(data)
    /\ \A c \in 1 .. Len(D) : D[c] =
           IF c - 1 \in from .. from + n - 1 THEN Value(m, r, k, c - 1 - from)
           ELSE IF c <= Len(data) THEN data[c] ELSE Hole

LEMMA PutIs ==
    ASSUME NEW data \in Seq(Cells), NEW from \in Nat, NEW n \in Nat,
           NEW m \in Nat, NEW r \in Nat, NEW k \in Nat
    PROVE  /\ Put(data, from, n, m, r, k) \in Seq(Cells)
           /\ IsPut(Put(data, from, n, m, r, k), data, from, n, m, r, k)
<1> DEFINE last == IF from + n > Len(data) THEN from + n ELSE Len(data)
           e(c) == IF c - 1 \in from .. from + n - 1 THEN Value(m, r, k, c - 1 - from)
                   ELSE IF c <= Len(data) THEN data[c] ELSE Hole
<1>1. Len(data) \in Nat /\ last \in Nat
  BY LenProperties
<1>2. \A c \in 1 .. last : e(c) \in Cells
  <2> SUFFICES ASSUME NEW c \in 1 .. last PROVE e(c) \in Cells
    OBVIOUS
  <2>1. c - 1 \in from .. from + n - 1 => Value(m, r, k, c - 1 - from) \in Cells
    BY <1>1 DEF Value, Cells
  <2>2. Hole \in Cells
    BY DEF Hole, Value, Cells
  <2>3. c <= Len(data) => data[c] \in Cells
    <3> HIDE DEF Cells
    <3> QED
      BY <1>1, ElementOfSeq
  <2> QED
    BY <2>1, <2>2, <2>3
<1>3. Put(data, from, n, m, r, k) = [c \in 1 .. last |-> e(c)]
  BY DEF Put
<1> HIDE DEF e, last
<1>4. [c \in 1 .. last |-> e(c)] \in Seq(Cells) /\ Len([c \in 1 .. last |-> e(c)]) = last
      /\ \A c \in 1 .. last : [x \in 1 .. last |-> e(x)][c] = e(c)
  <2> HIDE DEF Cells
  <2> QED
    BY <1>1, <1>2
<1>5. Put(data, from, n, m, r, k) \in Seq(Cells) /\ Len(Put(data, from, n, m, r, k)) = last
      /\ \A c \in 1 .. last : Put(data, from, n, m, r, k)[c] = e(c)
  BY <1>3, <1>4, Zenon
<1> QED
  BY <1>5 DEF e, last, IsPut

FileData(r) == files[FileName(r)].data

LEMMA WritingIs ==
    ASSUME TypeOK, Counts, Bases, NEW r \in Ranks, Writes, pc[r] \in 7 .. 6 + Vars, Step(r) = "write"
    PROVE  /\ Variable(r) = pc[r] - 6 /\ Variable(r) \in Arrays
           /\ count[r] * Record[Variable(r)] = CellsOf(job, Variable(r))
           /\ \A n : Written(r, n) =
                 Put(FileData(r), SpotOf(job, r, Variable(r)), n, number, r, Variable(r))
<1>1. job \in Shapes /\ pc[r] \in Nat /\ r \in Nat
  BY JobsAre, RanksAre
<1>2. Variable(r) = pc[r] - 6
  <2>1. VarsFrom(Step(r)) = 7
    BY <1>1, VarsFromAre
  <2> QED
    BY <1>1, <2>1 DEF Variable
<1>3. Variable(r) \in Arrays
  BY <1>2, RecordIs
<1>4. count[r] = job.particles /\ base[r] = PartitionRank(r) * job.particles
  BY <1>1, RecordIs DEF Counts, Bases
<1>5. PlaceOf(r, Variable(r), count[r]) = SpotOf(job, r, Variable(r))
  BY <1>4, Zenon DEF PlaceOf, SpotOf, PartitionRank
<1>6. ASSUME NEW n
      PROVE  Written(r, n) = Put(FileData(r), SpotOf(job, r, Variable(r)), n, number, r, Variable(r))
  BY <1>5, Zenon DEF Written, Put, FileData
<1>7. count[r] * Record[Variable(r)] = CellsOf(job, Variable(r))
  BY <1>4 DEF CellsOf
<1> QED
  BY <1>2, <1>3, <1>6, <1>7

LEMMA ReadingIs ==
    ASSUME TypeOK, Counts, Bases, NEW r \in Ranks, Reads, pc[r] \in Before + 7 .. Before + 6 + Vars,
           Step(r) = "read"
    PROVE  /\ Variable(r) = pc[r] - (Before + 6) /\ Variable(r) \in Arrays
           /\ Fetch(r, Variable(r)) = Fetched(r, Variable(r))
<1>1. job \in Shapes /\ Before \in Nat /\ pc[r] \in Nat
  BY JobsAre, RecordIs DEF Before
<1>2. Variable(r) = pc[r] - (Before + 6)
  <2>1. VarsFrom(Step(r)) = Before + 7
    BY <1>1, VarsFromAre
  <2> QED
    BY <1>1, <2>1 DEF Variable
<1>3. Variable(r) \in Arrays
  BY <1>1, <1>2, RecordIs
<1>4. count[r] = job.particles /\ base[r] = PartitionRank(r) * job.particles
  BY <1>1, RecordIs DEF Counts, Bases
<1>5. PlaceOf(r, Variable(r), count[r]) = SpotOf(job, r, Variable(r))
  BY <1>4, Zenon DEF PlaceOf, SpotOf, PartitionRank
<1>6. Fetch(r, Variable(r)) = Fetched(r, Variable(r))
  BY <1>4, <1>5, Zenon DEF Fetch, Fetched, CellsOf
<1> QED
  BY <1>2, <1>3, <1>6

-----------------------------------------------------------------------------
(* Types, barriers, numbers                                                 *)

FileType == [exists : BOOLEAN, header : Headers, data : Seq(Cells)]

LEMMA DataSet ==
    ASSUME files \in [Names -> FileType], NEW f \in Names, NEW D \in Seq(Cells)
    PROVE  /\ [files EXCEPT ![f].data = D] \in [Names -> FileType]
           /\ [files EXCEPT ![f].data = D][f] = [exists |-> files[f].exists, header |-> files[f].header, data |-> D]
           /\ \A h \in Names \ {f} : [files EXCEPT ![f].data = D][h] = files[h]
<1> DEFINE S == Seq(Cells)
           x == files[f]
           y == [exists |-> x.exists, header |-> x.header, data |-> D]
<1>1. x \in [exists : BOOLEAN, header : Headers, data : S]
  BY DEF FileType
<1>2. y \in FileType
  <2>1. FileType = [exists : BOOLEAN, header : Headers, data : S]
    BY DEF FileType
  <2> HIDE DEF S, x
  <2> QED
    BY <1>1, <2>1 DEF S
<1>3. [x EXCEPT !.data = D] = y
  <2> HIDE DEF S, x
  <2> QED
    BY <1>1
<1>4. [files EXCEPT ![f].data = D] = [h \in Names |-> IF h = f THEN [x EXCEPT !.data = D] ELSE files[h]]
  <2> HIDE DEF FileType
  <2> QED
    OBVIOUS
<1>5. [files EXCEPT ![f].data = D] = [h \in Names |-> IF h = f THEN y ELSE files[h]]
  BY <1>3, <1>4
<1> HIDE DEF y, FileType
<1>6. y = [exists |-> files[f].exists, header |-> files[f].header, data |-> D]
  BY DEF y
<1> QED
  BY <1>2, <1>5, <1>6

LEMMA HeaderSet ==
    ASSUME files \in [Names -> FileType], NEW f \in Names, NEW H \in Headers
    PROVE  /\ [files EXCEPT ![f].header = H] \in [Names -> FileType]
           /\ [files EXCEPT ![f].header = H][f] = [exists |-> files[f].exists, header |-> H, data |-> files[f].data]
           /\ \A h \in Names \ {f} : [files EXCEPT ![f].header = H][h] = files[h]
<1> DEFINE S == Seq(Cells)
           x == files[f]
           y == [exists |-> x.exists, header |-> H, data |-> x.data]
<1>1. x \in [exists : BOOLEAN, header : Headers, data : S]
  BY DEF FileType
<1>2. y \in FileType
  <2>1. FileType = [exists : BOOLEAN, header : Headers, data : S]
    BY DEF FileType
  <2> HIDE DEF S, x
  <2> QED
    BY <1>1, <2>1 DEF S
<1>3. [x EXCEPT !.header = H] = y
  <2> HIDE DEF S, x
  <2> QED
    BY <1>1
<1>4. [files EXCEPT ![f].header = H] = [h \in Names |-> IF h = f THEN [x EXCEPT !.header = H] ELSE files[h]]
  <2> HIDE DEF FileType
  <2> QED
    OBVIOUS
<1>5. [files EXCEPT ![f].header = H] = [h \in Names |-> IF h = f THEN y ELSE files[h]]
  BY <1>3, <1>4
<1> HIDE DEF y, FileType
<1>6. y = [exists |-> files[f].exists, header |-> H, data |-> files[f].data]
  BY DEF y
<1> QED
  BY <1>2, <1>5, <1>6

LEMMA ExistsSet ==
    ASSUME files \in [Names -> FileType], NEW f \in Names
    PROVE  /\ [files EXCEPT ![f].exists = TRUE] \in [Names -> FileType]
           /\ [files EXCEPT ![f].exists = TRUE][f] = [exists |-> TRUE, header |-> files[f].header, data |-> files[f].data]
           /\ \A h \in Names \ {f} : [files EXCEPT ![f].exists = TRUE][h] = files[h]
<1> DEFINE S == Seq(Cells)
           x == files[f]
           y == [exists |-> TRUE, header |-> x.header, data |-> x.data]
<1>1. x \in [exists : BOOLEAN, header : Headers, data : S]
  BY DEF FileType
<1>2. y \in FileType
  <2>1. FileType = [exists : BOOLEAN, header : Headers, data : S]
    BY DEF FileType
  <2> HIDE DEF S, x
  <2> QED
    BY <1>1, <2>1 DEF S
<1>3. [x EXCEPT !.exists = TRUE] = y
  <2> DEFINE e == TRUE
  <2> HIDE DEF S, x, e
  <2>1. [x EXCEPT !.exists = e] = [exists |-> e, header |-> x.header, data |-> x.data]
    BY <1>1
  <2> QED
    BY <2>1 DEF e
<1>4. [files EXCEPT ![f].exists = TRUE] = [h \in Names |-> IF h = f THEN [x EXCEPT !.exists = TRUE] ELSE files[h]]
  <2> HIDE DEF FileType
  <2> QED
    OBVIOUS
<1>5. [files EXCEPT ![f].exists = TRUE] = [h \in Names |-> IF h = f THEN y ELSE files[h]]
  BY <1>3, <1>4
<1> HIDE DEF y, FileType
<1>6. y = [exists |-> TRUE, header |-> files[f].header, data |-> files[f].data]
  BY DEF y
<1> QED
  BY <1>2, <1>5, <1>6

LEMMA MoveIs ==
    ASSUME TypeOK, NEW r \in Ranks, Moved(r)
    PROVE  /\ pc[r] \in Nat /\ pc'[r] = pc[r] + 1
           /\ \A q \in Ranks : pc[q] \in Nat /\ pc'[q] \in Nat /\ pc'[q] >= pc[q] /\ (q # r => pc'[q] = pc[q])
           /\ pc[r] < Len(Program) => pc' \in [Ranks -> 1 .. Len(Program)]
<1>1. pc \in [Ranks -> 1 .. Len(Program)]
  BY DEF TypeOK
<1>2. Len(Program) \in Nat
  <2>1. Vars \in Nat /\ Before \in Nat
    BY RecordIs DEF Before
  <2> QED
    BY <2>1, JobsAre, ProgramIs
<1> QED
  BY <1>1, <1>2 DEF Moved

LEMMA WordsAre ==
    ASSUME TypeOK, NEW r \in Ranks
    PROVE  /\ Header(r) \in Headers
           /\ CountWord(r) \in Int /\ RankWord(r) \in Int
<1>1. Header(r) \in Headers
  BY FilesOfJobs DEF TypeOK, Header
<1>2. \A i \in Int : HeaderWord(Header(r), i) \in Int
  BY <1>1, HeaderAssumption DEF HeaderWord, Headers
<1>3. PartitionRank(r) \in Int /\ PartitionSize \in Int /\ MetaWords \in Int
  BY JobsAre, RanksAre, HeaderAssumption
<1> QED
  BY <1>1, <1>2, <1>3 DEF CountWord, RankWord

LEMMA ExscanIs ==
    ASSUME job \in Shapes, NEW r \in Ranks, count[r] = job.particles
    PROVE  Exscan(r) = PartitionRank(r) * job.particles /\ Exscan(r) \in Nat
<1>1. Cardinality(Below(r)) = PartitionRank(r)
  <2>1. CASE job.perRank
    <3>1. Below(r) = {}
      BY <2>1, RanksAre DEF Below, Partition
    <3> QED
      BY <2>1, <3>1, FS_EmptySet DEF PartitionRank
  <2>2. CASE ~job.perRank
    <3>1. r \in Nat /\ Below(r) = 0 .. r - 1
      BY <2>2 DEF Below, Partition, Ranks, Shapes
    <3>2. 0 \in Int /\ r - 1 \in Int
      BY <3>1
    <3>3. Cardinality(0 .. r - 1) = IF 0 > r - 1 THEN 0 ELSE (r - 1) - 0 + 1
      BY <3>2, FS_Interval
    <3>4. Cardinality(0 .. r - 1) = r
      BY <3>1, <3>3
    <3> QED
      BY <2>2, <3>1, <3>4 DEF PartitionRank
  <2> QED
    BY <2>1, <2>2 DEF Shapes
<1>2. PartitionRank(r) \in Nat /\ job.particles \in Nat
  BY RanksAre DEF Shapes
<1> QED
  BY <1>1, <1>2 DEF Exscan

LEMMA TypeStep ==
    ASSUME TypeOK, Counts, Bases, NEW r \in Ranks, RankStep(r)
    PROVE  TypeOK'
<1>1. Same /\ Effects(r) /\ (pc[r] < Len(Program) \/ Aborts(r))
  BY StepIs
<1>2. job \in Shapes /\ FileName(r) \in Names /\ r \in Nat
  BY JobsAre, RanksAre, FilesOfJobs
<1>3. /\ files \in [Names -> FileType] /\ sound \in [Names -> 0 .. number]
      /\ number \in Nat /\ number \in 1 .. Len(plan) /\ plan \in Plans
      /\ base \in [Ranks -> Nat] /\ count \in [Ranks -> Int] /\ DOMAIN memory = Ranks
      /\ pc \in [Ranks -> 1 .. Len(Program)] /\ status \in {"running", "ended", "killed", "aborted"}
  BY JobsAre DEF TypeOK, FileType
<1>4. files[FileName(r)].data \in Seq(Cells) /\ files[FileName(r)].header \in Headers
  BY <1>2, <1>3 DEF FileType
<1>3a. sound \in [Names -> 0 .. number] /\ 0 \in 0 .. number /\ number \in 0 .. number
  BY <1>3
<1>5. SUFFICES /\ plan' \in Plans /\ number' \in 1 .. Len(plan')
               /\ status' \in {"running", "ended", "killed", "aborted"}
               /\ pc' \in [Ranks -> 1 .. Len(Program)]
               /\ base' \in [Ranks -> Nat] /\ count' \in [Ranks -> Int]
               /\ DOMAIN memory' = Ranks
               /\ files' \in [Names -> FileType]
               /\ sound' \in [Names -> 0 .. number]
  <2>1. Ranks' = Ranks /\ Program' = Program /\ Names' = Names /\ number' = number
    BY <1>1, Still DEF Same
  <2> QED
    BY <1>5, <2>1 DEF TypeOK, FileType
<1>6. plan' \in Plans /\ number' \in 1 .. Len(plan')
  BY <1>1, <1>3 DEF Same
<1>7. Aborts(r) \/ (Moved(r) /\ pc' \in [Ranks -> 1 .. Len(Program)])
  <2>1. Aborts(r) \/ Moved(r)
    BY <1>1 DEF Effects, Passes, Creates, Truncates, Scans, Puts, Heads, Closes, Resets, Scatters, Gets
  <2> QED
    BY <1>1, <2>1, MoveIs
<1>8. CASE Aborts(r)
  BY <1>3, <1>6, <1>8 DEF Aborts
<1>9. CASE Moved(r) /\ pc' \in [Ranks -> 1 .. Len(Program)]
  <2>1. status' \in {"running", "ended", "killed", "aborted"}
    BY <1>3, <1>9 DEF Moved
  <2>2. CASE Passes(r)
    BY <1>3, <1>6, <1>9, <2>1, <2>2 DEF Passes
  <2>3. CASE Creates(r)
    <3>1. files' \in [Names -> FileType]
      BY <1>2, <1>3, <2>3, ExistsSet DEF Creates
    <3>2. sound' \in [Names -> 0 .. number]
      <4>1. sound' = [sound EXCEPT ![FileName(r)] = 0]
        BY <2>3 DEF Creates
      <4> QED
        BY <1>3a, <4>1
    <3> QED
      BY <1>3, <1>6, <1>9, <2>1, <2>3, <3>1, <3>2 DEF Creates
  <2>4. CASE Truncates(r)
    <3>1. Resized(files[FileName(r)].data, FileCells) \in Seq(Cells)
      <4>1. FileCells \in Nat
        BY <1>2, RanksAre, VariablesApart DEF FileCells, Shapes
      <4> QED
        BY <1>4, <4>1, ResizedIs
    <3>2. files' = [files EXCEPT ![FileName(r)].data = Resized(files[FileName(r)].data, FileCells)]
      BY <2>4 DEF Truncates
    <3>3. files' \in [Names -> FileType]
      BY <1>2, <1>3, <1>4, <3>1, <3>2, DataSet
    <3> QED
      BY <1>3, <1>6, <1>9, <2>1, <2>4, <3>3 DEF Truncates
  <2>5. CASE Scans(r)
    <3>1. count[r] = job.particles
      <4>1. Vars \in Nat \ {0} /\ Before \in Nat
        BY RecordIs DEF Before
      <4> QED
        BY <2>5, <4>1 DEF Scans, Counts
    <3>2. Exscan(r) \in Nat
      BY <1>2, <3>1, ExscanIs
    <3>3. base' \in [Ranks -> Nat]
      BY <1>3, <2>5, <3>2 DEF Scans
    <3> QED
      BY <1>3, <1>6, <1>9, <2>1, <2>5, <3>3 DEF Scans
  <2>6. CASE Puts(r)
    <3>1. Writes /\ pc[r] \in 7 .. 6 + Vars /\ Step(r) = "write"
      BY <2>6 DEF Puts
    <3>2. /\ Variable(r) \in Arrays /\ count[r] * Record[Variable(r)] = CellsOf(job, Variable(r))
          /\ \A n : Written(r, n) =
                 Put(FileData(r), SpotOf(job, r, Variable(r)), n, number, r, Variable(r))
      BY <3>1, WritingIs
    <3>3. /\ SpotOf(job, r, Variable(r)) \in Nat /\ CellsOf(job, Variable(r)) \in Nat
          /\ Variable(r) \in Nat /\ number \in Nat
      BY SMTT(30), <1>2, <1>3, <3>2, RanksAre, SpotInFile, RecordIs
    <3> DEFINE D == Written(r, count[r] * Record[Variable(r)])
    <3>4. D \in Seq(Cells)
      BY SMTT(30), <1>2, <1>4, <3>2, <3>3, PutIs DEF FileData
    <3>5. files' = [files EXCEPT ![FileName(r)].data = D]
      BY <2>6 DEF Puts
    <3> HIDE DEF D
    <3>6. files' \in [Names -> FileType]
      BY <1>2, <1>3, <1>4, <3>4, <3>5, DataSet
    <3> QED
      BY <1>3, <1>6, <1>9, <2>1, <2>6, <3>6 DEF Puts
  <2>7. CASE Heads(r)
    <3>1. [job |-> number, ranks |-> PartitionSize, particles |-> job.particles, first |-> r] \in Headers
      BY <1>2, <1>3, RanksAre DEF Headers, Shapes
    <3>2. files' \in [Names -> FileType]
      BY <1>2, <1>3, <2>7, <3>1, HeaderSet DEF Heads
    <3> QED
      BY <1>3, <1>6, <1>9, <2>1, <2>7, <3>2 DEF Heads
  <2>8. CASE Closes(r)
    <3>1. sound' \in [Names -> 0 .. number]
      <4>1. sound' = [sound EXCEPT ![FileName(r)] = number]
        BY <2>8 DEF Closes
      <4> QED
        BY <1>3a, <4>1
    <3> QED
      BY <1>3, <1>6, <1>9, <2>1, <2>8, <3>1 DEF Closes
  <2>9. CASE Resets(r)
    <3>1. count' \in [Ranks -> Int]
      BY <1>3, <2>9 DEF Resets
    <3> QED
      BY <1>3, <1>6, <1>9, <2>1, <2>9, <3>1 DEF Resets
  <2>10. CASE Scatters(r)
    <3>1. count' \in [Ranks -> Int]
      BY <1>3, <2>10, WordsAre DEF Scatters
    <3> QED
      BY <1>3, <1>6, <1>9, <2>1, <2>10, <3>1 DEF Scatters
  <2>11. CASE Gets(r)
    <3>1. DOMAIN memory' = Ranks
      BY <1>3, <2>11 DEF Gets
    <3> QED
      BY <1>3, <1>6, <1>9, <2>1, <2>11, <3>1 DEF Gets
  <2>12. CASE Aborts(r)
    BY <1>8, <2>12
  <2> QED
    BY <1>1, <2>2, <2>3, <2>4, <2>5, <2>6, <2>7, <2>8, <2>9, <2>10, <2>11, <2>12 DEF Effects
<1> QED
  BY <1>7, <1>8, <1>9

LEMMA NumbersAre ==
    /\ Vars \in Nat \ {0} /\ Before \in Nat
    /\ Writes => Before = Vars + 10
    /\ ~Writes => Before = 0 /\ Reads
    /\ job.kind = "both" => Writes /\ Reads
  BY RecordIs DEF Before, Writes, Reads

LEMMA GateKept ==
    ASSUME TypeOK, NEW b \in Nat, Gate(b), NEW r \in Ranks, Moved(r), pc[r] = b => Entered(r, Partition(r)),
           Same
    PROVE  \A s \in Ranks : \A q \in Partition(s) : pc'[s] > b => pc'[q] >= b
<1> SUFFICES ASSUME NEW s \in Ranks, NEW q \in Partition(s), pc'[s] > b PROVE pc'[q] >= b
  OBVIOUS
<1>1. q \in Ranks /\ pc[s] \in Nat /\ pc[q] \in Nat /\ pc'[q] \in Nat /\ pc'[q] >= pc[q]
      /\ (s # r => pc'[s] = pc[s]) /\ pc'[r] = pc[r] + 1 /\ pc[r] \in Nat
  BY MoveIs, JobsAre, RanksAre
<1>2. CASE pc[s] > b
  BY <1>1, <1>2 DEF Gate
<1>3. CASE ~(pc[s] > b)
  <2>1. s = r /\ pc[r] = b
    BY <1>1, <1>3
  <2>2. pc[q] >= pc[r]
    BY <2>1 DEF Entered
  <2> QED
    BY <1>1, <2>1, <2>2
<1> QED
  BY <1>2, <1>3

LEMMA GatesStep ==
    ASSUME TypeOK, Gates, NEW r \in Ranks, Same, Effects(r)
    PROVE  Gates'
<1>1. /\ Ranks' = Ranks /\ (\A s : Partition(s)' = Partition(s))
      /\ Before' = Before /\ Writes' = Writes /\ Reads' = Reads
  BY Still
<1>2. SUFFICES /\ Writes => /\ \A s \in Ranks : \A q \in Partition(s) : pc'[s] > 4 => pc'[q] >= 4
                            /\ \A s \in Ranks : \A q \in Partition(s) : pc'[s] > 9 + Vars => pc'[q] >= 9 + Vars
               /\ Reads => \A s \in Ranks : \A q \in Partition(s) : pc'[s] > Before + 4 => pc'[q] >= Before + 4
  <2>1. /\ Writes => Gate(4)' /\ Gate(9 + Vars)'
        /\ Reads => Gate(Before + 4)'
    BY <1>1, <1>2 DEF Gate
  <2> QED
    BY <1>1, <2>1 DEF Gates
<1>3. Aborts(r) \/ Moved(r)
  BY DEF Effects, Passes, Creates, Truncates, Scans, Puts, Heads, Closes, Resets, Scatters, Gets
<1>4. CASE Aborts(r)
  BY <1>4 DEF Aborts, Gates, Gate
<1>5. CASE Moved(r) /\ ~Aborts(r)
  <2>1. /\ Writes /\ pc[r] = 4 => Entered(r, Partition(r))
        /\ Writes /\ pc[r] = 9 + Vars => Entered(r, Partition(r))
        /\ Reads /\ pc[r] = Before + 4 => Entered(r, Partition(r))
    <3>1. pc[r] \in Nat
      BY MoveIs, <1>5
    <3>2. CASE Passes(r)
      BY <3>2, NumbersAre DEF Passes, Plain
    <3>3. CASE Closes(r)
      BY <3>3 DEF Closes
    <3>4. CASE \/ Creates(r) \/ Truncates(r) \/ Scans(r) \/ Puts(r) \/ Heads(r) \/ Resets(r)
               \/ Scatters(r) \/ Gets(r)
      <4>1. \/ Writes /\ pc[r] \in {2, 3, 6, 7 + Vars, 10 + Vars}
            \/ Writes /\ pc[r] \in 7 .. 6 + Vars
            \/ Reads /\ pc[r] \in {Before + 3, Before + 6, Before + 8 + Vars}
            \/ Reads /\ pc[r] \in Before + 7 .. Before + 6 + Vars
        BY <3>4 DEF Creates, Truncates, Scans, Puts, Heads, Resets, Scatters, Gets
      <4>2. /\ ~(Writes /\ pc[r] = 4) /\ ~(Writes /\ pc[r] = 9 + Vars) /\ ~(Reads /\ pc[r] = Before + 4)
        BY <3>1, <4>1, NumbersAre
      <4> QED
        BY <4>2
    <3> QED
      BY <1>5, <3>2, <3>3, <3>4 DEF Effects
  <2>2. 4 \in Nat /\ 9 + Vars \in Nat /\ Before + 4 \in Nat
    BY NumbersAre
  <2> QED
    BY <1>5, <2>1, <2>2, GateKept DEF Gates
<1> QED
  BY <1>3, <1>4, <1>5

LEMMA OneFile ==
    ASSUME TypeOK, NEW r \in Ranks, Effects(r)
    PROVE  \/ files' = files
           \/ /\ Writes /\ pc[r] \in 2 .. 7 + Vars /\ Moved(r)
              /\ \A f \in Names : f # FileName(r) => files'[f] = files[f]
<1>1. files = [f \in Names |-> files[f]]
  BY DEF TypeOK
<1>2. CASE Aborts(r) \/ Passes(r) \/ Scans(r) \/ Closes(r) \/ Resets(r) \/ Scatters(r) \/ Gets(r)
  BY <1>2 DEF Aborts, Passes, Scans, Closes, Resets, Scatters, Gets
<1>3. CASE Creates(r) \/ Truncates(r) \/ Puts(r) \/ Heads(r)
  <2>1. Writes /\ Moved(r)
    BY <1>3 DEF Creates, Truncates, Puts, Heads
  <2>2. pc[r] \in 2 .. 7 + Vars
    <3>1. pc[r] \in {2, 3, 7 + Vars} \/ pc[r] \in 7 .. 6 + Vars
      BY <1>3 DEF Creates, Truncates, Puts, Heads
    <3> QED
      BY <3>1, NumbersAre
  <2>3. \A f \in Names : f # FileName(r) => files'[f] = files[f]
    BY <1>1, <1>3 DEF Creates, Truncates, Puts, Heads
  <2> QED
    BY <2>1, <2>2, <2>3
<1> QED
  BY <1>2, <1>3 DEF Effects

\* Nobody changes a file that a rank reads.
LEMMA ReadersFile ==
    ASSUME TypeOK, Gates, NEW r \in Ranks, NEW q \in Ranks, Effects(r), pc[q] > Before
    PROVE  files'[FileName(q)] = files[FileName(q)]
<1>1. CASE files' = files
  BY <1>1
<1>2. CASE /\ Writes /\ pc[r] \in 2 .. 7 + Vars
           /\ \A f \in Names : f # FileName(r) => files'[f] = files[f]
  <2>1. FileName(q) # FileName(r)
    <3> SUFFICES ASSUME FileName(q) = FileName(r) PROVE FALSE
      OBVIOUS
    <3>1. r \in Partition(q)
      BY JobsAre, Partners
    <3>2. pc[q] > 9 + Vars
      <4>1. pc[q] \in Nat
        BY DEF TypeOK
      <4> QED
        BY <1>2, <4>1, NumbersAre
    <3>3. pc[r] >= 9 + Vars
      BY <1>2, <3>1, <3>2 DEF Gates, Gate
    <3> QED
      BY <1>2, <3>3, NumbersAre
  <2> QED
    BY <1>2, <2>1, FilesOfJobs
<1> QED
  BY <1>1, <1>2, OneFile

LEMMA SameWords ==
    ASSUME Same, NEW q, files'[FileName(q)] = files[FileName(q)]
    PROVE  CountWord(q)' = CountWord(q) /\ RankWord(q)' = RankWord(q) /\ Header(q)' = Header(q)
           /\ FileData(q)' = FileData(q)
<1>1. FileName(q)' = FileName(q) /\ PartitionSize' = PartitionSize /\ PartitionRank(q)' = PartitionRank(q)
  BY Still
<1>2. Header(q)' = Header(q) /\ FileData(q)' = FileData(q)
  BY <1>1 DEF Header, FileData
<1> QED
  BY <1>1, <1>2, Zenon DEF CountWord, RankWord, HeaderWord

CountIs(q, i, n, w) ==
    /\ Writes /\ i <= 10 + Vars => n = job.particles
    /\ Reads /\ i \in Before + 4 .. Before + 7 + Vars => n = w
    /\ Reads /\ i \in Before + 6 .. Before + 8 + Vars => n = job.particles

LEMMA CountsStep ==
    ASSUME TypeOK, Gates, Counts, NEW r \in Ranks, Same, Effects(r)
    PROVE  Counts'
<1>1. /\ Ranks' = Ranks /\ Before' = Before /\ Writes' = Writes /\ Reads' = Reads /\ job' = job
  BY Still
<1>2. SUFFICES ASSUME NEW q \in Ranks PROVE CountIs(q, pc'[q], count'[q], CountWord(q)')
  <2>1. \A q \in Ranks : CountIs(q, pc'[q], count'[q], CountWord(q)')
    BY <1>2
  <2> QED
    BY <1>1, <2>1, Zenon DEF Counts, CountIs
<1>3. CountIs(q, pc[q], count[q], CountWord(q))
  BY DEF Counts, CountIs
<1>4. pc[q] > Before => CountWord(q)' = CountWord(q)
  BY ReadersFile, SameWords
<1>5. pc[q] \in Nat /\ pc[r] \in Nat
  BY DEF TypeOK
<1>6. count \in [Ranks -> Int]
  BY DEF TypeOK
<1>7. CASE Aborts(r)
  <2>1. pc'[q] = pc[q] /\ count'[q] = count[q]
    BY <1>7 DEF Aborts
  <2> QED
    BY <1>3, <1>4, <1>5, <2>1, NumbersAre DEF CountIs
<1>8. CASE Moved(r) /\ q # r
  <2>1. pc'[q] = pc[q]
    BY <1>8, MoveIs
  <2>2. count'[q] = count[q]
    <3>1. \/ count' = count \/ count' = [count EXCEPT ![r] = -1] \/ count' = [count EXCEPT ![r] = CountWord(r)]
      BY DEF Effects, Aborts, Passes, Creates, Truncates, Scans, Puts, Heads, Closes, Resets, Scatters, Gets
    <3> QED
      BY <1>6, <1>8, <3>1
  <2> QED
    BY <1>3, <1>4, <1>5, <2>1, <2>2, NumbersAre DEF CountIs
<1>9. CASE Moved(r) /\ q = r
  <2>1. pc'[r] = pc[r] + 1
    BY <1>9, MoveIs
  <2>2. CASE Passes(r)
    <3>1. /\ count'[r] = count[r] /\ (Writes => pc[r] # 10 + Vars)
          /\ (Reads => pc[r] # Before + 3) /\ (Reads /\ pc[r] = Before + 5 => count[r] = job.particles)
      BY <2>2 DEF Passes, Plain
    <3> QED
      BY <1>3, <1>4, <1>5, <1>9, <2>1, <3>1, NumbersAre DEF CountIs
  <2>3. CASE Creates(r) \/ Truncates(r) \/ Puts(r) \/ Heads(r) \/ Closes(r)
    <3>1. count'[r] = count[r] /\ Writes
      BY <2>3 DEF Creates, Truncates, Puts, Heads, Closes
    <3>2. pc[r] <= 9 + Vars
      <4>1. pc[r] \in {2, 3, 7 + Vars, 9 + Vars} \/ pc[r] \in 7 .. 6 + Vars
        BY <2>3 DEF Creates, Truncates, Puts, Heads, Closes
      <4> QED
        BY <4>1, NumbersAre
    <3> QED
      BY <1>3, <1>5, <1>9, <2>1, <3>1, <3>2, NumbersAre DEF CountIs
  <2>4. CASE Scans(r)
    <3>1. count'[r] = count[r] /\ ((Writes /\ pc[r] = 6) \/ (Reads /\ pc[r] = Before + 6))
      BY <2>4 DEF Scans
    <3> QED
      BY <1>3, <1>4, <1>5, <1>9, <2>1, <3>1, NumbersAre DEF CountIs
  <2>5. CASE Resets(r)
    <3>1. (Writes /\ pc[r] = 10 + Vars) \/ (Reads /\ pc[r] = Before + 8 + Vars)
      BY <2>5 DEF Resets
    <3> QED
      BY <1>5, <1>9, <2>1, <3>1, NumbersAre DEF CountIs
  <2>6. CASE Scatters(r)
    <3>1. Reads /\ pc[r] = Before + 3 /\ count' = [count EXCEPT ![r] = CountWord(r)]
      BY <2>6 DEF Scatters
    <3>2. count'[r] = CountWord(r)
      BY <1>6, <3>1
    <3> QED
      BY <1>4, <1>5, <1>9, <2>1, <3>1, <3>2, NumbersAre DEF CountIs
  <2>7. CASE Gets(r)
    <3>1. count'[r] = count[r] /\ Reads /\ pc[r] \in Before + 7 .. Before + 6 + Vars
      BY <2>7 DEF Gets
    <3> QED
      BY <1>3, <1>4, <1>5, <1>9, <2>1, <3>1, NumbersAre DEF CountIs
  <2> QED
    BY <1>7, <2>2, <2>3, <2>4, <2>5, <2>6, <2>7 DEF Effects
<1>10. Aborts(r) \/ Moved(r)
  BY DEF Effects, Passes, Creates, Truncates, Scans, Puts, Heads, Closes, Resets, Scatters, Gets
<1> QED
  BY <1>7, <1>8, <1>9, <1>10

LEMMA BasesStep ==
    ASSUME TypeOK, Counts, Bases, NEW r \in Ranks, Same, Effects(r)
    PROVE  Bases'
<1>1. /\ Ranks' = Ranks /\ job' = job /\ (\A q : PartitionRank(q)' = PartitionRank(q))
  BY Still
<1>2. SUFFICES ASSUME NEW q \in Ranks, pc'[q] >= 7 PROVE base'[q] = PartitionRank(q) * job.particles
  BY <1>1, <1>2, Zenon DEF Bases
<1>3. pc[q] >= 7 => base[q] = PartitionRank(q) * job.particles
  BY DEF Bases
<1>4. base \in [Ranks -> Nat]
  BY DEF TypeOK
<1>5. CASE Aborts(r)
  BY <1>2, <1>3, <1>5 DEF Aborts
<1>6. CASE Scans(r)
  <2>1. count[r] = job.particles
    BY <1>6, NumbersAre DEF Scans, Counts
  <2>2. Exscan(r) = PartitionRank(r) * job.particles
    BY <2>1, JobsAre, ExscanIs
  <2>3. base' = [base EXCEPT ![r] = Exscan(r)] /\ Moved(r)
    BY <1>6 DEF Scans
  <2>4. CASE q = r
    BY <1>4, <2>2, <2>3, <2>4
  <2>5. CASE q # r
    BY <1>2, <1>3, <1>4, <2>3, <2>5, MoveIs
  <2> QED
    BY <2>4, <2>5
<1>7. CASE \/ Passes(r) \/ Creates(r) \/ Truncates(r) \/ Puts(r) \/ Heads(r) \/ Closes(r) \/ Resets(r)
           \/ Scatters(r) \/ Gets(r)
  <2>1. base' = base /\ Moved(r)
    BY <1>7 DEF Passes, Creates, Truncates, Puts, Heads, Closes, Resets, Scatters, Gets
  <2>2. pc[r] # 6
    <3>1. CASE Passes(r)
      <4>1. ~Writes => pc[r] # Before + 6
        BY <3>1, NumbersAre DEF Passes, Plain
      <4> QED
        BY <3>1, <4>1, NumbersAre DEF Passes, Plain
    <3>2. CASE ~Passes(r)
      <4>1. \/ Writes /\ pc[r] \in {2, 3, 7 + Vars, 9 + Vars, 10 + Vars}
            \/ Writes /\ pc[r] \in 7 .. 6 + Vars
            \/ Reads /\ pc[r] \in {Before + 3, Before + 8 + Vars}
            \/ Reads /\ pc[r] \in Before + 7 .. Before + 6 + Vars
        BY <1>7, <3>2 DEF Creates, Truncates, Puts, Heads, Closes, Resets, Scatters, Gets
      <4> QED
        BY <4>1, NumbersAre
    <3> QED
      BY <3>1, <3>2
  <2>3. pc[q] >= 7
    BY <1>2, <2>1, <2>2, MoveIs
  <2> QED
    BY <1>3, <2>1, <2>3
<1> QED
  BY <1>5, <1>6, <1>7 DEF Effects

-----------------------------------------------------------------------------
(* The data of the job that writes                                          *)

LEMMA PutDoes ==
    ASSUME job \in Shapes, number \in Nat, NEW data \in Seq(Cells), NEW r \in Ranks, NEW k \in Arrays
    PROVE  Holds(Put(data, SpotOf(job, r, k), CellsOf(job, k), number, r, k), job, number, r, k)
<1> DEFINE from == SpotOf(job, r, k)
           n == CellsOf(job, k)
           D == Put(data, from, n, number, r, k)
<1>1. from \in Nat /\ n \in Nat /\ r \in Nat /\ k \in Nat /\ Len(data) \in Nat
  BY SMTT(30), RanksAre, SpotInFile, RecordIs, LenProperties
<1>2. SUFFICES ASSUME NEW c \in 0 .. n - 1
               PROVE  from + c + 1 <= Len(D) /\ D[from + c + 1] = Value(number, r, k, c)
  BY <1>2 DEF Holds
<1> HIDE DEF from, n, D
<1>3. /\ Len(D) = IF from + n > Len(data) THEN from + n ELSE Len(data)
      /\ \A i \in 1 .. Len(D) : D[i] = IF i - 1 \in from .. from + n - 1 THEN Value(number, r, k, i - 1 - from)
                                      ELSE IF i <= Len(data) THEN data[i] ELSE Hole
  <2>1. IsPut(Put(data, from, n, number, r, k), data, from, n, number, r, k)
    <3>1. data \in Seq(Cells) /\ from \in Nat /\ n \in Nat /\ number \in Nat /\ r \in Nat /\ k \in Nat
      BY <1>1
    <3> HIDE DEF Cells
    <3> QED
      BY ONLY <3>1, PutIs
  <2>2. IsPut(D, data, from, n, number, r, k)
    BY <2>1, Zenon DEF D
  <2> QED
    BY ONLY <2>2 DEF IsPut
<1>4. from + c + 1 \in 1 .. Len(D) /\ (from + c + 1) - 1 \in from .. from + n - 1
      /\ (from + c + 1) - 1 - from = c
  <2>1. from \in Nat /\ n \in Nat /\ Len(data) \in Nat /\ c \in 0 .. n - 1
        /\ Len(D) = IF from + n > Len(data) THEN from + n ELSE Len(data)
    BY <1>1, <1>3
  <2>2. Len(D) \in Nat /\ from + n <= Len(D)
    BY ONLY <2>1
  <2> QED
    BY ONLY <2>1, <2>2
<1>5. D[from + c + 1] = Value(number, r, k, (from + c + 1) - 1 - from)
  BY <1>3, <1>4
<1> QED
  BY <1>1, <1>4, <1>5

LEMMA PutKeeps ==
    ASSUME job \in Shapes, number \in Nat, NEW data \in Seq(Cells), NEW r \in Ranks, NEW k \in Arrays,
           NEW q \in Ranks, NEW l \in Arrays, FileName(q) = FileName(r), q # r \/ l # k,
           NEW n \in 0 .. CellsOf(job, k), Holds(data, job, number, q, l)
    PROVE  Holds(Put(data, SpotOf(job, r, k), n, number, r, k), job, number, q, l)
<1> DEFINE from == SpotOf(job, r, k)
           to == SpotOf(job, q, l)
           s == CellsOf(job, l)
           D == Put(data, from, n, number, r, k)
<1>1. /\ from \in Nat /\ to \in Nat /\ s \in Nat /\ n \in Nat /\ n <= CellsOf(job, k) /\ r \in Nat
      /\ k \in Nat /\ Len(data) \in Nat /\ CellsOf(job, k) \in Nat
  BY RanksAre, SpotInFile, RecordIs, LenProperties
<1>2. from + CellsOf(job, k) <= to \/ to + s <= from
  <2>1. FileOf(job, r) = FileOf(job, q) /\ r \in Ranked(job) /\ q \in Ranked(job)
    BY RanksAre
  <2> QED
    BY <2>1, SpotsApart
<1>3. SUFFICES ASSUME NEW c \in 0 .. s - 1
               PROVE  to + c + 1 <= Len(D) /\ D[to + c + 1] = Value(number, q, l, c)
  BY <1>3 DEF Holds
<1>4. to + c + 1 <= Len(data) /\ data[to + c + 1] = Value(number, q, l, c)
  BY DEF Holds
<1> HIDE DEF from, to, s, D
<1>5. /\ Len(D) = IF from + n > Len(data) THEN from + n ELSE Len(data)
      /\ \A i \in 1 .. Len(D) : D[i] = IF i - 1 \in from .. from + n - 1 THEN Value(number, r, k, i - 1 - from)
                                      ELSE IF i <= Len(data) THEN data[i] ELSE Hole
  <2>1. IsPut(Put(data, from, n, number, r, k), data, from, n, number, r, k)
    <3>1. data \in Seq(Cells) /\ from \in Nat /\ n \in Nat /\ number \in Nat /\ r \in Nat /\ k \in Nat
      BY <1>1
    <3> HIDE DEF Cells
    <3> QED
      BY ONLY <3>1, PutIs
  <2>2. IsPut(D, data, from, n, number, r, k)
    BY <2>1, Zenon DEF D
  <2> QED
    BY ONLY <2>2 DEF IsPut
<1>6. to + c + 1 \in 1 .. Len(D) /\ (to + c + 1) - 1 \notin from .. from + n - 1
  <2>1. Len(data) <= Len(D) /\ Len(D) \in Nat
    BY <1>1, <1>5
  <2>2. to + c + 1 \in 1 .. Len(D)
    BY <1>1, <1>4, <2>1
  <2>3. (to + c + 1) - 1 = to + c /\ to + c \in Nat
    BY <1>1
  <2>4. CASE from + CellsOf(job, k) <= to
    <3>1. from + n - 1 < to + c
      BY <1>1, <2>4
    <3> QED
      BY <1>1, <2>2, <2>3, <3>1
  <2>5. CASE to + s <= from
    <3>1. to + c < from
      BY <1>1, <2>5
    <3> QED
      BY <1>1, <2>2, <2>3, <3>1
  <2> QED
    BY <1>2, <2>4, <2>5
<1>7. D[to + c + 1] = data[to + c + 1]
  BY <1>4, <1>5, <1>6
<1> QED
  BY <1>4, <1>6, <1>7

\* Whoever writes into a file has made it unsound.
LEMMA Unsound ==
    ASSUME TypeOK, Gates, SoundIs, NEW r \in Ranks, Writes, pc[r] \in 3 .. 8 + Vars,
           IsRoot(r) \/ pc[r] > 4
    PROVE  sound[FileName(r)] = 0
<1> DEFINE f == FileName(r)
<1>1. f \in Names /\ pc \in [Ranks -> 1 .. Len(Program)] /\ job \in Shapes
  BY FilesOfJobs, JobsAre DEF TypeOK
<1>2. PICK q \in Partition(r) : IsRoot(q)
  BY <1>1, Partners
<1>3. q \in Ranks /\ FileName(q) = f /\ r \in Partition(q) /\ q \in Partition(r)
  BY <1>1, <1>2, RanksAre, Partners
<1>4. pc[q] \in Nat /\ pc[q] >= 3
  <2>1. pc[q] \in Nat
    BY <1>1, <1>3
  <2>2. CASE IsRoot(r)
    BY <1>1, <1>2, <2>1, <2>2, Partners, RanksAre
  <2>3. CASE pc[r] > 4
    <3>1. pc[q] >= 4
      BY <1>2, <2>3 DEF Gates, Gate
    <3> QED
      BY <2>1, <3>1
  <2> QED
    BY <2>1, <2>2, <2>3
<1>5. sound[f] # number
  BY <1>1, NumbersAre DEF SoundIs
<1>6. sound[f] \in {0, number}
  BY <1>1, <1>2, <1>3, <1>4 DEF SoundIs
<1> QED
  BY <1>5, <1>6

OwnHeader(r) == [job |-> number, ranks |-> PartitionSize, particles |-> job.particles, first |-> r]

LEMMA FileAfter ==
    ASSUME TypeOK, Counts, Bases, NEW r \in Ranks
    PROVE  /\ Creates(r) => /\ files'[FileName(r)].exists = TRUE
                            /\ files'[FileName(r)].header = files[FileName(r)].header
                            /\ files'[FileName(r)].data = FileData(r)
           /\ Truncates(r) => /\ files'[FileName(r)].exists = files[FileName(r)].exists
                              /\ files'[FileName(r)].header = files[FileName(r)].header
                              /\ files'[FileName(r)].data = Resized(FileData(r), FileCells)
           /\ Puts(r) =>
                /\ files'[FileName(r)].exists = files[FileName(r)].exists
                /\ files'[FileName(r)].header = files[FileName(r)].header
                /\ pc[r] - 6 \in Arrays
                /\ files'[FileName(r)].data = Put(FileData(r), SpotOf(job, r, pc[r] - 6),
                                                  CellsOf(job, pc[r] - 6), number, r, pc[r] - 6)
           /\ Heads(r) => /\ files'[FileName(r)].exists = files[FileName(r)].exists
                          /\ files'[FileName(r)].header = OwnHeader(r)
                          /\ files'[FileName(r)].data = FileData(r)
           /\ FileData(r) \in Seq(Cells) /\ FileCells \in Nat /\ OwnHeader(r) \in Headers
<1> DEFINE f == FileName(r)
<1>1. f \in Names /\ files \in [Names -> FileType] /\ job \in Shapes /\ number \in Nat /\ r \in Nat
  <2>1. f \in Names /\ job \in Shapes /\ r \in Nat
    BY FilesOfJobs, JobsAre, RanksAre
  <2>2. number \in Nat
    BY JobsAre
  <2>3. files \in [Names -> FileType]
    BY DEF TypeOK, FileType
  <2> QED
    BY <2>1, <2>2, <2>3
<1>2. FileData(r) \in Seq(Cells) /\ files[f].data = FileData(r)
  BY <1>1 DEF FileType, FileData
<1>3. FileCells \in Nat
  BY <1>1, RanksAre, VariablesApart DEF FileCells, Shapes
<1>4. OwnHeader(r) \in Headers
  BY <1>1, RanksAre DEF Headers, Shapes, OwnHeader
<1>5. ASSUME Creates(r)
      PROVE  /\ files'[f].exists = TRUE /\ files'[f].header = files[f].header
             /\ files'[f].data = FileData(r)
  <2>1. files' = [files EXCEPT ![f].exists = TRUE]
    BY <1>5 DEF Creates
  <2>2. files'[f] = [exists |-> TRUE, header |-> files[f].header, data |-> files[f].data]
    BY <1>1, <2>1, ExistsSet
  <2> QED
    BY <1>2, <2>2
<1>6. ASSUME NEW D \in Seq(Cells), files' = [files EXCEPT ![f].data = D]
      PROVE  /\ files'[f].exists = files[f].exists /\ files'[f].header = files[f].header
             /\ files'[f].data = D
  <2>1. files'[f] = [exists |-> files[f].exists, header |-> files[f].header, data |-> D]
    BY <1>1, <1>6, DataSet
  <2> QED
    BY <2>1
<1>7. ASSUME Truncates(r)
      PROVE  /\ files'[f].exists = files[f].exists /\ files'[f].header = files[f].header
             /\ files'[f].data = Resized(FileData(r), FileCells)
  <2>1. files' = [files EXCEPT ![f].data = Resized(files[f].data, FileCells)]
    BY <1>7 DEF Truncates
  <2>2. Resized(files[f].data, FileCells) \in Seq(Cells)
    BY <1>2, <1>3, ResizedIs
  <2> QED
    BY <1>2, <1>6, <2>1, <2>2
<1>8. ASSUME Puts(r)
      PROVE  /\ files'[f].exists = files[f].exists /\ files'[f].header = files[f].header
             /\ pc[r] - 6 \in Arrays
             /\ files'[f].data = Put(FileData(r), SpotOf(job, r, pc[r] - 6), CellsOf(job, pc[r] - 6),
                                     number, r, pc[r] - 6)
  <2>1. /\ Variable(r) = pc[r] - 6 /\ Variable(r) \in Arrays
        /\ count[r] * Record[Variable(r)] = CellsOf(job, Variable(r))
        /\ \A n : Written(r, n) =
                 Put(FileData(r), SpotOf(job, r, Variable(r)), n, number, r, Variable(r))
    BY <1>8, WritingIs DEF Puts
  <2> DEFINE D == Put(FileData(r), SpotOf(job, r, pc[r] - 6), CellsOf(job, pc[r] - 6), number, r, pc[r] - 6)
  <2>2. files' = [files EXCEPT ![f].data = Written(r, count[r] * Record[Variable(r)])]
    BY <1>8 DEF Puts
  <2>3. Written(r, count[r] * Record[Variable(r)]) = D
    BY <2>1
  <2>4. D \in Seq(Cells)
    <3>1. pc[r] - 6 \in Arrays /\ pc[r] - 6 \in Nat
      BY <2>1, RecordIs
    <3>2. SpotOf(job, r, pc[r] - 6) \in Nat /\ CellsOf(job, pc[r] - 6) \in Nat
      BY <1>1, <3>1, RanksAre, SpotInFile
    <3> QED
      BY <1>1, <1>2, <3>1, <3>2, PutIs
  <2>5. files' = [files EXCEPT ![f].data = D]
    BY <2>2, <2>3
  <2> HIDE DEF D
  <2>6. /\ files'[f].exists = files[f].exists /\ files'[f].header = files[f].header
        /\ files'[f].data = D
    BY <1>6, <2>4, <2>5
  <2> QED
    BY <2>1, <2>6 DEF D
<1>9. ASSUME Heads(r)
      PROVE  /\ files'[f].exists = files[f].exists /\ files'[f].header = OwnHeader(r)
             /\ files'[f].data = FileData(r)
  <2>1. files' = [files EXCEPT ![f].header = OwnHeader(r)]
    BY <1>9 DEF Heads, OwnHeader
  <2>2. files'[f] = [exists |-> files[f].exists, header |-> OwnHeader(r), data |-> files[f].data]
    BY <1>1, <1>4, <2>1, HeaderSet
  <2> QED
    BY <1>2, <2>2
<1> QED
  BY <1>2, <1>3, <1>4, <1>5, <1>7, <1>8, <1>9

WroteBy(q, i, file) ==
    /\ IsRoot(q) /\ i > 2 => file.exists
    /\ \A k \in Arrays : i > 6 + k => Holds(file.data, job, number, q, k)
    /\ IsRoot(q) /\ i > 7 + Vars => file.header = OwnHeader(q)

LEMMA WroteIs == Wrote <=> (Writes => \A q \in Ranks : WroteBy(q, pc[q], files[FileName(q)]))
  BY Zenon DEF Wrote, WroteBy, InPlace, OwnHeader, job

LEMMA WroteStep ==
    ASSUME TypeOK, Gates, Counts, Bases, Wrote, NEW r \in Ranks, Same, Effects(r)
    PROVE  Wrote'
<1>1. /\ Ranks' = Ranks /\ Writes' = Writes /\ job' = job /\ number' = number
      /\ PartitionSize' = PartitionSize
      /\ \A q : IsRoot(q)' = IsRoot(q) /\ FileName(q)' = FileName(q)
  BY Still DEF Same
<1>2. SUFFICES ASSUME Writes, NEW q \in Ranks
               PROVE  WroteBy(q, pc'[q], files'[FileName(q)])
  <2>1. Writes => \A q \in Ranks : WroteBy(q, pc'[q], files'[FileName(q)])
    BY <1>2
  <2>2. \A q : OwnHeader(q)' = OwnHeader(q)
    BY <1>1 DEF OwnHeader
  <2>3. \A q, i, x : WroteBy(q, i, x)' <=> WroteBy(q, i, x)
    BY <1>1, <2>2, Zenon DEF WroteBy
  <2>4. Writes' => \A q \in Ranks' : WroteBy(q, pc[q], files[FileName(q)])'
    BY <1>1, <2>1, <2>2, Zenon DEF WroteBy
  <2> QED
    BY <1>1, <2>4, Zenon DEF Wrote, WroteBy, InPlace, OwnHeader, job
<1> DEFINE f == FileName(q)
<1>3. WroteBy(q, pc[q], files[f])
  BY <1>2, WroteIs
<1>4. pc[q] \in Nat /\ pc[r] \in Nat /\ f \in Names /\ job \in Shapes /\ number \in Nat
  BY SMTT(30), FilesOfJobs, JobsAre DEF TypeOK
<1>5. Aborts(r) \/ Moved(r)
  BY DEF Effects, Passes, Creates, Truncates, Scans, Puts, Heads, Closes, Resets, Scatters, Gets
<1>6. CASE Aborts(r)
  BY <1>3, <1>6 DEF Aborts
<1>7. CASE Passes(r) \/ Scans(r) \/ Closes(r) \/ Resets(r) \/ Scatters(r) \/ Gets(r)
  <2>1. files' = files /\ Moved(r)
    BY <1>7 DEF Passes, Scans, Closes, Resets, Scatters, Gets
  <2>2. CASE q # r
    BY <1>3, <2>1, <2>2, MoveIs
  <2>3. CASE q = r
    <3>1. (IsRoot(r) => pc[r] \notin {2, 7 + Vars}) /\ pc[r] \notin 7 .. 6 + Vars
      <4>1. CASE Passes(r)
        BY <1>2, <4>1, NumbersAre DEF Passes, Plain
      <4>2. CASE ~Passes(r)
        <5>1. \/ Writes /\ pc[r] \in {6, 9 + Vars, 10 + Vars}
              \/ Reads /\ pc[r] \in {Before + 3, Before + 6, Before + 8 + Vars}
              \/ Reads /\ pc[r] \in Before + 7 .. Before + 6 + Vars
          BY <1>7, <4>2 DEF Scans, Closes, Resets, Scatters, Gets
        <5> QED
          BY <1>2, <5>1, NumbersAre
      <4> QED
        BY <4>1, <4>2
    <3>2. pc'[r] = pc[r] + 1
      BY <2>1, MoveIs
    <3>3. /\ IsRoot(r) /\ pc'[r] > 2 => pc[r] > 2
          /\ \A k \in Arrays : pc'[r] > 6 + k => pc[r] > 6 + k
          /\ IsRoot(r) /\ pc'[r] > 7 + Vars => pc[r] > 7 + Vars
      BY <1>4, <3>1, <3>2, RecordIs
    <3> QED
      BY <1>3, <2>1, <2>3, <3>3 DEF WroteBy
  <2> QED
    BY <2>2, <2>3
<1>8. CASE Creates(r) \/ Truncates(r) \/ Puts(r) \/ Heads(r)
  <2>1. Moved(r)
    BY <1>8 DEF Creates, Truncates, Puts, Heads
  <2>2. pc'[r] = pc[r] + 1 /\ (q # r => pc'[q] = pc[q])
    BY <2>1, MoveIs
  <2>3. CASE f # FileName(r)
    <3>1. files'[f] = files[f]
      BY <1>4, <2>3, OneFile
    <3> QED
      BY <1>3, <2>2, <2>3, <3>1
  <2>4. CASE f = FileName(r)
    <3>1. /\ r \in Partition(q) /\ q \in Partition(r) /\ files[f].data = FileData(r)
          /\ q \in Ranked(job)
      BY <1>4, <2>4, Partners, RanksAre DEF FileData
    <3>2. CASE Creates(r)
      <4>1. /\ files'[f].exists = TRUE /\ files'[f].header = files[f].header
            /\ files'[f].data = files[f].data
        BY <2>4, <3>1, <3>2, FileAfter
      <4>2. q = r => pc'[q] = 3
        BY <2>2, <3>2 DEF Creates
      <4>3. /\ \A k \in Arrays : pc'[q] > 6 + k => pc[q] > 6 + k
            /\ pc'[q] > 7 + Vars => pc[q] > 7 + Vars
        BY <2>2, <4>2, RecordIs
      <4> QED
        BY <1>3, <4>1, <4>3 DEF WroteBy
    <3>3. CASE Truncates(r)
      <4>1. /\ files'[f].exists = files[f].exists /\ files'[f].header = files[f].header
        BY <2>4, <3>3, FileAfter
      <4>2. q = r => pc'[q] = 4 /\ pc[q] = 3
        BY <2>2, <3>3 DEF Truncates
      <4>3. pc'[q] <= 4
        <5>1. CASE q # r
          <6>1. pc[q] > 4 => pc[r] >= 4
            BY <1>2, <3>1 DEF Gates, Gate
          <6>2. pc[r] = 3
            BY <3>3 DEF Truncates
          <6> QED
            BY <1>4, <2>2, <5>1, <6>1, <6>2
        <5> QED
          BY <4>2, <5>1
      <4>4. /\ \A k \in Arrays : ~(pc'[q] > 6 + k)
            /\ ~(pc'[q] > 7 + Vars) /\ (pc'[q] > 2 => pc[q] > 2)
        BY <1>4, <2>2, <4>2, <4>3, RecordIs
      <4> QED
        BY <1>3, <4>1, <4>4 DEF WroteBy
    <3>4. CASE Puts(r)
      <4> DEFINE k == pc[r] - 6
                 D == Put(FileData(r), SpotOf(job, r, k), CellsOf(job, k), number, r, k)
      <4>1. /\ files'[f].exists = files[f].exists /\ files'[f].header = files[f].header
            /\ k \in Arrays /\ files'[f].data = D /\ FileData(r) \in Seq(Cells)
        BY <2>4, <3>4, FileAfter
      <4>2. pc[r] \in 7 .. 6 + Vars
        BY <3>4 DEF Puts
      <4>3. /\ pc'[q] > 2 => pc[q] > 2
            /\ pc'[q] > 7 + Vars => pc[q] > 7 + Vars
            /\ \A l \in Arrays : pc'[q] > 6 + l => pc[q] > 6 + l \/ (q = r /\ l = k)
        BY SMTT(30), <1>4, <2>2, <4>2, RecordIs
      <4>4. q = r => pc'[q] = 7 + k /\ pc[q] = 6 + k
        <5>1. pc[r] \in Int /\ pc'[r] = pc[r] + 1
          BY <1>4, <2>2
        <5>2. 7 + k = pc[r] + 1 /\ 6 + k = pc[r]
          BY <5>1
        <5> QED
          BY <5>1, <5>2, Zenon
      <4> HIDE DEF k
      <4>5. k \in Nat /\ CellsOf(job, k) \in Nat
        <5>1. k \in Nat /\ k \in Arrays
          BY <4>1, RecordIs
        <5>2. r \in Ranked(job)
          BY <1>4, RanksAre
        <5> QED
          BY <1>4, <5>1, <5>2, SpotInFile
      <4>6. ASSUME NEW l \in Arrays, pc'[q] > 6 + l PROVE Holds(D, job, number, q, l)
        <5>1. CASE q = r /\ l = k
          BY <1>4, <4>1, <5>1, PutDoes
        <5>2. CASE q # r \/ l # k
          <6>1. Holds(FileData(r), job, number, q, l)
            BY <1>3, <3>1, <4>3, <4>6, <5>2 DEF WroteBy
          <6>2. CellsOf(job, k) \in 0 .. CellsOf(job, k)
            BY <4>5
          <6> HIDE DEF D
          <6> QED
            BY <1>4, <2>4, <4>1, <5>2, <6>1, <6>2, PutKeeps DEF D
        <5> QED
          BY <5>1, <5>2
      <4> HIDE DEF D
      <4> QED
        BY <1>3, <4>1, <4>3, <4>6 DEF WroteBy
    <3>5. CASE Heads(r)
      <4>1. /\ files'[f].exists = files[f].exists /\ files'[f].header = OwnHeader(r)
            /\ files'[f].data = files[f].data
        BY <2>4, <3>1, <3>5, FileAfter
      <4>2. pc[r] = 7 + Vars /\ IsRoot(r)
        BY <3>5 DEF Heads
      <4>3. IsRoot(q) => q = r
        BY <1>4, <3>1, <4>2, Partners, RanksAre
      <4>4. /\ pc'[q] > 2 => pc[q] > 2
            /\ \A k \in Arrays : pc'[q] > 6 + k => pc[q] > 6 + k
        BY <1>4, <2>2, <4>2, RecordIs
      <4> QED
        BY <1>3, <4>1, <4>3, <4>4 DEF WroteBy
    <3> QED
      BY <1>8, <3>2, <3>3, <3>4, <3>5
  <2> QED
    BY <2>3, <2>4
<1> QED
  BY <1>6, <1>7, <1>8 DEF Effects

-----------------------------------------------------------------------------
(* Headers and sound files                                                  *)

LEMMA HeaderAfter ==
    ASSUME TypeOK, Counts, Bases, NEW r \in Ranks, Effects(r), NEW f \in Names
    PROVE  \/ files'[f].header = files[f].header
           \/ Heads(r) /\ f = FileName(r) /\ files'[f].header = OwnHeader(r)
<1>1. CASE Aborts(r) \/ Passes(r) \/ Scans(r) \/ Closes(r) \/ Resets(r) \/ Scatters(r) \/ Gets(r)
  BY <1>1 DEF Aborts, Passes, Scans, Closes, Resets, Scatters, Gets
<1>2. CASE Creates(r) \/ Truncates(r) \/ Puts(r) \/ Heads(r)
  <2>1. CASE f # FileName(r)
    BY <2>1, OneFile
  <2>2. CASE f = FileName(r)
    BY <1>2, <2>2, FileAfter
  <2> QED
    BY <2>1, <2>2
<1> QED
  BY <1>1, <1>2 DEF Effects

HeaderOf(f, h, p, n) ==
    h = NoHeader \/
    /\ h.job \in 1 .. n
    /\ h.ranks = SizeOf(p[h.job]) /\ h.particles = p[h.job].particles
    /\ h.first \in Ranked(p[h.job]) /\ FileOf(p[h.job], h.first) = f
    /\ ~p[h.job].perRank => h.first = 0

LEMMA HeadersAreOf == HeadersAre <=> \A f \in Names : HeaderOf(f, files[f].header, plan, number)
  BY Zenon DEF HeadersAre, HeaderOf

LEMMA OwnHeaderIs ==
    ASSUME TypeOK, NEW r \in Ranks, IsRoot(r)
    PROVE  HeaderOf(FileName(r), OwnHeader(r), plan, number)
<1> DEFINE h == OwnHeader(r)
<1>1. h.job = number /\ h.ranks = PartitionSize /\ h.particles = job.particles /\ h.first = r
  BY DEF OwnHeader
<1>2. plan[h.job] = job
  BY <1>1 DEF job
<1>3. /\ SizeOf(job) = PartitionSize /\ r \in Ranked(job) /\ FileOf(job, r) = FileName(r)
      /\ number \in Nat /\ number \in 1 .. Len(plan)
  BY JobsAre, RanksAre DEF TypeOK
<1>4. ~job.perRank => r = 0
  BY DEF IsRoot, PartitionRank
<1> HIDE DEF h
<1>5. h.job \in 1 .. number
  BY <1>1, <1>3
<1> QED
  BY <1>1, <1>2, <1>3, <1>4, <1>5 DEF HeaderOf, h

LEMMA HeadersStep ==
    ASSUME TypeOK, Counts, Bases, HeadersAre, NEW r \in Ranks, Same, Effects(r)
    PROVE  HeadersAre'
<1>1. Names' = Names /\ plan' = plan /\ number' = number
  BY Still DEF Same
<1>2. ASSUME NEW f \in Names PROVE HeaderOf(f, files'[f].header, plan, number)
  <2>1. HeaderOf(f, files[f].header, plan, number)
    BY HeadersAreOf
  <2>2. Heads(r) => HeaderOf(FileName(r), OwnHeader(r), plan, number)
    BY OwnHeaderIs DEF Heads
  <2> QED
    BY <2>1, <2>2, HeaderAfter
<1>3. \A f \in Names' : HeaderOf(f, files'[f].header, plan', number')
  BY <1>1, <1>2
<1> QED
  BY <1>3, Zenon DEF HeadersAre, HeaderOf

SoundOf(f, s, file) ==
    s > 0 => /\ file.header.job = s
             /\ \A q \in Ranked(plan[s]) : FileOf(plan[s], q) = f =>
                   \A k \in Arrays : Holds(file.data, plan[s], s, q, k)

LEMMA SoundIsOf ==
    SoundIs <=> \A f \in Names :
        /\ SoundOf(f, sound[f], files[f])
        /\ sound[f] = number => \A q \in Ranks : FileName(q) = f => pc[q] >= 9 + Vars
        /\ Writes /\ sound[f] \notin {0, number} =>
              \A q \in Ranks : FileName(q) = f /\ IsRoot(q) => pc[q] <= 2
  BY Zenon DEF SoundIs, SoundOf, InPlace

LEMMA SoundStep ==
    ASSUME TypeOK, Gates, Counts, Bases, Wrote, SoundIs, NEW r \in Ranks, Same, Effects(r)
    PROVE  SoundIs'
<1>1. /\ Ranks' = Ranks /\ Writes' = Writes /\ plan' = plan /\ number' = number /\ Names' = Names
      /\ \A q : IsRoot(q)' = IsRoot(q) /\ FileName(q)' = FileName(q)
  BY Still DEF Same
<1>2. SUFFICES ASSUME NEW f \in Names
               PROVE  /\ SoundOf(f, sound'[f], files'[f])
                      /\ sound'[f] = number => \A q \in Ranks : FileName(q) = f => pc'[q] >= 9 + Vars
                      /\ Writes /\ sound'[f] \notin {0, number} =>
                            \A q \in Ranks : FileName(q) = f /\ IsRoot(q) => pc'[q] <= 2
  <2>1. \A f, s, x : SoundOf(f, s, x)' <=> SoundOf(f, s, x)
    BY <1>1, Zenon DEF SoundOf
  <2>2. \A f \in Names' :
            /\ SoundOf(f, sound[f], files[f])'
            /\ sound'[f] = number' => \A q \in Ranks' : FileName(q)' = f => pc'[q] >= 9 + Vars
            /\ Writes' /\ sound'[f] \notin {0, number'} =>
                  \A q \in Ranks' : FileName(q)' = f /\ IsRoot(q)' => pc'[q] <= 2
    BY <1>1, <1>2, Zenon DEF SoundOf
  <2> QED
    BY <2>2, Zenon DEF SoundIs, SoundOf, InPlace
<1>3. /\ SoundOf(f, sound[f], files[f])
      /\ sound[f] = number => \A q \in Ranks : FileName(q) = f => pc[q] >= 9 + Vars
      /\ Writes /\ sound[f] \notin {0, number} =>
            \A q \in Ranks : FileName(q) = f /\ IsRoot(q) => pc[q] <= 2
  BY SoundIsOf
<1>4. /\ job \in Shapes /\ number \in Nat \ {0} /\ sound[f] \in Nat /\ pc[r] \in Nat
      /\ \A q \in Ranks : pc[q] \in Nat /\ pc'[q] \in Nat /\ pc'[q] >= pc[q]
  <2>1. job \in Shapes /\ number \in Nat \ {0}
    BY JobsAre
  <2>2. sound[f] \in Nat
    BY <2>1 DEF TypeOK
  <2>3. Aborts(r) \/ Moved(r)
    BY DEF Effects, Passes, Creates, Truncates, Scans, Puts, Heads, Closes, Resets, Scatters, Gets
  <2>4. \A q \in Ranks : pc[q] \in Nat
    BY DEF TypeOK
  <2>5. \A q \in Ranks : pc'[q] \in Nat /\ pc'[q] >= pc[q]
    BY <2>3, <2>4, MoveIs DEF Aborts
  <2> QED
    BY <2>1, <2>2, <2>4, <2>5
<1>5. CASE Aborts(r)
  BY <1>3, <1>5 DEF Aborts
<1>6. CASE Creates(r)
  <2>1. sound \in [Names -> 0 .. number] /\ sound' = [sound EXCEPT ![FileName(r)] = 0] /\ Moved(r)
    BY <1>6 DEF TypeOK, Creates
  <2>2. CASE f = FileName(r)
    <3>1. sound'[f] = 0
      BY <2>1, <2>2
    <3> QED
      BY <1>4, <3>1 DEF SoundOf
  <2>3. CASE f # FileName(r)
    <3>1. sound'[f] = sound[f] /\ files'[f] = files[f]
      BY <2>1, <2>3, OneFile
    <3>2. \A q \in Ranks : FileName(q) = f => pc'[q] = pc[q]
      BY <2>1, <2>3, MoveIs
    <3> QED
      BY <1>3, <3>1, <3>2
  <2> QED
    BY <2>2, <2>3
<1>7. CASE Closes(r)
  <2>1. /\ sound \in [Names -> 0 .. number] /\ sound' = [sound EXCEPT ![FileName(r)] = number]
        /\ Moved(r) /\ files' = files /\ Writes /\ pc[r] = 9 + Vars /\ Entered(r, Partition(r))
    BY <1>7 DEF TypeOK, Closes
  <2>2. CASE f = FileName(r)
    <3>1. sound'[f] = number
      BY <2>1, <2>2
    <3>2. \A q \in Ranks : FileName(q) = f => q \in Partition(r) /\ pc[q] >= 9 + Vars
      BY <1>4, <2>1, <2>2, Partners DEF Entered
    <3>3. files[f].header.job = number
      <4>1. PICK q \in Partition(r) : IsRoot(q)
        BY <1>4, Partners
      <4>2. q \in Ranks /\ FileName(q) = f
        BY <1>4, <2>2, <4>1, Partners, RanksAre
      <4>3. pc[q] > 7 + Vars
        BY <1>4, <3>2, <4>2, NumbersAre
      <4>4. files[f].header = OwnHeader(q)
        BY <2>1, <4>1, <4>2, <4>3, WroteIs DEF WroteBy
      <4> QED
        BY <4>4 DEF OwnHeader
    <3>4. ASSUME NEW q \in Ranked(plan[number]), FileOf(plan[number], q) = f, NEW k \in Arrays
          PROVE  Holds(files[f].data, plan[number], number, q, k)
      <4>1. plan[number] = job
        BY DEF job
      <4>2. q \in Ranks /\ FileName(q) = f
        BY <1>4, <3>4, <4>1, RanksAre
      <4>3. pc[q] > 6 + k
        BY <1>4, <3>2, <4>2, RecordIs
      <4>4. Holds(files[f].data, job, number, q, k)
        BY <2>1, <4>2, <4>3, WroteIs DEF WroteBy
      <4> QED
        BY <4>1, <4>4
    <3>5. SoundOf(f, number, files[f])
      BY <3>3, <3>4 DEF SoundOf
    <3>6. \A q \in Ranks : FileName(q) = f => pc'[q] >= 9 + Vars
      <4>1. Vars \in Nat
        BY NumbersAre
      <4> QED
        BY <1>4, <3>2, <4>1
    <3> QED
      BY <2>1, <3>1, <3>5, <3>6
  <2>3. CASE f # FileName(r)
    <3>1. sound'[f] = sound[f]
      BY <2>1, <2>3
    <3>2. \A q \in Ranks : FileName(q) = f => pc'[q] = pc[q]
      BY <2>1, <2>3, MoveIs
    <3> QED
      BY <1>3, <2>1, <3>1, <3>2
  <2> QED
    BY <2>2, <2>3
<1>8. CASE \/ Passes(r) \/ Truncates(r) \/ Scans(r) \/ Puts(r) \/ Heads(r) \/ Resets(r) \/ Scatters(r)
           \/ Gets(r)
  <2>1. sound' = sound /\ Moved(r)
    BY <1>8 DEF Passes, Truncates, Scans, Puts, Heads, Resets, Scatters, Gets
  <2>2. sound[f] # 0 => files'[f] = files[f]
    <3>1. CASE Truncates(r) \/ Puts(r) \/ Heads(r)
      <4>1. Writes /\ pc[r] \in 3 .. 8 + Vars /\ (IsRoot(r) \/ pc[r] > 4)
        <5>1. Writes /\ ((IsRoot(r) /\ pc[r] \in {3, 7 + Vars}) \/ pc[r] \in 7 .. 6 + Vars)
          BY <3>1 DEF Truncates, Puts, Heads
        <5> QED
          BY <5>1, NumbersAre
      <4>2. sound[FileName(r)] = 0
        BY <4>1, Unsound
      <4>3. f # FileName(r) => files'[f] = files[f]
        BY OneFile
      <4> QED
        BY <4>2, <4>3
    <3>2. CASE Passes(r) \/ Scans(r) \/ Resets(r) \/ Scatters(r) \/ Gets(r)
      BY <3>2 DEF Passes, Scans, Resets, Scatters, Gets
    <3> QED
      BY <1>8, <3>1, <3>2
  <2>3. SoundOf(f, sound'[f], files'[f])
    BY <1>3, <1>4, <2>1, <2>2 DEF SoundOf
  <2>4. sound'[f] = number => \A q \in Ranks : FileName(q) = f => pc'[q] >= 9 + Vars
    <3>1. Vars \in Nat
      BY NumbersAre
    <3> QED
      BY <1>3, <1>4, <2>1, <3>1
  <2>5. ASSUME Writes, sound'[f] \notin {0, number}, NEW q \in Ranks, FileName(q) = f, IsRoot(q)
        PROVE  pc'[q] <= 2
    <3>1. pc[q] <= 2
      BY <1>3, <2>1, <2>5
    <3>2. q # r => pc'[q] = pc[q]
      BY <2>1, MoveIs
    <3>3. ASSUME q = r PROVE pc[r] # 2
      <4>1. CASE Passes(r)
        BY <2>5, <3>3, <4>1 DEF Passes, Plain
      <4>2. CASE ~Passes(r)
        <5>1. \/ pc[r] \in {3, 6, 7 + Vars, 10 + Vars}
              \/ pc[r] \in 7 .. 6 + Vars
              \/ pc[r] \in {Before + 3, Before + 6, Before + 8 + Vars}
              \/ pc[r] \in Before + 7 .. Before + 6 + Vars
          BY <1>8, <4>2 DEF Truncates, Scans, Puts, Heads, Resets, Scatters, Gets
        <5> QED
          BY <5>1, NumbersAre
      <4> QED
        BY <4>1, <4>2
    <3>4. q = r => pc'[q] = pc[q] + 1
      BY <2>1, MoveIs
    <3> QED
      BY <1>4, <3>1, <3>2, <3>3, <3>4
  <2> QED
    BY <2>3, <2>4, <2>5
<1> QED
  BY <1>5, <1>6, <1>7, <1>8 DEF Effects

-----------------------------------------------------------------------------
(* Reading back                                                             *)

LEMMA AppendIs ==
    ASSUME NEW n \in Nat, NEW g
    PROVE  Append([k \in 1 .. n |-> g[k]], g[n + 1]) = [k \in 1 .. n + 1 |-> g[k]]
<1> DEFINE S == {g[k] : k \in 1 .. n + 1}
           s == [k \in 1 .. n |-> g[k]]
           e == g[n + 1]
           t == [k \in 1 .. n + 1 |-> g[k]]
<1>1. \A k \in 1 .. n + 1 : g[k] \in S
  OBVIOUS
<1>2. s \in Seq(S) /\ Len(s) = n /\ \A k \in 1 .. n : s[k] = g[k]
  <2> HIDE DEF S
  <2> QED
    BY <1>1
<1>3. t \in Seq(S) /\ Len(t) = n + 1 /\ \A k \in 1 .. n + 1 : t[k] = g[k]
  <2> HIDE DEF S
  <2> QED
    BY <1>1
<1>4. e \in S
  BY <1>1
<1> HIDE DEF S, s, t
<1>5. /\ Append(s, e) \in Seq(S) /\ Len(Append(s, e)) = n + 1
      /\ \A k \in 1 .. n + 1 : Append(s, e)[k] = IF k <= n THEN s[k] ELSE e
  BY <1>2, <1>4, AppendProperties
<1>6. \A k \in 1 .. n + 1 : Append(s, e)[k] = t[k]
  BY <1>2, <1>3, <1>5
<1>7. Append(s, e) = t
  BY <1>3, <1>5, <1>6, SeqEqual
<1> QED
  BY <1>7 DEF s, t

FetchedOf(data, r, k) ==
    [c \in 1 .. CellsOf(job, k) |->
        IF SpotOf(job, r, k) + c <= Len(data) THEN data[SpotOf(job, r, k) + c] ELSE Garbage]
ReadAt(i) == LET n == i - (Before + 7) IN IF n < 0 THEN 0 ELSE IF n > Vars THEN Vars ELSE n

LEMMA RestartsAre ==
    Restarts <=> (Reads => \A q \in Ranks :
        /\ pc[q] >= Before + 4 => RankWord(q) = q
        /\ pc[q] >= Before + 6 => CountWord(q) = job.particles
        /\ memory[q] = [k \in 1 .. ReadAt(pc[q]) |-> FetchedOf(FileData(q), q, k)])
  BY Zenon DEF Restarts, ReadAt, HasRead, FetchedOf, Fetched, FileData

LEMMA ReadAtIs ==
    ASSUME NEW i \in Nat
    PROVE  /\ ReadAt(i) \in 0 .. Vars
           /\ i <= Before + 7 => ReadAt(i) = 0
           /\ i \in Before + 7 .. Before + 6 + Vars => ReadAt(i) = i - (Before + 7) /\ ReadAt(i + 1) = ReadAt(i) + 1
           /\ i \notin Before + 7 .. Before + 6 + Vars => ReadAt(i + 1) = ReadAt(i)
           /\ i >= Before + 7 + Vars => ReadAt(i) = Vars
<1>1. Vars \in Nat /\ Before \in Nat
  BY NumbersAre
<1> QED
  BY <1>1 DEF ReadAt

LEMMA RestartsStep ==
    ASSUME TypeOK, Gates, Counts, Bases, Restarts, NEW r \in Ranks, Same, Effects(r)
    PROVE  Restarts'
<1>1. /\ Ranks' = Ranks /\ Reads' = Reads /\ Before' = Before /\ job' = job
      /\ \A q : FileName(q)' = FileName(q)
  BY Still
<1>2. SUFFICES ASSUME Reads, NEW q \in Ranks
               PROVE  /\ pc'[q] >= Before + 4 => RankWord(q)' = q
                      /\ pc'[q] >= Before + 6 => CountWord(q)' = job.particles
                      /\ memory'[q] = [k \in 1 .. ReadAt(pc'[q]) |-> FetchedOf(FileData(q)', q, k)]
  <2>1. ASSUME NEW q PROVE ReadAt(pc[q])' = ReadAt(pc'[q])
    BY <1>1, Zenon DEF ReadAt
  <2>2. ASSUME NEW q, NEW k PROVE FetchedOf(FileData(q), q, k)' = FetchedOf(FileData(q)', q, k)
    BY <1>1, Zenon DEF FetchedOf
  <2>3. ASSUME Reads, NEW q \in Ranks
        PROVE  memory'[q] = [k \in 1 .. ReadAt(pc[q])' |-> FetchedOf(FileData(q), q, k)']
    <3>1. memory'[q] = [k \in 1 .. ReadAt(pc'[q]) |-> FetchedOf(FileData(q)', q, k)]
      BY <1>2, <2>3
    <3> DEFINE A == 1 .. ReadAt(pc[q])'
    <3>2. memory'[q] = [k \in A |-> FetchedOf(FileData(q)', q, k)]
      BY <3>1, <2>1, Zenon
    <3>3. \A k : FetchedOf(FileData(q), q, k)' = FetchedOf(FileData(q)', q, k)
      BY <2>2
    <3> HIDE DEF A
    <3>4. [k \in A |-> FetchedOf(FileData(q)', q, k)] = [k \in A |-> FetchedOf(FileData(q), q, k)']
      BY <3>3
    <3> QED
      BY <3>2, <3>4 DEF A
  <2>4. Reads' => \A q \in Ranks' :
            /\ pc'[q] >= Before' + 4 => RankWord(q)' = q
            /\ pc'[q] >= Before' + 6 => CountWord(q)' = job'.particles
            /\ memory'[q] = [k \in 1 .. ReadAt(pc[q])' |-> FetchedOf(FileData(q), q, k)']
    BY <1>1, <1>2, <2>3, Zenon
  <2> QED
    BY <2>4, Zenon DEF Restarts, ReadAt, HasRead, FetchedOf, Fetched, FileData
<1>3. /\ pc[q] >= Before + 4 => RankWord(q) = q
      /\ pc[q] >= Before + 6 => CountWord(q) = job.particles
      /\ memory[q] = [k \in 1 .. ReadAt(pc[q]) |-> FetchedOf(FileData(q), q, k)]
  BY <1>2, RestartsAre
<1>4. pc[q] > Before =>
          CountWord(q)' = CountWord(q) /\ RankWord(q)' = RankWord(q) /\ FileData(q)' = FileData(q)
  BY ReadersFile, SameWords
<1>5. Before \in Nat /\ Vars \in Nat \ {0} /\ pc[q] \in Nat /\ pc[r] \in Nat /\ DOMAIN memory = Ranks
  BY NumbersAre DEF TypeOK
<1>6. memory[q] = [k \in 1 .. ReadAt(pc[q]) |-> FetchedOf(FileData(q)', q, k)]
  <2>1. CASE pc[q] > Before
    BY <1>3, <1>4, <2>1
  <2>2. CASE pc[q] <= Before
    <3>1. ReadAt(pc[q]) = 0
      BY <1>5, <2>2, ReadAtIs
    <3>2. memory[q] = [k \in 1 .. 0 |-> FetchedOf(FileData(q), q, k)]
      BY <1>3, <3>1
    <3>3. 1 .. 0 = {}
      OBVIOUS
    <3>4. [k \in 1 .. 0 |-> FetchedOf(FileData(q), q, k)] = [k \in 1 .. 0 |-> FetchedOf(FileData(q)', q, k)]
      BY <3>3
    <3> QED
      BY <3>1, <3>2, <3>4
  <2> QED
    BY <1>5, <2>1, <2>2
<1>7. CASE Aborts(r)
  BY <1>3, <1>4, <1>5, <1>6, <1>7 DEF Aborts
<1>8. CASE Moved(r) /\ q # r
  <2>1. pc'[q] = pc[q]
    BY <1>8, MoveIs
  <2>2. memory'[q] = memory[q]
    <3>1. memory' = memory \/ memory' = [memory EXCEPT ![r] = Append(memory[r], Fetch(r, Variable(r)))]
      BY DEF Effects, Aborts, Passes, Creates, Truncates, Scans, Puts, Heads, Closes, Resets, Scatters, Gets
    <3> QED
      BY <1>5, <1>8, <3>1
  <2> QED
    BY <1>3, <1>4, <1>5, <1>6, <2>1, <2>2
<1>9. CASE Moved(r) /\ q = r /\ ~Aborts(r)
  <2>1. pc'[r] = pc[r] + 1
    BY <1>9, MoveIs
  <2>2. pc[r] = Before + 3 => RankWord(r) = r
    <3>1. CASE Scatters(r)
      BY <3>1 DEF Scatters
    <3>2. CASE Passes(r)
      BY <1>2, <3>2 DEF Passes, Plain
    <3>3. CASE ~Scatters(r) /\ ~Passes(r)
      <4>1. \/ Writes /\ pc[r] \in {2, 3, 6, 7 + Vars, 9 + Vars, 10 + Vars}
            \/ Writes /\ pc[r] \in 7 .. 6 + Vars
            \/ pc[r] \in {Before + 6, Before + 8 + Vars}
            \/ pc[r] \in Before + 7 .. Before + 6 + Vars
        BY <1>9, <3>3 DEF Effects, Creates, Truncates, Scans, Puts, Heads, Closes, Resets, Gets
      <4> QED
        BY <4>1, NumbersAre
    <3> QED
      BY <3>1, <3>2, <3>3
  <2>3. pc[r] = Before + 5 => CountWord(r) = job.particles
    <3>1. CASE Passes(r)
      <4>1. pc[r] = Before + 5 => count[r] = job.particles
        BY <1>2, <3>1 DEF Passes
      <4>2. pc[r] = Before + 5 => count[r] = CountWord(r)
        BY <1>2, <1>5 DEF Counts
      <4> QED
        BY <4>1, <4>2
    <3>2. CASE ~Passes(r)
      <4>1. \/ Writes /\ pc[r] \in {2, 3, 6, 7 + Vars, 9 + Vars, 10 + Vars}
            \/ Writes /\ pc[r] \in 7 .. 6 + Vars
            \/ pc[r] \in {Before + 3, Before + 6, Before + 8 + Vars}
            \/ pc[r] \in Before + 7 .. Before + 6 + Vars
        BY <1>9, <3>2 DEF Effects, Creates, Truncates, Scans, Puts, Heads, Closes, Resets, Scatters, Gets
      <4> QED
        BY <4>1, NumbersAre
    <3> QED
      BY <3>1, <3>2
  <2>4. /\ pc'[q] >= Before + 4 => RankWord(q)' = q
        /\ pc'[q] >= Before + 6 => CountWord(q)' = job.particles
    BY <1>3, <1>4, <1>5, <1>9, <2>1, <2>2, <2>3
  <2>5. CASE Gets(r)
    <3>1. /\ memory' = [memory EXCEPT ![r] = Append(memory[r], Fetch(r, Variable(r)))]
          /\ pc[r] \in Before + 7 .. Before + 6 + Vars /\ Step(r) = "read"
      BY <2>5 DEF Gets
    <3>2. Variable(r) = pc[r] - (Before + 6) /\ Variable(r) \in Arrays /\ Fetch(r, Variable(r)) = Fetched(r, Variable(r))
      BY <1>2, <3>1, ReadingIs
    <3> DEFINE n == ReadAt(pc[r])
               g == [k \in Arrays |-> FetchedOf(FileData(r)', r, k)]
    <3>3. n \in Nat /\ n = pc[r] - (Before + 7) /\ ReadAt(pc'[r]) = n + 1 /\ Variable(r) = n + 1
      <4>1. ReadAt(pc[r]) = pc[r] - (Before + 7) /\ ReadAt(pc[r] + 1) = ReadAt(pc[r]) + 1
        BY <1>5, <3>1, ReadAtIs
      <4>2. n = pc[r] - (Before + 7) /\ ReadAt(pc'[r]) = n + 1
        BY <2>1, <4>1
      <4> HIDE DEF n
      <4> QED
        BY <1>5, <3>1, <3>2, <4>2
    <3>4. Fetched(r, Variable(r)) = FetchedOf(FileData(r)', r, Variable(r))
      <4>1. FileData(r)' = FileData(r)
        BY <1>4, <1>5, <1>9, <3>1
      <4>2. Fetched(r, Variable(r)) = FetchedOf(FileData(r), r, Variable(r))
        BY Zenon DEF Fetched, FetchedOf, FileData
      <4> QED
        BY <4>1, <4>2, Zenon
    <3>5. n + 1 \in Arrays /\ 1 .. n + 1 \subseteq Arrays /\ 1 .. n \subseteq Arrays
      BY <3>2, <3>3, RecordIs
    <3>6. memory[r] = [k \in 1 .. n |-> FetchedOf(FileData(r)', r, k)]
      BY <1>6, <1>9
    <3> HIDE DEF n
    <3>7. memory[r] = [k \in 1 .. n |-> g[k]] /\ Fetch(r, Variable(r)) = g[n + 1]
      BY <3>2, <3>3, <3>4, <3>5, <3>6
    <3>8. [k \in 1 .. n + 1 |-> FetchedOf(FileData(r)', r, k)] = [k \in 1 .. n + 1 |-> g[k]]
      BY <3>5
    <3> HIDE DEF g
    <3>9. Append(memory[r], Fetch(r, Variable(r))) = [k \in 1 .. n + 1 |-> g[k]]
      BY <3>3, <3>7, AppendIs
    <3>10. memory'[r] = Append(memory[r], Fetch(r, Variable(r)))
      BY <1>5, <3>1
    <3>11. memory'[r] = [k \in 1 .. ReadAt(pc'[r]) |-> FetchedOf(FileData(r)', r, k)]
      BY <3>3, <3>8, <3>9, <3>10
    <3> QED
      BY <1>9, <2>4, <3>11
  <2>6. CASE ~Gets(r)
    <3>1. memory' = memory
      BY <1>9, <2>6 DEF Effects, Passes, Creates, Truncates, Scans, Puts, Heads, Closes, Resets, Scatters
    <3>2. pc[r] \notin Before + 7 .. Before + 6 + Vars
      <4>1. CASE Passes(r)
        BY <1>2, <1>5, <4>1 DEF Passes, Plain
      <4>2. CASE ~Passes(r)
        <5>1. \/ Writes /\ pc[r] \in {2, 3, 6, 7 + Vars, 9 + Vars, 10 + Vars}
              \/ Writes /\ pc[r] \in 7 .. 6 + Vars
              \/ pc[r] \in {Before + 3, Before + 6, Before + 8 + Vars}
          BY <1>9, <2>6, <4>2 DEF Effects, Creates, Truncates, Scans, Puts, Heads, Closes, Resets, Scatters
        <5> QED
          BY <5>1, NumbersAre
      <4> QED
        BY <4>1, <4>2
    <3>3. ReadAt(pc'[r]) = ReadAt(pc[r])
      BY <1>5, <2>1, <3>2, ReadAtIs
    <3> QED
      BY <1>6, <1>9, <2>4, <3>1, <3>3
  <2> QED
    BY <2>5, <2>6
<1>10. Aborts(r) \/ Moved(r)
  BY DEF Effects, Passes, Creates, Truncates, Scans, Puts, Heads, Closes, Resets, Scatters, Gets
<1> QED
  BY <1>7, <1>8, <1>9, <1>10

-----------------------------------------------------------------------------
(* A job reads what it has written itself                                   *)

LEMMA OwnWords ==
    ASSUME TypeOK, Gates, Wrote, NEW r \in Ranks, Writes, pc[r] > 9 + Vars
    PROVE  RankWord(r) = r /\ CountWord(r) = job.particles
<1>1. job \in Shapes /\ number \in Nat
  BY JobsAre
<1>2. PICK q \in Partition(r) : IsRoot(q)
  BY <1>1, Partners
<1>3. q \in Ranks /\ FileName(q) = FileName(r)
  BY <1>1, <1>2, RanksAre, Partners
<1>4. pc[q] >= 9 + Vars
  BY <1>2 DEF Gates, Gate
<1>5. pc[q] \in Nat /\ Vars \in Nat
  BY <1>3, NumbersAre DEF TypeOK
<1>6. files[FileName(q)].header = OwnHeader(q)
  BY <1>2, <1>3, <1>4, <1>5, WroteIs DEF WroteBy
<1>7. Header(r) = OwnHeader(q)
  BY <1>3, <1>6 DEF Header
<1>8. /\ PartitionSize \in Nat \ {0} /\ PartitionRank(r) \in Nat /\ PartitionRank(r) < PartitionSize
      /\ MetaWords \in Nat /\ r \in Nat
  BY <1>1, RanksAre, HeaderAssumption
<1>9. r = q + PartitionRank(r) /\ q \in Nat
  BY <1>1, <1>2, <1>3, RanksAre DEF IsRoot, PartitionRank, Partition, Shapes
<1>10. \A i : HeaderWord(OwnHeader(q), i) =
          IF i \in MetaWords .. MetaWords + PartitionSize - 1 THEN job.particles
          ELSE IF i \in MetaWords + PartitionSize .. MetaWords + 2 * PartitionSize - 1
               THEN q + i - MetaWords - PartitionSize
               ELSE 0
  BY DEF HeaderWord, OwnHeader
<1> DEFINE i == MetaWords + PartitionRank(r)
           k == MetaWords + PartitionSize + PartitionRank(r)
<1>11. i \in MetaWords .. MetaWords + PartitionSize - 1
  BY <1>8
<1>12. /\ k \notin MetaWords .. MetaWords + PartitionSize - 1
       /\ k \in MetaWords + PartitionSize .. MetaWords + 2 * PartitionSize - 1
       /\ q + k - MetaWords - PartitionSize = r
  BY <1>8, <1>9
<1>13. CountWord(r) = HeaderWord(OwnHeader(q), i) /\ RankWord(r) = HeaderWord(OwnHeader(q), k)
  BY <1>7, Zenon DEF CountWord, RankWord
<1> HIDE DEF i, k
<1> QED
  BY <1>10, <1>11, <1>12, <1>13

LEMMA OwnData ==
    ASSUME TypeOK, Gates, Wrote, Restarts, NEW r \in Ranks, job.kind = "both",
           pc[r] >= Before + 7 + Vars
    PROVE  Matches(r)
<1>1. job \in Shapes /\ Writes /\ Reads /\ Before = Vars + 10 /\ Vars \in Nat /\ pc[r] \in Nat
      /\ number \in Nat
  BY JobsAre, NumbersAre DEF TypeOK
<1>2. memory[r] = [k \in 1 .. Vars |-> FetchedOf(FileData(r), r, k)]
  <2>1. memory[r] = [k \in 1 .. ReadAt(pc[r]) |-> FetchedOf(FileData(r), r, k)]
    BY <1>1, RestartsAre
  <2>2. ReadAt(pc[r]) = Vars
    BY <1>1, ReadAtIs
  <2> QED
    BY <2>1, <2>2
<1>3. SUFFICES ASSUME NEW k \in Arrays, NEW c \in DOMAIN memory[r][k]
               PROVE  memory[r][k][c] = Value(number, r, k, c - 1)
  BY <1>3 DEF Matches
<1>4. memory[r][k] = FetchedOf(FileData(r), r, k)
  BY <1>2, RecordIs
<1>5. c \in 1 .. CellsOf(job, k)
  BY <1>3, <1>4 DEF FetchedOf
<1>6. Holds(FileData(r), job, number, r, k)
  <2>1. pc[r] > 6 + k
    BY <1>1, RecordIs
  <2> QED
    BY <1>1, <2>1, WroteIs DEF WroteBy, FileData
<1>7. SpotOf(job, r, k) \in Nat /\ CellsOf(job, k) \in Nat
  BY <1>1, RanksAre, SpotInFile
<1>8. c - 1 \in 0 .. CellsOf(job, k) - 1 /\ SpotOf(job, r, k) + (c - 1) + 1 = SpotOf(job, r, k) + c
  BY <1>5, <1>7
<1>9. /\ SpotOf(job, r, k) + c <= Len(FileData(r))
      /\ FileData(r)[SpotOf(job, r, k) + c] = Value(number, r, k, c - 1)
  BY <1>6, <1>8 DEF Holds
<1>10. FetchedOf(FileData(r), r, k)[c] = FileData(r)[SpotOf(job, r, k) + c]
  BY <1>5, <1>9 DEF FetchedOf
<1> QED
  BY <1>4, <1>9, <1>10

LEMMA PersistsStep ==
    ASSUME TypeOK, Gates, Counts, Wrote, Restarts, Persists, NEW r \in Ranks, Same, Effects(r)
    PROVE  Persists'
<1>1. job' = job
  BY Still
<1>2. SUFFICES ASSUME job.kind = "both" PROVE ~Aborts(r)
  <2>1. Aborts(r) \/ status' = status
    BY DEF Effects, Passes, Creates, Truncates, Scans, Puts, Heads, Closes, Resets, Scatters, Gets, Moved
  <2> QED
    BY <1>1, <1>2, <2>1 DEF Persists
<1>3. Writes /\ Reads /\ Before = Vars + 10 /\ Vars \in Nat /\ pc[r] \in Nat
  BY <1>2, NumbersAre DEF TypeOK
<1>4. pc[r] > Before => RankWord(r) = r /\ CountWord(r) = job.particles
  BY <1>3, OwnWords
<1>5. ASSUME pc[r] = Before + 1, IsRoot(r) PROVE files[FileName(r)].exists
  BY <1>3, <1>5, WroteIs DEF WroteBy
<1>6. ASSUME pc[r] = Before + 5 PROVE count[r] = job.particles
  <2>1. count[r] = CountWord(r)
    BY <1>3, <1>6 DEF Counts
  <2> QED
    BY <1>3, <1>4, <1>6, <2>1
<1>7. ASSUME pc[r] = Before + 9 + Vars PROVE Matches(r)
  BY <1>2, <1>3, <1>7, OwnData
<1>8. pc[r] = Before + 3 => RankWord(r) = r
  BY <1>3, <1>4
<1> QED
  BY <1>5, <1>6, <1>7, <1>8 DEF Aborts

-----------------------------------------------------------------------------
(* Jobs of one shape                                                        *)

LEMMA ResizedPlaced ==
    ASSUME NEW data \in Seq(Cells), NEW n \in Nat, NEW j, NEW f, PlacedIn(data, j, f)
    PROVE  PlacedIn(Resized(data, n), j, f)
<1> DEFINE D == Resized(data, n)
<1>1. DOMAIN D = 1 .. n /\ \A c \in 1 .. n : D[c] = IF c <= Len(data) THEN data[c] ELSE Hole
  BY ResizedIs DEF Resized
<1>2. DOMAIN data = 1 .. Len(data) /\ Len(data) \in Nat
  BY LenProperties
<1> HIDE DEF D
<1>3. SUFFICES ASSUME NEW c \in DOMAIN D, D[c] # Hole PROVE c \in DOMAIN data /\ D[c] = data[c]
  <2>1. \A c \in DOMAIN D : D[c] = Hole \/ (c \in DOMAIN data /\ D[c] = data[c])
    BY <1>3
  <2> QED
    BY <2>1, Zenon DEF PlacedIn, D
<1> QED
  BY <1>1, <1>2, <1>3

LEMMA PutPlaced ==
    ASSUME NEW j \in Shapes, NEW m \in Nat, NEW data \in Seq(Cells), NEW r \in Ranked(j), NEW k \in Arrays,
           NEW n \in 0 .. CellsOf(j, k), NEW f, FileOf(j, r) = f, PlacedIn(data, j, f)
    PROVE  /\ PlacedIn(Put(data, SpotOf(j, r, k), n, m, r, k), j, f)
           /\ Len(Put(data, SpotOf(j, r, k), n, m, r, k)) >= Len(data)
<1> DEFINE from == SpotOf(j, r, k)
           D == Put(data, from, n, m, r, k)
<1>1. from \in Nat /\ n \in Nat /\ r \in Nat /\ k \in Nat /\ Len(data) \in Nat /\ n <= CellsOf(j, k)
      /\ CellsOf(j, k) \in Nat
  BY SpotInFile, RecordIs, LenProperties DEF Ranked, Shapes
<1>2. /\ D \in Seq(Cells)
      /\ Len(D) = IF from + n > Len(data) THEN from + n ELSE Len(data)
      /\ \A c \in 1 .. Len(D) : D[c] = IF c - 1 \in from .. from + n - 1 THEN Value(m, r, k, c - 1 - from)
                                      ELSE IF c <= Len(data) THEN data[c] ELSE Hole
  <2> HIDE DEF from, D
  <2>1. Put(data, from, n, m, r, k) \in Seq(Cells) /\ IsPut(Put(data, from, n, m, r, k), data, from, n, m, r, k)
    <3>1. data \in Seq(Cells) /\ from \in Nat /\ n \in Nat /\ m \in Nat /\ r \in Nat /\ k \in Nat
      BY <1>1
    <3> QED
      BY ONLY <3>1, PutIs
  <2>2. D \in Seq(Cells) /\ IsPut(D, data, from, n, m, r, k)
    BY <2>1, Zenon DEF D
  <2> QED
    BY ONLY <2>2 DEF IsPut
<1>3. DOMAIN data = 1 .. Len(data) /\ DOMAIN D = 1 .. Len(D) /\ Len(D) \in Nat
  BY <1>2, LenProperties
<1> HIDE DEF from, D
<1>4. Len(D) >= Len(data)
  BY <1>1, <1>2
<1>5. \A c \in DOMAIN D : \/ D[c] = Hole
                          \/ c \in DOMAIN data /\ D[c] = data[c]
                          \/ c - 1 \in from .. from + n - 1 /\ D[c] = Value(m, r, k, c - 1 - from)
  BY <1>1, <1>2, <1>3
<1>6. ASSUME NEW c \in DOMAIN D, c - 1 \in from .. from + n - 1
      PROVE  /\ c - 1 - from \in 0 .. CellsOf(j, k) - 1
             /\ c = from + (c - 1 - from) + 1
  BY <1>1, <1>3, <1>6
<1>7. PlacedIn(D, j, f)
  <2> SUFFICES ASSUME NEW c \in DOMAIN D, D[c] # Hole
               PROVE  /\ D[c].rank \in Ranked(j) /\ FileOf(j, D[c].rank) = f /\ D[c].var \in Arrays
                      /\ D[c].cell \in 0 .. CellsOf(j, D[c].var) - 1
                      /\ c = SpotOf(j, D[c].rank, D[c].var) + D[c].cell + 1
    BY DEF PlacedIn
  <2>1. CASE c \in DOMAIN data /\ D[c] = data[c]
    BY <2>1 DEF PlacedIn
  <2>2. CASE c - 1 \in from .. from + n - 1 /\ D[c] = Value(m, r, k, c - 1 - from)
    <3>1. D[c].rank = r /\ D[c].var = k /\ D[c].cell = c - 1 - from
      BY <2>2 DEF Value
    <3> QED
      BY <1>6, <2>2, <3>1 DEF from
  <2> QED
    BY <1>5, <2>1, <2>2
<1> QED
  BY <1>4, <1>7 DEF D, from

LEMMA MixedStep ==
    ASSUME TypeOK, Counts, Bases, Mixed, NEW r \in Ranks, Same, Effects(r)
    PROVE  Mixed'
<1>1. /\ Ranks' = Ranks /\ Writes' = Writes /\ job' = job /\ Names' = Names /\ FileCells' = FileCells
      /\ SameShapes' = SameShapes
      /\ \A q : IsRoot(q)' = IsRoot(q) /\ FileName(q)' = FileName(q)
  BY Still
<1>2. SUFFICES ASSUME SameShapes, NEW f \in Names
               PROVE  /\ PlacedIn(files'[f].data, job, f)
                      /\ files'[f].header.job > 0 => Len(files'[f].data) >= FileCells
                      /\ Writes => \A q \in Ranks :
                           FileName(q) = f /\ IsRoot(q) /\ pc'[q] > 3 => Len(files'[f].data) >= FileCells
  BY <1>1, <1>2, Zenon DEF Mixed
<1>3. /\ PlacedIn(files[f].data, job, f)
      /\ files[f].header.job > 0 => Len(files[f].data) >= FileCells
      /\ Writes => \A q \in Ranks :
           FileName(q) = f /\ IsRoot(q) /\ pc[q] > 3 => Len(files[f].data) >= FileCells
  BY <1>2 DEF Mixed
<1>4. /\ job \in Shapes /\ number \in Nat /\ FileCells \in Nat /\ FileData(r) \in Seq(Cells)
      /\ pc[r] \in Nat
  <2>1. job \in Shapes /\ number \in Nat
    BY JobsAre
  <2>2. FileCells \in Nat /\ FileData(r) \in Seq(Cells)
    BY FileAfter
  <2>3. pc[r] \in Nat
    BY DEF TypeOK
  <2> QED
    BY <2>1, <2>2, <2>3
<1>5. CASE Aborts(r)
  BY <1>3, <1>5 DEF Aborts
<1>6. CASE Passes(r) \/ Scans(r) \/ Closes(r) \/ Resets(r) \/ Scatters(r) \/ Gets(r)
  <2>1. files' = files /\ Moved(r)
    BY <1>6 DEF Passes, Scans, Closes, Resets, Scatters, Gets
  <2>2. ASSUME Writes, IsRoot(r) PROVE pc[r] # 3
    <3>1. CASE Passes(r)
      BY <2>2, <3>1 DEF Passes, Plain
    <3>2. CASE ~Passes(r)
      <4>1. \/ pc[r] \in {6, 9 + Vars, 10 + Vars, Before + 3, Before + 6, Before + 8 + Vars}
            \/ pc[r] \in Before + 7 .. Before + 6 + Vars
        BY <1>6, <3>2 DEF Scans, Closes, Resets, Scatters, Gets
      <4> QED
        BY <2>2, <4>1, NumbersAre
    <3> QED
      BY <3>1, <3>2
  <2>3. ASSUME Writes, NEW q \in Ranks, FileName(q) = f, IsRoot(q), pc'[q] > 3 PROVE pc[q] > 3
    BY <1>4, <2>1, <2>2, <2>3, MoveIs
  <2> QED
    BY <1>3, <2>1, <2>3
<1>7. CASE Creates(r) \/ Truncates(r) \/ Puts(r) \/ Heads(r)
  <2>1. Moved(r) /\ Writes
    BY <1>7 DEF Creates, Truncates, Puts, Heads
  <2>2. CASE f # FileName(r)
    <3>1. files'[f] = files[f]
      BY <2>2, OneFile
    <3>2. \A q \in Ranks : FileName(q) = f => pc'[q] = pc[q]
      BY <2>1, <2>2, MoveIs
    <3> QED
      BY <1>3, <3>1, <3>2
  <2>3. CASE f = FileName(r)
    <3>0. files[f].data = FileData(r)
      BY <2>3 DEF FileData
    <3>1. CASE Creates(r)
      <4>1. files'[f].header = files[f].header /\ files'[f].data = files[f].data
        BY <2>3, <3>0, <3>1, FileAfter
      <4>2. pc[r] = 2
        BY <3>1 DEF Creates
      <4>3. \A q \in Ranks : pc'[q] > 3 => pc[q] > 3
        BY <2>1, <4>2, MoveIs
      <4> QED
        BY <1>3, <4>1, <4>3
    <3>2. CASE Truncates(r)
      <4>1. files'[f].data = Resized(FileData(r), FileCells)
        BY <2>3, <3>2, FileAfter
      <4>2. PlacedIn(files'[f].data, job, f)
        BY <1>3, <1>4, <3>0, <4>1, ResizedPlaced
      <4>3. Len(files'[f].data) = FileCells
        BY <1>4, <4>1, ResizedIs
      <4> QED
        BY <1>4, <4>2, <4>3
    <3>3. CASE Puts(r)
      <4> DEFINE k == pc[r] - 6
                 D == Put(FileData(r), SpotOf(job, r, k), CellsOf(job, k), number, r, k)
      <4>1. files'[f].header = files[f].header /\ files'[f].data = D /\ k \in Arrays
        BY <2>3, <3>3, FileAfter
      <4>2. r \in Ranked(job) /\ FileOf(job, r) = f
        BY <1>4, <2>3, RanksAre
      <4>3. pc[r] \in 7 .. 6 + Vars
        BY <3>3 DEF Puts
      <4> HIDE DEF k
      <4>4. CellsOf(job, k) \in 0 .. CellsOf(job, k)
        <5>1. CellsOf(job, k) \in Nat
          BY <1>4, <4>1, <4>2, SpotInFile
        <5> QED
          BY <5>1
      <4>5. PlacedIn(D, job, f) /\ Len(D) >= Len(FileData(r))
        BY <1>3, <1>4, <3>0, <4>1, <4>2, <4>4, PutPlaced
      <4>6. Len(D) \in Nat /\ Len(FileData(r)) \in Nat
        <5>1. files'[f].data \in Seq(Cells)
          <6>1. r \in Nat /\ k \in Nat /\ SpotOf(job, r, k) \in Nat /\ CellsOf(job, k) \in Nat
            BY <1>4, <4>1, <4>2, SpotInFile, RanksAre, RecordIs
          <6>2. D \in Seq(Cells)
            BY <1>4, <6>1, PutIs
          <6> HIDE DEF D
          <6> QED
            BY <4>1, <6>2
        <5> HIDE DEF D
        <5> QED
          BY <1>4, <4>1, <5>1, LenProperties
      <4> HIDE DEF D
      <4>7. \A q \in Ranks : pc'[q] > 3 => pc[q] > 3
        BY <2>1, <4>3, MoveIs
      <4> QED
        BY <1>3, <1>4, <3>0, <4>1, <4>5, <4>6, <4>7
    <3>4. CASE Heads(r)
      <4>1. files'[f].data = files[f].data
        BY <2>3, <3>0, <3>4, FileAfter
      <4>2. pc[r] = 7 + Vars /\ IsRoot(r) /\ Vars \in Nat
        BY <3>4, NumbersAre DEF Heads
      <4>3. Len(files[f].data) >= FileCells
        BY <1>3, <2>1, <2>3, <4>2
      <4> QED
        BY <1>3, <4>1, <4>3
    <3> QED
      BY <1>7, <3>1, <3>2, <3>3, <3>4
  <2> QED
    BY <2>2, <2>3
<1> QED
  BY <1>5, <1>6, <1>7 DEF Effects

-----------------------------------------------------------------------------
(* The other steps                                                          *)

\* A job is killed while r writes: the first n cells of its variable are in the file.
Cuts(r, n) ==
    /\ Writes /\ pc[r] \in 7 .. 6 + Vars /\ pc[r] - 6 \in Arrays
    /\ n \in 0 .. CellsOf(job, pc[r] - 6)
    /\ files' = [files EXCEPT ![FileName(r)].data =
                    Put(FileData(r), SpotOf(job, r, pc[r] - 6), n, number, r, pc[r] - 6)]
Quiet ==
    /\ Same /\ UNCHANGED <<pc, base, count, memory, sound>>
    /\ status' \in {status, "ended", "killed"}
    /\ files' = files \/ \E r \in Ranks : \E n \in Nat : Cuts(r, n)

LEMMA KillIs ==
    ASSUME TypeOK, Counts, Bases, Kill
    PROVE  Quiet
<1>1. Same /\ UNCHANGED <<pc, base, count, memory, sound>> /\ status' = "killed"
  BY DEF Kill, Same, fixed, local
<1>2. ASSUME NEW r \in Ranks, Step(r) = "write",
             NEW n \in 1 .. count[r] * Record[Variable(r)] - 1,
             files' = [files EXCEPT ![FileName(r)].data = Written(r, n)]
      PROVE  n \in Nat /\ Cuts(r, n)
  <2>1. job \in Shapes /\ pc[r] \in 1 .. Len(Program) /\ Program[pc[r]] = "write"
    BY <1>2, JobsAre DEF TypeOK, Step
  <2>2. Writes /\ pc[r] \in 7 .. 6 + Vars
    BY <2>1, Positions
  <2>3. /\ Variable(r) = pc[r] - 6 /\ Variable(r) \in Arrays
        /\ count[r] * Record[Variable(r)] = CellsOf(job, Variable(r))
        /\ \A i : Written(r, i) =
                 Put(FileData(r), SpotOf(job, r, Variable(r)), i, number, r, Variable(r))
    BY <1>2, <2>2, WritingIs
  <2>4. n \in 1 .. CellsOf(job, pc[r] - 6) - 1
    BY <1>2, <2>3
  <2>5. CellsOf(job, pc[r] - 6) \in Nat
    BY <2>1, <2>3, RanksAre, SpotInFile
  <2>6. n \in Nat /\ n \in 0 .. CellsOf(job, pc[r] - 6)
    <3> HIDE DEF CellsOf
    <3> QED
      BY <2>4, <2>5
  <2>7. files' = [files EXCEPT ![FileName(r)].data =
                    Put(FileData(r), SpotOf(job, r, pc[r] - 6), n, number, r, pc[r] - 6)]
    BY <1>2, <2>3
  <2> QED
    BY <2>2, <2>3, <2>6, <2>7 DEF Cuts
<1>3. files' = files \/ \E r \in Ranks : \E n \in Nat : Cuts(r, n)
  <2>1. CASE files' = files
    BY <2>1
  <2>2. CASE \E r \in Ranks : Step(r) = "write" /\
               \E n \in 1 .. count[r] * Record[Variable(r)] - 1 :
                  files' = [files EXCEPT ![FileName(r)].data = Written(r, n)]
    BY <1>2, <2>2
  <2> QED
    BY <2>1, <2>2 DEF Kill
<1> QED
  BY <1>1, <1>3 DEF Quiet

LEMMA CutDoes ==
    ASSUME TypeOK, NEW r \in Ranks, NEW n \in Nat, Cuts(r, n)
    PROVE  /\ files' \in [Names -> FileType]
           /\ files'[FileName(r)].exists = files[FileName(r)].exists
           /\ files'[FileName(r)].header = files[FileName(r)].header
           /\ files'[FileName(r)].data =
                 Put(FileData(r), SpotOf(job, r, pc[r] - 6), n, number, r, pc[r] - 6)
           /\ \A f \in Names \ {FileName(r)} : files'[f] = files[f]
           /\ FileData(r) \in Seq(Cells)
<1> DEFINE f == FileName(r)
           D == Put(FileData(r), SpotOf(job, r, pc[r] - 6), n, number, r, pc[r] - 6)
<1>1. f \in Names /\ files \in [Names -> FileType] /\ job \in Shapes /\ number \in Nat /\ r \in Nat
  <2>1. f \in Names /\ job \in Shapes /\ r \in Nat
    BY FilesOfJobs, JobsAre, RanksAre
  <2>2. number \in Nat
    BY JobsAre
  <2>3. files \in [Names -> FileType]
    BY DEF TypeOK, FileType
  <2> QED
    BY <2>1, <2>2, <2>3
<1>2. FileData(r) \in Seq(Cells)
  BY <1>1 DEF FileType, FileData
<1>3. pc[r] - 6 \in Arrays /\ pc[r] - 6 \in Nat
  BY RecordIs DEF Cuts
<1>4. SpotOf(job, r, pc[r] - 6) \in Nat
  BY <1>1, <1>3, RanksAre, SpotInFile
<1>5. D \in Seq(Cells)
  BY <1>1, <1>2, <1>3, <1>4, PutIs
<1>6. files' = [files EXCEPT ![f].data = D]
  BY DEF Cuts
<1> HIDE DEF D
<1>7. /\ files' \in [Names -> FileType]
      /\ files'[f] = [exists |-> files[f].exists, header |-> files[f].header, data |-> D]
      /\ \A h \in Names \ {f} : files'[h] = files[h]
  BY <1>1, <1>5, <1>6, DataSet
<1>8. files'[f].exists = files[f].exists /\ files'[f].header = files[f].header /\ files'[f].data = D
  BY <1>7
<1> QED
  BY <1>2, <1>7, <1>8 DEF D

\* What a quiet step leaves alone.
LEMMA QuietDoes ==
    ASSUME TypeOK, Gates, Quiet
    PROVE  /\ files' \in [Names -> FileType]
           /\ \A f \in Names : files'[f].header = files[f].header /\ files'[f].exists = files[f].exists
           /\ \A q \in Ranks : pc[q] > Before => files'[FileName(q)] = files[FileName(q)]
<1>1. CASE files' = files
  BY <1>1 DEF TypeOK, FileType
<1>2. ASSUME NEW r \in Ranks, NEW n \in Nat, Cuts(r, n)
      PROVE  /\ files' \in [Names -> FileType]
             /\ \A f \in Names : files'[f].header = files[f].header /\ files'[f].exists = files[f].exists
             /\ \A q \in Ranks : pc[q] > Before => files'[FileName(q)] = files[FileName(q)]
  <2>1. files' \in [Names -> FileType]
    BY <1>2, CutDoes
  <2>2. ASSUME NEW f \in Names
        PROVE  files'[f].header = files[f].header /\ files'[f].exists = files[f].exists
    BY <1>2, CutDoes
  <2>3. ASSUME NEW q \in Ranks, pc[q] > Before
        PROVE  files'[FileName(q)] = files[FileName(q)]
    <3>1. FileName(q) # FileName(r)
      <4> SUFFICES ASSUME FileName(q) = FileName(r) PROVE FALSE
        OBVIOUS
      <4>1. r \in Partition(q)
        BY JobsAre, Partners
      <4>2. Writes /\ pc[r] \in 7 .. 6 + Vars
        BY <1>2 DEF Cuts
      <4>3. pc[q] > 9 + Vars
        <5>1. pc[q] \in Nat
          BY DEF TypeOK
        <5> QED
          BY <2>3, <4>2, <5>1, NumbersAre
      <4>4. pc[r] >= 9 + Vars
        BY <4>1, <4>2, <4>3 DEF Gates, Gate
      <4> QED
        BY <4>2, <4>4, NumbersAre
    <3> QED
      BY <1>2, <3>1, CutDoes, FilesOfJobs
  <2> QED
    BY <2>1, <2>2, <2>3
<1> QED
  BY <1>1, <1>2 DEF Quiet

LEMMA QuietTypes ==
    ASSUME TypeOK, Gates, Counts, Bases, Quiet
    PROVE  TypeOK' /\ Gates' /\ Counts' /\ Bases'
<1>1. /\ job' = job /\ Ranks' = Ranks /\ Program' = Program /\ Names' = Names
      /\ Before' = Before /\ Writes' = Writes /\ Reads' = Reads /\ plan' = plan /\ number' = number
      /\ \A r : Partition(r)' = Partition(r) /\ PartitionRank(r)' = PartitionRank(r)
  BY Still DEF Quiet, Same
<1>2. UNCHANGED <<pc, base, count, memory, sound>>
  BY DEF Quiet
<1>3. TypeOK'
  <2>1. files' \in [Names -> [exists : BOOLEAN, header : Headers, data : Seq(Cells)]]
    BY QuietDoes DEF FileType
  <2>2. status' \in {"running", "ended", "killed", "aborted"}
    BY DEF Quiet, TypeOK
  <2> QED
    BY <1>1, <1>2, <2>1, <2>2 DEF TypeOK
<1>4. Gates'
  BY <1>1, <1>2 DEF Gates, Gate
<1>5. Counts'
  <2>1. ASSUME NEW q \in Ranks PROVE CountWord(q)' = CountWord(q)
    <3>1. FileName(q)' = FileName(q) /\ PartitionRank(q)' = PartitionRank(q)
      BY Still DEF Quiet
    <3>2. Header(q)' = Header(q)
      BY <3>1, QuietDoes, FilesOfJobs DEF Header
    <3> QED
      BY <3>1, <3>2, Zenon DEF CountWord, HeaderWord
  <2> QED
    BY <1>1, <1>2, <2>1 DEF Counts
<1>6. Bases'
  BY <1>1, <1>2 DEF Bases
<1> QED
  BY <1>3, <1>4, <1>5, <1>6

LEMMA QuietWrote ==
    ASSUME TypeOK, Gates, Wrote, Quiet
    PROVE  Wrote'
<1>1. /\ Ranks' = Ranks /\ Writes' = Writes /\ job' = job /\ number' = number /\ pc' = pc
      /\ PartitionSize' = PartitionSize
      /\ \A q : IsRoot(q)' = IsRoot(q) /\ FileName(q)' = FileName(q)
  BY Still DEF Same, Quiet
<1>2. SUFFICES ASSUME Writes, NEW q \in Ranks
               PROVE  WroteBy(q, pc[q], files'[FileName(q)])
  <2>1. Writes => \A q \in Ranks : WroteBy(q, pc[q], files'[FileName(q)])
    BY <1>2
  <2>2. \A q : OwnHeader(q)' = OwnHeader(q)
    BY <1>1 DEF OwnHeader
  <2>4. Writes' => \A q \in Ranks' : WroteBy(q, pc[q], files[FileName(q)])'
    BY <1>1, <2>1, <2>2, Zenon DEF WroteBy
  <2> QED
    BY <1>1, <2>4, Zenon DEF Wrote, WroteBy, InPlace, OwnHeader, job
<1> DEFINE f == FileName(q)
<1>3. WroteBy(q, pc[q], files[f])
  BY <1>2, WroteIs
<1>4. job \in Shapes /\ number \in Nat /\ f \in Names /\ pc[q] \in Nat
  BY FilesOfJobs, JobsAre DEF TypeOK
<1>5. files'[f].exists = files[f].exists /\ files'[f].header = files[f].header
  BY <1>4, QuietDoes
<1>6. ASSUME NEW l \in Arrays, pc[q] > 6 + l
      PROVE  Holds(files'[f].data, job, number, q, l)
  <2>1. Holds(files[f].data, job, number, q, l)
    BY <1>3, <1>6 DEF WroteBy
  <2>2. CASE files'[f] = files[f]
    BY <2>1, <2>2
  <2>3. ASSUME NEW r \in Ranks, NEW n \in Nat, Cuts(r, n), f = FileName(r)
        PROVE  Holds(files'[f].data, job, number, q, l)
    <3> DEFINE k == pc[r] - 6
    <3>1. /\ files'[f].data = Put(FileData(r), SpotOf(job, r, k), n, number, r, k)
          /\ FileData(r) \in Seq(Cells) /\ files[f].data = FileData(r)
      BY <2>3, CutDoes DEF FileData
    <3>2. k \in Arrays /\ n \in 0 .. CellsOf(job, k) /\ pc[r] \in 7 .. 6 + Vars /\ l \in Nat
      BY <2>3, RecordIs DEF Cuts
    <3>3. q # r \/ k # l
      BY <1>6, <3>2, NumbersAre
    <3> HIDE DEF k
    <3> QED
      BY <1>4, <2>1, <2>3, <3>1, <3>2, <3>3, PutKeeps
  <2> QED
    BY <1>4, <2>2, <2>3, CutDoes DEF Quiet
<1> QED
  BY <1>3, <1>5, <1>6 DEF WroteBy

LEMMA QuietHeaders ==
    ASSUME TypeOK, Gates, HeadersAre, Quiet
    PROVE  HeadersAre'
<1>1. Names' = Names /\ plan' = plan /\ number' = number
  BY Still DEF Same, Quiet
<1>2. ASSUME NEW f \in Names PROVE HeaderOf(f, files'[f].header, plan, number)
  BY HeadersAreOf, QuietDoes
<1>3. \A f \in Names' : HeaderOf(f, files'[f].header, plan', number')
  BY <1>1, <1>2
<1> QED
  BY <1>3, Zenon DEF HeadersAre, HeaderOf

LEMMA QuietSound ==
    ASSUME TypeOK, Gates, SoundIs, Quiet
    PROVE  SoundIs'
<1>1. /\ Ranks' = Ranks /\ Writes' = Writes /\ plan' = plan /\ number' = number /\ Names' = Names
      /\ pc' = pc /\ sound' = sound
      /\ \A q : IsRoot(q)' = IsRoot(q) /\ FileName(q)' = FileName(q)
  BY Still DEF Same, Quiet
<1>2. ASSUME NEW f \in Names PROVE SoundOf(f, sound[f], files'[f])
  <2>1. SoundOf(f, sound[f], files[f])
    BY SoundIsOf
  <2>2. ASSUME NEW r \in Ranks, NEW n \in Nat, Cuts(r, n), f = FileName(r)
        PROVE  sound[f] = 0
    <3>1. Writes /\ pc[r] \in 7 .. 6 + Vars
      BY <2>2 DEF Cuts
    <3>2. pc[r] \in 3 .. 8 + Vars /\ pc[r] > 4
      BY <3>1, NumbersAre
    <3> QED
      BY <2>2, <3>1, <3>2, Unsound
  <2>3. files'[f] = files[f] \/ sound[f] = 0
    BY <2>2, CutDoes DEF Quiet
  <2> QED
    BY <2>1, <2>3 DEF SoundOf
<1>3. \A f \in Names' :
          /\ SoundOf(f, sound[f], files[f])'
          /\ sound'[f] = number' => \A q \in Ranks' : FileName(q)' = f => pc'[q] >= 9 + Vars
          /\ Writes' /\ sound'[f] \notin {0, number'} =>
                \A q \in Ranks' : FileName(q)' = f /\ IsRoot(q)' => pc'[q] <= 2
  <2>1. \A f \in Names :
            /\ sound[f] = number => \A q \in Ranks : FileName(q) = f => pc[q] >= 9 + Vars
            /\ Writes /\ sound[f] \notin {0, number} =>
                  \A q \in Ranks : FileName(q) = f /\ IsRoot(q) => pc[q] <= 2
    BY SoundIsOf
  <2>2. \A f \in Names' : SoundOf(f, sound[f], files[f])'
    BY <1>1, <1>2, Zenon DEF SoundOf
  <2>3. \A f \in Names' :
          /\ sound'[f] = number' => \A q \in Ranks' : FileName(q)' = f => pc'[q] >= 9 + Vars
          /\ Writes' /\ sound'[f] \notin {0, number'} =>
                \A q \in Ranks' : FileName(q)' = f /\ IsRoot(q)' => pc'[q] <= 2
    BY <1>1, <2>1, Zenon
  <2> QED
    BY <2>2, <2>3, Zenon
<1> QED
  BY <1>3, Zenon DEF SoundIs, SoundOf, InPlace

LEMMA QuietRestarts ==
    ASSUME TypeOK, Gates, Restarts, Quiet
    PROVE  Restarts'
<1>1. /\ Ranks' = Ranks /\ Reads' = Reads /\ Before' = Before /\ job' = job /\ pc' = pc
      /\ memory' = memory
      /\ \A q : FileName(q)' = FileName(q)
  BY Still DEF Quiet
<1>2. ASSUME Reads, NEW q \in Ranks
      PROVE  /\ pc[q] >= Before + 4 => RankWord(q)' = q
             /\ pc[q] >= Before + 6 => CountWord(q)' = job.particles
             /\ memory[q] = [k \in 1 .. ReadAt(pc[q]) |-> FetchedOf(FileData(q)', q, k)]
  <2>1. /\ pc[q] >= Before + 4 => RankWord(q) = q
        /\ pc[q] >= Before + 6 => CountWord(q) = job.particles
        /\ memory[q] = [k \in 1 .. ReadAt(pc[q]) |-> FetchedOf(FileData(q), q, k)]
    BY <1>2, RestartsAre
  <2>2. Before \in Nat /\ Vars \in Nat \ {0} /\ pc[q] \in Nat
    BY NumbersAre DEF TypeOK
  <2>3. CASE pc[q] > Before
    <3>1. CountWord(q)' = CountWord(q) /\ RankWord(q)' = RankWord(q) /\ FileData(q)' = FileData(q)
      BY <2>3, QuietDoes, SameWords DEF Quiet
    <3> QED
      BY <2>1, <3>1
  <2>4. CASE pc[q] <= Before
    <3>1. ReadAt(pc[q]) = 0
      BY <2>2, <2>4, ReadAtIs
    <3>2. memory[q] = [k \in 1 .. 0 |-> FetchedOf(FileData(q), q, k)]
      BY <2>1, <3>1
    <3>3. 1 .. 0 = {}
      OBVIOUS
    <3>4. [k \in 1 .. 0 |-> FetchedOf(FileData(q), q, k)] = [k \in 1 .. 0 |-> FetchedOf(FileData(q)', q, k)]
      BY <3>3
    <3>5. memory[q] = [k \in 1 .. ReadAt(pc[q]) |-> FetchedOf(FileData(q)', q, k)]
      BY <3>1, <3>2, <3>4
    <3>6. ~(pc[q] >= Before + 4) /\ ~(pc[q] >= Before + 6)
      BY <2>2, <2>4
    <3> QED
      BY <3>5, <3>6
  <2> QED
    BY <2>2, <2>3, <2>4
<1>3. ASSUME NEW q PROVE ReadAt(pc[q])' = ReadAt(pc[q])
  BY <1>1, Zenon DEF ReadAt
<1>4. ASSUME NEW q, NEW k PROVE FetchedOf(FileData(q), q, k)' = FetchedOf(FileData(q)', q, k)
  BY <1>1, Zenon DEF FetchedOf
<1>5. ASSUME Reads, NEW q \in Ranks
      PROVE  memory[q] = [k \in 1 .. ReadAt(pc[q])' |-> FetchedOf(FileData(q), q, k)']
  <2>1. memory[q] = [k \in 1 .. ReadAt(pc[q]) |-> FetchedOf(FileData(q)', q, k)]
    BY <1>2, <1>5
  <2> DEFINE A == 1 .. ReadAt(pc[q])'
  <2>2. memory[q] = [k \in A |-> FetchedOf(FileData(q)', q, k)]
    BY <2>1, <1>3, Zenon
  <2>3. \A k : FetchedOf(FileData(q), q, k)' = FetchedOf(FileData(q)', q, k)
    BY <1>4
  <2> HIDE DEF A
  <2>4. [k \in A |-> FetchedOf(FileData(q)', q, k)] = [k \in A |-> FetchedOf(FileData(q), q, k)']
    BY <2>3
  <2> QED
    BY <2>2, <2>4 DEF A
<1>6. Reads' => \A q \in Ranks' :
          /\ pc'[q] >= Before' + 4 => RankWord(q)' = q
          /\ pc'[q] >= Before' + 6 => CountWord(q)' = job'.particles
          /\ memory'[q] = [k \in 1 .. ReadAt(pc[q])' |-> FetchedOf(FileData(q), q, k)']
  BY <1>1, <1>2, <1>5, Zenon
<1> QED
  BY <1>6, Zenon DEF Restarts, ReadAt, HasRead, FetchedOf, Fetched, FileData

LEMMA QuietMixed ==
    ASSUME TypeOK, Gates, Mixed, Quiet
    PROVE  Mixed'
<1>1. /\ Ranks' = Ranks /\ Writes' = Writes /\ job' = job /\ Names' = Names /\ FileCells' = FileCells
      /\ SameShapes' = SameShapes /\ pc' = pc
      /\ \A q : IsRoot(q)' = IsRoot(q) /\ FileName(q)' = FileName(q)
  BY Still DEF Quiet
<1>2. SUFFICES ASSUME SameShapes, NEW f \in Names
               PROVE  /\ PlacedIn(files'[f].data, job, f)
                      /\ files'[f].header.job > 0 => Len(files'[f].data) >= FileCells
                      /\ Writes => \A q \in Ranks :
                           FileName(q) = f /\ IsRoot(q) /\ pc[q] > 3 => Len(files'[f].data) >= FileCells
  BY <1>1, <1>2, Zenon DEF Mixed
<1>3. /\ PlacedIn(files[f].data, job, f)
      /\ files[f].header.job > 0 => Len(files[f].data) >= FileCells
      /\ Writes => \A q \in Ranks :
           FileName(q) = f /\ IsRoot(q) /\ pc[q] > 3 => Len(files[f].data) >= FileCells
  BY <1>2 DEF Mixed
<1>4. files'[f].header = files[f].header
  BY QuietDoes
<1>5. SUFFICES /\ PlacedIn(files'[f].data, job, f)
               /\ Len(files[f].data) >= FileCells => Len(files'[f].data) >= FileCells
  BY <1>3, <1>4
<1>6. CASE files'[f] = files[f]
  BY <1>3, <1>6
<1>7. ASSUME NEW r \in Ranks, NEW n \in Nat, Cuts(r, n), f = FileName(r)
      PROVE  /\ PlacedIn(files'[f].data, job, f)
             /\ Len(files[f].data) >= FileCells => Len(files'[f].data) >= FileCells
  <2> DEFINE k == pc[r] - 6
             D == Put(FileData(r), SpotOf(job, r, k), n, number, r, k)
  <2>1. files'[f].data = D /\ FileData(r) \in Seq(Cells) /\ files[f].data = FileData(r)
        /\ files' \in [Names -> FileType]
    BY <1>7, CutDoes DEF FileData
  <2>2. k \in Arrays /\ n \in 0 .. CellsOf(job, k)
    BY <1>7 DEF Cuts
  <2>3. job \in Shapes /\ number \in Nat /\ r \in Ranked(job) /\ FileOf(job, r) = f
    BY <1>7, JobsAre, RanksAre
  <2>4. PlacedIn(D, job, f) /\ Len(D) >= Len(FileData(r))
    <3> HIDE DEF k
    <3> QED
      BY <1>3, <2>1, <2>2, <2>3, PutPlaced
  <2>5. FileCells \in Nat
    BY <2>3, RanksAre, VariablesApart DEF FileCells, Shapes
  <2>6. D \in Seq(Cells)
    BY <2>1 DEF FileType
  <2>7. Len(D) \in Nat /\ Len(FileData(r)) \in Nat
    <3> HIDE DEF D
    <3> QED
      BY <2>1, <2>6, LenProperties
  <2> HIDE DEF D
  <2> QED
    BY <2>1, <2>4, <2>5, <2>7
<1>8. files'[f] = files[f] \/ \E r \in Ranks : \E n \in Nat : Cuts(r, n) /\ f = FileName(r)
  BY CutDoes DEF Quiet
<1> QED
  BY <1>6, <1>7, <1>8

LEMMA QuietStep ==
    ASSUME IInv, Quiet
    PROVE  IInv'
<1>1. Persists'
  <2>1. job' = job
    BY Still DEF Quiet
  <2> QED
    BY <2>1 DEF IInv, Persists, Quiet
<1> QED
  BY <1>1, QuietTypes, QuietWrote, QuietHeaders, QuietSound, QuietRestarts, QuietMixed DEF IInv

-----------------------------------------------------------------------------
(* The start of a job                                                       *)

JustStarted ==
    /\ job \in Shapes
    /\ status = "running" /\ pc = Per(job, 1) /\ base = Per(job, 0)
    /\ count = Per(job, IF job.kind = "read" THEN -1 ELSE job.particles)
    /\ memory = Per(job, <<>>)

LEMMA Starts ==
    JustStarted =>
        /\ pc \in [Ranks -> 1 .. Len(Program)] /\ base \in [Ranks -> Nat] /\ count \in [Ranks -> Int]
        /\ DOMAIN memory = Ranks /\ status = "running" /\ \A r \in Ranks : pc[r] = 1
        /\ Gates /\ Counts /\ Bases /\ Wrote /\ Restarts /\ Persists
<1> SUFFICES ASSUME JustStarted
             PROVE /\ pc \in [Ranks -> 1 .. Len(Program)] /\ base \in [Ranks -> Nat] /\ count \in [Ranks -> Int]
                   /\ DOMAIN memory = Ranks /\ status = "running" /\ \A r \in Ranks : pc[r] = 1
                   /\ Gates /\ Counts /\ Bases /\ Wrote /\ Restarts /\ Persists
  OBVIOUS
<1>1. job \in Shapes /\ Ranks = 0 .. job.ranks - 1 /\ job.particles \in Nat
  BY DEF JustStarted, Ranks, Shapes
<1>2. Len(Program) \in Nat \ {0}
  BY <1>1, ProgramIs, NumbersAre
<1>3. pc \in [Ranks -> 1 .. Len(Program)] /\ \A r \in Ranks : pc[r] = 1
  BY <1>1, <1>2 DEF JustStarted, Per
<1>4. base \in [Ranks -> Nat]
  BY <1>1 DEF JustStarted, Per
<1>5. /\ count \in [Ranks -> Int]
      /\ Writes => \A r \in Ranks : count[r] = job.particles
  BY <1>1 DEF JustStarted, Per, Writes
<1>6. DOMAIN memory = Ranks /\ \A r \in Ranks : memory[r] = <<>>
  BY <1>1 DEF JustStarted, Per
<1>7. Gates
  <2>1. ASSUME NEW b \in Nat \ {0} PROVE Gate(b)
    BY <1>3, <2>1 DEF Gate
  <2>2. 4 \in Nat \ {0} /\ 9 + Vars \in Nat \ {0} /\ Before + 4 \in Nat \ {0}
    BY NumbersAre
  <2> QED
    BY <2>1, <2>2 DEF Gates
<1>8. Counts
  BY <1>3, <1>5, NumbersAre DEF Counts
<1>9. Bases
  BY <1>3 DEF Bases
<1>10. Wrote
  <2>1. \A r \in Ranks : ~(pc[r] > 2) /\ ~(pc[r] > 7 + Vars) /\ \A k \in Arrays : ~(pc[r] > 6 + k)
    BY <1>3, NumbersAre, RecordIs
  <2> QED
    BY <2>1 DEF Wrote
<1>11. Restarts
  <2>1. \A r \in Ranks : ~(pc[r] >= Before + 4) /\ ~(pc[r] >= Before + 6) /\ ReadAt(pc[r]) = 0
    BY <1>3, NumbersAre, ReadAtIs
  <2>2. ASSUME NEW r \in Ranks
        PROVE  memory[r] = [k \in 1 .. ReadAt(pc[r]) |-> FetchedOf(FileData(r), r, k)]
    <3>1. [k \in 1 .. 0 |-> FetchedOf(FileData(r), r, k)] = <<>>
      OBVIOUS
    <3> QED
      BY <1>6, <2>1, <3>1
  <2> QED
    BY <2>1, <2>2, RestartsAre
<1>12. Persists /\ status = "running"
  BY DEF JustStarted, Persists
<1> QED
  BY <1>3, <1>4, <1>5, <1>6, <1>7, <1>8, <1>9, <1>10, <1>11, <1>12

LEMMA InitIs ==
    ASSUME Init
    PROVE  IInv
<1>1. plan \in Seq(Shapes) /\ Len(plan) > 0
  BY JobsAssumption DEF Init, Shapes
<1>2. Len(plan) \in Nat /\ number = 1 /\ number \in 1 .. Len(plan)
  BY <1>1 DEF Init
<1>3. job \in Shapes
  BY <1>1, <1>2, ElementOfSeq DEF job
<1>4. JustStarted
  BY <1>3 DEF JustStarted, Init
<1>5. \A f \in Names : files[f] = NoFile /\ sound[f] = 0
  BY DEF Init
<1>6. TypeOK
  <2>1. NoHeader \in Headers
    BY DEF NoHeader, Headers
  <2>2. NoFile \in [exists : BOOLEAN, header : Headers, data : Seq(Cells)]
    <3> HIDE DEF Headers, Cells
    <3> QED
      BY <2>1 DEF NoFile
  <2>3. files \in [Names -> [exists : BOOLEAN, header : Headers, data : Seq(Cells)]]
    <3>1. files = [f \in Names |-> NoFile]
      BY DEF Init
    <3> HIDE DEF NoFile, Headers, Cells, Names
    <3> QED
      BY <2>2, <3>1
  <2>4. sound \in [Names -> 0 .. number]
    BY <1>2 DEF Init
  <2> QED
    BY <1>2, <1>4, <2>3, <2>4, Starts DEF TypeOK, Init
<1>7. NoFile.header = NoHeader /\ NoFile.data = <<>> /\ NoHeader.job = 0
  BY DEF NoFile, NoHeader
<1>8. HeadersAre
  BY <1>5, <1>7 DEF HeadersAre
<1>9. SoundIs
  BY <1>2, <1>5 DEF SoundIs
<1>10. Mixed
  <2>1. \A j, f : PlacedIn(<<>>, j, f)
    BY DEF PlacedIn
  <2>2. \A r \in Ranks : ~(pc[r] > 3)
    BY <1>4, Starts
  <2> QED
    BY <1>5, <1>7, <2>1, <2>2 DEF Mixed
<1> QED
  BY <1>4, <1>6, <1>8, <1>9, <1>10, Starts DEF IInv

LEMMA NextJobStep ==
    ASSUME IInv, NextJob
    PROVE  IInv'
<1>1. /\ plan' = plan /\ files' = files /\ sound' = sound /\ number' = number + 1
      /\ number \in Nat \ {0} /\ Len(plan) \in Nat /\ number + 1 \in 1 .. Len(plan)
      /\ job' = plan[number + 1] /\ job' \in Shapes /\ job \in Shapes
  <2>1. plan' = plan /\ files' = files /\ sound' = sound /\ number' = number + 1 /\ number < Len(plan)
    BY DEF NextJob
  <2>2. number \in 1 .. Len(plan) /\ Len(plan) \in Nat
    BY JobsAre DEF IInv, TypeOK
  <2>3. number + 1 \in 1 .. Len(plan)
    BY <2>1, <2>2
  <2>4. job' = plan[number + 1]
    BY <2>1 DEF job
  <2> QED
    BY <2>1, <2>2, <2>3, <2>4, JobsAre DEF IInv
<1>2. JustStarted'
  <2>1. Start(job')
    BY <1>1 DEF NextJob
  <2> QED
    BY <1>1, <2>1, Zenon DEF Start, JustStarted, Per
<1>3. (/\ pc \in [Ranks -> 1 .. Len(Program)] /\ base \in [Ranks -> Nat] /\ count \in [Ranks -> Int]
       /\ DOMAIN memory = Ranks /\ status = "running" /\ \A r \in Ranks : pc[r] = 1
       /\ Gates /\ Counts /\ Bases /\ Wrote /\ Restarts /\ Persists)'
  <2>1. (JustStarted =>
            /\ pc \in [Ranks -> 1 .. Len(Program)] /\ base \in [Ranks -> Nat] /\ count \in [Ranks -> Int]
            /\ DOMAIN memory = Ranks /\ status = "running" /\ \A r \in Ranks : pc[r] = 1
            /\ Gates /\ Counts /\ Bases /\ Wrote /\ Restarts /\ Persists)'
    BY Starts, PTL
  <2> QED
    BY <1>2, <2>1
<1>4. Names' = Names /\ SameShapes' = SameShapes
  <2>1. Names' = Names
    BY <1>1 DEF Names, FileOf
  <2> QED
    BY <1>1, <2>1 DEF SameShapes
<1>5. TypeOK'
  <2>1. plan' \in Plans /\ number' \in 1 .. Len(plan')
    BY <1>1 DEF IInv, TypeOK
  <2>2. files' \in [Names' -> [exists : BOOLEAN, header : Headers, data : Seq(Cells)]]
    BY <1>1, <1>4 DEF IInv, TypeOK
  <2>3. sound' \in [Names' -> 0 .. number']
    <3>1. sound \in [Names -> 0 .. number] /\ 0 .. number \subseteq 0 .. number + 1
      BY <1>1 DEF IInv, TypeOK
    <3> QED
      BY <1>1, <1>4, <3>1
  <2> QED
    BY <1>3, <2>1, <2>2, <2>3 DEF TypeOK
<1>6. HeadersAre'
  <2>1. ASSUME NEW f \in Names PROVE HeaderOf(f, files[f].header, plan, number + 1)
    <3>1. HeaderOf(f, files[f].header, plan, number)
      BY HeadersAreOf DEF IInv
    <3>2. 1 .. number \subseteq 1 .. number + 1
      BY <1>1
    <3> QED
      BY <3>1, <3>2 DEF HeaderOf
  <2>2. \A f \in Names' : HeaderOf(f, files'[f].header, plan', number')
    BY <1>1, <1>4, <2>1
  <2> QED
    BY <2>2, Zenon DEF HeadersAre, HeaderOf
<1>7. SoundIs'
  <2>1. \A f \in Names : SoundOf(f, sound[f], files[f])
    BY SoundIsOf DEF IInv
  <2>2. \A f \in Names' : SoundOf(f, sound[f], files[f])'
    BY <1>1, <1>4, <2>1, Zenon DEF SoundOf
  <2>3. \A f \in Names' : sound'[f] # number'
    BY <1>1, <1>4 DEF IInv, TypeOK
  <2>4. \A q \in Ranks' : pc'[q] <= 2
    BY <1>3
  <2>5. \A f \in Names' :
          /\ SoundOf(f, sound[f], files[f])'
          /\ sound'[f] = number' => \A q \in Ranks' : FileName(q)' = f => pc'[q] >= 9 + Vars
          /\ Writes' /\ sound'[f] \notin {0, number'} =>
                \A q \in Ranks' : FileName(q)' = f /\ IsRoot(q)' => pc'[q] <= 2
    BY <2>2, <2>3, <2>4, Zenon
  <2> QED
    BY <2>5, Zenon DEF SoundIs, SoundOf, InPlace
<1>8. Mixed'
  <2>1. SUFFICES ASSUME SameShapes
                 PROVE  \A f \in Names : /\ PlacedIn(files[f].data, job', f)
                                         /\ files[f].header.job > 0 => Len(files[f].data) >= FileCells'
    <3>1. \A r \in Ranks' : ~(pc'[r] > 3)
      BY <1>3
    <3> QED
      BY <1>1, <1>4, <2>1, <3>1, Zenon DEF Mixed
  <2>2. job'.ranks = job.ranks /\ job'.particles = job.particles /\ job'.perRank = job.perRank
    BY <1>1, <2>1, JobsAre DEF SameShapes, job, IInv
  <2>3. ASSUME NEW r, NEW k PROVE SpotOf(job', r, k) = SpotOf(job, r, k) /\ CellsOf(job', k) = CellsOf(job, k)
    BY <2>2, Zenon DEF SpotOf, CellsOf
  <2>4. Ranked(job') = Ranked(job) /\ \A r : FileOf(job', r) = FileOf(job, r)
    BY <2>2, Zenon DEF Ranked, FileOf
  <2>5. \A f : PlacedIn(files[f].data, job, f) => PlacedIn(files[f].data, job', f)
    BY <2>3, <2>4, Zenon DEF PlacedIn
  <2>6. FileCells' = FileCells
    BY <2>2, Zenon DEF FileCells, PartitionSize
  <2>7. Mixed
    BY DEF IInv
  <2> QED
    BY <2>1, <2>5, <2>6, <2>7, Zenon DEF Mixed
<1> QED
  BY <1>3, <1>5, <1>6, <1>7, <1>8 DEF IInv

LEMMA StepsKeep ==
    ASSUME IInv, [Next]_vars
    PROVE  IInv'
<1>1. ASSUME NEW r \in Ranks, RankStep(r) PROVE IInv'
  <2>1. Same /\ Effects(r)
    BY <1>1, StepIs DEF IInv
  <2>2. TypeOK' /\ Gates' /\ Counts' /\ Bases'
    BY <1>1, <2>1, TypeStep, GatesStep, CountsStep, BasesStep DEF IInv
  <2>3. Wrote' /\ HeadersAre' /\ SoundIs'
    BY <2>1, WroteStep, HeadersStep, SoundStep DEF IInv
  <2>4. Restarts' /\ Persists' /\ Mixed'
    BY <2>1, RestartsStep, PersistsStep, MixedStep DEF IInv
  <2> QED
    BY <2>2, <2>3, <2>4 DEF IInv
<1>2. CASE EndJob
  <2>1. Quiet
    BY <1>2 DEF EndJob, Quiet, Same, fixed, local
  <2> QED
    BY <2>1, QuietStep
<1>3. CASE Kill
  BY <1>3, KillIs, QuietStep DEF IInv
<1>4. CASE NextJob
  BY <1>4, NextJobStep
<1>5. CASE UNCHANGED vars
  <2>1. Quiet
    BY <1>5 DEF vars, Quiet, Same
  <2> QED
    BY <2>1, QuietStep
<1> QED
  BY <1>1, <1>2, <1>3, <1>4, <1>5 DEF Next

(* What the proofs rest on, whatever the record, the plans of jobs and the   *)
(* number of ranks and particles: types; no rank is past a barrier that one  *)
(* of its partition has not reached; what each rank has put, and read, is in *)
(* its place; a header is that of a job that had the file; and a file is     *)
(* sound only between a close and the next open for writing.                 *)
THEOREM HaccInductive == Spec => []IInv
<1>1. Init => IInv
  BY InitIs
<1>2. IInv /\ [Next]_vars => IInv'
  BY StepsKeep
<1> QED
  BY <1>1, <1>2, PTL DEF Spec

-----------------------------------------------------------------------------
(* What it comes to                                                         *)

(* As soon as Close has returned on any rank of any job, the file holds the  *)
(* header of that job and every array of every rank of the partition,        *)
(* whatever was killed in between: the barriers around close() are enough.   *)
THEOREM CheckpointsAreComplete == Spec => []CompleteWhenClosed
<1>1. IInv => CompleteWhenClosed
  <2> SUFFICES ASSUME IInv, NEW f \in Names, sound[f] > 0
               PROVE  files[f].header.job = sound[f] /\ HoldsAll(f)
    BY DEF CompleteWhenClosed
  <2>1. /\ files[f].header.job = sound[f]
        /\ \A r \in Ranked(plan[sound[f]]) : FileOf(plan[sound[f]], r) = f =>
              \A k \in Arrays : InPlace(f, sound[f], r, k)
    BY DEF IInv, SoundIs
  <2>2. HoldsAll(f)
    BY <2>1, Zenon DEF HoldsAll, InPlace, Holds, SpotOf, CellsOf, Ranked
  <2> QED
    BY <2>1, <2>2
<1> QED
  BY <1>1, HaccInductive, PTL

\* The words the scatters deal out, by the sizes of the writer and the reader.
LEMMA WordsOf ==
    ASSUME NEW h \in Headers, NEW R \in Nat \ {0}, NEW x \in 0 .. R - 1
    PROVE  /\ h.ranks = 0 => HeaderWord(h, MetaWords + x) = 0
           /\ h.ranks < R /\ x = R - 1 => HeaderWord(h, MetaWords + R + x) = 0
           /\ R < h.ranks /\ x = 0 => HeaderWord(h, MetaWords + R + x) = h.particles
           /\ R = h.ranks => HeaderWord(h, MetaWords + x) = h.particles
           /\ R = h.ranks /\ x = 0 => HeaderWord(h, MetaWords + R + x) = h.first
<1> DEFINE H == h.ranks
           p == h.particles
           o == h.first
           M == MetaWords
<1>1. H \in Nat /\ p \in Nat /\ o \in Nat /\ M \in Nat
  BY HeaderAssumption DEF Headers
<1>2. \A i : HeaderWord(h, i) = IF i \in M .. M + H - 1 THEN p
                               ELSE IF i \in M + H .. M + 2 * H - 1 THEN o + i - M - H ELSE 0
  BY DEF HeaderWord
<1> HIDE DEF H, p, o, M
<1>3. H = 0 => HeaderWord(h, M + x) = 0
  <2>1. H = 0 => M + x \notin M .. M + H - 1 /\ M + x \notin M + H .. M + 2 * H - 1
    BY <1>1
  <2> QED
    BY <1>2, <2>1
<1>4. H < R /\ x = R - 1 => HeaderWord(h, M + R + x) = 0
  <2>1. H < R /\ x = R - 1 => M + R + x \notin M .. M + H - 1 /\ M + R + x \notin M + H .. M + 2 * H - 1
    BY <1>1
  <2> QED
    BY <1>2, <2>1
<1>5. R < H /\ x = 0 => HeaderWord(h, M + R + x) = p
  <2>1. R < H /\ x = 0 => M + R + x \in M .. M + H - 1
    BY <1>1
  <2> QED
    BY <1>2, <2>1
<1>6. R = H => HeaderWord(h, M + x) = p
  <2>1. R = H => M + x \in M .. M + H - 1
    BY <1>1
  <2> QED
    BY <1>2, <2>1
<1>7. R = H /\ x = 0 => HeaderWord(h, M + R + x) = o
  <2>1. R = H /\ x = 0 => /\ M + R + x \notin M .. M + H - 1 /\ M + R + x \in M + H .. M + 2 * H - 1
                          /\ o + (M + R + x) - M - H = o
    BY <1>1
  <2> QED
    BY <1>2, <2>1
<1> QED
  BY <1>3, <1>4, <1>5, <1>6, <1>7 DEF H, p, o, M

\* A rank that is past the comparison of the counts has the header of its own shape.
LEMMA HeaderFits ==
    ASSUME IInv, NEW r \in Ranks, Reads, pc[r] >= Before + 6
    PROVE  /\ Header(r).job \in 1 .. number
           /\ Header(r).ranks = PartitionSize /\ Header(r).particles = job.particles
           /\ Header(r).first = (IF job.perRank THEN r ELSE 0)
           /\ HeaderOf(FileName(r), Header(r), plan, number) /\ Header(r) # NoHeader
<1> DEFINE h == Header(r)
           f == FileName(r)
           R == PartitionSize
<1>1. /\ job \in Shapes /\ f \in Names /\ pc[r] \in Nat /\ R \in Nat \ {0} /\ number \in Nat
      /\ job.particles \in Nat \ {0}
  <2>1. job \in Shapes /\ f \in Names /\ number \in Nat
    BY JobsAre, FilesOfJobs DEF IInv
  <2>2. pc[r] \in Nat
    BY DEF IInv, TypeOK
  <2> QED
    BY <2>1, <2>2, RanksAre DEF Shapes
<1>2. h \in Headers /\ HeaderOf(f, h, plan, number)
  BY <1>1, HeadersAreOf DEF IInv, TypeOK, Header
<1>3. CountWord(r) = job.particles
  BY DEF IInv, Restarts
<1>4. ASSUME NEW q \in Partition(r)
      PROVE  q \in Ranks /\ HeaderWord(h, MetaWords + R + PartitionRank(q)) = q
  <2>1. q \in Ranks /\ FileName(q) = f /\ pc[q] \in Nat
    <3>1. q \in Ranks
      BY <1>1, <1>4, RanksAre
    <3>2. FileName(q) = f
      BY <1>1, <1>4, <3>1, Partners
    <3>3. pc[q] \in Nat
      BY <3>1 DEF IInv, TypeOK
    <3> QED
      BY <3>1, <3>2, <3>3
  <2>2. pc[r] > Before + 4
    BY <1>1, NumbersAre
  <2>3. pc[q] >= Before + 4
    BY <1>4, <2>2 DEF IInv, Gates, Gate
  <2>4. RankWord(q) = q
    BY <2>1, <2>3 DEF IInv, Restarts
  <2>5. Header(q) = h
    BY <2>1 DEF Header
  <2> QED
    BY <2>1, <2>4, <2>5 DEF RankWord
<1>5. HeaderWord(h, MetaWords + PartitionRank(r)) = job.particles
  BY <1>3 DEF CountWord
<1>6. PartitionRank(r) \in 0 .. R - 1
  BY <1>1, RanksAre
<1>7. h.ranks # 0
  BY <1>1, <1>2, <1>5, <1>6, WordsOf
<1>8. h # NoHeader
  BY <1>7 DEF NoHeader
<1> DEFINE j == plan[h.job]
<1>9. /\ h.job \in 1 .. number /\ h.ranks = SizeOf(j) /\ h.particles = j.particles
      /\ h.first \in Ranked(j) /\ FileOf(j, h.first) = f
      /\ ~j.perRank => h.first = 0
  BY <1>2, <1>8 DEF HeaderOf
<1>10. j \in Shapes
  <2>1. h.job \in 1 .. Len(plan)
    BY <1>9, JobsAre DEF IInv, TypeOK
  <2> QED
    BY <2>1, JobsAre DEF IInv
<1>11. h.particles \in Nat \ {0} /\ h.ranks \in Nat \ {0} /\ h.first \in Nat
  BY <1>9, <1>10, <1>2 DEF Shapes, Headers, SizeOf
<1>12. PICK q \in Partition(r) : PartitionRank(q) = 0 /\ q = (IF job.perRank THEN r ELSE 0)
  BY <1>1, RanksAre DEF Partition, PartitionRank, Shapes
<1>13. HeaderWord(h, MetaWords + R + 0) = q
  BY <1>4, <1>12
<1> HIDE DEF h, R, j
<1>14. ~(h.ranks < R)
  <2> SUFFICES ASSUME h.ranks < R PROVE FALSE
    OBVIOUS
  <2>1. R > 1
    BY <1>1, <1>11
  <2>2. ~job.perRank
    BY <2>1 DEF PartitionSize, R
  <2>3. R - 1 \in Partition(r) /\ PartitionRank(R - 1) = R - 1
    BY <1>1, <2>2 DEF Partition, PartitionRank, Ranks, PartitionSize, R
  <2>4. HeaderWord(h, MetaWords + R + (R - 1)) = R - 1
    BY <1>4, <2>3
  <2>5. R - 1 \in 0 .. R - 1
    BY <1>1
  <2>6. HeaderWord(h, MetaWords + R + (R - 1)) = 0
    BY <1>1, <1>2, <2>5, WordsOf
  <2> QED
    BY <1>1, <2>1, <2>4, <2>6
<1>15. ~(R < h.ranks)
  <2> SUFFICES ASSUME R < h.ranks PROVE FALSE
    OBVIOUS
  <2>1. 0 \in 0 .. R - 1
    BY <1>1
  <2>2. q = h.particles
    BY <1>1, <1>2, <1>13, <2>1, WordsOf
  <2>3. q = r /\ job.perRank
    BY <1>11, <1>12, <2>2
  <2>4. ~j.perRank
    BY <1>1, <1>9 DEF SizeOf
  <2>5. f = <<0, 1>> /\ f = <<r, job.ranks>>
    BY <1>9, <2>3, <2>4 DEF FileOf, FileName
  <2>6. r = 0
    BY <2>5
  <2> QED
    BY <1>11, <2>2, <2>3, <2>6
<1>16. R = h.ranks
  BY <1>1, <1>11, <1>14, <1>15
<1>17. 0 \in 0 .. R - 1
  BY <1>1
<1>18. h.first = q
  BY <1>1, <1>2, <1>13, <1>16, <1>17, WordsOf
<1>19. h.particles = job.particles
  BY <1>1, <1>2, <1>5, <1>6, <1>16, WordsOf DEF R
<1> QED
  BY <1>2, <1>8, <1>9, <1>12, <1>16, <1>18, <1>19 DEF h, R

(* A job of another size, or with another number of particles, and a job     *)
(* that finds no header, never comes to reading data: with the test of the   *)
(* rank table, the barrier behind it and the comparison of the counts, the   *)
(* header's own size need not be looked at.  One word of a table of another  *)
(* size can pass the test; some rank of the partition always fails it.       *)
THEOREM ShapesAreCompared == Spec => []OtherShapesRefused
<1>1. IInv => OtherShapesRefused
  <2> SUFFICES ASSUME IInv, NEW r \in Ranks, Step(r) = "read"
               PROVE  /\ Header(r).job > 0 /\ Header(r).ranks = PartitionSize
                      /\ Header(r).particles = job.particles
                      /\ Header(r).first = (IF job.perRank THEN r ELSE 0)
    BY DEF OtherShapesRefused
  <2>1. job \in Shapes /\ pc[r] \in 1 .. Len(Program) /\ Program[pc[r]] = "read"
    BY JobsAre DEF IInv, TypeOK, Step
  <2>2. Reads /\ pc[r] \in Before + 7 .. Before + 6 + Vars
    BY <2>1, Positions
  <2>3. pc[r] >= Before + 6
    BY <2>2, NumbersAre
  <2>4. Header(r).job \in 1 .. number /\ number \in Nat
    BY <2>2, <2>3, HeaderFits, JobsAre DEF IInv
  <2>5. Header(r).job > 0
    BY <2>4
  <2> QED
    BY <2>2, <2>3, <2>5, HeaderFits
<1> QED
  BY <1>1, HaccInductive, PTL

\* Between two jobs whose headers fit, the places of a rank are the same.
LEMMA SamePlaces ==
    ASSUME NEW i \in Shapes, NEW j \in Shapes, NEW r \in Ranked(i),
           SizeOf(j) = SizeOf(i), j.particles = i.particles,
           NEW o \in Ranked(j), o = (IF i.perRank THEN r ELSE 0), FileOf(j, o) = FileOf(i, r)
    PROVE  /\ r \in Ranked(j) /\ FileOf(j, r) = FileOf(i, r)
           /\ \A k \in Arrays : SpotOf(j, r, k) = SpotOf(i, r, k) /\ CellsOf(j, k) = CellsOf(i, k)
<1>1. /\ i.perRank \in BOOLEAN /\ j.perRank \in BOOLEAN
      /\ i.ranks \in Nat \ {0} /\ j.ranks \in Nat \ {0} /\ r \in Nat /\ r < i.ranks
  BY DEF Shapes, Ranked
<1>2. r \in Ranked(j) /\ FileOf(j, r) = FileOf(i, r) /\ Row(j, r) = Row(i, r)
  <2>1. CASE i.perRank /\ j.perRank
    BY <2>1 DEF Row
  <2>2. CASE ~i.perRank /\ ~j.perRank
    BY <1>1, <2>2 DEF Row, Ranked, SizeOf, FileOf
  <2>3. CASE i.perRank /\ ~j.perRank
    <3>1. <<0, 1>> = <<r, i.ranks>>
      BY <2>3 DEF FileOf
    <3>2. r = 0
      BY ONLY <3>1
    <3> QED
      BY <1>1, <2>3, <3>2 DEF Row, Ranked, FileOf
  <2>4. CASE ~i.perRank /\ j.perRank
    <3>1. i.ranks = 1
      BY <2>4 DEF SizeOf
    <3>2. r = 0
      BY <1>1, <3>1
    <3> QED
      BY <1>1, <2>4, <3>2 DEF Row, Ranked, FileOf
  <2> QED
    BY <1>1, <2>1, <2>2, <2>3, <2>4
<1>3. ASSUME NEW k \in Arrays
      PROVE  SpotOf(j, r, k) = SpotOf(i, r, k) /\ CellsOf(j, k) = CellsOf(i, k)
  <2>1. SpotOf(j, r, k) = Row(j, r) * j.particles * RecordCells + j.particles * CellsBefore(k)
    BY Zenon DEF SpotOf, Row
  <2>2. SpotOf(i, r, k) = Row(i, r) * i.particles * RecordCells + i.particles * CellsBefore(k)
    BY Zenon DEF SpotOf, Row
  <2>3. SpotOf(j, r, k) = SpotOf(i, r, k)
    BY <1>2, <2>1, <2>2, Zenon
  <2>4. CellsOf(j, k) = CellsOf(i, k)
    BY DEF CellsOf
  <2> QED
    BY <2>3, <2>4
<1> QED
  BY <1>2, <1>3

\* The restart is closed on rank r.
HasClosed(r) == Step(r) = "restart closed"

LEMMA HasFetched ==
    ASSUME IInv, NEW r \in Ranks, HasClosed(r)
    PROVE  /\ Reads /\ pc[r] >= Before + 6 /\ job \in Shapes /\ number \in Nat
           /\ FileName(r) \in Names /\ FileData(r) \in Seq(Cells)
           /\ \A k \in Arrays : memory[r][k] = FetchedOf(FileData(r), r, k)
<1>1. /\ job \in Shapes /\ number \in Nat /\ pc[r] \in 1 .. Len(Program)
  <2>0. TypeOK
    BY DEF IInv
  <2>1. job \in Shapes /\ number \in Nat
    BY <2>0, JobsAre
  <2>2. pc[r] \in 1 .. Len(Program)
    BY DEF IInv, TypeOK
  <2> QED
    BY <2>1, <2>2
<1>2. Reads /\ pc[r] = Before + 7 + Vars
  BY <1>1, Positions, Zenon DEF HasClosed, Step
<1>3. pc[r] >= Before + 6 /\ pc[r] \in Nat /\ pc[r] >= Before + 7 + Vars
  <2>1. pc[r] \in Nat
    BY <1>1 DEF IInv, TypeOK
  <2> QED
    BY <1>2, <2>1, NumbersAre
<1>4. FileName(r) \in Names /\ FileData(r) \in Seq(Cells)
  <2>1. FileName(r) \in Names
    BY FilesOfJobs DEF IInv
  <2>2. files \in [Names -> FileType]
    BY DEF IInv, TypeOK, FileType
  <2> QED
    BY <2>1, <2>2 DEF FileType, FileData
<1>5. memory[r] = [k \in 1 .. ReadAt(pc[r]) |-> FetchedOf(FileData(r), r, k)]
  BY <1>2, RestartsAre DEF IInv
<1>6. ReadAt(pc[r]) = Vars
  BY <1>3, ReadAtIs
<1>7. Arrays = 1 .. Vars
  BY RecordIs
<1>8. \A k \in Arrays : memory[r][k] = FetchedOf(FileData(r), r, k)
  BY <1>5, <1>6, <1>7
<1> QED
  BY <1>1, <1>2, <1>3, <1>4, <1>8

(* A restart from a checkpoint that was closed gives every rank what that    *)
(* rank wrote, in the same or in a later job, of whichever layout; a job     *)
(* that writes and reads back never stops at an assertion; and among jobs of *)
(* one shape a killed overwrite leaves no particle in the place of another.  *)
THEOREM RestartsAreExact == Spec => []RestartIsExact
<1>1. ASSUME IInv, NEW r \in Ranks, HasClosed(r), sound[FileName(r)] > 0,
             NEW k \in Arrays, NEW c \in 1 .. job.particles * Record[k]
      PROVE  memory[r][k][c] = Value(sound[FileName(r)], r, k, c - 1)
  <2> DEFINE f == FileName(r)
             s == sound[f]
             j == plan[s]
             D == FileData(r)
  <2>1. /\ Reads /\ pc[r] >= Before + 6 /\ job \in Shapes /\ f \in Names
        /\ memory[r][k] = FetchedOf(D, r, k)
    BY <1>1, HasFetched
  <2>2. /\ Header(r).ranks = PartitionSize /\ Header(r).particles = job.particles
        /\ Header(r).first = (IF job.perRank THEN r ELSE 0) /\ Header(r).job \in 1 .. number
        /\ HeaderOf(f, Header(r), plan, number) /\ Header(r) # NoHeader
    BY <1>1, <2>1, HeaderFits
  <2>3. /\ Header(r).job = s
        /\ \A q \in Ranked(j) : FileOf(j, q) = f => \A l \in Arrays : Holds(D, j, s, q, l)
    BY <1>1, <2>1, SoundIsOf DEF IInv, SoundOf, Header, FileData
  <2>4. /\ PartitionSize = SizeOf(j) /\ job.particles = j.particles
        /\ Header(r).first \in Ranked(j) /\ FileOf(j, Header(r).first) = f
    BY <2>2, <2>3 DEF HeaderOf
  <2>5. j \in Shapes
    <3>1. number \in 1 .. Len(plan) /\ s \in 1 .. number
      BY <1>1, <2>2, <2>3 DEF IInv, TypeOK
    <3>2. s \in 1 .. Len(plan)
      <4>1. Len(plan) \in Nat
        BY <1>1, JobsAre DEF IInv
      <4> QED
        BY <3>1, <4>1
    <3> QED
      BY <1>1, <3>2, JobsAre DEF IInv
  <2>6. r \in Ranked(job) /\ f = FileOf(job, r) /\ SizeOf(job) = PartitionSize
    BY <1>1, <2>1, RanksAre
  <2> DEFINE o == Header(r).first
  <2> HIDE DEF j, f
  <2>7. r \in Ranked(j) /\ FileOf(j, r) = f /\ SpotOf(j, r, k) = SpotOf(job, r, k)
        /\ CellsOf(j, k) = CellsOf(job, k)
    <3>1. /\ o \in Ranked(j) /\ o = (IF job.perRank THEN r ELSE 0)
          /\ FileOf(j, o) = FileOf(job, r) /\ SizeOf(j) = SizeOf(job)
          /\ j.particles = job.particles
      BY <2>2, <2>4, <2>6
    <3> HIDE DEF o
    <3>2. /\ r \in Ranked(j) /\ FileOf(j, r) = FileOf(job, r)
          /\ \A l \in Arrays : SpotOf(j, r, l) = SpotOf(job, r, l) /\ CellsOf(j, l) = CellsOf(job, l)
      BY <2>1, <2>5, <2>6, <3>1, SamePlaces
    <3> QED
      BY <1>1, <2>6, <3>2
  <2>8. Holds(D, j, s, r, k)
    BY <1>1, <2>3, <2>7
  <2>9. c \in 1 .. CellsOf(job, k) /\ CellsOf(job, k) \in Nat /\ SpotOf(job, r, k) \in Nat
    BY <1>1, <2>1, <2>6, SpotInFile DEF CellsOf
  <2> HIDE DEF D, s
  <2>10. c - 1 \in 0 .. CellsOf(job, k) - 1 /\ SpotOf(job, r, k) + (c - 1) + 1 = SpotOf(job, r, k) + c
    BY <2>9
  <2>11. /\ SpotOf(job, r, k) + c <= Len(D)
         /\ D[SpotOf(job, r, k) + c] = Value(s, r, k, c - 1)
    BY <2>7, <2>8, <2>10 DEF Holds
  <2>12. FetchedOf(D, r, k)[c] = D[SpotOf(job, r, k) + c]
    BY <2>9, <2>11 DEF FetchedOf
  <2> QED
    BY <2>1, <2>11, <2>12 DEF s, f
<1>2. ASSUME IInv, NEW r \in Ranks, HasClosed(r), SameShapes,
             NEW k \in Arrays, NEW c \in DOMAIN memory[r][k]
      PROVE  LET x == memory[r][k][c] IN x = Hole \/ x = Value(x.job, r, k, c - 1)
  <2> DEFINE f == FileName(r)
             D == FileData(r)
             x == memory[r][k][c]
             at == SpotOf(job, r, k) + c
  <2>1. /\ Reads /\ pc[r] >= Before + 6 /\ job \in Shapes /\ f \in Names /\ D \in Seq(Cells)
        /\ memory[r][k] = FetchedOf(D, r, k) /\ number \in Nat
    BY <1>2, HasFetched
  <2>2. c \in 1 .. CellsOf(job, k)
    BY <1>2, <2>1 DEF FetchedOf
  <2>3. Header(r).job \in 1 .. number
    BY <1>2, <2>1, HeaderFits
  <2>4. PlacedIn(D, job, f) /\ Len(D) >= FileCells
    <3>1. files[f].header.job > 0
      BY <2>1, <2>3 DEF Header
    <3> QED
      BY <1>2, <2>1, <3>1 DEF IInv, Mixed, FileData
  <2>5. r \in Ranked(job) /\ f = FileOf(job, r) /\ SizeOf(job) = PartitionSize
    BY <1>2, <2>1, RanksAre
  <2>6. /\ SpotOf(job, r, k) \in Nat /\ CellsOf(job, k) \in Nat
        /\ SpotOf(job, r, k) + CellsOf(job, k) <= FileCells
    BY <1>2, <2>1, <2>5, SpotInFile DEF FileCells
  <2>7. Len(D) \in Nat /\ DOMAIN D = 1 .. Len(D) /\ FileCells \in Nat
    <3>1. FileCells \in Nat
      BY <2>1, RanksAre, VariablesApart DEF FileCells, Shapes
    <3> HIDE DEF D
    <3> QED
      BY <2>1, <3>1, LenProperties
  <2> HIDE DEF D, f, x
  <2>8. at \in 1 .. Len(D) /\ at <= Len(D) /\ at - 1 >= SpotOf(job, r, k)
        /\ at - 1 < SpotOf(job, r, k) + CellsOf(job, k)
    BY <2>2, <2>4, <2>6, <2>7
  <2>9. x = D[at]
    BY <2>1, <2>2, <2>8 DEF FetchedOf, x
  <2>10. D[at] \in Cells
    <3> HIDE DEF Cells, at
    <3> QED
      BY <2>1, <2>8, ElementOfSeq
  <2>11. x \in Cells
    BY <2>9, <2>10
  <2>12. SUFFICES ASSUME x # Hole PROVE x = Value(x.job, r, k, c - 1)
    BY <2>12 DEF x
  <2>13. /\ x.rank \in Ranked(job) /\ FileOf(job, x.rank) = f /\ x.var \in Arrays
         /\ x.cell \in 0 .. CellsOf(job, x.var) - 1
         /\ at = SpotOf(job, x.rank, x.var) + x.cell + 1
    BY <2>4, <2>7, <2>8, <2>9, <2>12 DEF PlacedIn
  <2>14. SpotOf(job, x.rank, x.var) \in Nat /\ CellsOf(job, x.var) \in Nat
    BY <2>1, <2>13, SpotInFile
  <2>15. x.rank = r /\ x.var = k
    <3> SUFFICES ASSUME ~(x.rank = r /\ x.var = k) PROVE FALSE
      OBVIOUS
    <3>1. \/ SpotOf(job, r, k) + CellsOf(job, k) <= SpotOf(job, x.rank, x.var)
          \/ SpotOf(job, x.rank, x.var) + CellsOf(job, x.var) <= SpotOf(job, r, k)
      BY <1>2, <2>1, <2>5, <2>13, SpotsApart
    <3> QED
      BY <2>6, <2>8, <2>13, <2>14, <3>1
  <2>16. x.cell = c - 1
    <3>1. SpotOf(job, r, k) + c = SpotOf(job, r, k) + x.cell + 1
      BY <2>13, <2>15
    <3>2. x.cell \in Int /\ c \in Int
      BY <2>2, <2>13
    <3> QED
      BY <2>6, <3>1, <3>2
  <2>17. x = [job |-> x.job, rank |-> x.rank, var |-> x.var, cell |-> x.cell]
    BY <2>11 DEF Cells
  <2> QED
    BY <2>15, <2>16, <2>17 DEF Value
<1>3. IInv => RestartIsExact
  BY <1>1, <1>2, Zenon DEF RestartIsExact, IInv, Persists, HasClosed
<1> QED
  BY <1>3, HaccInductive, PTL

=============================================================================
