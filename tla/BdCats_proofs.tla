---------------------------- MODULE BdCats_proofs ----------------------------
(***************************************************************************)
(* Every record a process holds is the particle its ID names, no particle  *)
(* is held twice, and the rows written back belong together: for any file, *)
(* number of processes, choice of data sets, sample and calls that write.  *)
(***************************************************************************)
EXTENDS BdCats, RowsAndColumns, FiniteSetTheorems

-----------------------------------------------------------------------------
(* The file                                                                 *)

FileIsMade ==
    /\ w \in [Writers -> 0 .. Len(Calls)]
    /\ numparticles \in Nat \ {0}
    /\ DOMAIN file = {"opened", "origin", "step", "sets"}
    /\ file.opened = "yet" => \A p \in Writers : w[p] <= 1
    /\ file.opened = "yes" => \A p \in Writers : \A v \in DOMAIN Variables :
                                  w[p] >= 6 + v => Variables[v] \in DOMAIN file.sets
    /\ \A name \in DOMAIN file.sets : DOMAIN file.sets[name] = 0 .. Total - 1

LEMMA CallsAre ==
    /\ Len(Calls) = 17
    /\ Calls[1] = "barrier" /\ Calls[2] = "open" /\ Calls[3] = "attrib" /\ Calls[4] = "barrier"
    /\ Calls[5] = "step" /\ Calls[6] = "num"
    /\ \A v \in 1 .. 8 : Calls[6 + v] = Variables[v]
    /\ Calls[15] = "barrier" /\ Calls[16] = "close" /\ Calls[17] = "barrier"
    /\ DOMAIN Variables = 1 .. 8
  BY DEF Calls, Variables

LEMMA WritersAre == Writers # {} /\ Total = num_procs * numparticles
<1>1. num_procs \in Nat \ {0}
  BY VpicAssumption
<1> QED
  BY <1>1 DEF Writers, Total

LEMMA FileInit == Init => FileIsMade
<1> SUFFICES ASSUME Init PROVE FileIsMade
  OBVIOUS
<1>1. numparticles \in Nat \ {0}
  BY VpicAssumption DEF Init, InitVpic
<1>2. w = [p \in Writers |-> 0] /\ 0 \in 0 .. Len(Calls)
  BY CallsAre DEF Init, InitVpic
<1>3. file = [opened |-> "yet", origin |-> FALSE, step |-> FALSE, sets |-> << >>]
  BY DEF Init, InitVpic
<1>4. DOMAIN file.sets = {}
  BY <1>3
<1> QED
  BY <1>1, <1>2, <1>3, <1>4 DEF FileIsMade

LEMMA FileStep == FileIsMade /\ NextVpic => FileIsMade'
<1> SUFFICES ASSUME FileIsMade, NEW p \in Writers,
                    \/ Barrier(p) \/ OpenFile(p) \/ WriteFileAttribString(p) \/ SetStep(p)
                    \/ SetNumParticles(p) \/ WriteVariable(p) \/ CloseFile(p)
             PROVE  FileIsMade'
  BY DEF NextVpic
<1> USE CallsAre
<1>1. w[p] \in Nat /\ w[p] < Len(Calls) /\ w' = [w EXCEPT ![p] = w[p] + 1] /\ numparticles' = numparticles
  BY DEF FileIsMade, Barrier, OpenFile, WriteFileAttribString, SetStep, SetNumParticles,
         WriteVariable, CloseFile, In, Done
<1>2. /\ w' \in [Writers -> 0 .. Len(Calls)]
      /\ \A q \in Writers : w'[q] = IF q = p THEN w[p] + 1 ELSE w[q]
      /\ numparticles' \in Nat \ {0} /\ Total' = Total
  BY SMTT(30), <1>1 DEF FileIsMade, Total
\* Calls that touch no data set.
<1>3. ASSUME file'.sets = file.sets, DOMAIN file' = DOMAIN file,
             file'.opened = file.opened,
             file.opened = "yet" => w[p] = 0,
             \A v \in DOMAIN Variables : w[p] + 1 # 6 + v
      PROVE  FileIsMade'
  <2>1. file'.opened = "yet" => \A q \in Writers : w'[q] <= 1
    BY <1>2, <1>3 DEF FileIsMade
  <2>2. ASSUME file'.opened = "yes", NEW q \in Writers, NEW v \in DOMAIN Variables, w'[q] >= 6 + v
        PROVE  Variables[v] \in DOMAIN file'.sets
    <3>1. w[q] >= 6 + v
      BY SMTT(30), <1>1, <1>2, <1>3, <2>2 DEF FileIsMade
    <3> QED
      BY <1>3, <2>2, <3>1 DEF FileIsMade
  <2> QED
    BY <1>2, <1>3, <2>1, <2>2 DEF FileIsMade
<1>4. CASE OpenFile(p)
  <2>1. w[p] = 1
    BY <1>4, <1>1 DEF OpenFile, In, Calls
  <2>2. /\ file'.sets = file.sets /\ DOMAIN file' = DOMAIN file /\ file'.opened \in {"yes", "no"}
        /\ file'.opened = "yes" => file.opened \in {"yet", "yes"}
    BY <1>4 DEF OpenFile, FileIsMade
  <2>3. ASSUME file'.opened = "yes", NEW q \in Writers, NEW v \in DOMAIN Variables, w'[q] >= 6 + v
        PROVE  Variables[v] \in DOMAIN file'.sets
    <3>1. w[q] >= 6 + v /\ w[q] > 1
      BY <1>2, <2>1, <2>3 DEF FileIsMade
    <3>2. file.opened = "yes"
      BY <2>2, <2>3, <3>1 DEF FileIsMade
    <3> QED
      BY <2>2, <3>1, <3>2 DEF FileIsMade
  <2> QED
    BY <1>2, <2>2, <2>3 DEF FileIsMade
<1>5. CASE WriteVariable(p)
  <2>1. PICK v \in 1 .. 8 : Calls[w[p] + 1] = Variables[v]
    BY <1>5 DEF WriteVariable, IsVariable
  <2> DEFINE name == Variables[v]
  <2>2. w[p] > 1 /\ \A u \in 1 .. 8 : w[p] + 1 = 6 + u => Variables[u] = name
    BY <1>1, <2>1 DEF Variables
  <2>3. file.opened # "yet"
    BY <2>2 DEF FileIsMade
  <2> DEFINE created == [file EXCEPT !.sets = Created(name)]
  <2>4. /\ DOMAIN Created(name) = DOMAIN file.sets \cup {name}
        /\ \A x \in DOMAIN Created(name) : DOMAIN Created(name)[x] = 0 .. Total - 1
    BY DEF Created, FileIsMade
  <2>5. DOMAIN created = DOMAIN file /\ created.sets = Created(name) /\ created.opened = file.opened
    BY DEF FileIsMade
  <2>6. \/ file.opened = "no" /\ file' = file
        \/ file.opened = "yes" /\ file' = [created EXCEPT !.sets[name] = Put(@, name, p)]
        \/ file.opened = "yes" /\ file' = created
    BY <1>5, <2>1 DEF WriteVariable
  <2>7. CASE file.opened = "no" /\ file' = file
    BY <1>2, <2>7 DEF FileIsMade
  <2>8. CASE file.opened = "yes"
    <3>1. /\ DOMAIN file' = DOMAIN file /\ file'.opened = file.opened
          /\ DOMAIN file'.sets = DOMAIN file.sets \cup {name}
          /\ \A x \in DOMAIN file'.sets : DOMAIN file'.sets[x] = 0 .. Total - 1
      <4>1. CASE file' = [created EXCEPT !.sets[name] = Put(@, name, p)]
        <5> HIDE DEF created
        <5>1. DOMAIN file' = DOMAIN file /\ file'.opened = file.opened
              /\ file'.sets = [Created(name) EXCEPT ![name] = Put(@, name, p)]
          BY <4>1, <2>5 DEF FileIsMade
        <5>2. DOMAIN Put(Created(name)[name], name, p) = DOMAIN Created(name)[name]
          BY DEF Put
        <5> QED
          BY <5>1, <5>2, <2>4
      <4>2. CASE file' = created
        <5> HIDE DEF created
        <5> QED
          BY <4>2, <2>4, <2>5
      <4> QED
        BY <2>6, <2>8, <4>1, <4>2
    <3>2. ASSUME NEW q \in Writers, NEW u \in DOMAIN Variables, w'[q] >= 6 + u
          PROVE  Variables[u] \in DOMAIN file'.sets
      <4>1. CASE w[q] >= 6 + u
        BY <3>1, <4>1, <2>8 DEF FileIsMade
      <4>2. CASE ~(w[q] >= 6 + u)
        <5>1. w[p] + 1 = 6 + u
          BY SMTT(30), <1>1, <1>2, <3>2, <4>2 DEF FileIsMade
        <5> QED
          BY <5>1, <2>2, <3>1
      <4> QED
        BY <4>1, <4>2
    <3> HIDE DEF name, created
    <3> QED
      BY <1>2, <2>8, <3>1, <3>2 DEF FileIsMade
  <2> QED
    BY <2>3, <2>6, <2>7, <2>8 DEF FileIsMade
<1>6. CASE Barrier(p) \/ SetNumParticles(p) \/ CloseFile(p)
  <2>1. file' = file /\ w[p] + 1 \in {1, 4, 6, 15, 16, 17}
    BY <1>6, <1>1 DEF Barrier, SetNumParticles, CloseFile, In, Variables
  <2> QED
    BY SMTT(30), <1>3, <2>1, <1>1 DEF FileIsMade
<1>7. CASE WriteFileAttribString(p) \/ SetStep(p)
  <2>1. /\ w[p] + 1 \in {3, 5}
        /\ file'.sets = file.sets /\ file'.opened = file.opened /\ DOMAIN file' = DOMAIN file
    BY SMTT(30), <1>7, <1>1 DEF WriteFileAttribString, SetStep, In, Variables, FileIsMade
  <2> QED
    BY <1>3, <2>1, <1>1, SMTT(30) DEF FileIsMade
<1> QED
  BY <1>4, <1>5, <1>6, <1>7

LEMMA FileIsWhole ==
    ASSUME FileIsMade, WritersDone, file.opened = "yes"
    PROVE  /\ DOMAIN file.sets[AllColumns[1]] = 0 .. Total - 1
           /\ Cardinality(DOMAIN file.sets[AllColumns[1]]) = Total
           /\ Total \in Nat \ {0}
<1>1. PICK p \in Writers : w[p] = 17
  BY WritersAre, CallsAre DEF WritersDone
<1>2. AllColumns[1] = Variables[4] /\ 4 \in DOMAIN Variables
  BY DEF AllColumns, Variables
<1>3. AllColumns[1] \in DOMAIN file.sets
  BY <1>1, <1>2 DEF FileIsMade
<1>4. DOMAIN file.sets[AllColumns[1]] = 0 .. Total - 1
  BY <1>3 DEF FileIsMade
<1>5. Total \in Nat \ {0}
  BY VpicAssumption, Monotone DEF Total, FileIsMade
<1> QED
  BY <1>4, <1>5, FS_Interval

-----------------------------------------------------------------------------
(* Samples                                                                  *)

LEMMA PercentIsLess ==
    ASSUME job \in Jobs, NEW x \in Nat
    PROVE  Percent(x) \in 0 .. x
<1> DEFINE y == x * job.percent
<1>1. job.percent \in 0 .. 100
  BY JobsAssumption
<1>2. job.percent * x <= 100 * x
  BY <1>1, Monotone
<1>3. y \in Nat /\ y <= 100 * x
  BY <1>1, <1>2
<1> HIDE DEF y
<1>4. y \div 100 \in 0 .. x
  BY <1>3
<1> QED
  BY <1>4 DEF Percent, y

\* Numbers none of which is less than its place are so when they are sorted too.
LEMMA NotBefore == ASSUME NEW x \in Int, NEW y \in Int, x - y <= 0 PROVE x <= y
  OBVIOUS
LEMMA BelowBound ==
    ASSUME NEW k \in Nat, NEW x \in Int, NEW y \in Int, NEW z \in Nat, x < k, y <= x, z <= y
    PROVE  z \in 0 .. k - 1
  OBVIOUS
LEMMA ManyPlaces ==
    ASSUME NEW k \in Nat
    PROVE  /\ IsFiniteSet(0 .. k) /\ Cardinality(0 .. k) = k + 1
           /\ IsFiniteSet(0 .. k - 1) /\ Cardinality(0 .. k - 1) = k
  BY FS_Interval

Above(f, n) == \A j \in 0 .. n - 1 : f[j] \in j .. n - 1

LEMMA SortedIsAbove ==
    ASSUME NEW n \in Nat, NEW f \in [0 .. n - 1 -> 0 .. n - 1], Above(f, n),
           NEW s \in [0 .. n - 1 -> 0 .. n - 1], IsSorting(s, f, n)
    PROVE  Above(s, n)
<1> SUFFICES ASSUME NEW k \in 0 .. n - 1 PROVE s[k] \in k .. n - 1
  BY DEF Above
<1>1. PICK order \in Bijection(0 .. n - 1, 0 .. n - 1) : \A a \in 0 .. n - 1 : s[a] = f[order[a]]
  BY DEF IsSorting
<1>2. /\ order \in [0 .. n - 1 -> 0 .. n - 1]
      /\ \A a, b \in 0 .. n - 1 : order[a] = order[b] => a = b
  BY <1>1 DEF Bijection, Injection, IsInjective
<1>3. /\ k \in Nat /\ s[k] \in Int
      /\ \A a \in 0 .. k : a \in 0 .. n - 1 /\ s[a] \in Int
  OBVIOUS
<1>4. ASSUME NEW a \in 0 .. k PROVE s[a] <= s[k]
  <2>1. CASE a = k
    BY <2>1, <1>3
  <2>2. CASE a # k
    <3>1. a < k
      BY <2>2
    <3>2. s[a] - s[k] <= 0
      BY <1>3, <3>1 DEF IsSorting, qcompare
    <3>3. s[a] \in Int
      BY <1>3
    <3> QED
      BY <3>2, <3>3, <1>3, NotBefore, Zenon
  <2> QED
    BY <2>1, <2>2
<1>5. ASSUME s[k] < k PROVE FALSE
  <2> DEFINE g == [a \in 0 .. k |-> order[a]]
  <2>1. ASSUME NEW a \in 0 .. k PROVE order[a] \in 0 .. k - 1
    <3>1. order[a] \in 0 .. n - 1 /\ s[a] \in Int
      BY <1>2, <1>3
    <3>2. f[order[a]] = s[a]
      BY <1>1, <1>3
    <3>3. f[order[a]] \in order[a] .. n - 1
      BY <3>1 DEF Above
    <3>4. order[a] \in Nat /\ order[a] <= s[a]
      BY <3>1, <3>2, <3>3
    <3> QED
      BY <1>3, <1>4, <1>5, <3>1, <3>4, BelowBound, Zenon
  <2>2. g \in [0 .. k -> 0 .. k - 1]
    BY <2>1
  <2> HIDE DEF g
  <2>3. /\ IsFiniteSet(0 .. k) /\ Cardinality(0 .. k) = k + 1
        /\ IsFiniteSet(0 .. k - 1) /\ Cardinality(0 .. k - 1) = k
    BY <1>3, ManyPlaces
  <2>4. PICK a \in 0 .. k, b \in 0 .. k : a # b /\ g[a] = g[b]
    <3>1. k < k + 1
      BY <1>3
    <3> QED
      BY <3>1, <2>2, <2>3, FS_PigeonHole
  <2>5. order[a] = order[b]
    BY <2>4 DEF g
  <2> QED
    BY <1>2, <1>3, <2>4, <2>5
<1> QED
  BY <1>3, <1>5

-----------------------------------------------------------------------------
(* A process; p is what it has in memory                                    *)

Kinds == {"data", "class"}
Fields == {"pc", "c", "i", "global", "local", "data", "class", "ids", "n", "seen", "count",
           "location", "k"}
Array(p, i) == IF Datatype(i) = "class" THEN p.class ELSE p.data[i]
FirstOf(p, r) == r * (p.global \div job.mpi_size)

\* Data set i has an array; its places in S hold the process's slice.
InSlice(p, r, i, S) ==
    /\ Datatype(i) = "data" => i \in Columns
    /\ Datatype(i) = "class" => cls
    /\ DOMAIN Array(p, i) = 0 .. p.local - 1
    /\ \A j \in S : Array(p, i)[j] = file.sets[Name(i)][FirstOf(p, r) + j]

IdsAre(p, r) == p.ids = [j \in 0 .. p.local - 1 |-> FirstOf(p, r) + j]

\* The sample has been chosen from so many points.
Sample(p, r) ==
    /\ job.mode = "random" /\ p.n \in 0 .. p.local
    /\ DOMAIN p.ids = 0 .. p.n - 1 /\ DOMAIN p.location = 0 .. p.n - 1

Belongs(p, r) ==
    LET records == IF job.mode = "random" THEN 0 .. p.k - 1 ELSE 0 .. p.local - 1
    IN  \A k \in records, i \in 1 .. num_dims : Array(p, i)[k] = file.sets[Name(i)][p.ids[k]]

AtStart(p) == p.pc \in {"start", "metadata"} /\ p.local = 0 /\ p.k = 0 /\ p.count = 0
AtOpen(p) == p.pc = "open" /\ p.k = 0 /\ p.count = 0 /\ p.global \in Nat
AtRead(p, r) ==
    /\ p.pc = "read" /\ p.k = 0 /\ p.count = 0 /\ p.global \in Nat /\ p.local \in Nat
    /\ p.i \in 1 .. num_dims
    /\ job.mode = "top" => IdsAre(p, r)
    /\ \A i \in 1 .. p.i - 1 : InSlice(p, r, i, 0 .. p.local - 1)
Whole(p, r) ==
    /\ p.k = 0 /\ p.global \in Nat /\ p.local \in Nat /\ Sample(p, r)
    /\ \A i \in 1 .. num_dims : InSlice(p, r, i, 0 .. p.local - 1)
AtDraw(p, r) ==
    /\ p.pc = "draw" /\ Whole(p, r)
    /\ p.count \in 0 .. p.n - 1 /\ DOMAIN p.seen = 0 .. p.n - 1
    /\ \A j \in 0 .. p.count - 1 : p.seen[j]
    /\ \A j \in 0 .. p.count - 1 : p.location[j] \in j .. p.n - 1
AtSort(p, r) ==
    /\ p.pc = "sort" /\ Whole(p, r)
    /\ Above(p.location, p.n)
AtPack(p, r) ==
    /\ p.pc = "pack" /\ p.global \in Nat /\ p.local \in Nat /\ Sample(p, r) /\ p.k \in 0 .. p.n
    /\ Above(p.location, p.n)
    /\ \A j \in 0 .. p.k - 1 : p.ids[j] = FirstOf(p, r) + p.location[j]
    /\ \A i \in 1 .. num_dims :
          /\ InSlice(p, r, i, p.k .. p.local - 1)
          /\ \A j \in 0 .. p.k - 1 :
                Array(p, i)[j] = file.sets[Name(i)][FirstOf(p, r) + p.location[j]]
AtEnd(p, r) == p.pc \in {"barrier", "close", "back", "written", "ended"} /\ Belongs(p, r)

Holds(p, r) ==
    /\ DOMAIN p = Fields /\ DOMAIN p.data = Columns
    /\ \/ AtStart(p) \/ AtOpen(p) \/ AtRead(p, r) \/ AtDraw(p, r) \/ AtSort(p, r) \/ AtPack(p, r)
       \/ AtEnd(p, r)

IInv ==
    /\ FileIsMade
    /\ job \in Jobs
    /\ DOMAIN rd = Ranks
    /\ \A r \in Ranks : rd[r].pc = "start" \/ WritersDone
    /\ Typed => \A r \in Ranks : Holds(rd[r], r)

-----------------------------------------------------------------------------
(* Steps                                                                    *)

LEMMA InitInv == Init => IInv
<1> SUFFICES ASSUME Init PROVE IInv
  OBVIOUS
<1>1. FileIsMade
  BY FileInit
<1>2. job \in Jobs /\ DOMAIN rd = Ranks
  BY DEF Init
<1>3. ASSUME NEW r \in Ranks
      PROVE  /\ rd[r].pc = "start" /\ rd[r].local = 0 /\ rd[r].k = 0 /\ rd[r].count = 0
             /\ DOMAIN rd[r] = Fields /\ DOMAIN rd[r].data = Columns
  BY DEF Init, Fields
<1>4. \A r \in Ranks : Holds(rd[r], r)
  BY <1>3 DEF Holds, AtStart
<1> QED
  BY <1>1, <1>2, <1>3, <1>4 DEF IInv

\* While VPIC-IO runs, the reader has not started.
LEMMA VpicStep == IInv /\ NextVpic /\ UNCHANGED <<job, rd>> => IInv'
<1> SUFFICES ASSUME IInv, NextVpic, UNCHANGED <<job, rd>> PROVE IInv'
  OBVIOUS
<1>1. FileIsMade'
  BY FileStep DEF IInv
<1>2. ~WritersDone
  BY DEF NextVpic, Barrier, OpenFile, WriteFileAttribString, SetStep, SetNumParticles,
         WriteVariable, CloseFile, In, WritersDone
<1>3. \A r \in Ranks : rd[r].pc = "start"
  BY <1>2 DEF IInv
<1>4. ASSUME Typed, NEW r \in Ranks
      PROVE  DOMAIN rd[r] = Fields /\ DOMAIN rd[r].data = Columns /\ AtStart(rd[r])
  BY <1>3, <1>4 DEF IInv, Holds, AtStart, AtOpen, AtRead, AtDraw, AtSort, AtPack, AtEnd
<1>5. job' = job /\ rd' = rd /\ Ranks' = Ranks /\ Typed' = Typed /\ Columns' = Columns
  BY DEF Ranks, Typed, Columns, dataset_count, cls, num_dims
<1>6. Typed' => \A r \in Ranks' : Holds(rd[r], r)'
  <2> SUFFICES ASSUME Typed, NEW r \in Ranks PROVE Holds(rd[r], r)'
    BY <1>5
  <2>1. AtStart(rd[r])' /\ (DOMAIN rd[r])' = Fields /\ (DOMAIN rd[r].data)' = Columns'
    BY <1>4, <1>5 DEF AtStart
  <2> QED
    BY <2>1 DEF Holds
<1> QED
  BY <1>1, <1>3, <1>5, <1>6 DEF IInv

LEMMA HoldsStays ==
    ASSUME file' = file, job' = job, NEW x, NEW r, Holds(x, r)
    PROVE  Holds(x, r)'
<1>1. /\ Columns' = Columns /\ num_dims' = num_dims /\ cls' = cls
      /\ \A i : Datatype(i)' = Datatype(i) /\ Name(i)' = Name(i)
  BY DEF Datatype, Columns, num_dims, dataset_count, cls, Name
<1>2. /\ FirstOf(x, r)' = FirstOf(x, r)
      /\ \A i : Array(x, i)' = Array(x, i)
  BY <1>1 DEF FirstOf, Array
<1>3. /\ \A i, S : InSlice(x, r, i, S)' = InSlice(x, r, i, S)
      /\ IdsAre(x, r)' = IdsAre(x, r) /\ Sample(x, r)' = Sample(x, r)
      /\ Belongs(x, r)' = Belongs(x, r)
  BY <1>1, <1>2 DEF InSlice, IdsAre, Sample, Belongs
<1>4. Whole(x, r)' = Whole(x, r)
  BY <1>1, <1>3 DEF Whole
<1>5. /\ AtStart(x)' = AtStart(x) /\ AtOpen(x)' = AtOpen(x)
      /\ AtRead(x, r)' = AtRead(x, r) /\ AtDraw(x, r)' = AtDraw(x, r)
      /\ AtSort(x, r)' = AtSort(x, r) /\ AtEnd(x, r)' = AtEnd(x, r)
  BY <1>1, <1>3, <1>4 DEF AtStart, AtOpen, AtRead, AtDraw, AtSort, AtEnd
<1>6. AtPack(x, r)' = AtPack(x, r)
  BY <1>1, <1>2, <1>3, SMTT(30) DEF AtPack
<1> QED
  BY <1>1, <1>5, <1>6 DEF Holds

LEMMA SomeMove ==
    ASSUME IInv, UNCHANGED <<vpic_vars, job>>, WritersDone, DOMAIN rd' = Ranks,
           NEW f, \A r \in Ranks : rd'[r] = f[r],
           Typed => \A r \in Ranks : f[r] = rd[r] \/ Holds(f[r], r)
    PROVE  IInv'
<1>1. file' = file /\ w' = w /\ numparticles' = numparticles /\ job' = job
  BY DEF vpic_vars
<1>2. FileIsMade'
  BY <1>1 DEF IInv, FileIsMade, Total
<1>3. Ranks' = Ranks /\ Typed' = Typed /\ WritersDone'
  BY <1>1 DEF Ranks, Typed, dataset_count, WritersDone
<1>4. ASSUME NEW x, NEW r, Holds(x, r) PROVE Holds(x, r)'
  BY <1>1, <1>4, HoldsStays
<1>5. ASSUME Typed, NEW r \in Ranks PROVE Holds(rd[r], r)'
  <2>1. Holds(f[r], r)
    BY <1>5 DEF IInv
  <2>2. Holds(f[r], r)'
    BY <1>4, <2>1
  <2> QED
    BY <1>1, <2>2
<1> QED
  BY <1>1, <1>2, <1>3, <1>5 DEF IInv

LEMMA OneMoves ==
    ASSUME IInv, UNCHANGED <<vpic_vars, job>>, WritersDone, NEW s \in Ranks, NEW p,
           rd' = [rd EXCEPT ![s] = p], Typed => Holds(p, s)
    PROVE  IInv'
<1> DEFINE f == [rd EXCEPT ![s] = p]
<1>1. DOMAIN rd' = Ranks /\ \A r \in Ranks : rd'[r] = f[r] /\ f[r] = IF r = s THEN p ELSE rd[r]
  BY DEF IInv
<1>2. Typed => \A r \in Ranks : f[r] = rd[r] \/ Holds(f[r], r)
  BY <1>1
<1> HIDE DEF f
<1> QED
  BY <1>1, <1>2, SomeMove

\* A process ends the job.
LEMMA NoneMoves ==
    ASSUME IInv, UNCHANGED <<vpic_vars, job>>, WritersDone, rd' = rd
    PROVE  IInv'
<1>1. DOMAIN rd' = Ranks
  BY DEF IInv
<1> QED
  BY <1>1, SomeMove

LEMMA JobIs ==
    ASSUME job \in Jobs
    PROVE  /\ job.mpi_size \in Nat \ {0} /\ job.mode \in {"random", "top"}
           /\ num_dims \in Nat \ {0}
           /\ Typed => \A i \in 1 .. num_dims : Datatype(i) \in Kinds
           /\ \A i, k \in 1 .. num_dims :
                 (Typed /\ Datatype(i) = "class" /\ Datatype(k) = "class") => i = k
<1>1. /\ job.mpi_size \in Nat \ {0} /\ job.mode \in {"random", "top"}
      /\ job.sets \in Seq([name : STRING, class : BOOLEAN])
      /\ \A i, k \in DOMAIN job.sets : (job.sets[i].class /\ job.sets[k].class) => i = k
  BY JobsAssumption
<1>2. dataset_count \in Nat /\ DOMAIN job.sets = 1 .. dataset_count
  BY <1>1 DEF dataset_count
<1>3. Len(AllColumns) = 8
  BY DEF AllColumns
<1>4. CASE dataset_count = 0
  BY <1>1, <1>3, <1>4 DEF num_dims, Typed, Datatype, Kinds
<1>5. CASE dataset_count # 0
  <2>1. num_dims = dataset_count /\ \A i : Datatype(i) = IF job.sets[i].class THEN "class" ELSE "data"
    BY <1>5 DEF num_dims, Datatype
  <2> QED
    BY <1>1, <1>2, <1>5, <2>1 DEF Kinds
<1> QED
  BY <1>4, <1>5

LEMMA RanksAre == ASSUME job \in Jobs, NEW r \in Ranks PROVE r \in Nat
  BY JobIs DEF Ranks

-----------------------------------------------------------------------------

LEMMA PhaseIs ==
    ASSUME IInv, Typed, NEW r \in Ranks
    PROVE  LET p == rd[r]
           IN  /\ DOMAIN p = Fields /\ DOMAIN p.data = Columns
               /\ p.pc \in {"start", "metadata"} => AtStart(p)
               /\ p.pc = "open" => AtOpen(p)
               /\ p.pc = "read" => AtRead(p, r)
               /\ p.pc = "draw" => AtDraw(p, r)
               /\ p.pc = "sort" => AtSort(p, r)
               /\ p.pc = "pack" => AtPack(p, r)
               /\ p.pc \in {"barrier", "close", "back", "written", "ended"} => AtEnd(p, r)
  BY DEF IInv, Holds, AtStart, AtOpen, AtRead, AtDraw, AtSort, AtPack, AtEnd

LEMMA StartStep == ASSUME IInv, NEW r \in Ranks, Start(r) PROVE IInv'
<1> DEFINE p == rd[r]
           q == [p EXCEPT !.pc = "metadata"]
<1>1. WritersDone /\ p.pc = "start" /\ UNCHANGED <<vpic_vars, job>> /\ rd' = [rd EXCEPT ![r] = q]
  BY DEF Start, At, Reading, Becomes
<1>2. ASSUME Typed PROVE Holds(q, r)
  <2>1. DOMAIN p = Fields /\ DOMAIN p.data = Columns /\ AtStart(p)
    BY <1>1, <1>2, PhaseIs
  <2>2. AtStart(q) /\ DOMAIN q = Fields /\ q.data = p.data
    BY <2>1 DEF AtStart, Fields
  <2> QED
    BY <2>1, <2>2 DEF Holds
<1> QED
  BY <1>1, <1>2, OneMoves

LEMMA MetadataStep == ASSUME IInv, NEW r \in Ranks, GetMetadata(r) PROVE IInv'
<1> DEFINE p == rd[r]
           q == [p EXCEPT !.pc = "open", !.c = @ + 1,
                          !.global = Cardinality(DOMAIN file.sets[AllColumns[1]])]
           e == [p EXCEPT !.pc = "ended", !.c = @ + 1]
<1>1. WritersDone /\ p.pc = "metadata" /\ UNCHANGED <<vpic_vars, job>>
  BY DEF GetMetadata, At, Reading
<1>2. \/ rd' = rd
      \/ file.opened = "yes" /\ rd' = [rd EXCEPT ![r] = q]
      \/ rd' = [rd EXCEPT ![r] = e]
  BY DEF GetMetadata, Becomes, Exit
<1>3. ASSUME Typed PROVE DOMAIN p = Fields /\ DOMAIN p.data = Columns /\ AtStart(p)
  BY <1>1, <1>3, PhaseIs
<1>4. ASSUME Typed, file.opened = "yes" PROVE Holds(q, r)
  <2>1. Cardinality(DOMAIN file.sets[AllColumns[1]]) \in Nat
    BY <1>1, <1>4, FileIsWhole DEF IInv
  <2>2. AtOpen(q) /\ DOMAIN q = Fields /\ q.data = p.data
    BY <1>3, <1>4, <2>1 DEF AtStart, AtOpen, Fields
  <2> QED
    BY <1>3, <1>4, <2>2 DEF Holds
<1>5. ASSUME Typed PROVE Holds(e, r)
  <2>1. e.pc = "ended" /\ e.k = 0 /\ e.local = 0 /\ DOMAIN e = Fields /\ e.data = p.data
    BY <1>3, <1>5 DEF AtStart, Fields
  <2>2. AtEnd(e, r)
    BY <2>1 DEF AtEnd, Belongs
  <2> QED
    BY <1>3, <1>5, <2>1, <2>2 DEF Holds
<1> HIDE DEF q, e
<1> QED
  BY <1>1, <1>2, <1>4, <1>5, OneMoves, NoneMoves

LEMMA OpenStep == ASSUME IInv, NEW r \in Ranks, OpenFile_(r) PROVE IInv'
<1> DEFINE p == rd[r]
           local == m_num_local_points(r)
           ids == IF job.mode = "random" THEN << >>
                  ELSE [index \in 0 .. local - 1 |-> global_offset(r) + index]
           q == [p EXCEPT !.pc = "read", !.c = @ + 1, !.i = 1, !.local = local, !.ids = ids]
<1>1. WritersDone /\ p.pc = "open" /\ UNCHANGED <<vpic_vars, job>> /\ rd' = [rd EXCEPT ![r] = q]
  BY DEF OpenFile_, At, Reading, Becomes
<1>2. ASSUME Typed PROVE Holds(q, r)
  <2>1. DOMAIN p = Fields /\ DOMAIN p.data = Columns /\ AtOpen(p)
    BY <1>1, <1>2, PhaseIs
  <2>2. job.mpi_size \in Nat \ {0} /\ job.mode \in {"random", "top"} /\ num_dims \in Nat \ {0}
        /\ job \in Jobs /\ r \in Nat
    BY JobIs, RanksAre DEF IInv
  <2>3. p.global \div job.mpi_size \in Nat /\ p.global % job.mpi_size \in Nat
    <3>1. p.global \in Nat
      BY <2>1 DEF AtOpen
    <3>2. p.global % job.mpi_size \in 0 .. job.mpi_size - 1 /\ p.global \div job.mpi_size \in Nat
      BY <2>2, <3>1, QuotientIs
    <3> QED
      BY <2>2, <3>2
  <2> DEFINE points == Share(r) + (IF r = job.mpi_size - 1 THEN p.global % job.mpi_size ELSE 0)
  <2>4. points \in Nat
    BY <2>2, <2>3 DEF Share
  <2> HIDE DEF points
  <2>5. Percent(points) \in Nat
    BY <2>2, <2>4, PercentIsLess
  <2>6. local \in Nat
    BY <2>4, <2>5 DEF m_num_local_points, points
  <2> HIDE DEF local
  <2>7. global_offset(r) = r * (p.global \div job.mpi_size)
    BY <2>2, <2>3 DEF global_offset, Share
  <2>8. /\ DOMAIN q = Fields /\ q.data = p.data
        /\ q.pc = "read" /\ q.k = 0 /\ q.count = 0 /\ q.global = p.global /\ q.local = local
        /\ q.i = 1 /\ q.ids = ids
    BY <2>1 DEF AtOpen, Fields
  <2> HIDE DEF q
  <2>9. job.mode = "top" => IdsAre(q, r)
    BY <2>7, <2>8 DEF IdsAre, FirstOf
  <2>10. AtRead(q, r)
    BY <2>1, <2>2, <2>6, <2>8, <2>9 DEF AtRead, AtOpen
  <2> QED
    BY <2>1, <2>8, <2>10 DEF Holds
<1> QED
  BY <1>1, <1>2, OneMoves

\* Once every data set is read: the whole slice, or the sample to be drawn from it.
LEMMA AllRead ==
    ASSUME job \in Jobs, Typed, NEW r \in Ranks, NEW p, DOMAIN p = Fields, DOMAIN p.data = Columns,
           p.pc = "read", p.k = 0, p.count = 0, p.global \in Nat, p.local \in Nat,
           p.i \in 1 .. num_dims, job.mode = "top" => IdsAre(p, r),
           \A i \in 1 .. p.i : InSlice(p, r, i, 0 .. p.local - 1)
    PROVE  Holds(AfterRead(r, p), r)
<1>1. job.mpi_size \in Nat \ {0} /\ job.mode \in {"random", "top"} /\ num_dims \in Nat \ {0}
  BY JobIs
<1>2. CASE p.i < num_dims
  <2> DEFINE q == [p EXCEPT !.i = @ + 1]
  <2>1. AfterRead(r, p) = q
    BY <1>2 DEF AfterRead
  <2>2. /\ DOMAIN q = Fields /\ q.data = p.data /\ q.class = p.class /\ q.i = p.i + 1
        /\ q.pc = p.pc /\ q.k = p.k /\ q.count = p.count /\ q.global = p.global
        /\ q.local = p.local /\ q.ids = p.ids
    BY DEF Fields
  <2> HIDE DEF q
  <2>3. job.mode = "top" => IdsAre(q, r)
    BY <2>2 DEF IdsAre, FirstOf
  <2>4. \A i \in 1 .. q.i - 1 : InSlice(q, r, i, 0 .. q.local - 1)
    BY <2>2 DEF InSlice, Array, FirstOf
  <2>5. q.i \in 1 .. num_dims
    BY <1>1, <1>2, <2>2
  <2>6. AtRead(q, r)
    BY <2>2, <2>3, <2>4, <2>5 DEF AtRead
  <2> QED
    BY <2>1, <2>2, <2>6 DEF Holds
<1>3. CASE ~(p.i < num_dims) /\ job.mode = "top"
  <2> DEFINE q == [p EXCEPT !.pc = "barrier"]
  <2>1. AfterRead(r, p) = q
    BY <1>3 DEF AfterRead
  <2>2. /\ DOMAIN q = Fields /\ q.data = p.data /\ q.class = p.class
        /\ q.pc = "barrier" /\ q.local = p.local /\ q.ids = p.ids
    BY DEF Fields
  <2> HIDE DEF q
  <2>3. \A i \in 1 .. num_dims : InSlice(p, r, i, 0 .. p.local - 1)
    BY <1>1, <1>3
  <2>4. ASSUME NEW k \in 0 .. q.local - 1, NEW i \in 1 .. num_dims
        PROVE  Array(q, i)[k] = file.sets[Name(i)][q.ids[k]]
    <3>1. Array(q, i) = Array(p, i) /\ k \in 0 .. p.local - 1
      BY <2>2 DEF Array
    <3>2. Array(p, i)[k] = file.sets[Name(i)][FirstOf(p, r) + k]
      BY <2>3, <3>1 DEF InSlice
    <3>3. q.ids[k] = FirstOf(p, r) + k
      BY <1>3, <2>2, <3>1 DEF IdsAre
    <3> QED
      BY <3>1, <3>2, <3>3
  <2>5. AtEnd(q, r)
    BY <1>3, <2>2, <2>4 DEF AtEnd, Belongs
  <2> QED
    BY <2>1, <2>2, <2>5 DEF Holds
<1>4. CASE ~(p.i < num_dims) /\ job.mode = "random"
  <2> DEFINE n == Percent(p.local)
             q == [p EXCEPT !.pc = IF n = 0 THEN "sort" ELSE "draw", !.n = n,
                            !.seen = [j \in 0 .. n - 1 |-> FALSE],
                            !.location = [j \in 0 .. n - 1 |-> 0],
                            !.ids = [j \in 0 .. n - 1 |-> 0]]
  <2>1. AfterRead(r, p) = q
    BY <1>4 DEF AfterRead
  <2>2. n \in 0 .. p.local
    BY PercentIsLess
  <2> HIDE DEF n
  <2>3. /\ DOMAIN q = Fields /\ q.data = p.data /\ q.class = p.class
        /\ q.pc = (IF n = 0 THEN "sort" ELSE "draw") /\ q.k = 0 /\ q.count = 0
        /\ q.global = p.global /\ q.local = p.local /\ q.n = n
        /\ q.seen = [j \in 0 .. n - 1 |-> FALSE] /\ q.location = [j \in 0 .. n - 1 |-> 0]
        /\ q.ids = [j \in 0 .. n - 1 |-> 0]
    BY DEF Fields
  <2> HIDE DEF q
  <2>4. Sample(q, r)
    BY <1>4, <2>2, <2>3 DEF Sample
  <2>5. \A i \in 1 .. num_dims : InSlice(q, r, i, 0 .. q.local - 1)
    BY <1>1, <1>4, <2>3 DEF InSlice, Array, FirstOf
  <2>6. Whole(q, r)
    BY <2>3, <2>4, <2>5 DEF Whole
  <2>7. CASE n = 0
    <3>1. Above(q.location, q.n)
      BY <2>3, <2>7 DEF Above
    <3>2. AtSort(q, r)
      BY <2>3, <2>6, <2>7, <3>1 DEF AtSort
    <3> QED
      BY <2>1, <2>3, <3>2 DEF Holds
  <2>8. CASE n # 0
    <3>1. q.count \in 0 .. q.n - 1
      BY <2>2, <2>3, <2>8
    <3>2. DOMAIN q.seen = 0 .. q.n - 1 /\ 0 .. q.count - 1 = {}
      BY <2>3
    <3>3. AtDraw(q, r)
      BY <2>3, <2>6, <2>8, <3>1, <3>2 DEF AtDraw
    <3> QED
      BY <2>1, <2>3, <3>3 DEF Holds
  <2> QED
    BY <2>7, <2>8
<1> QED
  BY <1>1, <1>2, <1>3, <1>4

LEMMA SegmentStep == ASSUME IInv, NEW r \in Ranks, ReadSegment(r) PROVE IInv'
<1> DEFINE p == rd[r]
           i == p.i
           c == [p EXCEPT !.c = @ + 1]
           q == IF Datatype(i) = "class" THEN [c EXCEPT !.class = Slice(r, i)]
                ELSE [c EXCEPT !.data[i] = Slice(r, i)]
<1>1. WritersDone /\ p.pc = "read" /\ UNCHANGED <<vpic_vars, job>>
  BY DEF ReadSegment, At, Reading
<1>2. \/ rd' = rd
      \/ ~Wild(i) /\ rd' = [rd EXCEPT ![r] = AfterRead(r, q)]
  BY DEF ReadSegment, Becomes, Exit
<1>3. ASSUME Typed, ~Wild(i) PROVE Holds(AfterRead(r, q), r)
  <2>1. DOMAIN p = Fields /\ DOMAIN p.data = Columns /\ AtRead(p, r)
    BY <1>1, <1>3, PhaseIs
  <2>2. job \in Jobs /\ r \in Nat /\ i \in 1 .. num_dims /\ Datatype(i) \in Kinds
        /\ job.mpi_size \in Nat \ {0}
    BY <1>3, <2>1, JobIs, RanksAre DEF IInv, AtRead
  <2>3. (Datatype(i) = "data" => i \in Columns) /\ (Datatype(i) = "class" => cls)
    BY <1>3 DEF Wild
  <2>4. /\ DOMAIN c = Fields /\ c.data = p.data /\ c.class = p.class /\ c.i = p.i
        /\ c.pc = p.pc /\ c.k = p.k /\ c.count = p.count /\ c.global = p.global
        /\ c.local = p.local /\ c.ids = p.ids
    BY <2>1 DEF Fields
  <2> HIDE DEF c
  <2>5. /\ DOMAIN q = Fields /\ DOMAIN q.data = Columns /\ q.i = p.i
        /\ q.pc = p.pc /\ q.k = p.k /\ q.count = p.count /\ q.global = p.global
        /\ q.local = p.local /\ q.ids = p.ids
        /\ q.class = (IF Datatype(i) = "class" THEN Slice(r, i) ELSE p.class)
        /\ q.data = (IF Datatype(i) = "class" THEN p.data ELSE [p.data EXCEPT ![i] = Slice(r, i)])
    BY <2>1, <2>4 DEF Fields
  <2> HIDE DEF q
  <2>6. \A k \in 1 .. num_dims : Array(q, k) = IF k = i THEN Slice(r, i) ELSE Array(p, k)
    <3> SUFFICES ASSUME NEW k \in 1 .. num_dims
                 PROVE  Array(q, k) = IF k = i THEN Slice(r, i) ELSE Array(p, k)
      OBVIOUS
    <3>1. Datatype(k) \in Kinds /\ (Datatype(i) = "class" /\ Datatype(k) = "class" => i = k)
      BY <1>3, <2>2, JobIs
    <3>2. CASE Datatype(i) = "class"
      BY <2>5, <3>1, <3>2 DEF Array, Kinds
    <3>3. CASE Datatype(i) = "data"
      BY <2>1, <2>3, <2>5, <3>1, <3>3, SMTT(30) DEF Array, Kinds
    <3> QED
      BY <2>2, <3>2, <3>3 DEF Kinds
  <2>7. InSlice(q, r, i, 0 .. q.local - 1)
    <3>1. Array(q, i) = Slice(r, i)
      BY <2>2, <2>6
    <3>2. proc_offset(r) = FirstOf(q, r)
      BY <2>5 DEF proc_offset, Share, FirstOf
    <3> QED
      BY <2>3, <2>5, <3>1, <3>2 DEF InSlice, Slice
  <2>8. ASSUME NEW k \in 1 .. p.i, k # i PROVE InSlice(q, r, k, 0 .. q.local - 1)
    <3>1. k \in 1 .. p.i - 1 /\ k \in 1 .. num_dims
      <4>1. p.i \in Nat /\ num_dims \in Nat /\ p.i <= num_dims
        BY <2>2, JobIs
      <4> QED
        BY <2>8, <4>1
    <3>2. InSlice(p, r, k, 0 .. p.local - 1)
      BY <2>1, <3>1 DEF AtRead
    <3>3. Array(q, k) = Array(p, k) /\ FirstOf(q, r) = FirstOf(p, r)
      BY <2>5, <2>6, <2>8, <3>1 DEF FirstOf
    <3> QED
      BY <2>5, <3>2, <3>3 DEF InSlice
  <2>9. \A k \in 1 .. q.i : InSlice(q, r, k, 0 .. q.local - 1)
    BY <2>5, <2>7, <2>8
  <2>10. job.mode = "top" => IdsAre(q, r)
    BY <2>1, <2>5 DEF AtRead, IdsAre, FirstOf
  <2>11. q.pc = "read" /\ q.k = 0 /\ q.count = 0 /\ q.global \in Nat /\ q.local \in Nat
         /\ q.i \in 1 .. num_dims
    BY <2>1, <2>5 DEF AtRead
  <2> QED
    BY <1>3, <2>2, <2>5, <2>9, <2>10, <2>11, AllRead
<1> HIDE DEF q
<1> QED
  BY <1>1, <1>2, <1>3, OneMoves, NoneMoves

\* Not in a job whose data sets have types.
LEMMA NothingStep == ASSUME IInv, NEW r \in Ranks, ReadNothing(r) PROVE IInv'
<1>1. WritersDone /\ rd[r].pc = "read" /\ Datatype(rd[r].i) = "other" /\ UNCHANGED <<vpic_vars, job>>
  BY DEF ReadNothing, At, Reading
<1>2. rd' = rd \/ \E q : rd' = [rd EXCEPT ![r] = q]
  BY DEF ReadNothing, Becomes, Exit
<1>3. ~Typed
  <2> SUFFICES ASSUME Typed PROVE FALSE
    OBVIOUS
  <2>1. AtRead(rd[r], r) /\ job \in Jobs
    BY <1>1, PhaseIs DEF IInv
  <2>2. Datatype(rd[r].i) \in Kinds
    BY <2>1, JobIs DEF AtRead
  <2> QED
    BY <1>1, <2>2 DEF Kinds
<1> QED
  BY <1>1, <1>2, <1>3, OneMoves, NoneMoves

\* Only the sample changes: data and IDs stay.
LEMMA WholeStays ==
    ASSUME NEW r, NEW p, NEW q, Whole(p, r), q.data = p.data, q.class = p.class, q.ids = p.ids,
           q.k = p.k, q.n = p.n, q.global = p.global, q.local = p.local,
           DOMAIN q.location = DOMAIN p.location
    PROVE  Whole(q, r)
  BY DEF Whole, Sample, InSlice, Array, FirstOf

LEMMA DrawStep == ASSUME IInv, NEW r \in Ranks, Draw(r) PROVE IInv'
<1> DEFINE p == rd[r]
           q(t) == [p EXCEPT !.seen[p.count] = TRUE, !.location[p.count] = t, !.count = @ + 1,
                             !.pc = IF p.count + 1 = p.n THEN "sort" ELSE "draw"]
<1>1. WritersDone /\ p.pc = "draw" /\ UNCHANGED <<vpic_vars, job>>
  BY DEF Draw, At, Reading
<1>2. PICK t \in Draws(p.n) : ~p.seen[t] /\ rd' = [rd EXCEPT ![r] = q(t)]
  BY DEF Draw, Becomes
<1> DEFINE d == q(t)
<1>3. ASSUME Typed PROVE Holds(d, r)
  <2>1. DOMAIN p = Fields /\ DOMAIN p.data = Columns /\ AtDraw(p, r)
    BY <1>1, <1>3, PhaseIs
  <2>2. /\ p.n \in Nat /\ p.count \in 0 .. p.n - 1 /\ t \in 0 .. p.n - 1
        /\ DOMAIN p.seen = 0 .. p.n - 1 /\ DOMAIN p.location = 0 .. p.n - 1
        /\ Whole(p, r)
    BY <2>1 DEF AtDraw, Whole, Sample, Draws
  <2>3. t >= p.count
    <3>1. ~(t \in 0 .. p.count - 1)
      BY <1>2, <2>1 DEF AtDraw
    <3> QED
      BY <2>2, <3>1
  <2>4. /\ DOMAIN d = Fields /\ d.data = p.data /\ d.class = p.class /\ d.ids = p.ids
        /\ d.k = p.k /\ d.n = p.n /\ d.global = p.global /\ d.local = p.local
        /\ d.count = p.count + 1
        /\ d.pc = (IF p.count + 1 = p.n THEN "sort" ELSE "draw")
        /\ d.seen = [p.seen EXCEPT ![p.count] = TRUE]
        /\ d.location = [p.location EXCEPT ![p.count] = t]
    BY <2>1 DEF Fields
  <2> HIDE DEF d
  <2>5. DOMAIN d.seen = 0 .. p.n - 1 /\ DOMAIN d.location = 0 .. p.n - 1
    BY <2>2, <2>4
  <2>6. Whole(d, r)
    BY <2>2, <2>4, <2>5, WholeStays
  <2>7. \A j \in 0 .. d.count - 1 : d.location[j] \in j .. d.n - 1
    <3> SUFFICES ASSUME NEW j \in 0 .. p.count PROVE d.location[j] \in j .. p.n - 1
      BY <2>2, <2>4
    <3>1. CASE j = p.count
      BY <2>2, <2>3, <2>4, <3>1
    <3>2. CASE j # p.count
      <4>1. j \in 0 .. p.count - 1 /\ j \in 0 .. p.n - 1
        BY <2>2, <3>2
      <4> QED
        BY <2>1, <2>2, <2>4, <3>2, <4>1 DEF AtDraw
    <3> QED
      BY <3>1, <3>2
  <2>8. CASE p.count + 1 = p.n
    <3>1. Above(d.location, d.n) /\ d.pc = "sort"
      BY <2>4, <2>7, <2>8 DEF Above
    <3> QED
      BY <2>1, <2>4, <2>6, <3>1 DEF Holds, AtSort
  <2>9. CASE p.count + 1 # p.n
    <3>1. d.pc = "draw" /\ d.count \in 0 .. d.n - 1
      BY <2>2, <2>4, <2>9
    <3>2. ASSUME NEW j \in 0 .. d.count - 1 PROVE d.seen[j]
      <4>1. j \in 0 .. p.n - 1 /\ (j = p.count \/ j \in 0 .. p.count - 1)
        BY <2>2, <2>4, <2>9, <3>2
      <4>2. CASE j = p.count
        BY <2>2, <2>4, <4>2
      <4>3. CASE j # p.count
        <5>1. p.seen[j]
          BY <2>1, <4>1, <4>3 DEF AtDraw
        <5>2. d.seen[j] = p.seen[j]
          BY <2>2, <2>4, <4>1, <4>3
        <5> QED
          BY <5>1, <5>2
      <4> QED
        BY <4>2, <4>3
    <3>3. DOMAIN d.seen = 0 .. d.n - 1
      BY <2>4, <2>5
    <3>4. AtDraw(d, r)
      BY <2>6, <2>7, <3>1, <3>2, <3>3 DEF AtDraw
    <3> QED
      BY <2>1, <2>4, <3>4 DEF Holds
  <2> QED
    BY <2>8, <2>9
<1> HIDE DEF d
<1>4. rd' = [rd EXCEPT ![r] = d]
  BY <1>2 DEF d
<1> QED
  BY <1>1, <1>3, <1>4, OneMoves

LEMMA SortStep == ASSUME IInv, NEW r \in Ranks, Sort(r) PROVE IInv'
<1> DEFINE p == rd[r]
           q(s) == [p EXCEPT !.location = s, !.pc = "pack"]
<1>1. WritersDone /\ p.pc = "sort" /\ UNCHANGED <<vpic_vars, job>>
  BY DEF Sort, At, Reading
<1>2. PICK s \in [0 .. p.n - 1 -> 0 .. p.n - 1] :
         IsSorting(s, p.location, p.n) /\ rd' = [rd EXCEPT ![r] = q(s)]
  BY DEF Sort, Becomes
<1> DEFINE d == q(s)
<1>3. ASSUME Typed PROVE Holds(d, r)
  <2>1. DOMAIN p = Fields /\ DOMAIN p.data = Columns /\ AtSort(p, r)
    BY <1>1, <1>3, PhaseIs
  <2>2. /\ p.n \in Nat /\ DOMAIN p.location = 0 .. p.n - 1 /\ Above(p.location, p.n) /\ Whole(p, r)
        /\ p.k = 0 /\ p.global \in Nat /\ p.local \in Nat
    BY <2>1 DEF AtSort, Whole, Sample
  <2> DEFINE f == [j \in 0 .. p.n - 1 |-> p.location[j]]
  <2>3. f \in [0 .. p.n - 1 -> 0 .. p.n - 1] /\ Above(f, p.n)
    BY <2>2 DEF Above
  <2>4. IsSorting(s, f, p.n)
    <3>1. PICK order \in Bijection(0 .. p.n - 1, 0 .. p.n - 1) :
             \A a \in 0 .. p.n - 1 : s[a] = p.location[order[a]]
      BY <1>2 DEF IsSorting
    <3>2. order \in [0 .. p.n - 1 -> 0 .. p.n - 1]
      BY <3>1 DEF Bijection, Injection
    <3>3. \A a \in 0 .. p.n - 1 : s[a] = f[order[a]]
      BY <3>1, <3>2
    <3> HIDE DEF f
    <3> QED
      BY <1>2, <3>1, <3>3 DEF IsSorting
  <2> HIDE DEF f
  <2>5. Above(s, p.n)
    BY <1>2, <2>2, <2>3, <2>4, SortedIsAbove
  <2>6. /\ DOMAIN d = Fields /\ d.data = p.data /\ d.class = p.class /\ d.ids = p.ids
        /\ d.k = p.k /\ d.n = p.n /\ d.global = p.global /\ d.local = p.local
        /\ d.pc = "pack" /\ d.location = s
    BY <2>1 DEF Fields
  <2> HIDE DEF d
  <2>7. Whole(d, r)
    BY <1>2, <2>2, <2>6, WholeStays
  <2>8. d.k \in 0 .. d.n /\ 0 .. d.k - 1 = {}
    BY <2>2, <2>6
  <2>9. AtPack(d, r)
    BY <2>2, <2>5, <2>6, <2>7, <2>8 DEF AtPack, Whole
  <2> QED
    BY <2>1, <2>6, <2>9 DEF Holds
<1> HIDE DEF d
<1>4. rd' = [rd EXCEPT ![r] = d]
  BY <1>2 DEF d
<1> QED
  BY <1>1, <1>3, <1>4, OneMoves

\* Packing overwrites no value that is still to be packed.
LEMMA OnePacked ==
    ASSUME job \in Jobs, Typed, NEW r \in Ranks, NEW p, DOMAIN p = Fields, DOMAIN p.data = Columns,
           AtPack(p, r), p.k < p.n, rd[r].global = p.global
    PROVE  Holds([Packed(r, p) EXCEPT !.k = @ + 1], r)
<1> DEFINE d == [Packed(r, p) EXCEPT !.k = @ + 1]
           k == p.k
           m == p.location[k]
<1>1. /\ p.n \in Nat /\ p.local \in Nat /\ p.n <= p.local /\ p.k \in 0 .. p.n - 1
      /\ DOMAIN p.ids = 0 .. p.n - 1 /\ DOMAIN p.location = 0 .. p.n - 1
      /\ job.mode = "random" /\ p.global \in Nat
  BY DEF AtPack, Sample
<1>2. m \in k .. p.n - 1
  BY <1>1 DEF AtPack, Above
<1>3. m \in k .. p.local - 1 /\ k \in 0 .. p.local - 1
  BY <1>1, <1>2
<1>4. /\ DOMAIN d = Fields /\ d.pc = p.pc /\ d.k = k + 1 /\ d.n = p.n /\ d.global = p.global
      /\ d.local = p.local /\ d.location = p.location
      /\ d.ids = [p.ids EXCEPT ![k] = global_offset(r) + m]
      /\ d.data = [x \in Columns |-> [p.data[x] EXCEPT ![k] = p.data[x][m]]]
      /\ d.class = IF cls THEN [p.class EXCEPT ![k] = p.class[m]] ELSE p.class
  BY DEF Fields, Packed
<1> HIDE DEF d
<1>5. FirstOf(d, r) = FirstOf(p, r)
  BY <1>4 DEF FirstOf
<1> HIDE DEF m, k
<1>6. ASSUME NEW i \in 1 .. num_dims
      PROVE  /\ Array(d, i) = [Array(p, i) EXCEPT ![k] = Array(p, i)[m]]
             /\ InSlice(p, r, i, k .. p.local - 1)
             /\ DOMAIN Array(p, i) = 0 .. p.local - 1
  <2>1. InSlice(p, r, i, k .. p.local - 1)
    BY DEF AtPack, k
  <2>2. CASE Datatype(i) = "class"
    BY <1>4, <2>1, <2>2 DEF Array, InSlice
  <2>3. CASE Datatype(i) # "class"
    <3>1. Datatype(i) = "data"
      BY <2>3, JobIs DEF Kinds
    <3> QED
      BY <1>4, <2>1, <2>3, <3>1 DEF Array, InSlice
  <2> QED
    BY <2>2, <2>3
<1>7. ASSUME NEW i \in 1 .. num_dims
      PROVE  /\ InSlice(d, r, i, k + 1 .. d.local - 1)
             /\ \A j \in 0 .. k :
                   Array(d, i)[j] = file.sets[Name(i)][FirstOf(d, r) + d.location[j]]
  <2>0. k \in 0 .. p.n - 1
    BY <1>1 DEF k
  <2>1. ASSUME NEW j \in k + 1 .. p.local - 1
        PROVE  Array(d, i)[j] = file.sets[Name(i)][FirstOf(d, r) + j]
    <3>1. j \in k .. p.local - 1 /\ j # k /\ j \in 0 .. p.local - 1
      BY <1>1, <2>0
    <3>2. Array(d, i)[j] = Array(p, i)[j]
      BY <1>6, <3>1
    <3>3. Array(p, i)[j] = file.sets[Name(i)][FirstOf(p, r) + j]
      BY <1>6, <3>1 DEF InSlice
    <3> QED
      BY <1>5, <3>2, <3>3
  <2>2. ASSUME NEW j \in 0 .. k
        PROVE  Array(d, i)[j] = file.sets[Name(i)][FirstOf(d, r) + d.location[j]]
    <3>1. CASE j = k
      <4>1. Array(d, i)[j] = Array(p, i)[m]
        BY <1>3, <1>6, <3>1
      <4>2. Array(p, i)[m] = file.sets[Name(i)][FirstOf(p, r) + m]
        BY <1>3, <1>6 DEF InSlice
      <4>3. d.location[j] = m
        BY <1>4, <3>1 DEF m, k
      <4> QED
        BY <1>5, <4>1, <4>2, <4>3
    <3>2. CASE j # k
      <4>1. j \in 0 .. k - 1 /\ j \in 0 .. p.local - 1
        BY <1>1, <2>0, <3>2
      <4>2. Array(d, i)[j] = Array(p, i)[j]
        BY <1>6, <3>2, <4>1
      <4>3. Array(p, i)[j] = file.sets[Name(i)][FirstOf(p, r) + p.location[j]]
        BY <4>1 DEF AtPack, k
      <4> QED
        BY <1>4, <1>5, <4>2, <4>3
    <3> QED
      BY <3>1, <3>2
  <2>3. DOMAIN Array(d, i) = 0 .. d.local - 1
    BY <1>4, <1>6
  <2>4. InSlice(d, r, i, k + 1 .. d.local - 1)
    BY <1>4, <1>6, <2>1, <2>3 DEF InSlice
  <2> QED
    BY <2>2, <2>4
<1>8. Sample(d, r) /\ Above(d.location, d.n) /\ d.k \in 0 .. d.n
  <2>1. DOMAIN d.ids = 0 .. p.n - 1
    BY <1>1, <1>4
  <2>2. k \in 0 .. p.n - 1
    BY <1>1 DEF k
  <2> QED
    BY <1>1, <1>4, <2>1, <2>2 DEF AtPack, Sample
<1>9. ASSUME NEW j \in 0 .. k PROVE d.ids[j] = FirstOf(d, r) + d.location[j]
  <2>1. k \in 0 .. p.n - 1 /\ r \in Nat /\ job.mpi_size \in Nat \ {0}
    BY <1>1, RanksAre, JobIs DEF k
  <2>2. CASE j = k
    <3>1. p.global \div job.mpi_size \in Nat
      BY <1>1, <2>1, QuotientIs
    <3>2. global_offset(r) = FirstOf(p, r)
      BY <2>1, <3>1 DEF global_offset, FirstOf, Share
    <3> QED
      BY <1>1, <1>4, <1>5, <2>1, <2>2, <3>2 DEF m, k
  <2>3. CASE j # k
    <3>1. j \in 0 .. k - 1 /\ j \in 0 .. p.n - 1
      BY <1>1, <2>1, <2>3
    <3>2. p.ids[j] = FirstOf(p, r) + p.location[j]
      BY <3>1 DEF AtPack, k
    <3> QED
      BY <1>1, <1>4, <1>5, <2>3, <3>1, <3>2
  <2> QED
    BY <2>2, <2>3
<1>10. 0 .. d.k - 1 = 0 .. k
  BY <1>1, <1>4 DEF k
<1>11. AtPack(d, r)
  <2>1. d.pc = "pack" /\ d.global \in Nat /\ d.local \in Nat
    BY <1>1, <1>4 DEF AtPack
  <2>2. d.k = k + 1
    BY <1>4 DEF k
  <2>3. \A j \in 0 .. d.k - 1 : d.ids[j] = FirstOf(d, r) + d.location[j]
    BY <1>9, <1>10
  <2>4. \A i \in 1 .. num_dims :
          /\ InSlice(d, r, i, d.k .. d.local - 1)
          /\ \A j \in 0 .. d.k - 1 :
                Array(d, i)[j] = file.sets[Name(i)][FirstOf(d, r) + d.location[j]]
    BY <1>7, <1>10, <2>2
  <2> QED
    BY <1>8, <2>1, <2>3, <2>4 DEF AtPack
<1>12. DOMAIN d.data = Columns
  BY <1>4
<1> QED
  BY <1>4, <1>11, <1>12 DEF Holds, d

LEMMA PackStep == ASSUME IInv, NEW r \in Ranks, Pack(r) PROVE IInv'
<1> DEFINE p == rd[r]
           q == [Packed(r, p) EXCEPT !.k = @ + 1]
           e == [p EXCEPT !.local = p.n, !.pc = "barrier"]
<1>1. WritersDone /\ p.pc = "pack" /\ UNCHANGED <<vpic_vars, job>>
  BY DEF Pack, At, Reading
<1>2. \/ p.k < p.n /\ rd' = [rd EXCEPT ![r] = q]
      \/ ~(p.k < p.n) /\ rd' = [rd EXCEPT ![r] = e]
  BY DEF Pack, Becomes
<1>3. ASSUME Typed PROVE DOMAIN p = Fields /\ DOMAIN p.data = Columns /\ AtPack(p, r)
  BY <1>1, <1>3, PhaseIs
<1>4. ASSUME Typed, p.k < p.n PROVE Holds(q, r)
  BY <1>3, <1>4, OnePacked DEF IInv
<1>5. ASSUME Typed, ~(p.k < p.n) PROVE Holds(e, r)
  <2>1. /\ p.n \in Nat /\ p.k \in 0 .. p.n /\ job.mode = "random"
        /\ \A j \in 0 .. p.k - 1 : p.ids[j] = FirstOf(p, r) + p.location[j]
        /\ \A i \in 1 .. num_dims : \A j \in 0 .. p.k - 1 :
              Array(p, i)[j] = file.sets[Name(i)][FirstOf(p, r) + p.location[j]]
    BY <1>3, <1>5 DEF AtPack, Sample
  <2>2. /\ DOMAIN e = Fields /\ e.data = p.data /\ e.class = p.class /\ e.ids = p.ids
        /\ e.pc = "barrier" /\ e.k = p.k
    BY <1>3, <1>5 DEF Fields
  <2> HIDE DEF e
  <2>3. \A i : Array(e, i) = Array(p, i)
    BY SMTT(30), <2>2 DEF Array
  <2>4. Belongs(e, r)
    BY SMTT(30), <2>1, <2>2, <2>3 DEF Belongs
  <2> QED
    BY <1>3, <1>5, <2>2, <2>4 DEF Holds, AtEnd
<1> HIDE DEF q, e
<1> QED
  BY <1>1, <1>2, <1>4, <1>5, OneMoves

\* After the barrier a process only calls: what it holds stays as it is.
LEMMA LateStep ==
    ASSUME IInv, NEW r \in Ranks,
           \/ AfterBarrier(r) \/ CloseReader(r) \/ init_h5outfile(r) \/ write_dataset(r)
           \/ StepRefused(r) \/ AfterWritten(r) \/ close_h5outfile(r) \/ Finalize(r)
    PROVE  IInv'
<1> DEFINE p == rd[r]
           Late == {"barrier", "close", "back", "written", "ended"}
<1>1. WritersDone /\ p.pc \in Late /\ UNCHANGED <<vpic_vars, job>>
  BY SMTT(30) DEF AfterBarrier, CloseReader, init_h5outfile, write_dataset, StepRefused, AfterWritten, close_h5outfile,
         Finalize, Back, At, Reading, Writing
<1>2. \/ rd' = rd
      \/ \E pc \in Late : rd' = [rd EXCEPT ![r] = [p EXCEPT !.pc = pc]]
      \/ \E pc \in Late : \E c : rd' = [rd EXCEPT ![r] = [p EXCEPT !.pc = pc, !.c = c]]
      \/ \E pc \in Late : \E c, i : rd' = [rd EXCEPT ![r] = [p EXCEPT !.pc = pc, !.c = c, !.i = i]]
  BY DEF AfterBarrier, CloseReader, init_h5outfile, write_dataset, StepRefused, AfterWritten, close_h5outfile,
         Finalize, NextCall, Becomes
<1>3. ASSUME Typed PROVE DOMAIN p = Fields /\ DOMAIN p.data = Columns /\ AtEnd(p, r)
  BY <1>1, <1>3, PhaseIs
<1>4. ASSUME Typed, NEW q, DOMAIN q = Fields, q.data = p.data, q.class = p.class, q.ids = p.ids,
             q.k = p.k, q.local = p.local, q.pc \in Late
      PROVE  Holds(q, r)
  <2>1. Belongs(q, r)
    BY <1>3, <1>4 DEF AtEnd, Belongs, Array
  <2> QED
    BY <1>3, <1>4, <2>1 DEF Holds, AtEnd
<1>5. CASE rd' = rd
  BY <1>1, <1>5, NoneMoves
<1>6. CASE \E pc \in Late : rd' = [rd EXCEPT ![r] = [p EXCEPT !.pc = pc]]
  <2>1. PICK pc \in Late : rd' = [rd EXCEPT ![r] = [p EXCEPT !.pc = pc]]
    BY <1>6
  <2> DEFINE q == [p EXCEPT !.pc = pc]
  <2>2. Typed => Holds(q, r)
    BY <1>3, <1>4 DEF Fields
  <2> HIDE DEF q
  <2>3. rd' = [rd EXCEPT ![r] = q]
    BY <2>1 DEF q
  <2> QED
    BY <1>1, <2>2, <2>3, OneMoves
<1>7. CASE \E pc \in Late : \E c : rd' = [rd EXCEPT ![r] = [p EXCEPT !.pc = pc, !.c = c]]
  <2>0. PICK pc \in Late : \E c : rd' = [rd EXCEPT ![r] = [p EXCEPT !.pc = pc, !.c = c]]
    BY <1>7
  <2>1. PICK c : rd' = [rd EXCEPT ![r] = [p EXCEPT !.pc = pc, !.c = c]]
    BY <2>0
  <2> DEFINE q == [p EXCEPT !.pc = pc, !.c = c]
  <2>2. Typed => Holds(q, r)
    BY <1>3, <1>4 DEF Fields
  <2> HIDE DEF q
  <2>3. rd' = [rd EXCEPT ![r] = q]
    BY <2>1 DEF q
  <2> QED
    BY <1>1, <2>2, <2>3, OneMoves
<1>8. CASE \E pc \in Late : \E c, i : rd' = [rd EXCEPT ![r] = [p EXCEPT !.pc = pc, !.c = c, !.i = i]]
  <2>0. PICK pc \in Late : \E c, i : rd' = [rd EXCEPT ![r] = [p EXCEPT !.pc = pc, !.c = c, !.i = i]]
    BY <1>8
  <2>1. PICK c, i : rd' = [rd EXCEPT ![r] = [p EXCEPT !.pc = pc, !.c = c, !.i = i]]
    BY <2>0
  <2> DEFINE q == [p EXCEPT !.pc = pc, !.c = c, !.i = i]
  <2>2. Typed => Holds(q, r)
    BY <1>3, <1>4 DEF Fields
  <2> HIDE DEF q
  <2>3. rd' = [rd EXCEPT ![r] = q]
    BY <2>1 DEF q
  <2> QED
    BY <1>1, <2>2, <2>3, OneMoves
<1> QED
  BY ZenonT(30), <1>2, <1>5, <1>6, <1>7, <1>8

LEMMA StepInv == IInv /\ [Next]_vars => IInv'
<1> SUFFICES ASSUME IInv, [Next]_vars PROVE IInv'
  OBVIOUS
<1>1. CASE NextVpic /\ UNCHANGED <<job, rd, out, aborted>>
  BY <1>1, VpicStep
<1>2. ASSUME NEW r \in Ranks, RankStep(r) PROVE IInv'
  BY <1>2, StartStep, MetadataStep, OpenStep, SegmentStep, NothingStep, DrawStep, SortStep,
     PackStep, LateStep DEF RankStep
<1>3. CASE UNCHANGED vars
  <2>1. /\ file' = file /\ w' = w /\ numparticles' = numparticles /\ job' = job /\ rd' = rd
    BY <1>3 DEF vars, vpic_vars
  <2>2. FileIsMade' /\ Ranks' = Ranks /\ Typed' = Typed /\ (WritersDone => WritersDone')
    BY <2>1 DEF IInv, FileIsMade, Total, Ranks, Typed, dataset_count, WritersDone
  <2>3. Typed => \A r \in Ranks : Holds(rd[r], r)'
    BY <2>1, HoldsStays DEF IInv
  <2> QED
    BY <2>1, <2>2, <2>3 DEF IInv
<1> QED
  BY <1>1, <1>2, <1>3 DEF Next

LEMMA Correct == Spec => []IInv
<1> QED
  BY InitInv, StepInv, PTL DEF Spec

LEMMA InvBelong == IInv => RecordsBelong
<1> SUFFICES ASSUME IInv, Typed, NEW r \in Ranks, NEW k \in Records(r), NEW i \in 1 .. num_dims
             PROVE  Column(r, i)[k] = file.sets[Name(i)][rd[r].ids[k]]
  BY DEF RecordsBelong
<1> DEFINE p == rd[r]
<1>1. Column(r, i) = Array(p, i)
  BY DEF Column, Array
<1>2. Holds(p, r) /\ job \in Jobs
  BY DEF IInv
<1>3. CASE AtPack(p, r)
  <2>1. job.mode = "random" /\ k \in 0 .. p.k - 1 /\ p.ids[k] = FirstOf(p, r) + p.location[k]
    BY <1>3 DEF AtPack, Sample, Records
  <2> QED
    BY <1>1, <1>3, <2>1 DEF AtPack
<1>4. CASE AtEnd(p, r)
  BY <1>1, <1>4 DEF AtEnd, Belongs, Records
<1>5. CASE AtStart(p) \/ AtOpen(p) \/ AtRead(p, r) \/ AtDraw(p, r) \/ AtSort(p, r)
  <2>1. p.k = 0 /\ (p.pc \in {"start", "metadata", "open", "read"} \/ job.mode = "random")
    BY <1>5 DEF AtStart, AtOpen, AtRead, AtDraw, AtSort, Whole, Sample
  <2>2. Records(r) = {}
    BY <2>1 DEF Records
  <2> QED
    BY <2>2
<1> QED
  BY <1>2, <1>3, <1>4, <1>5 DEF Holds

(* Whatever the file, the number of processes, the data sets, the percentage *)
(* and the numbers drawn, also in the middle of packing in place, every      *)
(* record of a process is the particle its ID names (read_driver,            *)
(* bdcats-io/bdats_h5reader.cpp).                                            *)
THEOREM RecordsStayTogether == Spec => []RecordsBelong
<1> QED
  BY Correct, InvBelong, PTL

-----------------------------------------------------------------------------
(* The slices of the reading processes are disjoint and cover the file, and *)
(* the IDs a process has are those of its slice.                             *)

Base == Total \div job.mpi_size
Points(r) == Base + (IF r = job.mpi_size - 1 THEN Total % job.mpi_size ELSE 0)
Mine(r) == r * Base .. r * Base + Points(r) - 1

-----------------------------------------------------------------------------
(* Slices                                                                   *)

LEMMA BaseIs ==
    ASSUME job \in Jobs, FileIsMade
    PROVE  /\ Total \in Nat \ {0} /\ job.mpi_size \in Nat \ {0}
           /\ Base \in Nat /\ Total % job.mpi_size \in 0 .. job.mpi_size - 1
           /\ Total = job.mpi_size * Base + (Total % job.mpi_size)
           /\ \A r \in Ranks : r \in Nat /\ r <= job.mpi_size - 1 /\ Points(r) \in Nat
<1>1. job.mpi_size \in Nat \ {0}
  BY JobIs
<1>2. Total \in Nat \ {0}
  BY VpicAssumption, Monotone DEF Total, FileIsMade
<1> HIDE DEF Total
<1>3. /\ Base \in Nat /\ Total % job.mpi_size \in 0 .. job.mpi_size - 1
      /\ Total = Base * job.mpi_size + (Total % job.mpi_size)
  BY <1>1, <1>2, QuotientIs DEF Base
<1>4. \A r \in Ranks : r \in Nat /\ r <= job.mpi_size - 1 /\ Points(r) \in Nat
  BY <1>1, <1>3 DEF Ranks, Points
<1>5. Base * job.mpi_size = job.mpi_size * Base
  BY <1>1, <1>3
<1> QED
  BY <1>1, <1>2, <1>3, <1>4, <1>5

\* A slice ends before the next one begins.
LEMMA LowerIsBefore ==
    ASSUME job \in Jobs, FileIsMade, NEW r \in Ranks, NEW q \in Ranks, r < q
    PROVE  Mine(r) \cap Mine(q) = {}
<1>1. Base \in Nat /\ r \in Nat /\ q \in Nat /\ r < job.mpi_size - 1 /\ job.mpi_size \in Nat
  BY BaseIs
<1>2. Points(r) = Base
  BY <1>1 DEF Points
<1>3. (r + 1) * Base <= q * Base /\ (r + 1) * Base = r * Base + Base
  BY <1>1, Monotone
<1>4. r * Base \in Nat /\ q * Base \in Nat
  BY <1>1
<1> DEFINE a == r * Base
           b == q * Base
<1>5. a + Base <= b /\ a \in Nat /\ b \in Nat
  BY <1>3, <1>4
<1>6. Mine(r) = a .. a + Base - 1 /\ \E y : Mine(q) = b .. y
  BY <1>2 DEF Mine
<1> HIDE DEF a, b
<1> QED
  BY <1>1, <1>5, <1>6

LEMMA SlicesApart ==
    ASSUME job \in Jobs, FileIsMade, NEW r \in Ranks, NEW q \in Ranks, r # q
    PROVE  Mine(r) \cap Mine(q) = {}
<1>1. r \in Nat /\ q \in Nat
  BY BaseIs
<1>2. r < q \/ q < r
  BY <1>1
<1> QED
  BY <1>2, LowerIsBefore

LEMMA SlicesCover ==
    ASSUME job \in Jobs, FileIsMade
    PROVE  UNION {Mine(r) : r \in Ranks} = 0 .. Total - 1
<1> DEFINE m == job.mpi_size
           rest == Total % m
<1>1. /\ Total \in Nat \ {0} /\ m \in Nat \ {0} /\ Base \in Nat /\ rest \in Nat
      /\ Total = m * Base + rest /\ m - 1 \in Ranks
      /\ \A r \in Ranks : r \in Nat /\ r <= m - 1 /\ Points(r) \in Nat
  BY BaseIs DEF Ranks
<1>2. (m - 1) * Base + Base = m * Base
  BY <1>1
<1>3. ASSUME NEW r \in Ranks PROVE Mine(r) \subseteq 0 .. Total - 1
  <2>1. r \in Nat /\ r <= m - 1
    BY <1>1
  <2>2. r * Base <= (m - 1) * Base /\ r * Base \in Nat /\ (m - 1) * Base \in Nat
    BY <1>1, <2>1, Monotone
  <2> DEFINE a == r * Base
             z == (m - 1) * Base
  <2>3. a \in Nat /\ z \in Nat /\ a <= z /\ Points(r) <= Base + rest /\ Total = z + Base + rest
    BY <1>1, <1>2, <2>2 DEF Points
  <2>4. Mine(r) = a .. a + Points(r) - 1
    BY DEF Mine
  <2> HIDE DEF a, z, m, rest
  <2> QED
    BY <1>1, <2>3, <2>4
<1>4. ASSUME NEW x \in 0 .. Total - 1 PROVE \E r \in Ranks : x \in Mine(r)
  <2> DEFINE z == (m - 1) * Base
  <2>1. z \in Nat /\ Total = z + Base + rest
    BY <1>1, <1>2
  <2>2. CASE x >= z
    <3>1. Points(m - 1) = Base + rest /\ Mine(m - 1) = z .. z + (Base + rest) - 1
      BY DEF Points, Mine
    <3> HIDE DEF z, m, rest
    <3>2. x \in Mine(m - 1)
      BY <1>1, <2>1, <2>2, <3>1
    <3> QED
      BY <1>1, <3>2
  <2>3. CASE x < z
    <3>1. Base # 0
      BY <1>1, <2>3
    <3> DEFINE r == x \div Base
    <3>7. x \in Nat /\ Base \in Nat \ {0}
      BY <1>1, <3>1
    <3>2. r \in Nat /\ x % Base \in 0 .. Base - 1 /\ x = r * Base + (x % Base)
      BY ONLY <3>7, QuotientIs
    <3> HIDE DEF r
    <3>3. r < m - 1
      <4> SUFFICES ASSUME r >= m - 1 PROVE FALSE
        BY <1>1, <3>2
      <4>1. (m - 1) * Base <= r * Base
        BY <1>1, <3>2, Monotone
      <4>2. r * Base \in Nat /\ (x % Base) \in Nat /\ r * Base <= x
        BY <1>1, <3>2
      <4> DEFINE a == r * Base
      <4>3. z <= a /\ a <= x /\ a \in Nat
        BY <4>1, <4>2
      <4> HIDE DEF z, a
      <4> QED
        BY <2>1, <2>3, <4>3
    <3>4. r \in Ranks /\ Points(r) = Base
      BY <1>1, <3>2, <3>3 DEF Ranks, Points
    <3> DEFINE a == r * Base
    <3>5. a \in Nat /\ x = a + (x % Base) /\ Mine(r) = a .. a + Base - 1
      BY <1>1, <3>2, <3>4 DEF Mine
    <3> HIDE DEF a
    <3>6. x \in Mine(r)
      BY <1>1, <3>2, <3>5
    <3> QED
      BY <3>4, <3>6
  <2> HIDE DEF z
  <2> QED
    BY <2>1, <2>2, <2>3
<1> QED
  BY <1>3, <1>4

-----------------------------------------------------------------------------
(* What a process has of its slice; p is what it has in memory              *)

Late == {"barrier", "close", "back", "written", "ended"}

Blank(p) == p.pc \in {"start", "metadata", "ended"} /\ p.local = 0 /\ p.k = 0
Opened(p) == p.pc = "open" /\ p.k = 0 /\ p.global = Total
WholeSlice(p, r) ==
    /\ p.pc \in Late \cup {"read"} /\ job.mode = "top" /\ p.global = Total
    /\ p.local = Percent(Points(r)) /\ p.ids = [j \in 0 .. p.local - 1 |-> r * Base + j]
Unsampled(p, r) ==
    /\ p.pc = "read" /\ job.mode = "random" /\ p.k = 0 /\ p.global = Total
    /\ p.local = Points(r)
Drawn(p, r) ==
    /\ p.pc \in {"draw", "sort"} /\ job.mode = "random" /\ p.k = 0 /\ p.global = Total
    /\ p.n \in 0 .. Points(r) /\ DOMAIN p.ids = 0 .. p.n - 1
IdsAreMine(p, r) == \A j \in 0 .. p.k - 1 : p.ids[j] \in Mine(r)
Packing(p, r) ==
    /\ p.pc = "pack" /\ job.mode = "random" /\ p.global = Total
    /\ p.n \in 0 .. Points(r) /\ DOMAIN p.ids = 0 .. p.n - 1
    /\ p.location \in [0 .. p.n - 1 -> 0 .. p.n - 1] /\ p.k \in 0 .. p.n
    /\ IdsAreMine(p, r)
SampleHeld(p, r) == p.pc \in Late /\ job.mode = "random" /\ IdsAreMine(p, r)

Stage(p, r) ==
    /\ DOMAIN p = Fields
    /\ \/ Blank(p) \/ Opened(p) \/ WholeSlice(p, r) \/ Unsampled(p, r) \/ Drawn(p, r)
       \/ Packing(p, r) \/ SampleHeld(p, r)

SlicesInv == IInv /\ \A r \in Ranks : Stage(rd[r], r)
LEMMA SlicesInit == Init => SlicesInv
<1> SUFFICES ASSUME Init PROVE SlicesInv
  OBVIOUS
<1>1. ASSUME NEW r \in Ranks
      PROVE  rd[r].pc = "start" /\ rd[r].local = 0 /\ rd[r].k = 0 /\ DOMAIN rd[r] = Fields
  BY DEF Init, Fields
<1> QED
  BY <1>1, InitInv DEF SlicesInv, Stage, Blank

\* A stage depends on the job and the size of the file only.
LEMMA StageStays ==
    ASSUME job' = job, Total' = Total, NEW x, NEW r, Stage(x, r)
    PROVE  Stage(x, r)'
<1>1. Base' = Base
  BY DEF Base
<1>2. Points(r)' = Points(r) /\ Mine(r)' = Mine(r)
  BY <1>1 DEF Points, Mine
<1>3. \A n : Percent(n)' = Percent(n)
  BY DEF Percent
<1>4. /\ Blank(x)' = Blank(x) /\ Opened(x)' = Opened(x) /\ WholeSlice(x, r)' = WholeSlice(x, r)
      /\ Unsampled(x, r)' = Unsampled(x, r) /\ Drawn(x, r)' = Drawn(x, r)
      /\ IdsAreMine(x, r)' = IdsAreMine(x, r)
  BY <1>1, <1>2, <1>3 DEF Blank, Opened, WholeSlice, Unsampled, Drawn, IdsAreMine
<1>5. Packing(x, r)' = Packing(x, r) /\ SampleHeld(x, r)' = SampleHeld(x, r)
  BY <1>2, <1>4 DEF Packing, SampleHeld
<1> QED
  BY <1>4, <1>5 DEF Stage

\* One process is at another stage.
LEMMA OneStages ==
    ASSUME SlicesInv, IInv', UNCHANGED <<vpic_vars, job>>, NEW s \in Ranks, NEW p,
           rd' = [rd EXCEPT ![s] = p], Stage(p, s)
    PROVE  SlicesInv'
<1>1. job' = job /\ Total' = Total /\ Ranks' = Ranks
  BY DEF vpic_vars, Total, Ranks
<1>2. ASSUME NEW r \in Ranks PROVE Stage(rd[r], r)'
  <2>1. Stage(IF r = s THEN p ELSE rd[r], r)
    BY DEF SlicesInv
  <2>2. rd'[r] = IF r = s THEN p ELSE rd[r]
    BY DEF SlicesInv, IInv
  <2>3. ASSUME NEW y, Stage(y, r) PROVE Stage(y, r)'
    BY <1>1, <2>3, StageStays
  <2> QED
    BY <2>1, <2>2, <2>3
<1> QED
  BY <1>1, <1>2 DEF SlicesInv

LEMMA NoneStages ==
    ASSUME SlicesInv, IInv', job' = job, Total' = Total, rd' = rd
    PROVE  SlicesInv'
<1>1. Ranks' = Ranks
  BY DEF Ranks
<1>2. ASSUME NEW r \in Ranks PROVE Stage(rd[r], r)'
  <2>1. Stage(rd[r], r)
    BY DEF SlicesInv
  <2>2. ASSUME NEW y, Stage(y, r) PROVE Stage(y, r)'
    BY <2>2, StageStays
  <2> QED
    BY <2>1, <2>2
<1> QED
  BY <1>1, <1>2 DEF SlicesInv

-----------------------------------------------------------------------------
(* Steps                                                                    *)

LEMMA StageIs ==
    ASSUME SlicesInv, NEW r \in Ranks
    PROVE  LET p == rd[r]
           IN  /\ DOMAIN p = Fields
               /\ p.pc \in {"start", "metadata"} => Blank(p)
               /\ p.pc = "open" => Opened(p)
               /\ p.pc = "read" => WholeSlice(p, r) \/ Unsampled(p, r)
               /\ p.pc \in {"draw", "sort"} => Drawn(p, r)
               /\ p.pc = "pack" => Packing(p, r)
               /\ p.pc \in Late => Blank(p) \/ WholeSlice(p, r) \/ SampleHeld(p, r)
  BY DEF SlicesInv, Stage, Blank, Opened, WholeSlice, Unsampled, Drawn, Packing, SampleHeld, Late
LEMMA SameTotal == UNCHANGED <<vpic_vars, job>> => job' = job /\ Total' = Total
  BY DEF vpic_vars, Total

LEMMA SlicesVpic == SlicesInv /\ NextVpic /\ UNCHANGED <<job, rd>> => SlicesInv'
<1> SUFFICES ASSUME SlicesInv, NextVpic, UNCHANGED <<job, rd>> PROVE SlicesInv'
  OBVIOUS
<1>1. IInv'
  BY VpicStep DEF SlicesInv
<1>2. numparticles' = numparticles
  BY DEF NextVpic, Barrier, OpenFile, WriteFileAttribString, SetStep, SetNumParticles,
         WriteVariable, CloseFile, Done
<1>3. Total' = Total
  BY <1>2 DEF Total
<1> QED
  BY <1>1, <1>3, NoneStages

LEMMA SlicesStart == ASSUME SlicesInv, NEW r \in Ranks, Start(r) PROVE SlicesInv'
<1> DEFINE p == rd[r]
           q == [p EXCEPT !.pc = "metadata"]
<1>1. p.pc = "start" /\ UNCHANGED <<vpic_vars, job>> /\ rd' = [rd EXCEPT ![r] = q]
  BY DEF Start, At, Reading, Becomes
<1>2. DOMAIN p = Fields /\ Blank(p)
  BY <1>1, StageIs
<1>3. Stage(q, r)
  BY <1>2 DEF Stage, Blank, Fields
<1> QED
  BY <1>1, <1>3, OneStages, StartStep DEF SlicesInv

\* What every process finds in the file is the number of particles written.
LEMMA SlicesMetadata == ASSUME SlicesInv, NEW r \in Ranks, GetMetadata(r) PROVE SlicesInv'
<1> DEFINE p == rd[r]
           q == [p EXCEPT !.pc = "open", !.c = @ + 1,
                          !.global = Cardinality(DOMAIN file.sets[AllColumns[1]])]
           e == [p EXCEPT !.pc = "ended", !.c = @ + 1]
<1>1. WritersDone /\ p.pc = "metadata" /\ UNCHANGED <<vpic_vars, job>>
  BY DEF GetMetadata, At, Reading
<1>2. \/ rd' = rd
      \/ file.opened = "yes" /\ rd' = [rd EXCEPT ![r] = q]
      \/ rd' = [rd EXCEPT ![r] = e]
  BY DEF GetMetadata, Becomes, Exit
<1>3. DOMAIN p = Fields /\ Blank(p)
  BY <1>1, StageIs
<1>4. ASSUME file.opened = "yes" PROVE Stage(q, r)
  <2>1. Cardinality(DOMAIN file.sets[AllColumns[1]]) = Total
    BY <1>1, <1>4, FileIsWhole DEF SlicesInv, IInv
  <2>2. q.pc = "open" /\ q.k = 0 /\ q.global = Total /\ DOMAIN q = Fields
    BY <1>3, <2>1 DEF Blank, Fields
  <2> HIDE DEF q
  <2> QED
    BY <2>2 DEF Stage, Opened
<1>5. Stage(e, r)
  BY <1>3 DEF Stage, Blank, Fields
<1>6. IInv'
  BY MetadataStep DEF SlicesInv
<1> HIDE DEF q, e
<1> QED
  BY <1>1, <1>2, <1>4, <1>5, <1>6, OneStages, NoneStages, SameTotal

LEMMA SlicesOpen == ASSUME SlicesInv, NEW r \in Ranks, OpenFile_(r) PROVE SlicesInv'
<1> DEFINE p == rd[r]
           local == m_num_local_points(r)
           ids == IF job.mode = "random" THEN << >>
                  ELSE [index \in 0 .. local - 1 |-> global_offset(r) + index]
           q == [p EXCEPT !.pc = "read", !.c = @ + 1, !.i = 1, !.local = local, !.ids = ids]
<1>1. p.pc = "open" /\ UNCHANGED <<vpic_vars, job>> /\ rd' = [rd EXCEPT ![r] = q]
  BY DEF OpenFile_, At, Reading, Becomes
<1>2. DOMAIN p = Fields /\ p.k = 0 /\ p.global = Total
  BY <1>1, StageIs DEF Opened
<1>3. /\ local = IF job.mode = "random" THEN Points(r) ELSE Percent(Points(r))
      /\ global_offset(r) = Base * r
  BY <1>2 DEF m_num_local_points, global_offset, Points, Share, Base
<1>4. /\ r \in Nat /\ Base \in Nat /\ job.mode \in {"random", "top"}
  BY BaseIs, JobIs DEF SlicesInv, IInv
<1>5. global_offset(r) = r * Base
  BY <1>3, <1>4
<1> HIDE DEF local
<1>6. job.mode = "top" => ids = [j \in 0 .. local - 1 |-> r * Base + j]
  BY <1>5
<1> HIDE DEF ids
<1>7. /\ DOMAIN q = Fields /\ q.pc = "read" /\ q.k = 0 /\ q.global = Total /\ q.local = local
      /\ q.ids = ids
  BY <1>2 DEF Fields
<1> HIDE DEF q
<1>8. ASSUME job.mode = "random" PROVE Stage(q, r)
  <2>1. local = Points(r)
    BY <1>3, <1>8
  <2> QED
    BY <1>7, <1>8, <2>1 DEF Stage, Unsampled
<1>9. ASSUME job.mode = "top" PROVE Stage(q, r)
  <2>1. local = Percent(Points(r)) /\ ids = [j \in 0 .. local - 1 |-> r * Base + j]
    BY <1>3, <1>6, <1>9
  <2> QED
    BY <1>7, <1>9, <2>1 DEF Stage, WholeSlice
<1>10. IInv'
  BY OpenStep DEF SlicesInv
<1> QED
  BY <1>1, <1>4, <1>8, <1>9, <1>10, OneStages

\* After a data set; only the rest of what a process has may have changed.
LEMMA StageRead ==
    ASSUME SlicesInv, NEW r \in Ranks, NEW p, DOMAIN p = Fields,
           WholeSlice(p, r) \/ Unsampled(p, r), p.pc = "read"
    PROVE  Stage(AfterRead(r, p), r)
<1>1. job \in Jobs /\ job.mode \in {"random", "top"} /\ Points(r) \in Nat
  BY BaseIs, JobIs DEF SlicesInv, IInv
<1>2. CASE p.i < num_dims
  <2> DEFINE q == [p EXCEPT !.i = @ + 1]
  <2>1. AfterRead(r, p) = q
    BY <1>2 DEF AfterRead
  <2>2. /\ DOMAIN q = Fields /\ q.pc = p.pc /\ q.k = p.k /\ q.global = p.global
        /\ q.local = p.local /\ q.ids = p.ids
    BY DEF Fields
  <2> HIDE DEF q
  <2> QED
    BY <2>1, <2>2 DEF Stage, WholeSlice, Unsampled
<1>3. CASE ~(p.i < num_dims) /\ job.mode = "top"
  <2> DEFINE q == [p EXCEPT !.pc = "barrier"]
  <2>1. AfterRead(r, p) = q
    BY <1>3 DEF AfterRead
  <2>2. /\ DOMAIN q = Fields /\ q.pc = "barrier" /\ q.k = p.k /\ q.global = p.global
        /\ q.local = p.local /\ q.ids = p.ids
    BY DEF Fields
  <2> HIDE DEF q
  <2>3. WholeSlice(q, r)
    BY <1>3, <2>2 DEF WholeSlice, Unsampled, Late
  <2> QED
    BY <2>1, <2>2, <2>3 DEF Stage
<1>4. CASE ~(p.i < num_dims) /\ job.mode = "random"
  <2> DEFINE n == Percent(p.local)
             q == [p EXCEPT !.pc = IF n = 0 THEN "sort" ELSE "draw", !.n = n,
                            !.seen = [j \in 0 .. n - 1 |-> FALSE],
                            !.location = [j \in 0 .. n - 1 |-> 0],
                            !.ids = [j \in 0 .. n - 1 |-> 0]]
  <2>1. AfterRead(r, p) = q
    BY <1>4 DEF AfterRead
  <2>2. p.local = Points(r) /\ p.k = 0 /\ p.global = Total
    BY <1>4 DEF WholeSlice, Unsampled
  <2>3. n \in 0 .. Points(r)
    BY <1>1, <2>2, PercentIsLess
  <2> HIDE DEF n
  <2>4. /\ DOMAIN q = Fields /\ q.pc \in {"draw", "sort"} /\ q.k = p.k /\ q.global = p.global
        /\ q.n = n /\ q.ids = [j \in 0 .. n - 1 |-> 0]
    BY DEF Fields
  <2> HIDE DEF q
  <2>5. Drawn(q, r)
    BY <1>4, <2>2, <2>3, <2>4 DEF Drawn
  <2> QED
    BY <2>1, <2>4, <2>5 DEF Stage
<1> QED
  BY <1>1, <1>2, <1>3, <1>4
LEMMA SlicesSegment ==
    ASSUME SlicesInv, NEW r \in Ranks, ReadSegment(r) \/ ReadNothing(r)
    PROVE  SlicesInv'
<1> DEFINE p == rd[r]
           i == p.i
           junk == [j \in 0 .. p.local - 1 |-> Junk]
           q1 == [p EXCEPT !.c = @ + 1, !.class = Slice(r, i)]
           q2 == [p EXCEPT !.c = @ + 1, !.data[i] = Slice(r, i)]
           q3 == [p EXCEPT !.data[i] = junk]
<1>1. p.pc = "read" /\ UNCHANGED <<vpic_vars, job>>
  BY DEF ReadSegment, ReadNothing, At, Reading
<1>2. DOMAIN p = Fields /\ (WholeSlice(p, r) \/ Unsampled(p, r))
  BY <1>1, StageIs
<1>3. /\ [[p EXCEPT !.c = @ + 1] EXCEPT !.class = Slice(r, i)] = q1
      /\ [[p EXCEPT !.c = @ + 1] EXCEPT !.data[i] = Slice(r, i)] = q2
  BY <1>2 DEF Fields
<1>4. \/ rd' = rd
      \/ \E q \in {p, q1, q2, q3} : rd' = [rd EXCEPT ![r] = AfterRead(r, q)]
  BY <1>3 DEF ReadSegment, ReadNothing, Becomes, Exit
<1>5. ASSUME NEW q \in {p, q1, q2, q3} PROVE Stage(AfterRead(r, q), r)
  <2>1. /\ DOMAIN q = Fields /\ q.pc = p.pc /\ q.k = p.k /\ q.global = p.global
        /\ q.local = p.local /\ q.ids = p.ids
    BY <1>2 DEF Fields
  <2> HIDE DEF q1, q2, q3
  <2>2. WholeSlice(q, r) \/ Unsampled(q, r)
    BY <1>2, <2>1 DEF WholeSlice, Unsampled
  <2> QED
    BY <1>1, <2>1, <2>2, StageRead
<1>6. IInv'
  BY SegmentStep, NothingStep DEF SlicesInv
<1> HIDE DEF q1, q2, q3
<1> QED
  BY <1>1, <1>4, <1>5, <1>6, OneStages, NoneStages, SameTotal

LEMMA SlicesDraw == ASSUME SlicesInv, NEW r \in Ranks, Draw(r) PROVE SlicesInv'
<1> DEFINE p == rd[r]
           q(x) == [p EXCEPT !.seen[p.count] = TRUE, !.location[p.count] = x, !.count = @ + 1,
                             !.pc = IF p.count + 1 = p.n THEN "sort" ELSE "draw"]
<1>1. p.pc = "draw" /\ UNCHANGED <<vpic_vars, job>>
  BY DEF Draw, At, Reading
<1>2. PICK x : rd' = [rd EXCEPT ![r] = q(x)]
  BY DEF Draw, Becomes
<1> DEFINE d == q(x)
<1>3. DOMAIN p = Fields /\ Drawn(p, r)
  BY <1>1, StageIs
<1>4. /\ DOMAIN d = Fields /\ d.pc \in {"draw", "sort"} /\ d.k = p.k /\ d.global = p.global
      /\ d.n = p.n /\ d.ids = p.ids
  BY <1>3 DEF Fields
<1>5. rd' = [rd EXCEPT ![r] = d]
  BY <1>2
<1> HIDE DEF d
<1>6. Stage(d, r)
  BY <1>3, <1>4 DEF Stage, Drawn
<1> QED
  BY <1>1, <1>5, <1>6, OneStages, DrawStep DEF SlicesInv

LEMMA SlicesSort == ASSUME SlicesInv, NEW r \in Ranks, Sort(r) PROVE SlicesInv'
<1> DEFINE p == rd[r]
           q(s) == [p EXCEPT !.location = s, !.pc = "pack"]
<1>1. p.pc = "sort" /\ UNCHANGED <<vpic_vars, job>>
  BY DEF Sort, At, Reading
<1>2. PICK s \in [0 .. p.n - 1 -> 0 .. p.n - 1] : rd' = [rd EXCEPT ![r] = q(s)]
  BY DEF Sort, Becomes
<1> DEFINE d == q(s)
<1>3. DOMAIN p = Fields /\ Drawn(p, r)
  BY <1>1, StageIs
<1>4. /\ DOMAIN d = Fields /\ d.pc = "pack" /\ d.k = p.k /\ d.global = p.global
      /\ d.n = p.n /\ d.ids = p.ids /\ d.location = s
  BY <1>3 DEF Fields
<1>5. rd' = [rd EXCEPT ![r] = d]
  BY <1>2
<1> HIDE DEF d
<1>6. Packing(d, r)
  <2>1. Points(r) \in Nat
    BY BaseIs DEF SlicesInv, IInv
  <2>2. d.k = 0 /\ d.n \in 0 .. Points(r) /\ d.k \in 0 .. d.n /\ 0 .. d.k - 1 = {}
    BY <1>3, <1>4, <2>1 DEF Drawn
  <2> QED
    BY <1>2, <1>3, <1>4, <2>2 DEF Packing, Drawn, IdsAreMine
<1>7. Stage(d, r)
  BY <1>4, <1>6 DEF Stage
<1> QED
  BY <1>1, <1>5, <1>7, OneStages, SortStep DEF SlicesInv
\* A point that is packed is one of the slice, because it was drawn from its points.
LEMMA SlicesPack == ASSUME SlicesInv, NEW r \in Ranks, Pack(r) PROVE SlicesInv'
<1> DEFINE p == rd[r]
           q == [Packed(r, p) EXCEPT !.k = @ + 1]
           e == [p EXCEPT !.local = p.n, !.pc = "barrier"]
<1>1. p.pc = "pack" /\ UNCHANGED <<vpic_vars, job>>
  BY DEF Pack, At, Reading
<1>2. \/ p.k < p.n /\ rd' = [rd EXCEPT ![r] = q]
      \/ ~(p.k < p.n) /\ rd' = [rd EXCEPT ![r] = e]
  BY DEF Pack, Becomes
<1>3. DOMAIN p = Fields /\ Packing(p, r)
  BY <1>1, StageIs
<1>4. /\ Points(r) \in Nat /\ p.n \in 0 .. Points(r) /\ p.k \in 0 .. p.n
      /\ r \in Nat /\ Base \in Nat
  BY <1>3, BaseIs DEF SlicesInv, IInv, Packing
<1>5. ASSUME p.k < p.n PROVE Stage(q, r)
  <2> DEFINE m == p.location[p.k]
             g == global_offset(r)
  <2>1. m \in 0 .. p.n - 1 /\ p.k \in 0 .. p.n - 1
    BY <1>3, <1>4, <1>5 DEF Packing
  <2>2. g = r * Base /\ r * Base \in Nat
    <3>1. g = Base * r
      BY <1>3 DEF global_offset, Share, Base, Packing
    <3> QED
      BY <1>4, <3>1
  <2>3. /\ DOMAIN q = Fields /\ q.pc = "pack" /\ q.k = p.k + 1 /\ q.global = p.global
        /\ q.n = p.n /\ q.location = p.location /\ q.ids = [p.ids EXCEPT ![p.k] = g + m]
    BY <1>1, <1>3 DEF Fields, Packed
  <2> HIDE DEF q, g
  <2>4. g + m \in Mine(r)
    <3> DEFINE a == r * Base
    <3>1. Mine(r) = a .. a + Points(r) - 1 /\ g = a /\ a \in Nat
      BY <2>2 DEF Mine
    <3> HIDE DEF a, m
    <3> QED
      BY <1>4, <2>1, <3>1
  <2> HIDE DEF m
  <2>5. ASSUME NEW j \in 0 .. q.k - 1 PROVE q.ids[j] \in Mine(r)
    <3>1. j \in 0 .. p.n - 1 /\ (j = p.k \/ j \in 0 .. p.k - 1)
      BY <1>4, <2>1, <2>3, <2>5
    <3>2. DOMAIN p.ids = 0 .. p.n - 1 /\ \A i \in 0 .. p.k - 1 : p.ids[i] \in Mine(r)
      BY <1>3 DEF Packing, IdsAreMine
    <3>3. CASE j = p.k
      BY <2>3, <2>4, <3>1, <3>2, <3>3
    <3>4. CASE j # p.k
      BY <2>3, <3>1, <3>2, <3>4
    <3> QED
      BY <3>3, <3>4
  <2>6. DOMAIN q.ids = 0 .. q.n - 1 /\ q.k \in 0 .. q.n
    BY <1>3, <2>1, <2>3 DEF Packing
  <2>7. Packing(q, r)
    BY <1>3, <2>3, <2>5, <2>6 DEF Packing, IdsAreMine
  <2> QED
    BY <2>3, <2>7 DEF Stage
<1>6. Stage(e, r)
  <2>1. /\ DOMAIN e = Fields /\ e.pc = "barrier" /\ e.k = p.k /\ e.ids = p.ids
    BY <1>3 DEF Fields
  <2> HIDE DEF e
  <2>2. SampleHeld(e, r)
    BY <1>3, <2>1 DEF SampleHeld, Packing, IdsAreMine, Late
  <2> QED
    BY <2>1, <2>2 DEF Stage
<1>7. IInv'
  BY PackStep DEF SlicesInv
<1> HIDE DEF q, e
<1> QED
  BY <1>1, <1>2, <1>5, <1>6, <1>7, OneStages

\* Once it has read, a process only calls.
LEMMA SlicesLate ==
    ASSUME SlicesInv, NEW r \in Ranks,
           \/ AfterBarrier(r) \/ CloseReader(r) \/ init_h5outfile(r) \/ write_dataset(r)
           \/ StepRefused(r) \/ AfterWritten(r) \/ close_h5outfile(r) \/ Finalize(r)
    PROVE  SlicesInv'
<1> DEFINE p == rd[r]
<1>1. /\ p.pc \in {"barrier", "close", "back", "written"} /\ UNCHANGED <<vpic_vars, job>>
  BY DEF AfterBarrier, CloseReader, init_h5outfile, write_dataset, StepRefused, AfterWritten, close_h5outfile,
         Finalize, Back, At, Reading, Writing
<1>2. DOMAIN p = Fields /\ (WholeSlice(p, r) \/ SampleHeld(p, r))
  BY <1>1, StageIs DEF Late, Blank
<1>3. IInv'
  BY LateStep DEF SlicesInv
<1>4. ASSUME NEW d, rd' = [rd EXCEPT ![r] = d], DOMAIN d = Fields, d.pc \in Late,
             d.k = p.k, d.global = p.global, d.local = p.local, d.ids = p.ids
      PROVE  SlicesInv'
  <2>1. Stage(d, r)
    BY <1>2, <1>4 DEF Stage, WholeSlice, SampleHeld, IdsAreMine
  <2> QED
    BY <1>1, <1>3, <1>4, <2>1, OneStages
<1>5. CASE rd' = rd
  BY <1>1, <1>3, <1>5, NoneStages, SameTotal
<1>6. ASSUME NEW pc \in Late, rd' = [rd EXCEPT ![r] = [p EXCEPT !.pc = pc]]
      PROVE  SlicesInv'
  <2> DEFINE d == [p EXCEPT !.pc = pc]
  <2>1. /\ rd' = [rd EXCEPT ![r] = d] /\ DOMAIN d = Fields /\ d.pc \in Late
        /\ d.k = p.k /\ d.global = p.global /\ d.local = p.local /\ d.ids = p.ids
    BY <1>2, <1>6 DEF Fields
  <2> HIDE DEF d
  <2> QED
    BY <1>4, <2>1
<1>7. ASSUME NEW pc \in Late, NEW c, rd' = [rd EXCEPT ![r] = [p EXCEPT !.pc = pc, !.c = c]]
      PROVE  SlicesInv'
  <2> DEFINE d == [p EXCEPT !.pc = pc, !.c = c]
  <2>1. /\ rd' = [rd EXCEPT ![r] = d] /\ DOMAIN d = Fields /\ d.pc \in Late
        /\ d.k = p.k /\ d.global = p.global /\ d.local = p.local /\ d.ids = p.ids
    BY <1>2, <1>7 DEF Fields
  <2> HIDE DEF d
  <2> QED
    BY <1>4, <2>1
<1>8. ASSUME NEW pc \in Late, NEW c, NEW i,
             rd' = [rd EXCEPT ![r] = [p EXCEPT !.pc = pc, !.c = c, !.i = i]]
      PROVE  SlicesInv'
  <2> DEFINE d == [p EXCEPT !.pc = pc, !.c = c, !.i = i]
  <2>1. /\ rd' = [rd EXCEPT ![r] = d] /\ DOMAIN d = Fields /\ d.pc \in Late
        /\ d.k = p.k /\ d.global = p.global /\ d.local = p.local /\ d.ids = p.ids
    BY SMTT(30), <1>2, <1>8 DEF Fields
  <2> HIDE DEF d
  <2> QED
    BY <1>4, <2>1
<1>9. \/ rd' = rd
      \/ \E pc \in Late : rd' = [rd EXCEPT ![r] = [p EXCEPT !.pc = pc]]
      \/ \E pc \in Late : \E c : rd' = [rd EXCEPT ![r] = [p EXCEPT !.pc = pc, !.c = c]]
      \/ \E pc \in Late : \E c, i : rd' = [rd EXCEPT ![r] = [p EXCEPT !.pc = pc, !.c = c, !.i = i]]
  BY DEF AfterBarrier, CloseReader, init_h5outfile, write_dataset, StepRefused, AfterWritten, close_h5outfile,
         Finalize, NextCall, Becomes, Late
<1> HIDE DEF p
<1> QED
  BY <1>5, <1>6, <1>7, <1>8, <1>9, Zenon

LEMMA SlicesNext == SlicesInv /\ [Next]_vars => SlicesInv'
<1> SUFFICES ASSUME SlicesInv, [Next]_vars PROVE SlicesInv'
  OBVIOUS
<1>1. CASE NextVpic /\ UNCHANGED <<job, rd, out, aborted>>
  BY <1>1, SlicesVpic
<1>2. ASSUME NEW r \in Ranks, RankStep(r) PROVE SlicesInv'
  BY <1>2, SlicesStart, SlicesMetadata, SlicesOpen, SlicesSegment, SlicesDraw, SlicesSort,
     SlicesPack, SlicesLate DEF RankStep
<1>3. CASE UNCHANGED vars
  <2>1. IInv'
    BY <1>3, StepInv DEF SlicesInv
  <2> QED
    BY <1>3, <2>1, NoneStages, SameTotal DEF vars
<1> QED
  BY <1>1, <1>2, <1>3 DEF Next

-----------------------------------------------------------------------------

LEMMA HeldIsMine == ASSUME SlicesInv, NEW r \in Ranks PROVE Held(r) \subseteq Mine(r)
<1> DEFINE p == rd[r]
<1>1. SUFFICES ASSUME NEW k \in Records(r) PROVE p.ids[k] \in Mine(r)
  BY DEF Held
<1>2. /\ job \in Jobs /\ Points(r) \in Nat /\ r \in Nat /\ Base \in Nat
  BY BaseIs DEF SlicesInv, IInv
<1>3. CASE WholeSlice(p, r)
  <2>1. k \in 0 .. p.local - 1 /\ p.ids[k] = r * Base + k
    BY <1>3 DEF WholeSlice, Records
  <2>2. p.local \in 0 .. Points(r)
    BY <1>2, <1>3, PercentIsLess DEF WholeSlice
  <2> DEFINE a == r * Base
  <2>3. a \in Nat /\ Mine(r) = a .. a + Points(r) - 1 /\ p.ids[k] = a + k
    BY <1>2, <2>1 DEF Mine
  <2> HIDE DEF a
  <2> QED
    BY <1>2, <2>1, <2>2, <2>3
<1>4. CASE Packing(p, r) \/ SampleHeld(p, r)
  BY <1>4 DEF Packing, SampleHeld, IdsAreMine, Records
<1>5. CASE Blank(p) \/ Opened(p) \/ Unsampled(p, r) \/ Drawn(p, r)
  <2>1. Records(r) = {}
    BY <1>5 DEF Blank, Opened, Unsampled, Drawn, Records
  <2> QED
    BY <2>1
<1> QED
  BY <1>3, <1>4, <1>5 DEF SlicesInv, Stage

LEMMA PercentOfAll == ASSUME NEW x \in Nat, job.percent = 100 PROVE Percent(x) = x
  BY DEF Percent

LEMMA HeldIsAll ==
    ASSUME SlicesInv, NEW r \in Ranks, job.mode = "top", job.percent = 100, rd[r].pc = "barrier"
    PROVE  Held(r) = Mine(r)
<1> DEFINE p == rd[r]
           a == r * Base
<1>1. Points(r) \in Nat /\ r \in Nat /\ Base \in Nat
  BY BaseIs DEF SlicesInv, IInv
<1>2. WholeSlice(p, r)
  BY StageIs DEF Late, Blank, SampleHeld
<1>3. p.local = Points(r)
  BY <1>1, <1>2, PercentOfAll DEF WholeSlice
<1>4. Records(r) = 0 .. Points(r) - 1
  BY <1>3 DEF Records
<1>5. \A k \in Records(r) : p.ids[k] = a + k
  BY <1>2, <1>3, <1>4 DEF WholeSlice
<1>6. Held(r) = {a + k : k \in 0 .. Points(r) - 1}
  BY <1>4, <1>5 DEF Held
<1>7. a \in Nat /\ Mine(r) = a .. a + Points(r) - 1
  BY <1>1 DEF Mine
<1> HIDE DEF a
<1>8. ASSUME NEW x \in a .. a + Points(r) - 1 PROVE x \in Held(r)
  <2>1. x - a \in 0 .. Points(r) - 1 /\ x = a + (x - a)
    BY <1>1, <1>7
  <2> QED
    BY <1>6, <2>1
<1> QED
  BY <1>7, <1>8, HeldIsMine

LEMMA InvOnce == SlicesInv => EveryPointOnce
<1> SUFFICES ASSUME SlicesInv PROVE EveryPointOnce
  OBVIOUS
<1>1. job \in Jobs /\ FileIsMade
  BY DEF SlicesInv, IInv
<1>2. ASSUME NEW r \in Ranks, NEW q \in Ranks, r # q PROVE Held(r) \cap Held(q) = {}
  BY <1>1, <1>2, HeldIsMine, SlicesApart
<1>3. ASSUME job.mode = "top", job.percent = 100, \A r \in Ranks : rd[r].pc = "barrier"
      PROVE  UNION {Held(r) : r \in Ranks} = 0 .. Total - 1
  <2>1. \A r \in Ranks : Held(r) = Mine(r)
    BY <1>3, HeldIsAll
  <2>2. UNION {Held(r) : r \in Ranks} = UNION {Mine(r) : r \in Ranks}
    BY <2>1
  <2> QED
    BY <1>1, <2>2, SlicesCover
<1> QED
  BY <1>2, <1>3 DEF EveryPointOnce

(* Whatever the file, the number of processes, the data sets, the percentage *)
(* and the numbers drawn, no particle is in the hands of two processes, and  *)
(* once a whole file is read no particle is in the hands of none: the last   *)
(* process takes what the division leaves over (read_driver and              *)
(* open_datasets, bdcats-io/bdats_h5reader.cpp).                             *)
THEOREM PointsAreShared == Spec => []EveryPointOnce
<1>1. Spec => []SlicesInv
  BY SlicesInit, SlicesNext, PTL DEF Spec
<1> QED
  BY <1>1, InvOnce, PTL

-----------------------------------------------------------------------------
(* The file when no call has failed                                         *)

Right == faults = MaxFaults
PutIn(v, p) ==
    \A g \in 0 .. Total - 1 : g \div numparticles = p =>
        file.sets[Variables[v]][g] = Particle(Variables[v], p, g % numparticles)
FileIsRight ==
    /\ faults \in 0 .. MaxFaults /\ file.opened \in {"yet", "yes", "no"}
    /\ \A name \in DOMAIN file.sets : \E v \in 1 .. 8 : Variables[v] = name
    /\ Right => file.opened # "no"
    /\ (Right /\ file.opened = "yes") =>
          \A p \in Writers, v \in 1 .. 8 : w[p] >= 6 + v => PutIn(v, p)

LEMMA RightInit == Init => FileIsRight
<1> SUFFICES ASSUME Init PROVE FileIsRight
  OBVIOUS
<1>1. file = [opened |-> "yet", origin |-> FALSE, step |-> FALSE, sets |-> << >>] /\ faults = MaxFaults
  BY DEF Init, InitVpic
<1>2. MaxFaults \in Nat /\ DOMAIN file.sets = {} /\ file.opened = "yet"
  BY <1>1, VpicAssumption
<1> QED
  BY <1>1, <1>2 DEF FileIsRight

\* A call may fail, and then has failed for ever.
LEMMA FaultsFall ==
    ASSUME faults \in 0 .. MaxFaults, [Next]_vars
    PROVE  faults' \in 0 .. MaxFaults /\ (Right' => Right /\ faults' = faults)
<1>1. ASSUME NextVpic PROVE faults' = faults \/ (faults > 0 /\ faults' = faults - 1)
  BY SMTT(30), <1>1 DEF NextVpic, Barrier, OpenFile, WriteFileAttribString, SetStep, SetNumParticles,
              WriteVariable, CloseFile
<1>2. ASSUME NEW r \in Ranks, RankStep(r) PROVE faults' = faults \/ (faults > 0 /\ faults' = faults - 1)
  BY <1>2 DEF RankStep, Start, GetMetadata, OpenFile_, ReadSegment, ReadNothing, Draw, Sort, Pack,
              AfterBarrier, CloseReader, init_h5outfile, write_dataset, StepRefused, AfterWritten,
              close_h5outfile, Finalize, Exit
<1>3. faults' = faults \/ (faults > 0 /\ faults' = faults - 1)
  BY <1>1, <1>2 DEF Next, vars
<1>4. MaxFaults \in Nat
  BY VpicAssumption
<1> QED
  BY <1>3, <1>4, SMTT(30) DEF Right

LEMMA VariablesAre ==
    /\ DOMAIN Variables = 1 .. 8
    /\ \A u, v \in 1 .. 8 : Variables[u] = Variables[v] => u = v
    /\ \A v \in 1 .. 8 : Variables[v] # "ids"
  BY DEF Variables

LEMMA RightStep ==
    ASSUME FileIsMade, FileIsRight, NextVpic, [Next]_vars
    PROVE  FileIsRight'
<1> USE CallsAre
<1>1. PICK p \in Writers :
         \/ Barrier(p) \/ OpenFile(p) \/ WriteFileAttribString(p) \/ SetStep(p)
         \/ SetNumParticles(p) \/ WriteVariable(p) \/ CloseFile(p)
  BY DEF NextVpic
<1>2. w[p] \in Nat /\ w[p] < Len(Calls) /\ w' = [w EXCEPT ![p] = w[p] + 1] /\ numparticles' = numparticles
  BY <1>1 DEF FileIsMade, Barrier, OpenFile, WriteFileAttribString, SetStep, SetNumParticles,
         WriteVariable, CloseFile, In, Done
<1>3. /\ \A q \in Writers : w'[q] = (IF q = p THEN w[p] + 1 ELSE w[q]) /\ w[q] \in Nat
      /\ Total' = Total
  BY <1>2, SMTT(30) DEF FileIsMade, Total
<1>4. faults' \in 0 .. MaxFaults /\ (Right' => Right /\ faults' = faults)
  BY FaultsFall DEF FileIsRight
\* Calls that touch no data set.
<1>5. ASSUME file'.sets = file.sets, \A v \in 1 .. 8 : w[p] + 1 # 6 + v,
             file'.opened \in {"yet", "yes", "no"},
             file'.opened = "yes" => file.opened = "yes" \/ w[p] = 1,
             Right' => file'.opened # "no"
      PROVE  FileIsRight'
  <2>1. ASSUME Right', file'.opened = "yes", NEW q \in Writers, NEW v \in 1 .. 8, w'[q] >= 6 + v
        PROVE  PutIn(v, q)'
    <3>1. w[q] >= 6 + v
      BY <1>3, <1>5, <2>1
    <3>2. file.opened # "yet"
      BY <3>1, SMTT(30) DEF FileIsMade
    <3>3. file.opened = "yes"
      BY <1>4, <1>5, <2>1, <3>1, <3>2 DEF FileIsRight, FileIsMade
    <3>4. PutIn(v, q)
      BY <1>4, <2>1, <3>1, <3>3 DEF FileIsRight
    <3> QED
      BY <1>2, <1>3, <1>5, <3>4 DEF PutIn
  <2> QED
    BY <1>4, <1>5, <2>1 DEF FileIsRight
<1>6. CASE OpenFile(p)
  <2>1. w[p] = 1
    BY <1>6, <1>2 DEF OpenFile, In, Calls
  <2>2. file'.sets = file.sets
    BY <1>6 DEF OpenFile, FileIsMade
  <2>3. ASSUME Right' PROVE file'.opened # "no"
    <3>1. file.opened # "no" /\ faults' = faults
      BY <1>4, <2>3 DEF FileIsRight
    <3>2. faults \in Nat
      BY VpicAssumption DEF FileIsRight
    <3> QED
      BY <1>6, <3>1, <3>2, SMTT(30) DEF OpenFile, FileIsMade
  <2>4. (\A v \in 1 .. 8 : w[p] + 1 # 6 + v) /\ file'.opened \in {"yet", "yes", "no"}
    BY <1>6, <2>1 DEF OpenFile, FileIsMade
  <2> QED
    BY <1>5, <2>1, <2>2, <2>3, <2>4
<1>7. CASE Barrier(p) \/ SetNumParticles(p) \/ CloseFile(p)
  <2>1. file' = file /\ w[p] + 1 \in {1, 4, 6, 15, 16, 17}
    BY <1>7, <1>2 DEF Barrier, SetNumParticles, CloseFile, In, Variables
  <2> QED
    BY <1>4, <1>5, <2>1, <1>2 DEF FileIsRight
<1>8. CASE WriteFileAttribString(p) \/ SetStep(p)
  <2>1. /\ w[p] + 1 \in {3, 5}
        /\ file'.sets = file.sets /\ file'.opened = file.opened
    BY SMTT(30), <1>8, <1>2 DEF WriteFileAttribString, SetStep, In, Variables, FileIsMade
  <2> QED
    BY <1>4, <1>5, <2>1, <1>2 DEF FileIsRight
<1>9. CASE WriteVariable(p)
  <2>1. PICK v \in 1 .. 8 : Calls[w[p] + 1] = Variables[v]
    BY <1>9 DEF WriteVariable, IsVariable
  <2> DEFINE name == Variables[v]
  <2>2. w[p] + 1 = 6 + v
    BY <1>2, <2>1 DEF Calls, Variables
  <2> DEFINE created == [file EXCEPT !.sets = Created(name)]
             before == Created(name)
             after == [before EXCEPT ![name] = Put(@, name, p)]
  <2>3. /\ DOMAIN before = DOMAIN file.sets \cup {name}
        /\ \A x \in DOMAIN file.sets : before[x] = file.sets[x]
        /\ \A x \in DOMAIN before : DOMAIN before[x] = 0 .. Total - 1
    BY DEF Created, FileIsMade
  <2>4. \/ file.opened = "no" /\ file' = file
        \/ file.opened = "yes" /\ file' = [created EXCEPT !.sets[name] = Put(@, name, p)]
        \/ file.opened = "yes" /\ file' = created /\ ~Right'
    <3>1. faults > 0 /\ faults' = faults - 1 => ~Right'
      BY <1>4, VpicAssumption DEF FileIsRight
    <3> HIDE DEF created
    <3> QED
      BY <1>9, <2>1, <3>1 DEF WriteVariable, created
  <2>5. CASE file.opened = "no"
    <3>1. file' = file /\ ~Right'
      BY <1>4, <2>4, <2>5 DEF FileIsRight
    <3> QED
      BY <1>4, <3>1 DEF FileIsRight
  <2>6. CASE file.opened = "yes"
    <3>1. created.sets = before /\ DOMAIN created = DOMAIN file /\ created.opened = file.opened
      BY DEF FileIsMade
    <3>2. /\ file'.opened = "yes" /\ DOMAIN file'.sets = DOMAIN file.sets \cup {name}
          /\ Right' => file'.sets = after
      <4> HIDE DEF created, before
      <4>1. CASE file' = [created EXCEPT !.sets[name] = Put(@, name, p)]
        BY <2>3, <2>6, <3>1, <4>1 DEF FileIsMade
      <4>2. CASE file' = created /\ ~Right'
        BY <2>3, <2>6, <3>1, <4>2
      <4> QED
        BY <2>4, <2>6, <4>1, <4>2
    <3>3. \A x \in DOMAIN file'.sets : \E u \in 1 .. 8 : Variables[u] = x
      BY <3>2 DEF FileIsRight
    <3>4. ASSUME Right', NEW q \in Writers, NEW u \in 1 .. 8, w'[q] >= 6 + u, NEW g \in 0 .. Total - 1,
                 g \div numparticles = q
          PROVE  file'.sets[Variables[u]][g] = Particle(Variables[u], q, g % numparticles)
      <4>1. after[name] = Put(before[name], name, p) /\ \A x \in DOMAIN before : x # name => after[x] = before[x]
        BY <2>3
      <4>2. Put(before[name], name, p)[g] = IF g \div numparticles = p THEN Particle(name, p, g % numparticles)
                                            ELSE before[name][g]
        BY <2>3 DEF Put
      <4> HIDE DEF before, after, created
      <4>3. CASE q = p /\ u = v
        BY <3>2, <3>4, <4>1, <4>2, <4>3
      <4>4. CASE ~(q = p /\ u = v)
        <5>1. w[q] >= 6 + u
          BY <1>3, <2>2, <3>4, <4>4
        <5>2. file.sets[Variables[u]][g] = Particle(Variables[u], q, g % numparticles)
          BY <1>4, <2>6, <3>4, <5>1 DEF FileIsRight, PutIn
        <5>3. Variables[u] \in DOMAIN file.sets
          BY <2>6, <5>1, VariablesAre DEF FileIsMade
        <5>4. CASE u # v
          <6>1. Variables[u] # name
            BY <5>4, VariablesAre
          <6> QED
            BY <2>3, <3>2, <3>4, <4>1, <5>2, <5>3, <6>1, SMTT(30)
        <5>5. CASE u = v
          <6>1. q # p
            BY <4>4, <5>5
          <6> QED
            BY <2>3, <3>2, <3>4, <4>1, <4>2, <5>2, <5>3, <5>5, <6>1, SMTT(30)
        <5> QED
          BY <5>4, <5>5
      <4> QED
        BY <4>3, <4>4
    <3>5. ASSUME Right', NEW q \in Writers, NEW u \in 1 .. 8, w'[q] >= 6 + u PROVE PutIn(u, q)'
      BY <1>2, <1>3, <3>4, <3>5 DEF PutIn
    <3> HIDE DEF name, created, before, after
    <3> QED
      BY <1>4, <3>2, <3>3, <3>5 DEF FileIsRight
  <2>7. file.opened \in {"yes", "no"}
    BY <2>4
  <2> QED
    BY <2>5, <2>6, <2>7
<1> QED
  BY <1>1, <1>6, <1>7, <1>8, <1>9

\* Behind VPIC-IO a variable has the particles of all processes.
LEMMA FileIsTrue ==
    ASSUME FileIsMade, FileIsRight, Right, WritersDone, NEW name \in DOMAIN file.sets,
           NEW g \in 0 .. Total - 1
    PROVE  file.sets[name][g] = Particle(name, g \div numparticles, g % numparticles)
<1>1. /\ num_procs \in Nat \ {0} /\ numparticles \in Nat \ {0}
      /\ Writers = 0 .. num_procs - 1 /\ Total = num_procs * numparticles
  BY VpicAssumption DEF FileIsMade, Writers, Total
<1> DEFINE p == g \div numparticles
<1>2. p \in Writers
  BY ONLY <1>1, FromTable, g \in 0 .. Total - 1
<1>3. PICK v \in 1 .. 8 : Variables[v] = name
  BY DEF FileIsRight
<1>4. \A q \in Writers : w[q] = 17
  BY CallsAre DEF WritersDone
<1>5. file.opened = "yes"
  <2>1. file.opened # "no"
    BY DEF FileIsRight
  <2>2. w[p] = 17
    BY <1>2, <1>4
  <2>3. file.opened # "yet"
    BY <1>2, <2>2 DEF FileIsMade
  <2>4. file.opened \in {"yes", "no", "yet"}
    BY DEF FileIsRight
  <2> QED
    BY <2>1, <2>3, <2>4
<1> HIDE DEF p
<1>6. PutIn(v, p)
  BY <1>2, <1>4, <1>5 DEF FileIsRight
<1> QED
  BY <1>3, <1>6 DEF PutIn, p

-----------------------------------------------------------------------------
(* The pace of the processes: the number of collective calls says where a   *)
(* process is, and nobody is more than one ahead.                           *)

Class == [start |-> "metadata", metadata |-> "metadata", open |-> "open", read |-> "read",
          draw |-> "barrier", sort |-> "barrier", pack |-> "barrier", barrier |-> "barrier",
          close |-> "close", back |-> "back", written |-> "written", ended |-> "back"]
Key(p) == <<Class[p.pc], p.i>>
WriteOps == {"ids", "class", "column"}
After(key) ==
    IF key[1] = "metadata" THEN <<"open", key[2]>>
    ELSE IF key[1] = "open" THEN <<"read", 1>>
    ELSE IF key[1] = "read" THEN IF key[2] < num_dims THEN <<"read", key[2] + 1>>
                                 ELSE <<"barrier", key[2]>>
    ELSE IF key[1] = "barrier" THEN <<"close", key[2]>>
    ELSE IF key[1] = "close" THEN <<"back", 1>>
    ELSE IF key[1] = "back" /\ job.back[key[2]].op \in WriteOps THEN <<"written", key[2]>>
    ELSE <<"back", key[2] + 1>>

InPace(p, q) ==
    /\ p.c \in Nat /\ q.c \in Nat
    /\ p.c = q.c => Key(p) = Key(q)
    /\ p.c = q.c + 1 => Key(p) = After(Key(q))
    /\ p.c <= q.c + 1
Paced == \A r, q \in Ranks : InPace(rd[r], rd[q])

\* A step of a process either leaves it between the same calls or is the next call.
Waits(r, d) == d.c = rd[r].c /\ Key(d) = Key(rd[r])
Calls1(r, d) == Met(r) /\ d.c = rd[r].c + 1 /\ Key(d) = After(Key(rd[r]))

LEMMA PaceKept ==
    ASSUME SlicesInv, Paced, NEW r \in Ranks, NEW d, rd' = [rd EXCEPT ![r] = d], job' = job,
           Waits(r, d) \/ Calls1(r, d)
    PROVE  Paced'
<1>1. Ranks' = Ranks /\ DOMAIN rd = Ranks
  BY DEF Ranks, SlicesInv, IInv
<1>2. \A k : After(k)' = After(k)
  BY DEF After, num_dims, dataset_count
<1>3. /\ rd'[r] = d /\ \A q \in Ranks : q # r => rd'[q] = rd[q]
  BY <1>1
<1>4. ASSUME NEW q \in Ranks PROVE rd[q].c \in Nat /\ InPace(rd[q], rd[q])
  BY DEF Paced, InPace
<1>5. d.c \in Nat
  BY <1>4 DEF Waits, Calls1
<1>6. ASSUME NEW q \in Ranks, q # r PROVE InPace(d, rd[q]) /\ InPace(rd[q], d)
  <2>1. InPace(rd[r], rd[q]) /\ InPace(rd[q], rd[r])
    BY DEF Paced
  <2>2. CASE Waits(r, d)
    BY <2>1, <2>2 DEF Waits, InPace
  <2>3. CASE Calls1(r, d)
    <3>1. \/ rd[q].c > rd[r].c
          \/ rd[q].c = rd[r].c /\ Key(rd[q]) = Key(rd[r])
      BY <2>3 DEF Calls1, Met, Key
    <3>2. d.c = rd[r].c + 1 /\ Key(d) = After(Key(rd[r]))
      BY <2>3 DEF Calls1
    <3> DEFINE a == rd[r].c
               b == rd[q].c
    <3>3. a \in Nat /\ b \in Nat /\ b <= a + 1
      BY <2>1 DEF InPace
    <3>4. CASE b > a
      <4>1. b = a + 1 /\ Key(rd[q]) = After(Key(rd[r]))
        BY <2>1, <3>3, <3>4 DEF InPace
      <4> HIDE DEF a, b
      <4>2. d.c = a + 1 /\ d.c = b /\ ~(d.c = b + 1) /\ ~(b = d.c + 1) /\ d.c <= b + 1 /\ b <= d.c + 1
        BY <3>2, <3>3, <4>1 DEF a
      <4> QED
        BY <1>5, <3>2, <3>3, <4>1, <4>2 DEF InPace, a, b
    <3>5. CASE b = a
      <4>1. Key(rd[q]) = Key(rd[r])
        BY <3>1, <3>3, <3>5
      <4> HIDE DEF a, b
      <4>2. d.c = b + 1 /\ ~(d.c = b) /\ ~(b = d.c + 1) /\ d.c <= b + 1 /\ b <= d.c + 1
        BY <3>2, <3>3, <3>5 DEF a
      <4> QED
        BY <1>5, <3>2, <3>3, <4>1, <4>2 DEF InPace, a, b
    <3> QED
      BY <3>1, <3>3, <3>4, <3>5
  <2> QED
    BY <2>2, <2>3
<1>7. InPace(d, d)
  BY <1>5 DEF InPace
<1>8. ASSUME NEW s \in Ranks, NEW q \in Ranks PROVE InPace(rd'[s], rd'[q])
  <2>1. CASE s = r /\ q = r
    BY <1>3, <1>7, <2>1
  <2>2. CASE s = r /\ q # r
    BY <1>3, <1>6, <2>2
  <2>3. CASE s # r /\ q = r
    BY <1>3, <1>6, <2>3
  <2>4. CASE s # r /\ q # r
    BY <1>3, <2>4 DEF Paced
  <2> QED
    BY <2>1, <2>2, <2>3, <2>4
<1>9. ASSUME NEW x, NEW y, InPace(x, y) PROVE InPace(x, y)'
  BY <1>2, <1>9 DEF InPace, Key
<1> QED
  BY <1>1, <1>8, <1>9 DEF Paced

\* Where two processes can be when one has come to write.
Working == {"back", "written", "ended"}
LEMMA TogetherAtWork ==
    ASSUME Paced, NEW r \in Ranks, NEW q \in Ranks, rd[r].pc \in Working, rd[q].pc \in DOMAIN Class
    PROVE  rd[q].pc \in Working \cup {"close"}
<1>1. InPace(rd[r], rd[q]) /\ InPace(rd[q], rd[r])
  BY DEF Paced
<1>2. Class[rd[r].pc] \in {"back", "written"}
  BY DEF Working, Class
<1>3. ASSUME Class[rd[q].pc] \in {"back", "written", "close"} PROVE rd[q].pc \in Working \cup {"close"}
  BY <1>3 DEF Working, Class
<1> DEFINE k == Key(rd[r])
           l == Key(rd[q])
<1>4. k[1] = Class[rd[r].pc] /\ l[1] = Class[rd[q].pc]
  BY DEF Key
<1>5. k = l \/ k = After(l) \/ l = After(k)
  <2> DEFINE a == rd[r].c
             b == rd[q].c
  <2>1. /\ a \in Nat /\ b \in Nat /\ a <= b + 1 /\ b <= a + 1
        /\ a = b => k = l
        /\ a = b + 1 => k = After(l)
        /\ b = a + 1 => l = After(k)
    BY <1>1 DEF InPace
  <2> HIDE DEF a, b, k, l
  <2>2. a = b \/ a = b + 1 \/ b = a + 1
    BY <2>1
  <2> QED
    BY <2>1, <2>2
<1> HIDE DEF k, l
<1>6. CASE k = l
  BY <1>2, <1>3, <1>4, <1>6
<1>7. CASE l = After(k)
  <2>1. l[1] \in {"back", "written"}
    BY <1>2, <1>4, <1>7 DEF After
  <2> QED
    BY <1>3, <1>4, <2>1
<1>8. CASE k = After(l)
  <2>1. l[1] \in {"back", "written", "close"}
    <3>1. l[1] \in {"metadata", "open", "read", "barrier", "close", "back", "written"}
      BY <1>4 DEF Class
    <3>2. l[1] \in {"metadata", "open", "read", "barrier"} => k[1] \in {"open", "read", "barrier", "close"}
      BY <1>8 DEF After
    <3>3. k[1] \in {"back", "written"}
      BY <1>2, <1>4
    <3> QED
      BY <3>1, <3>2, <3>3
  <2> QED
    BY <1>3, <1>4, <2>1
<1> QED
  BY <1>5, <1>6, <1>7, <1>8

\* Where others are when a process makes a call of the writing part.
LEMMA OthersAtCall ==
    ASSUME Paced, NEW r \in Ranks, NEW q \in Ranks, Met(r), rd[r].pc \in {"back", "written"},
           rd[q].pc \in DOMAIN Class
    PROVE  /\ rd[q].pc \in Working
           /\ \/ rd[q].pc = rd[r].pc /\ rd[q].i = rd[r].i
              \/ Key(rd[q]) = After(Key(rd[r]))
<1>1. InPace(rd[r], rd[q]) /\ InPace(rd[q], rd[r])
  BY DEF Paced
<1>2. CASE rd[q].c = rd[r].c /\ rd[q].pc = rd[r].pc /\ rd[q].i = rd[r].i
  BY <1>2 DEF Working
<1>3. CASE rd[q].c > rd[r].c
  <2> DEFINE a == rd[r].c
             b == rd[q].c
  <2>1. /\ a \in Nat /\ b \in Nat /\ b <= a + 1 /\ b > a
        /\ b = a + 1 => Key(rd[q]) = After(Key(rd[r]))
    BY <1>1, <1>3 DEF InPace
  <2> HIDE DEF a, b
  <2>2. Key(rd[q]) = After(Key(rd[r]))
    BY <2>1
  <2>3. Key(rd[r])[1] \in {"back", "written"} /\ Key(rd[q])[1] = Class[rd[q].pc]
    BY DEF Key, Class
  <2>4. Class[rd[q].pc] \in {"back", "written"}
    BY <2>2, <2>3 DEF After
  <2>5. rd[q].pc \in Working
    BY <2>4 DEF Class, Working
  <2> QED
    BY <2>2, <2>5
<1> QED
  BY <1>2, <1>3 DEF Met

-----------------------------------------------------------------------------
(* Steps up to the closing of the reader                                    *)

Sampling == {"draw", "sort", "pack"}
Readable(i) == Name(i) \in DOMAIN file.sets /\ (Datatype(i) = "data" => i \in Columns)
Able(p) ==
    /\ p.pc \in DOMAIN Class
    /\ p.pc = "read" => \A i \in 1 .. p.i - 1 : Readable(i)
    /\ p.pc \in Sampling \cup Late => \A i \in 1 .. num_dims : Readable(i)
    /\ p.pc \in Late => p.local \in Nat /\ (job.mode = "random" => p.local = p.k)
    /\ p.pc \in {"back", "written", "ended"} => p.i \in Nat \ {0}

EarlyPlaces == {"start", "metadata", "open", "read", "draw", "sort", "pack", "barrier", "close"}
EarlyGoes(r, d) ==
    /\ rd' = [rd EXCEPT ![r] = d] /\ (Waits(r, d) \/ Calls1(r, d)) /\ Able(d)
    /\ d.pc # "written" /\ d.pc # "ended"
Early(r) == rd' = rd \/ \E d : EarlyGoes(r, d)

LEMMA ClassIs ==
    /\ Class["start"] = "metadata" /\ Class["metadata"] = "metadata" /\ Class["open"] = "open"
    /\ Class["read"] = "read" /\ Class["draw"] = "barrier" /\ Class["sort"] = "barrier"
    /\ Class["pack"] = "barrier" /\ Class["barrier"] = "barrier" /\ Class["close"] = "close"
    /\ Class["back"] = "back" /\ Class["written"] = "written" /\ Class["ended"] = "back"
    /\ DOMAIN Class = EarlyPlaces \cup {"back", "written", "ended"}
  BY DEF Class, EarlyPlaces

LEMMA EarlyStart == ASSUME SlicesInv, Typed, NEW r \in Ranks, Start(r) PROVE Early(r)
<1> DEFINE p == rd[r]
           d == [p EXCEPT !.pc = "metadata"]
<1>1. p.pc = "start" /\ rd' = [rd EXCEPT ![r] = d] /\ DOMAIN p = Fields
  BY PhaseIs DEF Start, At, Becomes, SlicesInv
<1>2. d.pc = "metadata" /\ d.i = p.i /\ d.c = p.c
  BY <1>1 DEF Fields
<1> HIDE DEF d
<1>3. Key(d) = Key(p)
  BY <1>1, <1>2, ClassIs DEF Key
<1>4. Able(d)
  BY <1>2, ClassIs DEF Able, EarlyPlaces, Sampling, Late
<1>5. Waits(r, d)
  BY <1>2, <1>3 DEF Waits
<1> QED
  BY <1>1, <1>2, <1>4, <1>5 DEF Early, EarlyGoes

LEMMA EarlyMetadata ==
    ASSUME SlicesInv, FileIsRight, Right, Typed, NEW r \in Ranks, GetMetadata(r) PROVE Early(r)
<1> DEFINE p == rd[r]
           d == [p EXCEPT !.pc = "open", !.c = @ + 1,
                          !.global = Cardinality(DOMAIN file.sets[AllColumns[1]])]
<1>1. p.pc = "metadata" /\ DOMAIN p = Fields /\ Met(r) /\ file.opened # "no"
  BY PhaseIs DEF GetMetadata, At, SlicesInv, FileIsRight
<1>2. rd' = [rd EXCEPT ![r] = d]
  BY <1>1 DEF GetMetadata, Becomes
<1>3. d.pc = "open" /\ d.i = p.i /\ d.c = p.c + 1
  BY <1>1 DEF Fields
<1> HIDE DEF d
<1>4. Key(d) = After(Key(p))
  BY <1>1, <1>3, ClassIs DEF Key, After
<1>5. Able(d)
  BY <1>3, ClassIs DEF Able, EarlyPlaces, Sampling, Late
<1>6. Calls1(r, d)
  BY <1>1, <1>3, <1>4 DEF Calls1
<1> QED
  BY <1>2, <1>3, <1>5, <1>6 DEF Early, EarlyGoes

LEMMA EarlyOpen == ASSUME SlicesInv, Typed, NEW r \in Ranks, OpenFile_(r) PROVE Early(r)
<1> DEFINE p == rd[r]
           local == m_num_local_points(r)
           ids == IF job.mode = "random" THEN << >>
                  ELSE [index \in 0 .. local - 1 |-> global_offset(r) + index]
           d == [p EXCEPT !.pc = "read", !.c = @ + 1, !.i = 1, !.local = local, !.ids = ids]
<1>1. p.pc = "open" /\ DOMAIN p = Fields /\ Met(r) /\ rd' = [rd EXCEPT ![r] = d]
  BY PhaseIs DEF OpenFile_, At, Becomes, SlicesInv
<1> HIDE DEF local, ids
<1>2. d.pc = "read" /\ d.i = 1 /\ d.c = p.c + 1
  BY <1>1 DEF Fields
<1> HIDE DEF d
<1>3. Key(d) = After(Key(p))
  BY <1>1, <1>2, ClassIs DEF Key, After
<1>4. Able(d)
  BY <1>2, ClassIs DEF Able, EarlyPlaces, Sampling, Late
<1>5. Calls1(r, d)
  BY <1>1, <1>2, <1>3 DEF Calls1
<1> QED
  BY <1>1, <1>2, <1>4, <1>5 DEF Early, EarlyGoes

\* The next data set, or what comes after the last; x is the process with the data set read.
LEMMA EarlyRead ==
    ASSUME SlicesInv, Typed, NEW r \in Ranks, Able(rd[r]), rd[r].pc = "read", Met(r),
           NEW x, DOMAIN x = Fields, x.pc = "read", x.i = rd[r].i, x.c = rd[r].c + 1,
           x.local = rd[r].local, Readable(rd[r].i),
           rd' = [rd EXCEPT ![r] = AfterRead(r, x)]
    PROVE  Early(r)
<1> DEFINE p == rd[r]
           d == AfterRead(r, x)
<1>1. /\ p.i \in 1 .. num_dims /\ p.local \in Nat /\ num_dims \in Nat \ {0}
      /\ job.mode \in {"random", "top"}
  BY PhaseIs, JobIs DEF SlicesInv, IInv, AtRead
<1>2. \A i \in 1 .. p.i : Readable(i)
  BY <1>1 DEF Able
<1>3. CASE x.i < num_dims
  <2>1. d = [x EXCEPT !.i = @ + 1]
    BY <1>3 DEF AfterRead
  <2>2. d.pc = "read" /\ d.i = p.i + 1 /\ d.c = p.c + 1
    BY <2>1 DEF Fields
  <2> HIDE DEF d
  <2>3. Key(d) = After(Key(p))
    BY <1>3, <2>2, ClassIs DEF Key, After
  <2>4. \A i \in 1 .. d.i - 1 : Readable(i)
    BY <1>1, <1>2, <2>2
  <2>5. Able(d)
    BY <2>2, <2>4, ClassIs DEF Able, EarlyPlaces, Sampling, Late
  <2>6. Calls1(r, d)
    BY <2>2, <2>3 DEF Calls1
  <2> QED
    BY <2>2, <2>5, <2>6 DEF Early, EarlyGoes, d
<1>4. CASE ~(x.i < num_dims)
  <2>1. /\ d.pc \in Sampling \cup {"barrier"} /\ d.i = p.i /\ d.c = p.c + 1
        /\ d.pc = "barrier" => d.local = p.local /\ job.mode = "top"
    <3>1. CASE job.mode = "top"
      <4>1. d = [x EXCEPT !.pc = "barrier"]
        BY <1>4, <3>1 DEF AfterRead
      <4> HIDE DEF d
      <4> QED
        BY <3>1, <4>1 DEF Fields
    <3>2. CASE job.mode # "top"
      <4> DEFINE n == Percent(x.local)
      <4>1. d = [x EXCEPT !.pc = IF n = 0 THEN "sort" ELSE "draw", !.n = n,
                            !.seen = [j \in 0 .. n - 1 |-> FALSE],
                            !.location = [j \in 0 .. n - 1 |-> 0],
                            !.ids = [j \in 0 .. n - 1 |-> 0]]
        BY <1>4, <3>2 DEF AfterRead
      <4> HIDE DEF n, d
      <4>2. d.pc = (IF n = 0 THEN "sort" ELSE "draw") /\ d.i = x.i /\ d.c = x.c
        BY <4>1 DEF Fields
      <4> QED
        BY <4>2 DEF Sampling
    <3> QED
      BY <3>1, <3>2
  <2> HIDE DEF d
  <2>2. p.i = num_dims
    BY <1>1, <1>4
  <2>3. Key(d) = After(Key(p))
    BY <1>4, <2>1, ClassIs DEF Key, After, Sampling
  <2>4. Able(d)
    BY <1>1, <1>2, <2>1, <2>2, ClassIs DEF Able, EarlyPlaces, Sampling, Late
  <2>5. Calls1(r, d)
    BY <2>1, <2>3 DEF Calls1
  <2> QED
    BY <2>1, <2>4, <2>5 DEF Early, EarlyGoes, Sampling, d
<1> QED
  BY <1>3, <1>4

LEMMA EarlySegment ==
    ASSUME SlicesInv, Typed, NEW r \in Ranks, Able(rd[r]), ReadSegment(r) \/ ReadNothing(r)
    PROVE  Early(r)
<1> DEFINE p == rd[r]
           i == p.i
           q1 == [p EXCEPT !.c = @ + 1, !.class = Slice(r, i)]
           q2 == [p EXCEPT !.c = @ + 1, !.data[i] = Slice(r, i)]
<1>1. p.pc = "read" /\ DOMAIN p = Fields /\ i \in 1 .. num_dims
  BY PhaseIs DEF ReadSegment, ReadNothing, At, SlicesInv, AtRead
<1>2. Datatype(i) \in Kinds
  BY <1>1, JobIs DEF SlicesInv, IInv
<1>3. /\ [[p EXCEPT !.c = @ + 1] EXCEPT !.class = Slice(r, i)] = q1
      /\ [[p EXCEPT !.c = @ + 1] EXCEPT !.data[i] = Slice(r, i)] = q2
  BY <1>1 DEF Fields
<1>4. \/ rd' = rd
      \/ /\ Met(r) /\ ~Wild(i) /\ CanRead(r, i)
         /\ \E q \in {q1, q2} : rd' = [rd EXCEPT ![r] = AfterRead(r, q)]
  BY <1>2, <1>3 DEF ReadSegment, ReadNothing, Becomes, Exit, Kinds
<1>5. CASE rd' = rd
  BY <1>5 DEF Early
<1>6. ASSUME Met(r), ~Wild(i), CanRead(r, i), NEW q \in {q1, q2}, rd' = [rd EXCEPT ![r] = AfterRead(r, q)]
      PROVE  Early(r)
  <2>1. /\ DOMAIN q = Fields /\ q.pc = p.pc /\ q.i = p.i /\ q.local = p.local /\ q.c = p.c + 1
    BY <1>1, Zenon DEF Fields
  <2>2. Readable(i)
    BY <1>6 DEF Readable, CanRead, Wild
  <2> HIDE DEF q1, q2
  <2> QED
    BY <1>1, <1>6, <2>1, <2>2, EarlyRead
<1> HIDE DEF q1, q2
<1> QED
  BY <1>4, <1>5, <1>6

\* Sampling is each process's own business.
LEMMA EarlySample ==
    ASSUME SlicesInv, Typed, NEW r \in Ranks, Able(rd[r]), Draw(r) \/ Sort(r) \/ Pack(r)
    PROVE  Early(r)
<1> DEFINE p == rd[r]
<1>1. p.pc \in Sampling /\ DOMAIN p = Fields /\ \A i \in 1 .. num_dims : Readable(i)
  BY PhaseIs DEF Draw, Sort, Pack, At, SlicesInv, Able, Sampling
<1>2. \E d : /\ rd' = [rd EXCEPT ![r] = d] /\ d.c = p.c /\ d.i = p.i
             /\ \/ d.pc \in Sampling
                \/ d.pc = "barrier" /\ d.local \in Nat /\ d.local = d.k
  <2>1. CASE Draw(r)
    <3> DEFINE q(x) == [p EXCEPT !.seen[p.count] = TRUE, !.location[p.count] = x, !.count = @ + 1,
                             !.pc = IF p.count + 1 = p.n THEN "sort" ELSE "draw"]
    <3>1. PICK x : rd' = [rd EXCEPT ![r] = q(x)]
      BY <2>1 DEF Draw, Becomes
    <3>2. q(x).c = p.c /\ q(x).i = p.i /\ q(x).pc \in Sampling
      BY <1>1 DEF Fields, Sampling
    <3> QED
      BY <3>1, <3>2
  <2>2. CASE Sort(r)
    <3> DEFINE q(s) == [p EXCEPT !.location = s, !.pc = "pack"]
    <3>1. PICK s : rd' = [rd EXCEPT ![r] = q(s)]
      BY <2>2 DEF Sort, Becomes
    <3>2. q(s).c = p.c /\ q(s).i = p.i /\ q(s).pc \in Sampling
      BY <1>1 DEF Fields, Sampling
    <3> QED
      BY <3>1, <3>2
  <2>3. CASE Pack(r)
    <3> DEFINE q == [Packed(r, p) EXCEPT !.k = @ + 1]
               e == [p EXCEPT !.local = p.n, !.pc = "barrier"]
    <3>1. p.pc = "pack"
      BY <2>3 DEF Pack, At
    <3>2. AtPack(p, r)
      BY <3>1, PhaseIs DEF SlicesInv
    <3>3. p.local \in Nat /\ p.n \in 0 .. p.local /\ p.k \in 0 .. p.n
      BY <3>2 DEF AtPack, Sample
    <3>4. CASE p.k < p.n
      <4>1. rd' = [rd EXCEPT ![r] = q]
        BY <2>3, <3>4 DEF Pack, Becomes
      <4>2. q.c = p.c /\ q.i = p.i /\ q.pc = "pack"
        BY <1>1, <3>1 DEF Fields, Packed
      <4> QED
        BY <4>1, <4>2 DEF Sampling
    <3>5. CASE ~(p.k < p.n)
      <4>1. rd' = [rd EXCEPT ![r] = e] /\ p.k = p.n /\ p.n \in Nat
        BY <2>3, <3>3, <3>5 DEF Pack, Becomes
      <4>2. e.c = p.c /\ e.i = p.i /\ e.pc = "barrier" /\ e.local = p.n /\ e.k = p.k
        BY <1>1 DEF Fields
      <4> QED
        BY <4>1, <4>2
    <3> QED
      BY <3>4, <3>5
  <2> QED
    BY <2>1, <2>2, <2>3
<1>3. PICK d : /\ rd' = [rd EXCEPT ![r] = d] /\ d.c = p.c /\ d.i = p.i
               /\ \/ d.pc \in Sampling
                  \/ d.pc = "barrier" /\ d.local \in Nat /\ d.local = d.k
  BY <1>2
<1>4. Key(d) = Key(p)
  BY <1>1, <1>3, ClassIs DEF Key, Sampling
<1>5. Able(d)
  BY <1>1, <1>3, ClassIs DEF Able, EarlyPlaces, Sampling, Late
<1>6. Waits(r, d)
  BY <1>3, <1>4 DEF Waits
<1> QED
  BY <1>3, <1>5, <1>6 DEF Early, EarlyGoes, Sampling

LEMMA EarlyClose ==
    ASSUME SlicesInv, Typed, NEW r \in Ranks, Able(rd[r]), AfterBarrier(r) \/ CloseReader(r)
    PROVE  Early(r)
<1> DEFINE p == rd[r]
           b == [p EXCEPT !.pc = "close", !.c = @ + 1]
           e == [p EXCEPT !.pc = "back", !.c = @ + 1, !.i = 1]
<1>1. /\ p.pc \in {"barrier", "close"} /\ DOMAIN p = Fields /\ Met(r)
      /\ \A i \in 1 .. num_dims : Readable(i)
      /\ p.local \in Nat /\ (job.mode = "random" => p.local = p.k)
  BY PhaseIs DEF AfterBarrier, CloseReader, At, SlicesInv, Able, Late
<1>2. \/ p.pc = "barrier" /\ rd' = [rd EXCEPT ![r] = b]
      \/ p.pc = "close" /\ rd' = [rd EXCEPT ![r] = e]
  BY DEF AfterBarrier, CloseReader, At, Becomes
<1>3. /\ b.pc = "close" /\ b.c = p.c + 1 /\ b.i = p.i /\ b.local = p.local /\ b.k = p.k
      /\ e.pc = "back" /\ e.c = p.c + 1 /\ e.i = 1 /\ e.local = p.local /\ e.k = p.k
  BY <1>1 DEF Fields
<1> HIDE DEF b, e
<1>4. Able(b) /\ Able(e)
  BY <1>1, <1>3, ClassIs DEF Able, EarlyPlaces, Sampling, Late
<1>5. CASE p.pc = "barrier"
  <2>1. Key(b) = After(Key(p))
    BY <1>3, <1>5, ClassIs DEF Key, After
  <2>2. Calls1(r, b)
    BY <1>1, <1>3, <2>1 DEF Calls1
  <2> QED
    BY <1>2, <1>3, <1>4, <1>5, <2>2 DEF Early, EarlyGoes
<1>6. CASE p.pc = "close"
  <2>1. Key(e) = After(Key(p))
    BY <1>3, <1>6, ClassIs DEF Key, After
  <2>2. Calls1(r, e)
    BY <1>1, <1>3, <2>1 DEF Calls1
  <2> QED
    BY <1>2, <1>3, <1>4, <1>6, <2>2 DEF Early, EarlyGoes
<1> QED
  BY <1>1, <1>5, <1>6

-----------------------------------------------------------------------------
(* What is written back                                                     *)

WriteCall(c) == c \in 1 .. Len(job.back) /\ job.back[c].op \in WriteOps
TargetOf(c) ==
    CASE job.back[c].op = "ids" -> "ids"
      [] job.back[c].op = "class" -> Name(num_dims)
      [] job.back[c].op = "column" -> Name(job.back[c].column)
Want(q, name, j) ==
    IF name = "ids" THEN <<"id", rd[q].ids[j], 0>> ELSE file.sets[name][rd[q].ids[j]]

AtWrite(p, name) == p.pc = "back" /\ WriteCall(p.i) /\ TargetOf(p.i) = name
Filled(rows, q, name) == \A j \in 0 .. rd[q].local - 1 : rows[FirstRow(q) + j] = Want(q, name, j)

\* A data set that is there has the rows of those who are not about to write them.
SetIsRight(name) ==
    /\ name = "ids" \/ name \in DOMAIN file.sets
    /\ DOMAIN out.sets[name] = 0 .. Rows(Ranks) - 1
    /\ \A q \in Ranks : AtWrite(rd[q], name) \/ Filled(out.sets[name], q, name)
OutIsRight ==
    /\ DOMAIN out = {"there", "sets"}
    /\ (\E r \in Ranks : rd[r].pc \notin Working) => DOMAIN out.sets = {}
    /\ \A r \in Ranks : rd[r].pc = "written" => WriteCall(rd[r].i) /\ TargetOf(rd[r].i) \in DOMAIN out.sets
    /\ \A name \in DOMAIN out.sets : SetIsRight(name)
RowsInv == Paced /\ (\A r \in Ranks : Able(rd[r])) /\ OutIsRight
BackInv == SlicesInv /\ FileIsRight /\ ((Right /\ Typed) => RowsInv)

LEMMA BackIs ==
    ASSUME job \in Jobs, Typed, NEW c \in 1 .. Len(job.back)
    PROVE  /\ job.back[c].op \in {"init", "append", "ids", "class", "close", "column"}
           /\ job.back[c].op = "class" => cls
           /\ job.back[c].op = "column" => /\ job.back[c].column \in 1 .. num_dims
                                           /\ Datatype(job.back[c].column) = "data"
<1> DEFINE call == job.back[c]
           A == [op : {"init", "append", "ids", "class", "close"}]
           B == [op : {"column"}, column : Nat \ {0}]
<1>1. /\ job.back \in Seq(A \cup B)
      /\ \A d \in DOMAIN job.back :
            /\ job.back[d].op = "class" => \E i \in DOMAIN job.sets : job.sets[i].class
            /\ job.back[d].op = "column" =>
                  IF job.sets = << >> THEN job.back[d].column <= 8
                  ELSE job.back[d].column \in DOMAIN job.sets /\ ~job.sets[job.back[d].column].class
  BY BackAssumption
<1> HIDE DEF A, B
<1>2. call \in A \cup B /\ c \in DOMAIN job.back
  BY <1>1
<1>3. call.op \in {"init", "append", "ids", "class", "close"} \/ (call.op = "column" /\ call.column \in Nat \ {0})
  BY <1>2 DEF A, B
<1>4. call.op = "class" => cls
  BY <1>1, <1>2 DEF cls
<1>5. ASSUME call.op = "column" PROVE call.column \in 1 .. num_dims /\ Datatype(call.column) = "data"
  <2>1. call.column \in Nat \ {0} /\ (job.sets = << >> => call.column <= 8)
        /\ (job.sets # << >> => call.column \in DOMAIN job.sets /\ ~job.sets[call.column].class)
    BY <1>1, <1>2, <1>3, <1>5
  <2>2. job.sets \in Seq([name : STRING, class : BOOLEAN])
    BY JobsAssumption
  <2>3. dataset_count \in Nat /\ DOMAIN job.sets = 1 .. dataset_count /\ (dataset_count = 0 <=> job.sets = << >>)
    BY <2>2 DEF dataset_count
  <2>4. CASE dataset_count = 0
    <3>1. num_dims = 8
      BY <2>4 DEF num_dims, AllColumns
    <3> QED
      BY <2>1, <2>3, <2>4, <3>1, SMTT(30) DEF Datatype, Typed
  <2>5. CASE dataset_count # 0
    <3>1. num_dims = dataset_count
      BY <2>5 DEF num_dims
    <3> QED
      BY <2>1, <2>3, <2>5, <3>1 DEF Datatype
  <2> QED
    BY <2>4, <2>5
<1> QED
  BY <1>3, <1>4, <1>5

\* A process writes the particles its IDs name.
LEMMA SourceIs ==
    ASSUME SlicesInv, FileIsRight, Typed, NEW r \in Ranks, Able(rd[r]), rd[r].pc = "back",
           WriteCall(rd[r].i)
    PROVE  /\ Target(r) = TargetOf(rd[r].i)
           /\ Target(r) = "ids" \/ Target(r) \in DOMAIN file.sets
           /\ \A j \in 0 .. rd[r].local - 1 : Source(r)[j] = Want(r, Target(r), j)
<1> DEFINE p == rd[r]
           c == p.i
           op == job.back[c].op
<1>1. Target(r) = TargetOf(c)
  BY DEF Target, TargetOf
<1>2. c \in 1 .. Len(job.back) /\ op \in WriteOps /\ job \in Jobs
  BY DEF WriteCall, SlicesInv, IInv
<1>3. \A i \in 1 .. num_dims : Readable(i)
  BY DEF Able, Late
<1>4. p.local \in Nat /\ (job.mode = "random" => p.local = p.k)
  BY DEF Able, Late
<1>5. ASSUME NEW j \in 0 .. p.local - 1, NEW i \in 1 .. num_dims
      PROVE  Array(p, i)[j] = file.sets[Name(i)][p.ids[j]]
  <2>1. AtEnd(p, r)
    BY PhaseIs DEF SlicesInv
  <2> QED
    BY <1>4, <2>1 DEF AtEnd, Belongs
<1>6. \A i \in 1 .. num_dims : Name(i) \in DOMAIN file.sets /\ Name(i) # "ids"
  <2>1. \A v \in 1 .. 8 : Variables[v] # "ids"
    BY VariablesAre
  <2> QED
    BY <1>3, <2>1 DEF Readable, FileIsRight
<1>7. num_dims \in Nat \ {0} /\ num_dims \in 1 .. num_dims
  BY <1>2, JobIs
<1>8. CASE op = "ids"
  BY <1>1, <1>8 DEF Source, Target, Want
<1>9. CASE op = "class"
  <2>1. cls
    BY <1>2, <1>9, BackIs
  <2>2. Datatype(num_dims) # "data"
    <3>1. num_dims \notin Columns
      BY <1>7, <2>1 DEF Columns
    <3> QED
      BY <1>3, <1>7, <3>1 DEF Readable
  <2>3. Datatype(num_dims) = "class"
    BY <1>2, <1>7, <2>2, JobIs, SMTT(30) DEF Kinds
  <2>4. Source(r) = Array(p, num_dims) /\ Target(r) = Name(num_dims)
    BY <1>9, <2>3, SMTT(30) DEF Source, Target, Array
  <2> QED
    BY <1>1, <1>5, <1>6, <1>7, <2>4 DEF Want
<1>10. CASE op = "column"
  <2> DEFINE i == job.back[c].column
  <2>1. i \in 1 .. num_dims /\ Datatype(i) = "data"
    BY <1>2, <1>10, BackIs
  <2>2. Source(r) = Array(p, i) /\ Target(r) = Name(i)
    BY <1>10, <2>1 DEF Source, Target, Array
  <2> QED
    BY <1>1, <1>5, <1>6, <2>1, <2>2 DEF Want
<1> QED
  BY <1>2, <1>8, <1>9, <1>10 DEF WriteOps

-----------------------------------------------------------------------------
(* Rows                                                                     *)

Locals == [q \in Ranks |-> rd[q].local]
LEMMA RowsAre == ASSUME NEW S PROVE Rows(S) = SumOn(Locals, S)
  BY Zenon DEF Rows, SumOn, Locals, MapThenSumSet, MapThenFoldSet

LEMMA RowsOfRanks ==
    ASSUME job \in Jobs, \A q \in Ranks : rd[q].local \in Nat
    PROVE  /\ Rows(Ranks) \in Nat
           /\ \A q \in Ranks : /\ FirstRow(q) \in Nat
                               /\ FirstRow(q) + rd[q].local <= Rows(Ranks)
           /\ \A r, q \in Ranks : r # q => \/ FirstRow(q) + rd[q].local <= FirstRow(r)
                                           \/ FirstRow(r) + rd[r].local <= FirstRow(q)
           /\ \A k \in 0 .. Rows(Ranks) - 1 :
                 \E q \in Ranks, j \in Nat : j < rd[q].local /\ k = FirstRow(q) + j
<1> DEFINE n == job.mpi_size
           From(m) == SumOn(Locals, 0 .. m - 1)
<1>1. n \in Nat \ {0} /\ Ranks = 0 .. n - 1
  BY JobIs DEF Ranks
<1>2. Rows(Ranks) = From(n) /\ \A q \in Ranks : FirstRow(q) = From(q)
  BY <1>1, RowsAre DEF FirstRow
<1>3. \A q \in Ranks : Locals[q] = rd[q].local /\ Locals[q] \in Nat
  BY DEF Locals
<1>4. ASSUME NEW a \in Nat, NEW b \in Nat, a < b, b <= n
      PROVE  From(a) \in Nat /\ From(b) \in Nat /\ From(a) + Locals[a] <= From(b)
  <2>1. \A x \in 0 .. b - 1 : Locals[x] \in Nat
    BY <1>1, <1>3, <1>4
  <2> QED
    BY <1>4, <2>1, RowsFollow
<1> HIDE DEF From, n
<1>5. ASSUME NEW q \in Ranks
      PROVE  q \in Nat /\ q < n /\ From(q) \in Nat /\ From(n) \in Nat /\ From(q) + Locals[q] <= From(n)
  BY <1>1, <1>4
<1>6. Rows(Ranks) \in Nat
  BY <1>1, <1>2, <1>5
<1>7. \A q \in Ranks : FirstRow(q) \in Nat /\ FirstRow(q) + rd[q].local <= Rows(Ranks)
  BY <1>2, <1>3, <1>5
<1>8. ASSUME NEW r \in Ranks, NEW q \in Ranks, r < q
      PROVE  FirstRow(r) + rd[r].local <= FirstRow(q)
  <2>1. r \in Nat /\ q \in Nat /\ q <= n
    BY <1>1, <1>5
  <2>2. From(r) + Locals[r] <= From(q)
    BY <1>4, <1>8, <2>1
  <2> QED
    BY <1>2, <1>3, <2>2
<1>9. ASSUME NEW r \in Ranks, NEW q \in Ranks, r # q
      PROVE  \/ FirstRow(q) + rd[q].local <= FirstRow(r)
             \/ FirstRow(r) + rd[r].local <= FirstRow(q)
  <2>1. r < q \/ q < r
    BY <1>5, <1>9
  <2> QED
    BY <1>8, <2>1
<1>10. ASSUME NEW k \in 0 .. Rows(Ranks) - 1
       PROVE  \E q \in Ranks, j \in Nat : j < rd[q].local /\ k = FirstRow(q) + j
  <2>1. n \in Nat /\ (\A x \in 0 .. n - 1 : Locals[x] \in Nat) /\ k \in 0 .. SumOn(Locals, 0 .. n - 1) - 1
    BY <1>1, <1>2, <1>3 DEF From
  <2>2. \E x \in 0 .. n - 1, j \in Nat : j < Locals[x] /\ k = SumOn(Locals, 0 .. x - 1) + j
    BY <2>1, RowsCover
  <2> QED
    BY <1>1, <1>2, <1>3, <2>2 DEF From
<1> QED
  BY <1>6, <1>7, <1>9, <1>10

\* Nothing about rows changes while each process keeps its number of points and its IDs.
LEMMA RowsStay ==
    ASSUME job' = job, file' = file, DOMAIN rd = Ranks, DOMAIN rd' = Ranks,
           \A q \in Ranks : rd'[q].local = rd[q].local /\ rd'[q].ids = rd[q].ids
    PROVE  /\ Ranks' = Ranks /\ Rows(Ranks)' = Rows(Ranks)
           /\ \A q \in Ranks : FirstRow(q)' = FirstRow(q)
           /\ \A rows, q, name : q \in Ranks => (Filled(rows, q, name)' <=> Filled(rows, q, name))
<1>1. Ranks' = Ranks
  BY DEF Ranks
<1>2. Locals' = Locals
  BY <1>1 DEF Locals
<1>3. \A S : Rows(S) = SumOn(Locals, S)
  BY RowsAre
<1>4. \A S : Rows(S)' = SumOn(Locals', S)
  BY Zenon DEF Rows, SumOn, Locals, MapThenSumSet, MapThenFoldSet
<1>5. Rows(Ranks)' = Rows(Ranks) /\ \A q \in Ranks : FirstRow(q)' = FirstRow(q)
  BY <1>1, <1>2, <1>3, <1>4 DEF FirstRow
<1>6. ASSUME NEW rows, NEW q \in Ranks, NEW name PROVE Filled(rows, q, name)' <=> Filled(rows, q, name)
  <2>1. \A j : Want(q, name, j)' = Want(q, name, j)
    BY DEF Want
  <2> QED
    BY <1>5, <2>1 DEF Filled
<1> QED
  BY <1>1, <1>5, <1>6

-----------------------------------------------------------------------------
(* One step keeps the rows right                                            *)

LEMMA CallsStay ==
    ASSUME job' = job, file' = file
    PROVE  /\ \A c : (WriteCall(c)' <=> WriteCall(c)) /\ TargetOf(c)' = TargetOf(c)
           /\ \A x, name : AtWrite(x, name)' <=> AtWrite(x, name)
           /\ \A x : Able(x) => Able(x)'
<1>1. num_dims' = num_dims /\ Columns' = Columns /\ \A i : Name(i)' = Name(i) /\ Datatype(i)' = Datatype(i)
  BY DEF num_dims, dataset_count, Columns, cls, Name, Datatype
<1>2. \A c : (WriteCall(c)' <=> WriteCall(c)) /\ TargetOf(c)' = TargetOf(c)
  BY <1>1 DEF WriteCall, TargetOf
<1>3. \A x, name : AtWrite(x, name)' <=> AtWrite(x, name)
  BY <1>2 DEF AtWrite
<1>4. \A i : Readable(i)' <=> Readable(i)
  BY <1>1 DEF Readable
<1>5. ASSUME NEW x, Able(x) PROVE Able(x)'
  BY <1>1, <1>4, <1>5 DEF Able
<1> QED
  BY <1>2, <1>3, <1>5

LEMMA OneGoes ==
    ASSUME SlicesInv, job' = job, file' = file, Paced, \A q \in Ranks : Able(rd[q]),
           NEW r \in Ranks, NEW d, rd' = [rd EXCEPT ![r] = d], Waits(r, d) \/ Calls1(r, d), Able(d)
    PROVE  /\ Paced' /\ Ranks' = Ranks /\ (\A q \in Ranks : Able(rd[q])')
           /\ DOMAIN rd = Ranks /\ DOMAIN rd' = Ranks
           /\ rd'[r] = d /\ \A q \in Ranks : q # r => rd'[q] = rd[q]
<1>1. DOMAIN rd = Ranks /\ Ranks' = Ranks
  BY DEF SlicesInv, IInv, Ranks
<1>2. DOMAIN rd' = Ranks /\ rd'[r] = d /\ \A q \in Ranks : q # r => rd'[q] = rd[q]
  BY <1>1
<1>3. ASSUME NEW q \in Ranks PROVE Able(rd[q])'
  <2>1. Able(rd'[q])
    BY <1>2
  <2>2. \A x : Able(x) => Able(x)'
    BY CallsStay
  <2> QED
    BY <2>1, <2>2
<1>4. Paced'
  BY PaceKept
<1> QED
  BY <1>1, <1>2, <1>3, <1>4

\* Nothing is in the file while somebody still reads.
LEMMA EarlyKeeps ==
    ASSUME SlicesInv, RowsInv, job' = job, file' = file, out' = out, NEW r \in Ranks,
           rd[r].pc \notin Working, Early(r)
    PROVE  RowsInv'
<1>1. DOMAIN out.sets = {} /\ DOMAIN out = {"there", "sets"}
  BY DEF RowsInv, OutIsRight
<1>2. ASSUME NEW q \in Ranks PROVE rd[q].pc # "written"
  BY <1>1 DEF RowsInv, OutIsRight
<1>3. CASE rd' = rd
  <2>1. Ranks' = Ranks
    BY DEF Ranks
  <2>2. Paced'
    <3>1. \A k : After(k)' = After(k)
      BY DEF After, num_dims, dataset_count
    <3>2. ASSUME NEW x, NEW y, InPace(x, y) PROVE InPace(x, y)'
      BY <3>1, <3>2 DEF InPace, Key
    <3> QED
      BY <1>3, <2>1, <3>2 DEF RowsInv, Paced
  <2>3. ASSUME NEW q \in Ranks PROVE Able(rd[q])'
    <3>1. \A x : Able(x) => Able(x)'
      BY CallsStay
    <3> QED
      BY <1>3, <3>1 DEF RowsInv
  <2>4. OutIsRight'
    BY <1>1, <1>2, <1>3, <2>1 DEF OutIsRight
  <2> QED
    BY <2>1, <2>2, <2>3, <2>4 DEF RowsInv
<1>4. ASSUME NEW d, EarlyGoes(r, d) PROVE RowsInv'
  <2>1. /\ Paced' /\ Ranks' = Ranks /\ (\A q \in Ranks : Able(rd[q])')
        /\ rd'[r] = d /\ \A q \in Ranks : q # r => rd'[q] = rd[q]
    BY <1>4, OneGoes DEF RowsInv, EarlyGoes
  <2>2. \A q \in Ranks : rd'[q].pc # "written"
    BY <1>2, <1>4, <2>1 DEF EarlyGoes
  <2>3. OutIsRight'
    BY <1>1, <2>1, <2>2 DEF OutIsRight
  <2> QED
    BY <2>1, <2>3 DEF RowsInv
<1> QED
  BY <1>3, <1>4 DEF Early

\* A step of a process that has closed the reader; it keeps its points.
Keeps(r, d) ==
    /\ rd' = [rd EXCEPT ![r] = d] /\ (Waits(r, d) \/ Calls1(r, d)) /\ Able(d)
    /\ rd[r].pc \in Working /\ d.pc \in Working
    /\ d.local = rd[r].local /\ d.ids = rd[r].ids

LEMMA KeepsRows ==
    ASSUME SlicesInv, RowsInv, job' = job, file' = file, NEW r \in Ranks, NEW d, Keeps(r, d)
    PROVE  /\ Paced' /\ Ranks' = Ranks /\ (\A q \in Ranks : Able(rd[q])')
           /\ rd'[r] = d /\ (\A q \in Ranks : q # r => rd'[q] = rd[q])
           /\ Rows(Ranks)' = Rows(Ranks)
           /\ \A rows, q, name : q \in Ranks => (Filled(rows, q, name)' <=> Filled(rows, q, name))
<1>1. /\ Paced' /\ Ranks' = Ranks /\ (\A q \in Ranks : Able(rd[q])')
      /\ DOMAIN rd = Ranks /\ DOMAIN rd' = Ranks
      /\ rd'[r] = d /\ \A q \in Ranks : q # r => rd'[q] = rd[q]
  BY OneGoes DEF RowsInv, Keeps
<1>2. \A q \in Ranks : rd'[q].local = rd[q].local /\ rd'[q].ids = rd[q].ids
  BY <1>1 DEF Keeps
<1>3. /\ Rows(Ranks)' = Rows(Ranks)
      /\ \A rows, q, name : q \in Ranks => (Filled(rows, q, name)' <=> Filled(rows, q, name))
  BY <1>1, <1>2, RowsStay
<1> QED
  BY <1>1, <1>3

\* A step that writes nothing, of a process that has nothing to write.
LEMMA OnwardKeeps ==
    ASSUME SlicesInv, RowsInv, job' = job, file' = file, NEW r \in Ranks, NEW d, Keeps(r, d),
           d.pc # "written", \A name : ~AtWrite(rd[r], name), DOMAIN out' = {"there", "sets"},
           \/ out'.sets = out.sets
           \/ out'.sets = << >> /\ \A q \in Ranks : q # r => rd[q].pc # "written"
    PROVE  RowsInv'
<1>1. /\ Paced' /\ Ranks' = Ranks /\ (\A q \in Ranks : Able(rd[q])')
      /\ rd'[r] = d /\ (\A q \in Ranks : q # r => rd'[q] = rd[q])
      /\ Rows(Ranks)' = Rows(Ranks)
      /\ \A rows, q, name : q \in Ranks => (Filled(rows, q, name)' <=> Filled(rows, q, name))
  BY KeepsRows
<1>2. /\ \A c : (WriteCall(c)' <=> WriteCall(c)) /\ TargetOf(c)' = TargetOf(c)
      /\ \A x, name : AtWrite(x, name)' <=> AtWrite(x, name)
  BY CallsStay
<1>3. (\E q \in Ranks : rd'[q].pc \notin Working) => DOMAIN out'.sets = {}
  <2>1. ASSUME NEW q \in Ranks, rd'[q].pc \notin Working PROVE rd[q].pc \notin Working
    BY <1>1, <2>1 DEF Keeps
  <2>2. (\E q \in Ranks : rd[q].pc \notin Working) => DOMAIN out.sets = {}
    BY DEF RowsInv, OutIsRight
  <2> QED
    BY <2>1, <2>2
<1>4. ASSUME NEW q \in Ranks, rd'[q].pc = "written"
      PROVE  WriteCall(rd[q].i)' /\ TargetOf(rd[q].i)' \in DOMAIN out'.sets
  <2>1. q # r /\ rd'[q] = rd[q] /\ rd[q].pc = "written"
    BY <1>1, <1>4
  <2>2. WriteCall(rd[q].i) /\ TargetOf(rd[q].i) \in DOMAIN out.sets
    BY <2>1 DEF RowsInv, OutIsRight
  <2>3. WriteCall(rd[q].i)' <=> WriteCall(rd'[q].i)
    BY <1>2 DEF WriteCall
  <2>4. TargetOf(rd[q].i)' = TargetOf(rd'[q].i)
    <3>1. \A c : TargetOf(c)' = TargetOf(c)
      BY <1>2
    <3> QED
      BY <3>1
  <2>5. out'.sets = out.sets
    BY <2>1
  <2> QED
    BY <2>1, <2>2, <2>3, <2>4, <2>5
<1>5. ASSUME NEW name \in DOMAIN out'.sets PROVE SetIsRight(name)'
  <2>1. out'.sets = out.sets /\ SetIsRight(name)
    BY <1>5 DEF RowsInv, OutIsRight
  <2>2. ASSUME NEW q \in Ranks, ~AtWrite(rd[q], name)' PROVE Filled(out.sets[name], q, name)'
    <3>1. ~AtWrite(rd[q], name)
      <4>1. CASE q = r
        BY <4>1
      <4>2. CASE q # r
        <5>1. rd'[q] = rd[q]
          BY <1>1, <4>2
        <5>2. AtWrite(rd[q], name)' <=> AtWrite(rd'[q], name)
          BY <1>2 DEF AtWrite
        <5> QED
          BY <2>2, <5>1, <5>2
      <4> QED
        BY <4>1, <4>2
    <3>2. Filled(out.sets[name], q, name)
      BY <2>1, <3>1 DEF SetIsRight
    <3> QED
      BY <1>1, <2>1, <3>2
  <2> QED
    BY <1>1, <2>1, <2>2 DEF SetIsRight
<1>6. OutIsRight'
  BY <1>1, <1>3, <1>4, <1>5 DEF OutIsRight
<1> QED
  BY <1>1, <1>6 DEF RowsInv

Written(r) ==
    [out EXCEPT !.sets =
        [OutCreated(Target(r)) EXCEPT ![Target(r)] =
            [k \in DOMAIN @ |-> IF k \in FirstRow(r) .. FirstRow(r) + rd[r].local - 1
                                THEN Source(r)[k - FirstRow(r)] ELSE @[k]]]]

\* A process fills its own rows, and those who have written before keep theirs.
LEMMA WriteKeeps ==
    ASSUME SlicesInv, FileIsRight, Typed, RowsInv, job' = job, file' = file, NEW r \in Ranks, NEW d,
           Keeps(r, d), Met(r), rd[r].pc = "back", WriteCall(rd[r].i), d.pc = "written",
           d.i = rd[r].i, out' = Written(r)
    PROVE  RowsInv'
<1> DEFINE i == rd[r].i
           name == Target(r)
           f == FirstRow(r)
           l == rd[r].local
           source == Source(r)
           created == OutCreated(name)
           before == created[name]
           after == [k \in DOMAIN before |-> IF k \in f .. f + l - 1 THEN source[k - f] ELSE before[k]]
<1>1. /\ Paced' /\ Ranks' = Ranks /\ (\A q \in Ranks : Able(rd[q])')
      /\ rd'[r] = d /\ (\A q \in Ranks : q # r => rd'[q] = rd[q])
      /\ Rows(Ranks)' = Rows(Ranks)
      /\ \A rows, q, x : q \in Ranks => (Filled(rows, q, x)' <=> Filled(rows, q, x))
  BY KeepsRows
<1>2. /\ \A c : (WriteCall(c)' <=> WriteCall(c)) /\ TargetOf(c)' = TargetOf(c)
      /\ \A x, y : AtWrite(x, y)' <=> AtWrite(x, y)
  BY CallsStay
<1>3. /\ name = TargetOf(i) /\ (name = "ids" \/ name \in DOMAIN file.sets)
      /\ \A j \in 0 .. l - 1 : source[j] = Want(r, name, j)
  <2>1. Able(rd[r])
    BY DEF RowsInv
  <2> QED
    BY <2>1, SourceIs
<1>4. ASSUME NEW q \in Ranks
      PROVE  /\ rd[q].pc \in Working /\ rd[q].local \in Nat
             /\ AtWrite(rd[q], name) \/ (rd[q].pc = "written" /\ rd[q].i = i)
  <2>1. Able(rd[q]) /\ Paced
    BY DEF RowsInv
  <2>2. rd[q].pc \in DOMAIN Class
    BY <2>1 DEF Able
  <2>3. /\ rd[q].pc \in Working
        /\ \/ rd[q].pc = rd[r].pc /\ rd[q].i = rd[r].i
           \/ Key(rd[q]) = After(Key(rd[r]))
    BY <2>1, <2>2, OthersAtCall
  <2>4. rd[q].local \in Nat
    BY <2>1, <2>3 DEF Able, Late, Working
  <2>5. ASSUME rd[q].pc = rd[r].pc, rd[q].i = rd[r].i PROVE AtWrite(rd[q], name)
    BY <1>3, <2>5 DEF AtWrite
  <2>6. ASSUME Key(rd[q]) = After(Key(rd[r])) PROVE rd[q].pc = "written" /\ rd[q].i = i
    <3>1. Key(rd[r]) = <<"back", i>> /\ job.back[i].op \in WriteOps
      BY ClassIs DEF Key, WriteCall
    <3>2. Key(rd[q]) = <<"written", i>>
      BY <2>6, <3>1 DEF After
    <3>3. Class[rd[q].pc] = "written" /\ rd[q].i = i
      BY <3>2 DEF Key
    <3> QED
      BY <2>3, <3>3, ClassIs DEF Working
  <2> QED
    BY <2>3, <2>4, <2>5, <2>6
<1>5. /\ Rows(Ranks) \in Nat /\ l \in Nat /\ f \in Nat /\ f + l <= Rows(Ranks)
      /\ \A q \in Ranks : FirstRow(q) \in Nat
      /\ \A q \in Ranks : r # q => FirstRow(q) + rd[q].local <= f \/ f + l <= FirstRow(q)
  <2>1. job \in Jobs /\ \A q \in Ranks : rd[q].local \in Nat
    BY <1>4 DEF SlicesInv, IInv
  <2> QED
    BY <2>1, RowsOfRanks
<1>6. /\ DOMAIN created = DOMAIN out.sets \cup {name}
      /\ \A x \in DOMAIN out.sets : created[x] = out.sets[x]
      /\ DOMAIN before = 0 .. Rows(Ranks) - 1
  <2>1. CASE name \in DOMAIN out.sets
    <3>1. created = out.sets
      BY <2>1 DEF OutCreated
    <3>2. SetIsRight(name)
      BY <2>1 DEF RowsInv, OutIsRight
    <3> QED
      BY <2>1, <3>1, <3>2 DEF SetIsRight
  <2>2. CASE name \notin DOMAIN out.sets
    <3>1. created = [v \in DOMAIN out.sets \cup {name} |->
                        IF v = name THEN [k \in 0 .. Rows(Ranks) - 1 |-> Hole] ELSE out.sets[v]]
      BY <2>2 DEF OutCreated
    <3> HIDE DEF created, name
    <3> QED
      BY <2>2, <3>1 DEF before
  <2> QED
    BY <2>1, <2>2
<1>7. /\ DOMAIN out' = {"there", "sets"} /\ DOMAIN out'.sets = DOMAIN created
      /\ out'.sets[name] = after /\ \A x \in DOMAIN out.sets : x # name => out'.sets[x] = out.sets[x]
  <2>1. out' = [out EXCEPT !.sets = [created EXCEPT ![name] = after]]
    BY DEF Written
  <2>2. DOMAIN out = {"there", "sets"}
    BY DEF RowsInv, OutIsRight
  <2> HIDE DEF created, name, after
  <2>3. DOMAIN out' = {"there", "sets"} /\ out'.sets = [created EXCEPT ![name] = after]
    BY <2>1, <2>2
  <2> QED
    BY <1>6, <2>3
<1> HIDE DEF i, name, f, l, source, created, before
<1>8. DOMAIN after = 0 .. Rows(Ranks) - 1
  BY <1>6
<1>9. Filled(after, r, name)
  <2>1. ASSUME NEW j \in 0 .. l - 1 PROVE after[f + j] = Want(r, name, j)
    <3>1. f + j \in 0 .. Rows(Ranks) - 1 /\ f + j \in f .. f + l - 1 /\ (f + j) - f = j
      BY <1>5
    <3>2. after[f + j] = source[j]
      BY <1>6, <3>1
    <3> QED
      BY <1>3, <3>2
  <2> QED
    BY <2>1 DEF Filled, f, l
<1>10. ASSUME NEW q \in Ranks, q # r, ~AtWrite(rd[q], name) PROVE Filled(after, q, name)
  <2> DEFINE g == FirstRow(q)
             m == rd[q].local
  <2>1. rd[q].pc = "written" /\ rd[q].i = i /\ m \in Nat
    BY <1>4, <1>10
  <2>2. name \in DOMAIN out.sets
    BY <1>3, <2>1 DEF RowsInv, OutIsRight
  <2>3. before = out.sets[name] /\ Filled(before, q, name)
    BY <1>6, <1>10, <2>2 DEF RowsInv, OutIsRight, SetIsRight, before
  <2>4. g \in Nat /\ g + m <= Rows(Ranks) /\ (g + m <= f \/ f + l <= g)
    <3>1. job \in Jobs /\ \A x \in Ranks : rd[x].local \in Nat
      BY <1>4 DEF SlicesInv, IInv
    <3>2. g + m <= Rows(Ranks)
      BY <3>1, RowsOfRanks
    <3> QED
      BY <1>5, <1>10, <3>2
  <2>5. ASSUME NEW j \in 0 .. m - 1 PROVE after[g + j] = Want(q, name, j)
    <3>1. before[g + j] = Want(q, name, j)
      BY <2>3, <2>5 DEF Filled
    <3> HIDE DEF g, m
    <3>2. g + j \in 0 .. Rows(Ranks) - 1 /\ g + j \notin f .. f + l - 1
      BY <1>5, <2>1, <2>4
    <3> QED
      BY <1>6, <3>1, <3>2
  <2> HIDE DEF after
  <2> QED
    BY <2>5 DEF Filled
<1> HIDE DEF after
<1>11. ASSUME NEW q \in Ranks
       PROVE  /\ rd'[q].pc \in Working
              /\ rd'[q].pc = "written" =>
                    WriteCall(rd'[q].i) /\ TargetOf(rd'[q].i) \in DOMAIN out'.sets
  <2>1. CASE q = r
    BY <1>1, <1>3, <1>6, <1>7, <2>1 DEF Working, i
  <2>2. CASE q # r
    <3>1. rd'[q] = rd[q]
      BY <1>1, <2>2
    <3> QED
      BY <1>4, <1>6, <1>7, <3>1 DEF RowsInv, OutIsRight
  <2> QED
    BY <2>1, <2>2
<1>12. ASSUME NEW q \in Ranks, NEW x \in DOMAIN out'.sets, ~AtWrite(rd'[q], x)
       PROVE  Filled(out'.sets[x], q, x)
  <2>1. CASE x = name
    <3>1. q # r => ~AtWrite(rd[q], name)
      BY <1>1, <1>12, <2>1
    <3> QED
      BY <1>7, <1>9, <1>10, <2>1, <3>1
  <2>2. CASE x # name
    <3>1. x \in DOMAIN out.sets /\ out'.sets[x] = out.sets[x]
      BY <1>6, <1>7, <2>2
    <3>2. ~AtWrite(rd[q], x)
      <4>1. CASE q = r
        BY <1>3, <2>2, <4>1 DEF AtWrite, i
      <4>2. CASE q # r
        BY <1>1, <1>12, <4>2
      <4> QED
        BY <4>1, <4>2
    <3> QED
      BY <3>1, <3>2 DEF RowsInv, OutIsRight, SetIsRight
  <2> QED
    BY <2>1, <2>2
<1>13. ASSUME NEW x \in DOMAIN out'.sets
       PROVE  (x = "ids" \/ x \in DOMAIN file.sets) /\ DOMAIN out'.sets[x] = 0 .. Rows(Ranks) - 1
  <2>1. CASE x = name
    BY <1>3, <1>7, <1>8, <2>1
  <2>2. CASE x # name
    <3>1. x \in DOMAIN out.sets /\ out'.sets[x] = out.sets[x]
      BY <1>6, <1>7, <2>2
    <3> QED
      BY <3>1 DEF RowsInv, OutIsRight, SetIsRight
  <2> QED
    BY <2>1, <2>2
<1>14. ASSUME NEW x \in DOMAIN out'.sets PROVE SetIsRight(x)'
  <2>1. ASSUME NEW q \in Ranks, ~AtWrite(rd[q], x)' PROVE Filled(out.sets[x], q, x)'
    <3>1. AtWrite(rd[q], x)' <=> AtWrite(rd'[q], x)
      BY <1>2 DEF AtWrite
    <3>2. Filled(out'.sets[x], q, x)
      BY <1>12, <2>1, <3>1
    <3>3. \A rows : Filled(rows, q, x)' <=> Filled(rows, q, x)
      BY <1>1
    <3> QED
      BY <3>2, <3>3
  <2> QED
    BY <1>1, <1>13, <2>1 DEF SetIsRight
<1>15. ASSUME NEW q \in Ranks, rd'[q].pc = "written"
       PROVE  WriteCall(rd[q].i)' /\ TargetOf(rd[q].i)' \in DOMAIN out'.sets
  <2>1. WriteCall(rd'[q].i) /\ TargetOf(rd'[q].i) \in DOMAIN out'.sets
    BY <1>11, <1>15
  <2>2. WriteCall(rd[q].i)' <=> WriteCall(rd'[q].i)
    BY <1>2 DEF WriteCall
  <2>3. TargetOf(rd[q].i)' = TargetOf(rd'[q].i)
    <3>1. \A c : TargetOf(c)' = TargetOf(c)
      BY <1>2
    <3> QED
      BY <3>1
  <2> QED
    BY <2>1, <2>2, <2>3
<1>16. OutIsRight'
  BY <1>1, <1>7, <1>11, <1>14, <1>15 DEF OutIsRight
<1> QED
  BY <1>1, <1>16 DEF RowsInv

LEMMA BackKeeps ==
    ASSUME SlicesInv, FileIsRight, Right, faults' = faults, Typed, RowsInv, NEW r \in Ranks,
           \/ init_h5outfile(r) \/ write_dataset(r) \/ AfterWritten(r) \/ close_h5outfile(r)
           \/ Finalize(r)
    PROVE  RowsInv'
<1> DEFINE p == rd[r]
           next == [p EXCEPT !.pc = "back", !.c = @ + 1, !.i = @ + 1]
           writes == [p EXCEPT !.pc = "written", !.c = @ + 1]
           ends == [p EXCEPT !.pc = "ended"]
<1>1. p.pc \in {"back", "written"} /\ job' = job /\ file' = file
  BY DEF init_h5outfile, write_dataset, AfterWritten, close_h5outfile, Finalize, Back, At, Reading,
         Writing, vpic_vars
<1>2. /\ DOMAIN p = Fields /\ Able(p) /\ DOMAIN out = {"there", "sets"}
      /\ \A q \in Ranks : Able(rd[q])
  BY PhaseIs DEF SlicesInv, RowsInv, OutIsRight
<1>3. faults \in Nat
  BY VpicAssumption DEF FileIsRight
<1>4. /\ p.local \in Nat /\ (job.mode = "random" => p.local = p.k) /\ p.i \in Nat \ {0}
      /\ \A i \in 1 .. num_dims : Readable(i)
  BY <1>1, <1>2 DEF Able, Late
<1>5. /\ next.pc = "back" /\ next.c = p.c + 1 /\ next.i = p.i + 1 /\ next.local = p.local
      /\ next.ids = p.ids /\ next.k = p.k
      /\ writes.pc = "written" /\ writes.c = p.c + 1 /\ writes.i = p.i /\ writes.local = p.local
      /\ writes.ids = p.ids /\ writes.k = p.k
      /\ ends.pc = "ended" /\ ends.c = p.c /\ ends.i = p.i /\ ends.local = p.local
      /\ ends.ids = p.ids /\ ends.k = p.k
  BY SMTT(30), <1>2 DEF Fields
<1>6. AfterWritten(r) => rd' = [rd EXCEPT ![r] = next] /\ Met(r) /\ out' = out /\ p.pc = "written"
  BY DEF AfterWritten, NextCall, Becomes, Reading, At
<1>7. close_h5outfile(r) => /\ rd' = [rd EXCEPT ![r] = next] /\ Met(r) /\ out' = out /\ p.pc = "back"
                            /\ job.back[p.i].op = "close"
  BY DEF close_h5outfile, NextCall, Becomes, Reading, Back, At
<1>8. Finalize(r) => /\ rd' = [rd EXCEPT ![r] = ends] /\ out' = out /\ p.pc = "back"
                     /\ p.i > Len(job.back)
  BY DEF Finalize, Becomes, Reading, At
<1>9. init_h5outfile(r) =>
         /\ rd' = [rd EXCEPT ![r] = next] /\ Met(r) /\ p.pc = "back"
         /\ job.back[p.i].op \in {"init", "append"}
         /\ DOMAIN out' = {"there", "sets"} /\ (out'.sets = << >> \/ out'.sets = out.sets)
  BY <1>3 DEF init_h5outfile, NextCall, Becomes, Back, At
<1>10. write_dataset(r) =>
         /\ rd' = [rd EXCEPT ![r] = writes] /\ Met(r) /\ p.pc = "back" /\ WriteCall(p.i)
         /\ out' = Written(r)
  <2> SUFFICES ASSUME write_dataset(r)
               PROVE  /\ rd' = [rd EXCEPT ![r] = writes] /\ Met(r) /\ p.pc = "back" /\ WriteCall(p.i)
                      /\ out' = Written(r)
    OBVIOUS
  <2>1. /\ rd' = [rd EXCEPT ![r] = writes] /\ Met(r) /\ p.pc = "back"
        /\ p.i <= Len(job.back) /\ job.back[p.i].op \in WriteOps
    BY DEF write_dataset, Becomes, Back, At, WriteOps
  <2>2. WriteCall(p.i)
    <3>1. Len(job.back) \in Nat
      BY BackAssumption DEF SlicesInv, IInv
    <3> QED
      BY <1>4, <2>1, <3>1 DEF WriteCall
  <2> DEFINE name == Target(r)
             new(rows) == [k \in DOMAIN rows |-> IF k \in FirstRow(r) .. FirstRow(r) + rd[r].local - 1
                                                THEN Source(r)[k - FirstRow(r)] ELSE rows[k]]
             created == [out EXCEPT !.sets = OutCreated(name)]
  <2>3. out' = [created EXCEPT !.sets[name] = new(@)]
    BY <1>3 DEF write_dataset
  <2>4. Written(r) = [out EXCEPT !.sets = [OutCreated(name) EXCEPT ![name] = new(@)]]
    BY DEF Written
  <2> HIDE DEF name, new
  <2>5. out' = Written(r)
    BY <1>2, <2>3, <2>4
  <2> QED
    BY <2>1, <2>2, <2>5
<1> HIDE DEF next, writes, ends
<1>11. Able(next) /\ Able(writes) /\ Able(ends)
  BY <1>4, <1>5, ClassIs DEF Able, Late, Sampling
<1>12. CASE write_dataset(r)
  <2>1. Key(writes) = After(Key(p))
    BY <1>5, <1>10, <1>12, ClassIs DEF Key, After, WriteCall
  <2>2. Keeps(r, writes)
    BY <1>5, <1>10, <1>11, <1>12, <2>1 DEF Keeps, Calls1, Working
  <2> QED
    BY <1>1, <1>5, <1>10, <1>12, <2>2, WriteKeeps
<1>13. ASSUME rd' = [rd EXCEPT ![r] = next], Met(r), p.pc = "written" \/ job.back[p.i].op \notin WriteOps
       PROVE  Keeps(r, next) /\ \A name : ~AtWrite(p, name)
  <2>1. Key(next) = After(Key(p))
    BY <1>1, <1>5, <1>13, ClassIs DEF Key, After
  <2>2. Keeps(r, next)
    BY <1>1, <1>5, <1>11, <1>13, <2>1 DEF Keeps, Calls1, Working
  <2> QED
    BY <1>13, <2>2 DEF AtWrite, WriteCall
<1>14. CASE AfterWritten(r)
  <2>1. Keeps(r, next) /\ \A name : ~AtWrite(p, name)
    BY <1>6, <1>13, <1>14
  <2> QED
    BY <1>1, <1>2, <1>5, <1>6, <1>14, <2>1, OnwardKeeps
<1>15. CASE close_h5outfile(r)
  <2>1. Keeps(r, next) /\ \A name : ~AtWrite(p, name)
    BY <1>7, <1>13, <1>15 DEF WriteOps
  <2> QED
    BY <1>1, <1>2, <1>5, <1>7, <1>15, <2>1, OnwardKeeps
<1>16. CASE init_h5outfile(r)
  <2>1. Keeps(r, next) /\ \A name : ~AtWrite(p, name)
    BY <1>9, <1>13, <1>16 DEF WriteOps
  <2>2. ASSUME NEW q \in Ranks PROVE rd[q].pc # "written"
    <3>1. Paced /\ Met(r) /\ p.pc = "back" /\ rd[q].pc \in DOMAIN Class
      BY <1>2, <1>9, <1>16 DEF RowsInv, Able
    <3>2. rd[q].pc = p.pc \/ Key(rd[q]) = After(Key(p))
      BY <3>1, OthersAtCall
    <3>3. Key(p) = <<"back", p.i>>
      BY <3>1, ClassIs DEF Key
    <3>4. After(Key(p))[1] = "back"
      BY <1>9, <1>16, <3>3 DEF After, WriteOps
    <3>5. Key(rd[q])[1] = Class[rd[q].pc]
      BY DEF Key
    <3> QED
      BY <3>1, <3>2, <3>4, <3>5, ClassIs
  <2> QED
    BY <1>1, <1>5, <1>9, <1>16, <2>1, <2>2, OnwardKeeps
<1>17. CASE Finalize(r)
  <2>1. Key(ends) = Key(p)
    BY <1>5, <1>8, <1>17, ClassIs DEF Key
  <2>2. Keeps(r, ends)
    BY <1>1, <1>5, <1>8, <1>11, <1>17, <2>1 DEF Keeps, Waits, Working
  <2>3. \A name : ~AtWrite(p, name)
    <3>1. Len(job.back) \in Nat
      BY BackAssumption DEF SlicesInv, IInv
    <3> QED
      BY <1>4, <1>8, <1>17, <3>1 DEF AtWrite, WriteCall
  <2> QED
    BY <1>1, <1>2, <1>5, <1>8, <1>17, <2>2, <2>3, OnwardKeeps
<1> QED
  BY <1>12, <1>14, <1>15, <1>16, <1>17

\* While VPIC-IO runs all readers wait to start.
LEMMA VpicKeeps ==
    ASSUME SlicesInv, RowsInv, NextVpic, UNCHANGED <<job, rd, out, aborted>>
    PROVE  RowsInv'
<1>1. ~WritersDone
  <2>1. PICK p \in Writers : w[p] < Len(Calls)
    BY DEF NextVpic, Barrier, OpenFile, WriteFileAttribString, SetStep, SetNumParticles,
           WriteVariable, CloseFile, In
  <2>2. w[p] \in Nat /\ Len(Calls) = 17
    BY CallsAre DEF SlicesInv, IInv, FileIsMade
  <2> QED
    BY <2>1, <2>2 DEF WritersDone
<1>2. \A r \in Ranks : rd[r].pc = "start"
  BY <1>1 DEF SlicesInv, IInv
<1>3. Ranks' = Ranks /\ Ranks # {}
  <2>1. job.mpi_size \in Nat \ {0}
    BY JobIs DEF SlicesInv, IInv
  <2> QED
    BY <2>1 DEF Ranks
<1>4. DOMAIN out.sets = {} /\ DOMAIN out = {"there", "sets"}
  BY <1>2, <1>3 DEF RowsInv, OutIsRight, Working
<1>5. Paced'
  <2>1. \A k : After(k)' = After(k)
    BY DEF After, num_dims, dataset_count
  <2>2. ASSUME NEW x, NEW y, InPace(x, y) PROVE InPace(x, y)'
    BY <2>1, <2>2 DEF InPace, Key
  <2> QED
    BY <1>3, <2>2 DEF RowsInv, Paced
<1>6. ASSUME NEW q \in Ranks PROVE Able(rd[q])'
  BY <1>2, ClassIs DEF Able, EarlyPlaces, Sampling, Late
<1>7. OutIsRight'
  BY <1>2, <1>3, <1>4 DEF OutIsRight
<1> QED
  BY <1>3, <1>5, <1>6, <1>7 DEF RowsInv

LEMMA BackInit == Init => BackInv
<1> SUFFICES ASSUME Init PROVE BackInv
  OBVIOUS
<1>1. SlicesInv /\ FileIsRight
  BY SlicesInit, RightInit
<1>2. \A r \in Ranks : rd[r].pc = "start" /\ rd[r].c = 0 /\ rd[r].i = 0
  BY DEF Init
<1>3. Paced
  BY <1>2 DEF Paced, InPace, Key
<1>4. \A r \in Ranks : Able(rd[r])
  BY <1>2, ClassIs DEF Able, EarlyPlaces, Sampling, Late
<1>5. OutIsRight
  BY <1>2 DEF OutIsRight, Init, NoFile
<1> QED
  BY <1>1, <1>3, <1>4, <1>5 DEF BackInv, RowsInv

LEMMA BackNext == BackInv /\ [Next]_vars => BackInv'
<1> SUFFICES ASSUME BackInv, [Next]_vars PROVE BackInv'
  OBVIOUS
<1>1. SlicesInv' /\ SlicesInv /\ FileIsRight
  BY SlicesNext DEF BackInv
<1>2. faults' \in 0 .. MaxFaults /\ (Right' => Right /\ faults' = faults)
  BY <1>1, FaultsFall DEF FileIsRight
<1>3. ASSUME file' = file, w' = w, numparticles' = numparticles PROVE FileIsRight'
  <2>1. \A v, p : PutIn(v, p)' <=> PutIn(v, p)
    BY <1>3 DEF PutIn, Total
  <2> QED
    BY <1>1, <1>2, <1>3, <2>1 DEF FileIsRight
<1>4. CASE NextVpic /\ UNCHANGED <<job, rd, out, aborted>>
  <2>1. FileIsRight'
    BY <1>1, <1>4, RightStep DEF SlicesInv, IInv
  <2>2. Typed' = Typed
    BY <1>4 DEF Typed, dataset_count
  <2>3. ASSUME Right', Typed PROVE RowsInv'
    BY SMTT(30), <1>1, <1>2, <1>4, <2>3, VpicKeeps DEF BackInv
  <2> QED
    BY <1>1, <2>1, <2>2, <2>3 DEF BackInv
<1>5. ASSUME NEW r \in Ranks, RankStep(r) PROVE BackInv'
  <2>1. job' = job /\ UNCHANGED vpic_vars
    BY <1>5 DEF RankStep, Start, GetMetadata, OpenFile_, ReadSegment, ReadNothing, Draw, Sort, Pack,
              AfterBarrier, CloseReader, init_h5outfile, write_dataset, StepRefused, AfterWritten,
              close_h5outfile, Finalize, Reading, Writing
  <2>2. file' = file /\ FileIsRight' /\ Typed' = Typed
    BY <1>3, <2>1 DEF vpic_vars, Typed, dataset_count
  <2>3. ASSUME Right', Typed PROVE RowsInv'
    <3>1. Right /\ faults' = faults /\ RowsInv /\ Able(rd[r])
      BY <1>2, <2>3 DEF BackInv, RowsInv
    <3>2. CASE init_h5outfile(r) \/ write_dataset(r) \/ AfterWritten(r) \/ close_h5outfile(r) \/ Finalize(r)
      BY <1>1, <2>3, <3>1, <3>2, BackKeeps, SMTT(30)
    <3>4. ~StepRefused(r)
      BY <1>1, <3>1, VpicAssumption DEF BackInv, FileIsRight, StepRefused
    <3>3. CASE \/ Start(r) \/ GetMetadata(r) \/ OpenFile_(r) \/ ReadSegment(r) \/ ReadNothing(r)
               \/ Draw(r) \/ Sort(r) \/ Pack(r) \/ AfterBarrier(r) \/ CloseReader(r)
      <4>1. out' = out /\ rd[r].pc \notin Working
        BY <3>3 DEF Start, GetMetadata, OpenFile_, ReadSegment, ReadNothing, Draw, Sort, Pack,
              AfterBarrier, CloseReader, Reading, At, Working
      <4>2. Early(r)
        BY <1>1, <2>3, <3>1, <3>3, EarlyStart, EarlyMetadata, EarlyOpen, EarlySegment, EarlySample,
           EarlyClose
      <4> QED
        BY <1>1, <2>1, <2>2, <3>1, <4>1, <4>2, EarlyKeeps, SMTT(30)
    <3> QED
      BY <1>5, <3>2, <3>3, <3>4 DEF RankStep
  <2> QED
    BY <1>1, <2>2, <2>3, SMTT(30) DEF BackInv
<1>6. CASE UNCHANGED vars
  <2>1. /\ file' = file /\ w' = w /\ numparticles' = numparticles /\ job' = job /\ rd' = rd
        /\ out' = out /\ faults' = faults
    BY <1>6 DEF vars, vpic_vars
  <2>2. /\ Ranks' = Ranks /\ Typed' = Typed /\ Right' = Right
        /\ Rows(Ranks)' = Rows(Ranks)
        /\ \A rows, q, name : q \in Ranks => (Filled(rows, q, name)' <=> Filled(rows, q, name))
    <3>1. DOMAIN rd = Ranks
      BY <1>1 DEF SlicesInv, IInv
    <3> QED
      BY <2>1, <3>1, RowsStay DEF Typed, dataset_count, Right
  <2>3. RowsInv => RowsInv'
    <3> SUFFICES ASSUME RowsInv PROVE RowsInv'
      OBVIOUS
    <3>1. Paced'
      <4>1. \A k : After(k)' = After(k)
        BY <2>1 DEF After, num_dims, dataset_count
      <4>2. ASSUME NEW x, NEW y, InPace(x, y) PROVE InPace(x, y)'
        BY <4>1, <4>2 DEF InPace, Key
      <4> QED
        BY <2>1, <2>2, <4>2 DEF RowsInv, Paced
    <3>2. ASSUME NEW q \in Ranks PROVE Able(rd[q])'
      <4>1. \A x : Able(x) => Able(x)'
        BY <2>1, CallsStay
      <4> QED
        BY <2>1, <4>1 DEF RowsInv
    <3>3. ASSUME NEW name \in DOMAIN out.sets PROVE SetIsRight(name)'
      <4>1. SetIsRight(name)
        BY DEF RowsInv, OutIsRight
      <4>2. \A q \in Ranks : AtWrite(rd[q], name)' <=> AtWrite(rd[q], name)
        <5>1. \A x, y : AtWrite(x, y)' <=> AtWrite(x, y)
          BY <2>1, CallsStay
        <5> QED
          BY <2>1, <5>1
      <4>3. \A q \in Ranks : Filled(out.sets[name], q, name)' <=> Filled(out.sets[name], q, name)
        BY <2>1, <2>2
      <4> QED
        BY <2>1, <2>2, <4>1, <4>2, <4>3 DEF SetIsRight
    <3>4. OutIsRight'
      <4>1. \A c : (WriteCall(c)' <=> WriteCall(c)) /\ TargetOf(c)' = TargetOf(c)
        BY <2>1, CallsStay
      <4>2. \A q \in Ranks : rd[q].pc = "written" =>
                WriteCall(rd[q].i)' /\ TargetOf(rd[q].i)' \in DOMAIN out.sets
        BY <2>1, <4>1 DEF RowsInv, OutIsRight
      <4> QED
        BY <2>1, <2>2, <3>1, <3>2, <3>3, <4>2 DEF RowsInv, OutIsRight
    <3> QED
      BY <2>2, <3>1, <3>2, <3>4 DEF RowsInv
  <2> QED
    BY <1>1, <1>3, <2>1, <2>2, <2>3 DEF BackInv
<1> QED
  BY <1>4, <1>5, <1>6 DEF Next

\* At the end every row is there, and it is the particle of its ID.
LEMMA InvRows == BackInv => RowsBelong
<1> SUFFICES ASSUME BackInv, Typed, Right, \A r \in Ranks : rd[r].pc = "ended",
                    NEW name \in DOMAIN out.sets
             PROVE  /\ DOMAIN out.sets[name] = 0 .. Rows(Ranks) - 1
                    /\ ("ids" \in DOMAIN out.sets /\ name # "ids") => \A k \in DOMAIN out.sets[name] :
                          LET g == out.sets["ids"][k][2]
                          IN  out.sets[name][k] = Particle(name, g \div numparticles, g % numparticles)
  BY Zenon DEF RowsBelong, Right
<1>1. /\ SlicesInv /\ FileIsRight /\ RowsInv /\ job \in Jobs /\ FileIsMade
      /\ DOMAIN out.sets[name] = 0 .. Rows(Ranks) - 1
  BY DEF BackInv, RowsInv, OutIsRight, SetIsRight, SlicesInv, IInv
<1>2. WritersDone
  <2>1. job.mpi_size \in Nat \ {0}
    BY <1>1, JobIs
  <2>2. 0 \in Ranks
    BY <2>1 DEF Ranks
  <2> QED
    BY <1>1, <2>2 DEF SlicesInv, IInv
<1>3. ASSUME NEW q \in Ranks
      PROVE  /\ rd[q].local \in Nat
             /\ \A j \in 0 .. rd[q].local - 1 : rd[q].ids[j] \in 0 .. Total - 1
  <2>1. Able(rd[q]) /\ rd[q].pc = "ended"
    BY <1>1 DEF RowsInv
  <2>2. rd[q].local \in Nat /\ (job.mode = "random" => rd[q].local = rd[q].k)
    BY <2>1 DEF Able, Late
  <2>3. Records(q) = 0 .. rd[q].local - 1
    BY <2>1, <2>2 DEF Records
  <2>4. Held(q) \subseteq Mine(q)
    BY <1>1, HeldIsMine
  <2>5. Mine(q) \subseteq 0 .. Total - 1
    BY <1>1, SlicesCover, Zenon
  <2>6. \A j \in 0 .. rd[q].local - 1 : rd[q].ids[j] \in Held(q)
    BY <2>3 DEF Held
  <2> QED
    BY <2>2, <2>4, <2>5, <2>6
<1>4. ASSUME NEW x \in DOMAIN out.sets, NEW q \in Ranks PROVE Filled(out.sets[x], q, x)
  BY <1>1 DEF RowsInv, OutIsRight, SetIsRight, AtWrite
<1>5. ASSUME "ids" \in DOMAIN out.sets, name # "ids", NEW k \in DOMAIN out.sets[name]
      PROVE  LET g == out.sets["ids"][k][2]
             IN  out.sets[name][k] = Particle(name, g \div numparticles, g % numparticles)
  <2>1. PICK q \in Ranks, j \in Nat : j < rd[q].local /\ k = FirstRow(q) + j
    <3>1. k \in 0 .. Rows(Ranks) - 1 /\ \A q \in Ranks : rd[q].local \in Nat
      BY <1>1, <1>3, <1>5
    <3> QED
      BY <1>1, <3>1, RowsOfRanks
  <2>2. j \in 0 .. rd[q].local - 1 /\ rd[q].ids[j] \in 0 .. Total - 1
    BY <1>3, <2>1
  <2> DEFINE g == rd[q].ids[j]
  <2>3. out.sets["ids"][k] = <<"id", g, 0>> /\ out.sets[name][k] = file.sets[name][g]
    BY <1>4, <1>5, <2>1, <2>2 DEF Filled, Want
  <2>4. name \in DOMAIN file.sets
    BY <1>1, <1>5 DEF RowsInv, OutIsRight, SetIsRight
  <2>5. file.sets[name][g] = Particle(name, g \div numparticles, g % numparticles)
    BY <1>1, <1>2, <2>2, <2>4, FileIsTrue
  <2>6. out.sets["ids"][k][2] = g
    BY <2>3
  <2> HIDE DEF g
  <2> QED
    BY <2>3, <2>5, <2>6
<1> QED
  BY <1>1, <1>5

(* Whatever the file, the number of processes, their slices or samples and   *)
(* the calls a program makes, the file written back has a row for every      *)
(* record of every process once the job has ended without an error, and the  *)
(* rows of its data sets belong together: row k of a column or of the class  *)
(* is what VPIC-IO wrote for the particle whose ID is in row k of "ids"      *)
(* (write_dataset_BDATS_*, bdcats-io/bdats_h5reader.cpp; the row of a        *)
(* process is the sum of the points of lower ranks, however late others are).*)
THEOREM RowsAreParticles == Spec => []RowsBelong
<1>1. Spec => []BackInv
  BY BackInit, BackNext, PTL DEF Spec
<1> QED
  BY <1>1, InvRows, PTL
=============================================================================
