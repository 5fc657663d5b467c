-------------------------- MODULE H5PartView_proofs --------------------------
(***************************************************************************)
(* Views, throttle and data sets of parallel H5Part files, for any number  *)
(* of processors and any program.                                          *)
(*                                                                         *)
(* All processors make the same calls, each at its own pace.  So a handle  *)
(* is what the calls its processor has made say it is: t[k] tells, for     *)
(* each number k of calls, what the handles of all have in common then     *)
(* (Course).  What a processor does not share, its view, data spaces and   *)
(* tokens, is tied to t and to the files (Bounds, Owns, Divided, Turns,    *)
(* ReadIsRight, Authored).                                                 *)
(***************************************************************************)
EXTENDS H5PartView, RowsAndColumns, SequenceTheorems, TLAPS

-----------------------------------------------------------------------------
(* What the calls make of handles, tokens and data sets                     *)

Calls == program.calls
Op(k) == Calls[k].op

Transferring == {"start", "xfer", "end"}
Pcs == {"idle", "gather", "close"} \cup Transferring
\* The calls whose effect on what processors share is in the handle.
Done(r) == IF h[r].pc \in Transferring THEN h[r].n + 1 ELSE h[r].n

\* What the handles of all processors have in common after the same calls, and
\* how many transfers there have been under each throttle factor.
Batches == 1 .. nprocs
Common ==
    [read : BOOLEAN, step : Int, timestep : Int, shape : Int, throttle : Int,
     counts : {Unset} \cup [Procs -> Nat], turns : [Batches -> Nat]]
First ==
    [read |-> FALSE, step |-> -1, timestep |-> 0, shape |-> -1, throttle |-> 0,
     counts |-> Unset, turns |-> [d \in Batches |-> 0]]

Turn(x) == IF x.throttle \in Batches THEN [x EXCEPT !.turns[x.throttle] = @ + 1] ELSE x
Writes(x) == x.shape # -1 /\ x.step >= 0 /\ ~x.read
Reads(x, name) == x.read /\ <<WithStep(x, x.timestep).step, name>> \in DOMAIN file

Viewing == {"view", "indices", "canonical"}
\* One call of the program.
Then(x, c) ==
    CASE c.op = "step" -> _H5Part_set_step(x, c.arg)
      [] c.op \in Viewing -> [WithStep(x, 0) EXCEPT !.counts = Unset]
      [] c.op = "reset" -> IF x.read THEN [x EXCEPT !.counts = Unset] ELSE x
      [] c.op = "num" -> [x EXCEPT !.shape = SumOver(c.arg, Procs), !.counts = c.arg]
      [] c.op = "write" -> IF Writes(x) THEN Turn(x) ELSE x
      [] c.op = "read" -> IF Reads(x, c.arg) THEN Turn(WithStep(x, x.timestep)) ELSE WithStep(x, x.timestep)
      [] c.op = "throttle" -> IF program.independent THEN [x EXCEPT !.throttle = c.arg] ELSE x
      [] c.op = "reopen" -> [First EXCEPT !.read = TRUE, !.turns = x.turns]

\* t tells it after each of the first m calls.
Course(m, t) ==
    /\ m \in 0 .. Len(Calls) /\ t \in [0 .. m -> Common]
    /\ t[0] = First
    /\ \A k \in 0 .. m - 1 : t[k + 1] = Then(t[k], Calls[k + 1])
Onward(m, t) ==
    \A j, k \in 0 .. m : j <= k => /\ t[j].read => t[k].read
                                   /\ \A d \in Batches : t[j].turns[d] <= t[k].turns[d]
\* Nothing depends on what is in the file until somebody reads it.
Sources(m, t) == (\E k \in 0 .. m - 1 : t[k].read) => \E q \in Procs : h[q].f.read

Handles ==
    [read : BOOLEAN, step : Int, timestep : Int, nparticles : Int, shape : Int,
     disk : [total : Int, sel : Seq(Nat)], mem : Int, viewstart : Int, viewend : Int,
     viewindexed : BOOLEAN, pnparticles : {Unset} \cup [Procs -> Nat], throttle : Int]
Keys == Int \X (Names \cup {"", "beyond"})
Cells == Keys \X Int \X Int
FileTyped == DOMAIN file \subseteq Nat \X Names /\ file \in [DOMAIN file -> Seq(Cells)]
Slots ==
    [n : Nat, pc : Pcs, f : Handles, ret : {"ok", "error"},
     failed : BOOLEAN, held : BOOLEAN, got : Seq(Cells)]
Shape ==
    /\ program \in Programs
    /\ h \in [Procs -> Slots]
    /\ FileTyped
    /\ steps \subseteq Nat
    /\ tokens \in [Procs \X Procs -> Nat] /\ faults \in 0 .. MaxFaults

AtCall(r) ==
    /\ h[r].n <= Len(Calls)
    /\ h[r].pc # "idle" => h[r].n < Len(Calls)
    /\ h[r].f.step >= 0 => h[r].f.step \in steps
    /\ h[r].pc = "gather" => Call(r).op = "num"
    /\ h[r].pc = "close" => Call(r).op = "reopen"
    /\ h[r].pc \in Transferring => Call(r).op \in {"write", "read"} /\ Key(r) \in DOMAIN file
\* The handle of r is what the calls made it.
Matches(r, m, t) ==
    /\ Done(r) <= m
    /\ LET x == t[Done(r)]
           f == h[r].f
       IN  /\ f.read = x.read /\ f.step = x.step /\ f.timestep = x.timestep
           /\ f.throttle = x.throttle
           /\ h[r].pc # "gather" => f.shape = x.shape
    /\ h[r].pc \in Transferring /\ Call(r).op = "write" => Writes(t[h[r].n])

\* Nobody reads a file somebody may write.
Closed ==
    \A q, r \in Procs : h[q].f.read /\ ~h[r].f.read => h[r].pc = "close"
\* Whoever is past a write finds the data set.
Created(m, t) ==
    \A r \in Procs : \A k \in 0 .. m - 1 :
        k < Done(r) /\ Op(k + 1) = "write" /\ Writes(t[k])
            => <<t[k].step, Calls[k + 1].arg>> \in DOMAIN file

InStep(f) ==
    /\ f.disk # ALL => Len(f.disk.sel) = f.nparticles
    /\ ~f.viewindexed =>
          \/ f.viewstart = -1 /\ f.viewend = -1 /\ f.disk = ALL
          \/ /\ f.viewstart >= 0 /\ f.viewend >= -1 /\ f.viewend >= f.viewstart - 1
             /\ f.disk # ALL /\ f.disk.sel = IndexRange(f.viewstart, f.viewend)
MemFor(count) == IF count > 0 THEN count ELSE -1
Bounds(r) ==
    /\ InStep(h[r].f)
    /\ h[r].pc = "gather" =>
          /\ h[r].f.disk = ALL /\ ~h[r].f.viewindexed
          /\ h[r].f.nparticles = Call(r).arg[r] /\ h[r].f.mem = MemFor(Call(r).arg[r])

\* The view that setting the counts made.
OwnSpace(c, r) ==
    [total |-> SumOver(c, Procs), sel |-> IndexRange(Start(c, r), Start(c, r) + c[r] - 1)]
Owns(r, t) ==
    LET c == t[Done(r)].counts
    IN  h[r].pc # "gather" /\ c # Unset =>
            /\ h[r].f.disk = OwnSpace(c, r) /\ h[r].f.shape = SumOver(c, Procs)
            /\ h[r].f.mem = MemFor(c[r])

\* The view that dividing the data set made, until a data set is added.
Shares(share, r) == IndexRange(r * share, r * share + share - 1)
Share(s) == Len(file[<<s, FirstName(s)>>])
Divided(r) ==
    h[r].pc = "idle" /\ h[r].n > 0 /\ Op(h[r].n) = "canonical"
    /\ HasData(h[r].f.step) /\ (\A q \in Procs : Done(q) <= h[r].n) =>
        LET total == Share(h[r].f.step)
        IN  IF total >= nprocs
            THEN h[r].f.disk = [total |-> total, sel |-> Shares(total \div nprocs, r)]
            ELSE h[r].f.disk.total < nprocs

ReadsWhatIsClosed ==
    \A c \in DOMAIN Calls : Op(c) = "read" => \E b \in 1 .. c - 1 : Op(b) = "reopen"

\* Transfers b has begun under factor d, after waiting for its turn.
Begun(b, d, t) == IF h[b].pc = "start" THEN t[h[b].n].turns[d] ELSE t[Done(b)].turns[d]
\* A turn is taken on a token, and a token comes from a turn.
Turns(t) ==
    \A a, b \in Procs : \A d \in Batches : b = a + d =>
        Begun(b, d, t) + tokens[<<a, b>>] <= t[h[a].n].turns[d]

InView(f, stored) ==
    IF f.viewstart >= 0 THEN SubSeq(stored, f.viewstart + 1, f.viewend + 1) ELSE stored
\* The data set of the read r has behind it, or nearly so.
ReadName(r) == IF h[r].pc = "end" THEN Call(r).arg ELSE Calls[h[r].n].arg
Got(r) ==
    \/ h[r].pc = "end" /\ Call(r).op = "read"
    \/ h[r].pc = "idle" /\ h[r].n > 0 /\ Op(h[r].n) = "read" /\ h[r].ret = "ok"
ReadIsRight(r) ==
    LET key == <<h[r].f.step, ReadName(r)>>
    IN  Got(r) => /\ key \in DOMAIN file
                  /\ ~h[r].f.viewindexed /\ h[r].f.viewend < Len(file[key])
                        => h[r].got = InView(h[r].f, file[key])

\* What a program must do to have whole data sets: the counts are the last thing set
\* before a write, and no data set is written twice.
LastOf(ops, c) == {b \in 1 .. c - 1 : Op(b) \in ops /\ \A e \in b + 1 .. c - 1 : Op(e) \notin ops}
CountsGivenFirst ==
    \A c \in DOMAIN Calls : Op(c) = "write" => \A b \in LastOf(Viewing \cup {"num"}, c) : Op(b) = "num"
StepsOnce ==
    /\ \A c \in DOMAIN Calls : Op(c) \in Viewing \cup {"read"} => \E b \in 1 .. c - 1 : Op(b) \in {"step", "reopen"}
    /\ \A b, c \in DOMAIN Calls :
          b < c /\ Op(b) = "step" /\ Op(c) = "step" /\ Calls[b].arg = Calls[c].arg
              => \E e \in b + 1 .. c - 1 : Op(e) = "reopen"
NamesOnce ==
    \A b, c \in DOMAIN Calls :
        b < c /\ Op(b) = "write" /\ Op(c) = "write" /\ Calls[b].arg = Calls[c].arg
            => \E e \in b + 1 .. c - 1 : Op(e) \in {"step", "reopen"}
WritesOnce == CountsGivenFirst /\ StepsOnce /\ NamesOnce

\* A step that is written to was asked for; a view that is written through was made of counts.
AskedAt(x, k) ==
    ~x.read =>
        /\ x.step >= 0 => \E b \in LastOf({"step"}, k + 1) : Calls[b].arg = x.step
        /\ (\E b \in 1 .. k : Op(b) = "step") => x.step >= 0
        /\ x.shape # -1 => \E b \in LastOf(Viewing \cup {"num"}, k + 1) : Op(b) = "num" => x.counts # Unset
AskedFor(m, t) == \A k \in 0 .. m : AskedAt(t[k], k)
InPlace(key, c, r) == \A i \in 1 .. c[r] : file[key][Start(c, r) + i] = Cell(key, r, i)
Behind(r, k) == h[r].n > k \/ (h[r].n = k /\ h[r].pc = "end")
Authored(m, t) ==
    \A key \in DOMAIN file : \E k \in 0 .. m - 1 :
        /\ Op(k + 1) = "write" /\ Writes(t[k]) /\ key = <<t[k].step, Calls[k + 1].arg>>
        /\ Len(file[key]) = t[k].shape
        /\ faults = MaxFaults => \A r \in Procs : Behind(r, k) => InPlace(key, t[k].counts, r)

Good(m, t) ==
    /\ Shape
    /\ Course(m, t) /\ Onward(m, t) /\ Sources(m, t)
    /\ \A r \in Procs : AtCall(r) /\ Matches(r, m, t) /\ Bounds(r) /\ Owns(r, t) /\ Divided(r)
    /\ Closed /\ Created(m, t)
    /\ ReadsWhatIsClosed => Turns(t) /\ \A r \in Procs : ReadIsRight(r)
    /\ WritesOnce => AskedFor(m, t) /\ Authored(m, t)

IInv == \E m, t : Good(m, t)

-----------------------------------------------------------------------------
(* Processors, calls and sums                                               *)

\* Processors are numbered from 0.
LEMMA ProcsAre ==
    /\ nprocs \in Nat /\ nprocs > 0 /\ IsFiniteSet(Procs) /\ 0 \in Procs
    /\ \A r \in Procs : r \in Nat /\ r < nprocs
<1>1. nprocs \in Nat /\ nprocs > 0
  BY NprocsAssumption
<1> QED
  BY <1>1, FS_Interval DEF Procs

\* The calls of a program are typed.
LEMMA CallsAre ==
    ASSUME program \in Programs
    PROVE  /\ Len(Calls) \in Nat /\ DOMAIN Calls = 1 .. Len(Calls)
           /\ \A k \in 1 .. Len(Calls) : CallTyped(Calls[k])
           /\ program.independent \in BOOLEAN
<1>1. /\ program.independent \in BOOLEAN /\ Calls \in Seq(Range(Calls))
      /\ \A c \in DOMAIN Calls : CallTyped(Calls[c])
  BY ProgramsAssumption DEF Calls
<1>2. Len(Calls) \in Nat /\ DOMAIN Calls = 1 .. Len(Calls)
  BY <1>1
<1> QED
  BY <1>1, <1>2

\* The sums of the model are those of RowsAndColumns.
LEMMA SumOverIs == ASSUME NEW f, NEW S PROVE SumOver(f, S) = SumOn(f, S)
  BY DEF SumOver, SumOn

LEMMA TotalIs ==
    ASSUME NEW c \in [Procs -> Nat]
    PROVE  SumOver(c, Procs) \in Nat /\ SumOver(c, Procs) = SumOn(c, 0 .. nprocs - 1)
<1>1. \A r \in Procs : c[r] \in Nat
  OBVIOUS
<1>2. SumOn(c, Procs) \in Nat
  BY <1>1, ProcsAre, SumsGrow
<1> QED
  BY <1>2, SumOverIs DEF Procs

\* The ranges of the processors follow one another inside the data set.
LEMMA StartIs ==
    ASSUME NEW c \in [Procs -> Nat], NEW r \in Procs
    PROVE  /\ Start(c, r) \in Nat /\ Start(c, r) = SumOn(c, 0 .. r - 1)
           /\ Start(c, r) + c[r] <= SumOver(c, Procs)
           /\ \A q \in Procs : r < q => Start(c, r) + c[r] <= Start(c, q)
<1>0. r \in Nat /\ r < nprocs /\ nprocs \in Nat
  BY ProcsAre
<1>1. \A x \in 0 .. nprocs - 1 : c[x] \in Nat
  BY DEF Procs
<1>2. Start(c, r) = SumOn(c, 0 .. r - 1)
  BY SumOverIs DEF Start
<1>3. Start(c, r) \in Nat /\ Start(c, r) + c[r] <= SumOn(c, 0 .. nprocs - 1)
  BY <1>0, <1>1, <1>2, RowsFollow
<1>4. ASSUME NEW q \in Procs, r < q PROVE Start(c, r) + c[r] <= Start(c, q)
  <2>1. q \in Nat /\ q < nprocs
    BY ProcsAre
  <2>2. \A x \in 0 .. q - 1 : c[x] \in Nat
    BY <1>0, <1>1, <2>1
  <2>3. Start(c, q) = SumOn(c, 0 .. q - 1)
    BY SumOverIs DEF Start
  <2> QED
    BY <1>0, <1>2, <1>4, <2>1, <2>2, <2>3, RowsFollow
<1> QED
  BY <1>2, <1>3, <1>4, TotalIs

\* ... and leave nothing out.
LEMMA StartsCover ==
    ASSUME NEW c \in [Procs -> Nat], NEW k \in 0 .. SumOver(c, Procs) - 1
    PROVE  \E r \in Procs, j \in Nat : j < c[r] /\ k = Start(c, r) + j
<1>1. nprocs \in Nat /\ \A x \in 0 .. nprocs - 1 : c[x] \in Nat
  BY ProcsAre DEF Procs
<1>2. k \in 0 .. SumOn(c, 0 .. nprocs - 1) - 1
  BY TotalIs
<1>3. PICK r \in 0 .. nprocs - 1, j \in Nat : j < c[r] /\ k = SumOn(c, 0 .. r - 1) + j
  BY <1>1, <1>2, RowsCover
<1>4. r \in Procs
  BY DEF Procs
<1> QED
  BY <1>3, <1>4, StartIs

\* An inclusive range as a sequence.
LEMMA IndexRangeIs ==
    ASSUME NEW a \in Int, NEW b \in Int
    PROVE  /\ IndexRange(a, b) \in Seq(Int)
           /\ DOMAIN IndexRange(a, b) = 1 .. b - a + 1
           /\ b >= a - 1 => Len(IndexRange(a, b)) = b - a + 1
           /\ b < a => IndexRange(a, b) = << >>
           /\ a >= 0 => IndexRange(a, b) \in Seq(Nat)
           /\ \A i \in 1 .. b - a + 1 : IndexRange(a, b)[i] = a + i - 1
<1>1. CASE b >= a - 1
  <2>1. b - a + 1 \in Nat
    BY <1>1
  <2>2. \A i \in 1 .. b - a + 1 : a + i - 1 \in Int
    OBVIOUS
  <2>3. IndexRange(a, b) \in Seq(Int) /\ Len(IndexRange(a, b)) = b - a + 1
    BY <2>1, <2>2 DEF IndexRange
  <2>4. a >= 0 => IndexRange(a, b) \in Seq(Nat)
    BY <2>1 DEF IndexRange
  <2>5. b < a => IndexRange(a, b) = << >>
    BY <1>1, <2>3
  <2> QED
    BY <2>3, <2>4, <2>5 DEF IndexRange
<1>2. CASE b < a - 1
  <2>1. 1 .. b - a + 1 = {}
    BY <1>2
  <2>2. IndexRange(a, b) = << >>
    BY <2>1 DEF IndexRange
  <2> QED
    BY <1>2, <2>1, <2>2
<1> QED
  BY <1>1, <1>2

-----------------------------------------------------------------------------
(* Handles and their views                                                  *)

LEMMA AllIs == ALL \in [total : Int, sel : Seq(Nat)] /\ ALL.total = -1 /\ ALL.sel = << >>
  BY DEF ALL

HandleFields == {"read", "step", "timestep", "nparticles", "shape", "disk", "mem", "viewstart",
                 "viewend", "viewindexed", "pnparticles", "throttle"}
HandleTypes(g) ==
    /\ g.read \in BOOLEAN /\ g.step \in Int /\ g.timestep \in Int /\ g.nparticles \in Int
    /\ g.shape \in Int /\ g.disk \in [total : Int, sel : Seq(Nat)] /\ g.mem \in Int
    /\ g.viewstart \in Int /\ g.viewend \in Int /\ g.viewindexed \in BOOLEAN
    /\ g.pnparticles \in {Unset} \cup [Procs -> Nat] /\ g.throttle \in Int

\* What a handle consists of, and how to see that something is one.
LEMMA HandleHas == ASSUME NEW g \in Handles PROVE DOMAIN g = HandleFields /\ HandleTypes(g)
<1>1. DOMAIN g = HandleFields
  BY DEF Handles, HandleFields
<1> QED
  BY <1>1 DEF Handles, HandleTypes

LEMMA IsHandle ==
    ASSUME NEW g, g = [x \in HandleFields |-> g[x]], HandleTypes(g)
    PROVE  g \in Handles
<1>1. g = [read |-> g.read, step |-> g.step, timestep |-> g.timestep, nparticles |-> g.nparticles,
           shape |-> g.shape, disk |-> g.disk, mem |-> g.mem, viewstart |-> g.viewstart,
           viewend |-> g.viewend, viewindexed |-> g.viewindexed, pnparticles |-> g.pnparticles,
           throttle |-> g.throttle]
  BY DEF HandleFields
<1> QED
  BY <1>1 DEF HandleTypes, Handles

\* _reset_view: no view, no data space.
LEMMA ResetIs ==
    ASSUME NEW f \in Handles
    PROVE  LET g == _reset_view(f)
           IN  /\ g \in Handles /\ g.read = f.read /\ g.step = f.step /\ g.timestep = f.timestep
               /\ g.shape = f.shape /\ g.throttle = f.throttle /\ g.pnparticles = f.pnparticles
               /\ g.viewstart = -1 /\ g.viewend = -1 /\ g.viewindexed = FALSE /\ g.disk = ALL
               /\ g.mem = -1 /\ g.nparticles = f.nparticles
               /\ InStep(g) /\ ~_H5Part_has_view(g)
<1> DEFINE g == _reset_view(f)
<1>1. DOMAIN f = HandleFields /\ HandleTypes(f)
  BY HandleHas
<1>2. g = [x \in HandleFields |-> g[x]]
  BY <1>1 DEF _reset_view
<1>4. /\ g.read = f.read /\ g.step = f.step /\ g.timestep = f.timestep
      /\ g.shape = f.shape /\ g.throttle = f.throttle /\ g.pnparticles = f.pnparticles
      /\ g.nparticles = f.nparticles
  BY <1>1 DEF _reset_view, HandleFields
<1>5. g.viewstart = -1 /\ g.viewend = -1 /\ g.viewindexed = FALSE /\ g.disk = ALL /\ g.mem = -1
  BY <1>1 DEF _reset_view, HandleFields
<1> HIDE DEF g
<1>6. InStep(g) /\ ~_H5Part_has_view(g)
  BY <1>5 DEF InStep, _H5Part_has_view
<1>7. HandleTypes(g)
  BY <1>1, <1>4, <1>5, AllIs DEF HandleTypes
<1>8. g \in Handles
  BY <1>2, <1>7, IsHandle
<1> QED
  BY <1>4, <1>5, <1>6, <1>8 DEF g

\* A step with data has a first data set.
LEMMA FirstNameIs ==
    ASSUME NEW s, HasData(s)
    PROVE  <<s, FirstName(s)>> \in DOMAIN file /\ FirstName(s) \in Names
<1>1. \E x \in Names : <<s, x>> \in DOMAIN file /\ (x = "y" => <<s, "x">> \notin DOMAIN file)
  BY DEF HasData, Names
<1> QED
  BY <1>1 DEF FirstName

LEMMA ShareIs ==
    ASSUME FileTyped, NEW s, HasData(s)
    PROVE  Share(s) \in Nat
  BY FirstNameIs, LenProperties DEF FileTyped, Share

\* _H5Part_get_num_particles without a view: the first data set, if there is one.
LEMMA NumIs ==
    ASSUME FileTyped, NEW f \in Handles, ~_H5Part_has_view(f), NEW garbage \in Nat
    PROVE  /\ _H5Part_get_num_particles(f, garbage) \in Nat
           /\ HasData(f.step) => _H5Part_get_num_particles(f, garbage) = Share(f.step)
<1>1. CASE HasData(f.step)
  BY <1>1, ShareIs DEF _H5Part_get_num_particles, Share
<1>2. CASE ~HasData(f.step) /\ f.pnparticles = Unset
  BY <1>2 DEF _H5Part_get_num_particles
<1>3. CASE ~HasData(f.step) /\ f.pnparticles # Unset
  <2>1. f.pnparticles \in [Procs -> Nat]
    BY <1>3 DEF Handles
  <2> QED
    BY <1>3, <2>1, TotalIs DEF _H5Part_get_num_particles
<1> QED
  BY <1>1, <1>2, <1>3

LEMMA MaxOfTwo == ASSUME NEW a \in Int, NEW b \in Int PROVE Max({a, b}) = IF a >= b THEN a ELSE b
<1> DEFINE m == IF a >= b THEN a ELSE b
<1>1. m \in {a, b} /\ \A x \in {a, b} : m >= x
  OBVIOUS
<1>2. \A y \in {a, b} : (\A x \in {a, b} : y >= x) => y = m
  OBVIOUS
<1> HIDE DEF m
<1>3. Max({a, b}) = CHOOSE y \in {a, b} : \A x \in {a, b} : y >= x
  BY DEF Max
<1> QED
  BY <1>1, <1>2, <1>3 DEF m

\* What a processor shares with the others is not in a view.
SameBut(g, f) ==
    /\ g.read = f.read /\ g.step = f.step /\ g.timestep = f.timestep
    /\ g.shape = f.shape /\ g.throttle = f.throttle

Viewed(f, first, last, total) ==
    [f EXCEPT !.viewstart = first, !.viewend = last, !.nparticles = last - first + 1,
              !.disk = [total |-> total, sel |-> IndexRange(first, last)],
              !.mem = last - first + 1]

\* A handle given a view keeps bounds and data space in step.
LEMMA WithView ==
    ASSUME NEW f \in Handles, NEW first \in Nat, NEW last \in Int, last >= first, NEW total \in Nat
    PROVE  LET g == Viewed(f, first, last, total)
           IN  g \in Handles /\ SameBut(g, f) /\ g.disk = [total |-> total, sel |-> IndexRange(first, last)]
               /\ (~f.viewindexed => InStep(g))
<1> DEFINE d == [total |-> total, sel |-> IndexRange(first, last)]
<1>0. /\ IndexRange(first, last) \in Seq(Nat) /\ Len(IndexRange(first, last)) = last - first + 1
      /\ last - first + 1 \in Int
  BY IndexRangeIs
<1>1. d \in [total : Int, sel : Seq(Nat)] /\ d.sel = IndexRange(first, last) /\ d # ALL
  BY <1>0, AllIs
<1> HIDE DEF d
<1> DEFINE g == [f EXCEPT !.viewstart = first, !.viewend = last, !.nparticles = last - first + 1,
                          !.disk = d, !.mem = last - first + 1]
<1>2. DOMAIN f = HandleFields /\ HandleTypes(f)
  BY HandleHas
<1>3. g = [x \in HandleFields |-> g[x]]
  BY <1>2
<1>4. g.read = f.read /\ g.step = f.step /\ g.timestep = f.timestep
  BY <1>2 DEF HandleFields
<1>5. g.shape = f.shape /\ g.throttle = f.throttle /\ g.pnparticles = f.pnparticles /\ g.viewindexed = f.viewindexed
  BY <1>2 DEF HandleFields
<1>6. /\ g.viewstart = first /\ g.viewend = last /\ g.disk = d
      /\ g.nparticles = last - first + 1 /\ g.mem = last - first + 1
  BY <1>2 DEF HandleFields
<1> HIDE DEF g
<1>7. HandleTypes(g)
  BY <1>0, <1>1, <1>2, <1>4, <1>5, <1>6 DEF HandleTypes
<1>8. g \in Handles
  BY <1>3, <1>7, IsHandle
<1>9. ~f.viewindexed => InStep(g)
  BY <1>0, <1>1, <1>5, <1>6 DEF InStep
<1>10. SameBut(g, f)
  BY <1>4, <1>5 DEF SameBut
<1> QED
  BY <1>6, <1>8, <1>9, <1>10 DEF g, d, Viewed

\* _set_view: bounds and data space agree.
LEMMA SetViewIs ==
    ASSUME FileTyped, NEW f \in Handles, NEW start \in Nat \cup {-1}, NEW end \in Nat \cup {-1}, NEW garbage \in Nat
    PROVE  LET g == _set_view(f, start, end, garbage)
               total == _H5Part_get_num_particles(_reset_view(f), garbage)
           IN  /\ g \in Handles /\ SameBut(g, f) /\ InStep(g)
               /\ g.disk.total \in {-1, total}
               /\ total # 0 /\ start >= 0 /\ end >= start
                      => g.disk = [total |-> total, sel |-> IndexRange(start, end)]
<1> DEFINE f0 == _reset_view(f)
           total == _H5Part_get_num_particles(f0, garbage)
           first == IF start = -1 THEN 0 ELSE start
           last == Max({IF end = -1 THEN total - 1 ELSE end, first})
           g == _set_view(f, start, end, garbage)
<1>1. f0 \in Handles /\ SameBut(f0, f) /\ ~f0.viewindexed /\ f0.disk = ALL /\ InStep(f0) /\ ~_H5Part_has_view(f0)
  BY ResetIs DEF SameBut
<1> HIDE DEF f0
<1>2. total \in Nat
  BY <1>1, NumIs
<1> HIDE DEF total
<1>3. first \in Nat /\ (start >= 0 => first = start)
  OBVIOUS
<1>4. last \in Int /\ last >= first /\ (start >= 0 /\ end >= start => last = end)
  <2>1. (IF end = -1 THEN total - 1 ELSE end) \in Int
    BY <1>2
  <2>2. last = IF (IF end = -1 THEN total - 1 ELSE end) >= first THEN (IF end = -1 THEN total - 1 ELSE end) ELSE first
    BY <1>3, <2>1, MaxOfTwo
  <2> QED
    BY <1>3, <2>1, <2>2
<1> DEFINE v == Viewed(f0, first, last, total)
<1>5. g = IF (start = -1 /\ end = -1) \/ total = 0 THEN f0 ELSE v
  BY DEF _set_view, f0, total, Viewed
<1> HIDE DEF first, last, g
<1>6. v \in Handles /\ SameBut(v, f0) /\ v.disk = [total |-> total, sel |-> IndexRange(first, last)] /\ InStep(v)
  BY <1>1, <1>2, <1>3, <1>4, WithView
<1> HIDE DEF v
<1>7. SameBut(v, f)
  BY <1>1, <1>6 DEF SameBut
<1>8. g \in Handles /\ SameBut(g, f) /\ InStep(g)
  BY <1>1, <1>5, <1>6, <1>7
<1>9. g.disk.total \in {-1, total}
  BY <1>1, <1>5, <1>6, AllIs
<1>10. total # 0 /\ start >= 0 /\ end >= start => g.disk = [total |-> total, sel |-> IndexRange(start, end)]
  BY <1>3, <1>4, <1>5, <1>6
<1> QED
  BY <1>8, <1>9, <1>10 DEF g, total, f0

\* _set_view_indices: as many particles as indices.
LEMMA SetViewIndicesIs ==
    ASSUME FileTyped, NEW f \in Handles, NEW indices \in Seq(Nat), NEW garbage \in Nat
    PROVE  LET g == _set_view_indices(f, indices, garbage)
           IN  g \in Handles /\ SameBut(g, f) /\ InStep(g)
<1> DEFINE f0 == _reset_view(f)
           total == _H5Part_get_num_particles(f0, garbage)
           d == [total |-> total, sel |-> indices]
           g == _set_view_indices(f, indices, garbage)
<1>1. f0 \in Handles /\ SameBut(f0, f) /\ ~_H5Part_has_view(f0) /\ InStep(f0)
  BY ResetIs DEF SameBut
<1> HIDE DEF f0
<1>2. total \in Nat
  BY <1>1, NumIs
<1> HIDE DEF total
<1>3. indices \in Seq(Nat) /\ Len(indices) \in Int
  BY LenProperties
<1>4. d \in [total : Int, sel : Seq(Nat)] /\ d.sel = indices
  BY <1>2, <1>3
<1> HIDE DEF d
<1> DEFINE v == [f0 EXCEPT !.nparticles = Len(indices), !.viewindexed = TRUE, !.disk = d, !.mem = Len(indices)]
<1>5. g = IF total = 0 THEN f0 ELSE v
  BY DEF _set_view_indices, f0, total, d
<1>6. DOMAIN f0 = HandleFields /\ HandleTypes(f0)
  BY <1>1, HandleHas
<1>7. v = [x \in HandleFields |-> v[x]]
  BY <1>6
<1>8. v.read = f0.read /\ v.step = f0.step /\ v.timestep = f0.timestep
  BY <1>6 DEF HandleFields
<1>9. v.shape = f0.shape /\ v.throttle = f0.throttle /\ v.pnparticles = f0.pnparticles
  BY <1>6 DEF HandleFields
<1>10. /\ v.viewstart = f0.viewstart /\ v.viewend = f0.viewend /\ v.disk = d /\ v.viewindexed = TRUE
       /\ v.nparticles = Len(indices) /\ v.mem = Len(indices)
  BY <1>6 DEF HandleFields
<1> HIDE DEF v, g
<1>11. HandleTypes(v)
  BY <1>3, <1>4, <1>6, <1>8, <1>9, <1>10 DEF HandleTypes
<1>12. v \in Handles
  BY <1>7, <1>11, IsHandle
<1>13. InStep(v)
  BY <1>4, <1>10 DEF InStep
<1>14. SameBut(v, f)
  BY <1>1, <1>8, <1>9 DEF SameBut
<1>15. g \in Handles /\ SameBut(g, f) /\ InStep(g)
  BY <1>1, <1>5, <1>12, <1>13, <1>14
<1> QED
  BY <1>15 DEF g

\* Equal shares of a data set, and where they start.
LEMMA ShareOut ==
    ASSUME NEW total \in Nat, NEW r \in Procs
    PROVE  LET share == total \div nprocs
           IN  /\ share \in Nat /\ (total >= nprocs <=> share >= 1) /\ share * nprocs <= total
               /\ r * share \in Nat
               /\ SumOver([q \in Procs |-> share], 0 .. r - 1) = r * share
<1>1. nprocs \in Nat /\ nprocs > 0 /\ r \in Nat /\ r < nprocs
  BY ProcsAre
<1> DEFINE share == total \div nprocs
<1>2. share \in Nat /\ total >= share * nprocs /\ total < share * nprocs + nprocs
  BY <1>1
<1> HIDE DEF share
<1>3. total >= nprocs <=> share >= 1
  <2>1. share = 0 => total < nprocs
    BY <1>1, <1>2
  <2>2. share >= 1 => share * nprocs >= nprocs
    <3> SUFFICES ASSUME share >= 1 PROVE share * nprocs >= nprocs
      OBVIOUS
    <3>1. 1 * nprocs <= share * nprocs
      BY <1>1, <1>2, Monotone
    <3> QED
      BY <1>1, <3>1
  <2>3. share * nprocs \in Nat
    BY <1>1, <1>2
  <2> QED
    BY <1>1, <1>2, <2>1, <2>2, <2>3
<1>4. r * share \in Nat
  BY <1>1, <1>2
<1>5. SumOver([q \in Procs |-> share], 0 .. r - 1) = r * share
  <2> DEFINE c == [q \in Procs |-> share]
  <2>1. \A x \in 0 .. r - 1 : c[x] = share
    BY <1>1 DEF Procs
  <2>2. share \in Int
    BY <1>2
  <2> HIDE DEF c
  <2>3. SumOver(c, 0 .. r - 1) = r * share
    BY <1>1, <2>1, <2>2, SumOfSame, SumOverIs
  <2> QED
    BY <2>3 DEF c
<1> QED
  BY <1>2, <1>3, <1>4, <1>5 DEF share

\* H5PartSetCanonicalView: r's share of the first data set.
LEMMA CanonicalIs ==
    ASSUME FileTyped, NEW f \in Handles, NEW r \in Procs, NEW garbage \in Nat
    PROVE  LET g == Canonical(f, r, garbage)
           IN  /\ g \in Handles /\ SameBut(g, f) /\ InStep(g)
               /\ HasData(f.step) =>
                     IF Share(f.step) >= nprocs
                     THEN g.disk = [total |-> Share(f.step), sel |-> Shares(Share(f.step) \div nprocs, r)]
                     ELSE g.disk.total < nprocs
<1> DEFINE f0 == _reset_view(f)
           total == _H5Part_get_num_particles(f0, garbage)
           share == total \div nprocs
           counts == [q \in Procs |-> share]
           f1 == [f0 EXCEPT !.pnparticles = counts]
           g == Canonical(f, r, garbage)
<1>0. nprocs \in Nat /\ nprocs > 0 /\ r \in Nat
  BY ProcsAre
<1>1. f0 \in Handles /\ SameBut(f0, f) /\ ~_H5Part_has_view(f0)
  BY ResetIs DEF SameBut
<1> HIDE DEF f0
<1>2. total \in Nat /\ (HasData(f0.step) => total = Share(f0.step))
  BY <1>1, NumIs
<1> HIDE DEF total
<1>3. /\ share \in Nat /\ (total >= nprocs <=> share >= 1) /\ r * share \in Nat
      /\ SumOver(counts, 0 .. r - 1) = r * share
  BY <1>2, ShareOut
<1> HIDE DEF share
<1>4. counts \in [Procs -> Nat]
  BY <1>3
<1> HIDE DEF counts
<1>5. DOMAIN f0 = HandleFields /\ HandleTypes(f0)
  BY <1>1, HandleHas
<1>6. f1 = [x \in HandleFields |-> f1[x]] /\ f1.pnparticles = counts
  BY <1>5 DEF HandleFields
<1>7. /\ f1.read = f0.read /\ f1.step = f0.step /\ f1.timestep = f0.timestep
      /\ f1.shape = f0.shape /\ f1.throttle = f0.throttle
  BY <1>5 DEF HandleFields
<1>8. /\ f1.nparticles = f0.nparticles /\ f1.disk = f0.disk /\ f1.mem = f0.mem /\ f1.viewstart = f0.viewstart
      /\ f1.viewend = f0.viewend /\ f1.viewindexed = f0.viewindexed
  BY <1>5 DEF HandleFields
<1> HIDE DEF f1
<1>9. HandleTypes(f1)
  BY <1>4, <1>5, <1>6, <1>7, <1>8 DEF HandleTypes
<1>10. f1 \in Handles
  BY <1>6, <1>9, IsHandle
<1> DEFINE start == r * share
           end == start + share - 1
<1>11. g = _set_view(f1, start, end, garbage)
  <2>1. g = _set_view(f1, SumOver(f1.pnparticles, 0 .. r - 1), SumOver(f1.pnparticles, 0 .. r - 1) + share - 1, garbage)
    BY DEF Canonical, f1, counts, share, total, f0
  <2> QED
    BY <1>3, <1>6, <2>1
<1>12. start \in Nat \cup {-1} /\ end \in Nat \cup {-1} /\ start >= 0
  BY <1>3
<1> HIDE DEF start, end
<1> DEFINE again == _H5Part_get_num_particles(_reset_view(f1), garbage)
<1>13. HasData(f1.step) => again = Share(f1.step)
  BY <1>10, ResetIs, NumIs
<1>14. /\ g \in Handles /\ SameBut(g, f1) /\ InStep(g) /\ g.disk.total \in {-1, again}
       /\ again # 0 /\ start >= 0 /\ end >= start
            => g.disk = [total |-> again, sel |-> IndexRange(start, end)]
  BY <1>10, <1>11, <1>12, SetViewIs
<1> HIDE DEF g, again
<1>15. SameBut(g, f) /\ f1.step = f.step /\ f0.step = f.step
  BY <1>1, <1>7, <1>14 DEF SameBut
<1>16. ASSUME HasData(f.step), Share(f.step) >= nprocs
       PROVE  g.disk = [total |-> Share(f.step), sel |-> Shares(Share(f.step) \div nprocs, r)]
  <2>1. again = Share(f.step) /\ total = Share(f.step)
    BY <1>2, <1>13, <1>15, <1>16
  <2>2. share >= 1 /\ again # 0
    BY <1>0, <1>2, <1>3, <1>16, <2>1
  <2>3. start \in Nat /\ end \in Int /\ end >= start
    BY <1>3, <2>2 DEF start, end
  <2>4. g.disk = [total |-> again, sel |-> IndexRange(start, end)]
    BY <1>14, <2>2, <2>3
  <2> QED
    BY <2>1, <2>4 DEF Shares, start, end, share
<1>17. ASSUME HasData(f.step), ~(Share(f.step) >= nprocs) PROVE g.disk.total < nprocs
  BY <1>0, <1>13, <1>14, <1>15, <1>17, ShareIs
<1> QED
  BY <1>14, <1>15, <1>16, <1>17 DEF g

-----------------------------------------------------------------------------
(* What processors have in common                                           *)

\* _H5Part_set_step leaves views alone.
LEMMA HandleStep ==
    ASSUME NEW f \in Handles, NEW s \in Int
    PROVE  LET g == _H5Part_set_step(f, s)
           IN  /\ g \in Handles
               /\ g.read = f.read /\ g.shape = f.shape /\ g.throttle = f.throttle
               /\ g.timestep = s /\ g.step = (IF CanSet(f, s) THEN s ELSE -1)
               /\ g.disk = f.disk /\ g.mem = f.mem /\ g.nparticles = f.nparticles
               /\ g.viewstart = f.viewstart /\ g.viewend = f.viewend /\ g.viewindexed = f.viewindexed
               /\ (InStep(f) => InStep(g))
<1> DEFINE g == _H5Part_set_step(f, s)
<1>1. DOMAIN f = HandleFields /\ HandleTypes(f)
  BY HandleHas
<1>2. g = [x \in HandleFields |-> g[x]]
  BY <1>1 DEF _H5Part_set_step
<1>3. g.read = f.read /\ g.shape = f.shape /\ g.throttle = f.throttle /\ g.pnparticles = f.pnparticles
  BY <1>1 DEF _H5Part_set_step, HandleFields
<1>4. g.timestep = s /\ g.step = (IF CanSet(f, s) THEN s ELSE -1)
  BY <1>1 DEF _H5Part_set_step, HandleFields
<1>5. /\ g.disk = f.disk /\ g.mem = f.mem /\ g.nparticles = f.nparticles
      /\ g.viewstart = f.viewstart /\ g.viewend = f.viewend /\ g.viewindexed = f.viewindexed
  BY <1>1 DEF _H5Part_set_step, HandleFields
<1> HIDE DEF g
<1>6. g.step \in Int
  BY <1>4
<1>7. HandleTypes(g)
  BY <1>1, <1>3, <1>4, <1>5, <1>6 DEF HandleTypes
<1>8. g \in Handles
  BY <1>2, <1>7, IsHandle
<1>9. InStep(f) => InStep(g)
  BY <1>5 DEF InStep
<1> QED
  BY <1>3, <1>4, <1>5, <1>8, <1>9 DEF g

CommonFields == {"read", "step", "timestep", "shape", "throttle", "counts", "turns"}
CommonTypes(g) ==
    /\ g.read \in BOOLEAN /\ g.step \in Int /\ g.timestep \in Int /\ g.shape \in Int
    /\ g.throttle \in Int /\ g.counts \in {Unset} \cup [Procs -> Nat] /\ g.turns \in [Batches -> Nat]

\* What processors have in common, and how to see that something is that.
LEMMA CommonHas == ASSUME NEW g \in Common PROVE DOMAIN g = CommonFields /\ CommonTypes(g)
<1>1. DOMAIN g = CommonFields
  BY DEF Common, CommonFields
<1> QED
  BY <1>1 DEF Common, CommonTypes

LEMMA IsCommon ==
    ASSUME NEW g, g = [x \in CommonFields |-> g[x]], CommonTypes(g)
    PROVE  g \in Common
<1>1. g = [read |-> g.read, step |-> g.step, timestep |-> g.timestep, shape |-> g.shape,
           throttle |-> g.throttle, counts |-> g.counts, turns |-> g.turns]
  BY DEF CommonFields
<1> QED
  BY <1>1 DEF CommonTypes, Common

LEMMA FirstIs == First \in Common
  BY DEF First, Common

\* The same call of _H5Part_set_step on what they have in common.
LEMMA CommonStep ==
    ASSUME NEW f \in Common, NEW s \in Int
    PROVE  LET g == _H5Part_set_step(f, s)
           IN  /\ g \in Common
               /\ g.read = f.read /\ g.shape = f.shape /\ g.throttle = f.throttle
               /\ g.timestep = s /\ g.step = (IF CanSet(f, s) THEN s ELSE -1)
               /\ g.counts = f.counts /\ g.turns = f.turns
<1> DEFINE g == _H5Part_set_step(f, s)
<1>1. DOMAIN f = CommonFields /\ CommonTypes(f)
  BY CommonHas
<1>2. g = [x \in CommonFields |-> g[x]]
  BY <1>1 DEF _H5Part_set_step
<1>3. g.read = f.read /\ g.shape = f.shape /\ g.throttle = f.throttle
  BY <1>1 DEF _H5Part_set_step, CommonFields
<1>4. g.timestep = s /\ g.step = (IF CanSet(f, s) THEN s ELSE -1)
  BY <1>1 DEF _H5Part_set_step, CommonFields
<1>5. g.counts = f.counts /\ g.turns = f.turns
  BY <1>1 DEF _H5Part_set_step, CommonFields
<1> HIDE DEF g
<1>6. g.step \in Int
  BY <1>4
<1>7. CommonTypes(g)
  BY <1>1, <1>3, <1>4, <1>5, <1>6 DEF CommonTypes
<1>8. g \in Common
  BY <1>2, <1>7, IsCommon
<1> QED
  BY <1>3, <1>4, <1>5, <1>8 DEF g

LEMMA CommonWithStep ==
    ASSUME NEW f \in Common, NEW s \in Int
    PROVE  LET g == WithStep(f, s)
           IN  /\ g \in Common
               /\ g.read = f.read /\ g.shape = f.shape /\ g.throttle = f.throttle
               /\ g.counts = f.counts /\ g.turns = f.turns
               /\ g.step = (IF f.step < 0 THEN (IF CanSet(f, s) THEN s ELSE -1) ELSE f.step)
               /\ g.timestep = (IF f.step < 0 THEN s ELSE f.timestep)
  BY CommonStep DEF WithStep

\* One more transfer under the factor.
LEMMA TurnIs ==
    ASSUME NEW x \in Common
    PROVE  LET g == Turn(x)
           IN  /\ g \in Common
               /\ g.read = x.read /\ g.step = x.step /\ g.timestep = x.timestep /\ g.shape = x.shape
               /\ g.throttle = x.throttle /\ g.counts = x.counts
               /\ \A d \in Batches : g.turns[d] = IF d = x.throttle THEN x.turns[d] + 1 ELSE x.turns[d]
<1>1. DOMAIN x = CommonFields /\ CommonTypes(x)
  BY CommonHas
<1>2. CASE x.throttle \notin Batches
  <2>1. Turn(x) = x
    BY <1>2 DEF Turn
  <2> QED
    BY <1>2, <2>1
<1>3. CASE x.throttle \in Batches
  <2> DEFINE d0 == x.throttle
             g == [x EXCEPT !.turns[x.throttle] = @ + 1]
  <2>1. Turn(x) = g
    BY <1>3 DEF Turn
  <2>2. g = [y \in CommonFields |-> g[y]]
    BY <1>1
  <2>3. g.read = x.read /\ g.step = x.step /\ g.timestep = x.timestep
    BY <1>1 DEF CommonFields
  <2>4. g.shape = x.shape /\ g.throttle = x.throttle /\ g.counts = x.counts
    BY <1>1 DEF CommonFields
  <2>5. g.turns = [x.turns EXCEPT ![d0] = @ + 1]
    BY <1>1 DEF CommonFields
  <2>6. x.turns \in [Batches -> Nat] /\ d0 \in Batches
    BY <1>1, <1>3 DEF CommonTypes
  <2> HIDE DEF g, d0
  <2>7. g.turns \in [Batches -> Nat] /\ \A d \in Batches : g.turns[d] = IF d = d0 THEN x.turns[d] + 1 ELSE x.turns[d]
    BY <2>5, <2>6
  <2>8. CommonTypes(g)
    BY <1>1, <2>3, <2>4, <2>7 DEF CommonTypes
  <2>9. g \in Common
    BY <2>2, <2>8, IsCommon
  <2> QED
    BY <2>1, <2>3, <2>4, <2>7, <2>9 DEF d0
<1> QED
  BY <1>2, <1>3

\* Single fields changed.
LEMMA CommonCounts ==
    ASSUME NEW f \in Common, NEW v \in {Unset} \cup [Procs -> Nat]
    PROVE  LET g == [f EXCEPT !.counts = v]
           IN  /\ g \in Common
               /\ g.read = f.read /\ g.step = f.step /\ g.timestep = f.timestep /\ g.shape = f.shape
               /\ g.throttle = f.throttle /\ g.counts = v /\ g.turns = f.turns
<1> DEFINE g == [f EXCEPT !.counts = v]
<1>1. DOMAIN f = CommonFields /\ CommonTypes(f)
  BY CommonHas
<1>2. g = [x \in CommonFields |-> g[x]]
  BY <1>1
<1>3. /\ g.read = f.read /\ g.step = f.step /\ g.timestep = f.timestep /\ g.shape = f.shape
      /\ g.throttle = f.throttle /\ g.counts = v /\ g.turns = f.turns
  BY <1>1 DEF CommonFields
<1> HIDE DEF g
<1>5. CommonTypes(g)
  BY <1>1, <1>3 DEF CommonTypes
<1>6. g \in Common
  BY <1>2, <1>5, IsCommon
<1> QED
  BY <1>3, <1>6 DEF g

Counted(f, n, v) == [f EXCEPT !.shape = n, !.counts = v]

LEMMA CommonShape ==
    ASSUME NEW f \in Common, NEW v \in {Unset} \cup [Procs -> Nat], NEW n \in Int
    PROVE  LET g == Counted(f, n, v)
           IN  /\ g \in Common
               /\ g.read = f.read /\ g.step = f.step /\ g.timestep = f.timestep /\ g.shape = n
               /\ g.throttle = f.throttle /\ g.counts = v /\ g.turns = f.turns
<1> DEFINE g == [f EXCEPT !.shape = n, !.counts = v]
<1>1. DOMAIN f = CommonFields /\ CommonTypes(f)
  BY CommonHas
<1>2. g = [x \in CommonFields |-> g[x]]
  BY <1>1
<1>3. /\ g.read = f.read /\ g.step = f.step /\ g.timestep = f.timestep /\ g.shape = n
      /\ g.throttle = f.throttle /\ g.counts = v /\ g.turns = f.turns
  BY <1>1 DEF CommonFields
<1> HIDE DEF g
<1>5. CommonTypes(g)
  BY <1>1, <1>3 DEF CommonTypes
<1>6. g \in Common
  BY <1>2, <1>5, IsCommon
<1> QED
  BY <1>3, <1>6 DEF g, Counted

LEMMA CommonThrottle ==
    ASSUME NEW f \in Common, NEW v \in Int
    PROVE  LET g == [f EXCEPT !.throttle = v]
           IN  /\ g \in Common
               /\ g.read = f.read /\ g.step = f.step /\ g.timestep = f.timestep /\ g.shape = f.shape
               /\ g.throttle = v /\ g.counts = f.counts /\ g.turns = f.turns
<1> DEFINE g == [f EXCEPT !.throttle = v]
<1>1. DOMAIN f = CommonFields /\ CommonTypes(f)
  BY CommonHas
<1>2. g = [x \in CommonFields |-> g[x]]
  BY <1>1
<1>3. /\ g.read = f.read /\ g.step = f.step /\ g.timestep = f.timestep /\ g.shape = f.shape
      /\ g.throttle = v /\ g.counts = f.counts /\ g.turns = f.turns
  BY <1>1 DEF CommonFields
<1> HIDE DEF g
<1>5. CommonTypes(g)
  BY <1>1, <1>3 DEF CommonTypes
<1>6. g \in Common
  BY <1>2, <1>5, IsCommon
<1> QED
  BY <1>3, <1>6 DEF g

LEMMA CommonReopen ==
    ASSUME NEW f \in Common
    PROVE  LET g == [First EXCEPT !.read = TRUE, !.turns = f.turns]
           IN  /\ g \in Common
               /\ g.read = TRUE /\ g.step = -1 /\ g.timestep = 0 /\ g.shape = -1
               /\ g.throttle = 0 /\ g.counts = Unset /\ g.turns = f.turns
<1> DEFINE g == [First EXCEPT !.read = TRUE, !.turns = f.turns]
<1>1. DOMAIN f = CommonFields /\ CommonTypes(f) /\ DOMAIN First = CommonFields
  BY CommonHas, FirstIs
<1>2. g = [x \in CommonFields |-> g[x]]
  BY <1>1
<1>3. /\ g.read = TRUE /\ g.step = -1 /\ g.timestep = 0 /\ g.shape = -1
      /\ g.throttle = 0 /\ g.counts = Unset /\ g.turns = f.turns
  BY <1>1 DEF CommonFields, First
<1> HIDE DEF g
<1>4. g.read \in BOOLEAN
  BY <1>3, Zenon
<1>5. CommonTypes(g)
  BY <1>1, <1>3, <1>4 DEF CommonTypes
<1>6. g \in Common
  BY <1>2, <1>5, IsCommon
<1> QED
  BY <1>3, <1>6 DEF g

Grown(g, x) == (x.read => g.read) /\ \A d \in Batches : x.turns[d] <= g.turns[d]

\* What each call does to what is common.
LEMMA ThenIs ==
    ASSUME program \in Programs, NEW x \in Common, NEW c, CallTyped(c)
    PROVE  LET g == Then(x, c)
           IN  /\ g \in Common /\ Grown(g, x) /\ (c.op \notin {"write", "read"} => g.turns = x.turns)
               /\ (c.op # "reopen" => g.read = x.read)
               /\ c.op = "step" =>
                     /\ g.timestep = c.arg /\ g.step = (IF CanSet(x, c.arg) THEN c.arg ELSE -1)
                     /\ g.shape = x.shape /\ g.throttle = x.throttle /\ g.counts = x.counts
               /\ c.op \in Viewing =>
                     /\ g.step = (IF x.step < 0 THEN (IF CanSet(x, 0) THEN 0 ELSE -1) ELSE x.step)
                     /\ g.timestep = (IF x.step < 0 THEN 0 ELSE x.timestep)
                     /\ g.shape = x.shape /\ g.throttle = x.throttle /\ g.counts = Unset
<1>0. \A d \in Batches : x.turns[d] \in Nat
  BY CommonHas DEF CommonTypes
<1>1. CASE c.op = "step"
  <2>1. c.arg \in Int
    BY <1>1 DEF CallTyped
  <2>2. Then(x, c) = _H5Part_set_step(x, c.arg)
    BY <1>1 DEF Then, Viewing
  <2> QED
    BY <1>0, <1>1, <2>1, <2>2, CommonStep DEF Grown, Viewing
<1>2. CASE c.op \in Viewing
  <2>1. Then(x, c) = [WithStep(x, 0) EXCEPT !.counts = Unset]
    BY <1>2 DEF Then, Viewing
  <2> DEFINE y == WithStep(x, 0)
  <2>2. /\ y \in Common
        /\ y.read = x.read /\ y.shape = x.shape /\ y.throttle = x.throttle
        /\ y.counts = x.counts /\ y.turns = x.turns
        /\ y.step = (IF x.step < 0 THEN (IF CanSet(x, 0) THEN 0 ELSE -1) ELSE x.step)
        /\ y.timestep = (IF x.step < 0 THEN 0 ELSE x.timestep)
    BY CommonWithStep
  <2> HIDE DEF y
  <2> DEFINE g == [y EXCEPT !.counts = Unset]
  <2>3. /\ g \in Common
        /\ g.read = y.read /\ g.step = y.step /\ g.timestep = y.timestep /\ g.shape = y.shape
        /\ g.throttle = y.throttle /\ g.counts = Unset /\ g.turns = y.turns
    BY <2>2, CommonCounts
  <2>4. Then(x, c) = g
    BY <2>1 DEF y
  <2> HIDE DEF g
  <2> QED
    BY <1>0, <1>2, <2>2, <2>3, <2>4 DEF Grown, Viewing
<1>3. CASE c.op = "reset"
  <2> DEFINE g == [x EXCEPT !.counts = Unset]
  <2>1. Then(x, c) = IF x.read THEN g ELSE x
    BY <1>3 DEF Then, Viewing
  <2>2. g \in Common /\ g.read = x.read /\ g.turns = x.turns
    BY CommonCounts
  <2> HIDE DEF g
  <2> QED
    BY <1>0, <1>3, <2>1, <2>2 DEF Grown, Viewing
<1>4. CASE c.op = "num"
  <2>1. c.arg \in [Procs -> Nat] /\ SumOver(c.arg, Procs) \in Int
    BY <1>4, TotalIs DEF CallTyped
  <2> DEFINE n == SumOver(c.arg, Procs)
             v == c.arg
             g == Counted(x, n, v)
  <2>2. Then(x, c) = g
    BY <1>4 DEF Then, Viewing, Counted
  <2>4. v \in {Unset} \cup [Procs -> Nat] /\ n \in Int
    BY <2>1
  <2> HIDE DEF n, v
  <2>3. g \in Common /\ g.read = x.read /\ g.turns = x.turns
    BY <2>4, CommonShape
  <2> HIDE DEF g
  <2> QED
    BY <1>0, <1>4, <2>2, <2>3 DEF Grown, Viewing
<1>5. CASE c.op = "write"
  <2>1. Then(x, c) = IF Writes(x) THEN Turn(x) ELSE x
    BY <1>5 DEF Then, Viewing
  <2> QED
    BY <1>0, <1>5, <2>1, TurnIs DEF Grown, Viewing
<1>6. CASE c.op = "read"
  <2> DEFINE y == WithStep(x, x.timestep)
  <2>1. Then(x, c) = IF Reads(x, c.arg) THEN Turn(y) ELSE y
    BY <1>6 DEF Then, Viewing
  <2>2. x.timestep \in Int
    BY CommonHas DEF CommonTypes
  <2>3. y \in Common /\ y.read = x.read /\ y.turns = x.turns
    BY <2>2, CommonWithStep
  <2> HIDE DEF y
  <2> QED
    BY <1>0, <1>6, <2>1, <2>3, TurnIs DEF Grown, Viewing
<1>7. CASE c.op = "throttle"
  <2> DEFINE g == [x EXCEPT !.throttle = c.arg]
  <2>1. Then(x, c) = IF program.independent THEN g ELSE x
    BY <1>7 DEF Then, Viewing
  <2>2. g \in Common /\ g.read = x.read /\ g.turns = x.turns
    BY <1>7, CommonThrottle DEF CallTyped
  <2> HIDE DEF g
  <2> QED
    BY <1>0, <1>7, <2>1, <2>2, CallsAre DEF Grown, Viewing
<1>8. CASE c.op = "reopen"
  <2> DEFINE g == [First EXCEPT !.read = TRUE, !.turns = x.turns]
  <2>1. Then(x, c) = g
    BY <1>8 DEF Then, Viewing
  <2>2. g \in Common /\ g.read = TRUE /\ g.turns = x.turns
    BY CommonReopen
  <2> HIDE DEF g
  <2> QED
    BY <1>0, <1>8, <2>1, <2>2 DEF Grown, Viewing
<1>9. c.op \in Ops
  BY DEF CallTyped
<1> QED
  BY <1>1, <1>2, <1>3, <1>4, <1>5, <1>6, <1>7, <1>8, <1>9 DEF Ops, Viewing

\* Each call, on what the processors have in common.
LEMMA ThenReset ==
    ASSUME NEW x \in Common, NEW c, c.op = "reset"
    PROVE  LET g == Then(x, c)
           IN  /\ g.step = x.step /\ g.timestep = x.timestep /\ g.shape = x.shape /\ g.throttle = x.throttle
               /\ g.counts = IF x.read THEN Unset ELSE x.counts
<1> DEFINE g == [x EXCEPT !.counts = Unset]
<1>1. Then(x, c) = IF x.read THEN g ELSE x
  BY DEF Then, Viewing
<1>2. /\ g.step = x.step /\ g.timestep = x.timestep /\ g.shape = x.shape
      /\ g.throttle = x.throttle /\ g.counts = Unset
  BY CommonCounts
<1> HIDE DEF g
<1> QED
  BY <1>1, <1>2

LEMMA ThenNum ==
    ASSUME NEW x \in Common, NEW c, CallTyped(c), c.op = "num"
    PROVE  LET g == Then(x, c)
           IN  /\ g.step = x.step /\ g.timestep = x.timestep /\ g.throttle = x.throttle
               /\ g.shape = SumOver(c.arg, Procs) /\ g.counts = c.arg
               /\ c.arg \in [Procs -> Nat] /\ c.arg # Unset
<1>1. c.arg \in [Procs -> Nat] /\ SumOver(c.arg, Procs) \in Int
  BY TotalIs DEF CallTyped
<1>2. c.arg # Unset
  <2>1. DOMAIN c.arg = Procs /\ 0 \in Procs /\ DOMAIN Unset = {}
    BY <1>1, ProcsAre DEF Unset
  <2> QED
    BY <2>1
<1> DEFINE n == SumOver(c.arg, Procs)
           v == c.arg
           g == Counted(x, n, v)
<1>3. Then(x, c) = g
  BY DEF Then, Viewing, Counted
<1>4. v \in {Unset} \cup [Procs -> Nat] /\ n \in Int
  BY <1>1
<1> HIDE DEF n, v
<1>5. /\ g.step = x.step /\ g.timestep = x.timestep /\ g.throttle = x.throttle
      /\ g.shape = n /\ g.counts = v
  BY <1>4, CommonShape
<1> HIDE DEF g
<1> QED
  BY <1>1, <1>2, <1>3, <1>5 DEF n, v

LEMMA ThenWrite ==
    ASSUME NEW x \in Common, NEW c, c.op = "write"
    PROVE  LET g == Then(x, c)
           IN  /\ g.step = x.step /\ g.timestep = x.timestep /\ g.shape = x.shape
               /\ g.throttle = x.throttle /\ g.counts = x.counts
               /\ \A d \in Batches : g.turns[d] = IF Writes(x) /\ d = x.throttle THEN x.turns[d] + 1 ELSE x.turns[d]
<1>1. Then(x, c) = IF Writes(x) THEN Turn(x) ELSE x
  BY DEF Then, Viewing
<1> QED
  BY <1>1, TurnIs

LEMMA ThenRead ==
    ASSUME NEW x \in Common, NEW c, c.op = "read"
    PROVE  LET g == Then(x, c)
           IN  /\ g.step = (IF x.step < 0 THEN (IF CanSet(x, x.timestep) THEN x.timestep ELSE -1) ELSE x.step)
               /\ g.timestep = x.timestep
               /\ g.shape = x.shape /\ g.throttle = x.throttle /\ g.counts = x.counts
               /\ \A d \in Batches : g.turns[d] = IF Reads(x, c.arg) /\ d = x.throttle THEN x.turns[d] + 1 ELSE x.turns[d]
<1> DEFINE y == WithStep(x, x.timestep)
<1>1. Then(x, c) = IF Reads(x, c.arg) THEN Turn(y) ELSE y
  BY DEF Then, Viewing
<1>2. x.timestep \in Int
  BY CommonHas DEF CommonTypes
<1>3. /\ y \in Common /\ y.shape = x.shape /\ y.throttle = x.throttle /\ y.counts = x.counts /\ y.turns = x.turns
      /\ y.step = (IF x.step < 0 THEN (IF CanSet(x, x.timestep) THEN x.timestep ELSE -1) ELSE x.step)
      /\ y.timestep = x.timestep
  BY <1>2, CommonWithStep
<1> HIDE DEF y
<1> QED
  BY <1>1, <1>3, TurnIs

LEMMA ThenThrottle ==
    ASSUME NEW x \in Common, NEW c, CallTyped(c), c.op = "throttle"
    PROVE  LET g == Then(x, c)
           IN  /\ g.step = x.step /\ g.timestep = x.timestep /\ g.shape = x.shape /\ g.counts = x.counts
               /\ g.throttle = IF program.independent THEN c.arg ELSE x.throttle
<1> DEFINE g == [x EXCEPT !.throttle = c.arg]
<1>1. Then(x, c) = IF program.independent THEN g ELSE x
  BY DEF Then, Viewing
<1>2. /\ g.step = x.step /\ g.timestep = x.timestep /\ g.shape = x.shape /\ g.counts = x.counts
      /\ g.throttle = c.arg
  BY CommonThrottle DEF CallTyped
<1> HIDE DEF g
<1> QED
  BY <1>1, <1>2

LEMMA ThenReopen ==
    ASSUME NEW x \in Common, NEW c, c.op = "reopen"
    PROVE  LET g == Then(x, c)
           IN  /\ g.read = TRUE /\ g.step = -1 /\ g.timestep = 0 /\ g.shape = -1 /\ g.throttle = 0
               /\ g.counts = Unset
<1> DEFINE g == [First EXCEPT !.read = TRUE, !.turns = x.turns]
<1>1. Then(x, c) = g
  BY DEF Then, Viewing
<1>2. /\ g.read = TRUE /\ g.step = -1 /\ g.timestep = 0 /\ g.shape = -1 /\ g.throttle = 0
      /\ g.counts = Unset
  BY CommonReopen
<1> HIDE DEF g
<1> QED
  BY <1>1, <1>2

-----------------------------------------------------------------------------
(* The calls so far                                                         *)

\* The last call of a kind, one call later.
LEMMA LastOfNext ==
    ASSUME NEW ops, NEW k \in Nat
    PROVE  /\ Op(k + 1) \in ops => k + 1 \in LastOf(ops, k + 2)
           /\ Op(k + 1) \notin ops => LastOf(ops, k + 1) \subseteq LastOf(ops, k + 2)
<1>1. k + 2 - 1 = k + 1 /\ (k + 1) + 1 .. k + 1 = {}
  OBVIOUS
<1>2. ASSUME Op(k + 1) \in ops PROVE k + 1 \in LastOf(ops, k + 2)
  BY <1>1, <1>2 DEF LastOf
<1>3. ASSUME Op(k + 1) \notin ops, NEW b \in LastOf(ops, k + 1) PROVE b \in LastOf(ops, k + 2)
  <2>1. b \in 1 .. k /\ Op(b) \in ops /\ \A e \in b + 1 .. k : Op(e) \notin ops
    BY <1>3 DEF LastOf
  <2>2. \A e \in b + 1 .. k + 1 : Op(e) \notin ops
    BY <1>3, <2>1
  <2> QED
    BY <1>1, <2>1, <2>2 DEF LastOf
<1> QED
  BY <1>2, <1>3

\* A program that writes once goes on to ask for its steps and to set its counts.
LEMMA AskedNext ==
    ASSUME program \in Programs, WritesOnce, NEW m \in Nat, m < Len(Calls), NEW x \in Common,
           AskedAt(x, m), (\E b \in 1 .. m : Op(b) = "reopen") => x.read
    PROVE  AskedAt(Then(x, Calls[m + 1]), m + 1)
<1> DEFINE c == Calls[m + 1]
           y == Then(x, c)
<1>1. m + 1 \in DOMAIN Calls /\ CallTyped(c) /\ c.op = Op(m + 1) /\ c.op \in Ops
  BY CallsAre DEF Op, CallTyped
<1> HIDE DEF c
<1>2. y \in Common /\ (x.read => y.read) /\ (c.op = "reopen" => y.read)
  BY <1>1, ThenIs, ThenReopen DEF Grown
<1> SUFFICES ASSUME ~y.read
             PROVE  /\ y.step >= 0 => \E b \in LastOf({"step"}, m + 2) : Calls[b].arg = y.step
                    /\ (\E b \in 1 .. m + 1 : Op(b) = "step") => y.step >= 0
                    /\ y.shape # -1 => \E b \in LastOf(Viewing \cup {"num"}, m + 2) : Op(b) = "num" => y.counts # Unset
  <2>1. (m + 1) + 1 = m + 2
    OBVIOUS
  <2> HIDE DEF y
  <2> QED
    BY <2>1 DEF AskedAt, c, y
<1>3. ~x.read /\ c.op # "reopen" /\ x.step \in Int /\ \A s : CanSet(x, s)
  BY <1>2, CommonHas DEF CanSet, CommonTypes
<1>4. ~ \E b \in 1 .. m : Op(b) = "reopen"
  BY <1>3
<1>5. /\ x.step >= 0 => \E b \in LastOf({"step"}, m + 1) : Calls[b].arg = x.step
      /\ (\E b \in 1 .. m : Op(b) = "step") => x.step >= 0
      /\ x.shape # -1 => \E b \in LastOf(Viewing \cup {"num"}, m + 1) : Op(b) = "num" => x.counts # Unset
  BY <1>3 DEF AskedAt
<1>6. c.op \in Viewing \cup {"read"} => x.step >= 0
  <2> SUFFICES ASSUME c.op \in Viewing \cup {"read"} PROVE x.step >= 0
    OBVIOUS
  <2>1. PICK b \in 1 .. (m + 1) - 1 : Op(b) \in {"step", "reopen"}
    BY <1>1 DEF WritesOnce, StepsOnce
  <2>2. b \in 1 .. m
    OBVIOUS
  <2> QED
    BY <1>4, <1>5, <2>1, <2>2
<1>7. /\ c.op # "step" => y.step = x.step
      /\ c.op = "step" => y.step = c.arg /\ c.arg \in Nat
  <2>1. c.op \in Viewing \cup {"read"} => y.step = x.step
    BY <1>1, <1>6, <1>3, ThenIs, ThenRead
  <2>2. c.op \in {"reset", "num", "write", "throttle"} => y.step = x.step
    BY <1>1, ThenReset, ThenNum, ThenWrite, ThenThrottle
  <2>3. c.op = "step" => y.step = c.arg /\ c.arg \in Nat
    BY <1>1, <1>3, ThenIs DEF CallTyped
  <2> HIDE DEF y
  <2> QED
    BY <1>1, <1>3, <2>1, <2>2, <2>3 DEF Ops, Viewing
<1>8. /\ c.op = "num" => y.counts # Unset
      /\ c.op \notin Viewing \cup {"num"} => y.shape = x.shape /\ y.counts = x.counts
  <2>1. c.op = "num" => y.counts # Unset
    BY <1>1, ThenNum
  <2>2. c.op \in {"step", "read"} => y.shape = x.shape /\ y.counts = x.counts
    BY <1>1, ThenIs, ThenRead
  <2>3. c.op \in {"reset", "write", "throttle"} => y.shape = x.shape /\ y.counts = x.counts
    BY <1>1, <1>3, ThenReset, ThenWrite, ThenThrottle
  <2> HIDE DEF y
  <2> QED
    BY <1>1, <1>3, <2>1, <2>2, <2>3 DEF Ops, Viewing
<1> HIDE DEF y
<1>9. y.step >= 0 => \E b \in LastOf({"step"}, m + 2) : Calls[b].arg = y.step
  <2>1. CASE c.op = "step"
    <3>1. m + 1 \in LastOf({"step"}, m + 2) /\ Calls[m + 1].arg = y.step
      BY <1>1, <1>7, <2>1, LastOfNext DEF c
    <3> QED
      BY <3>1
  <2>2. CASE c.op # "step"
    <3>1. LastOf({"step"}, m + 1) \subseteq LastOf({"step"}, m + 2)
      BY <1>1, <2>2, LastOfNext
    <3> QED
      BY <1>5, <1>7, <2>2, <3>1
  <2> QED
    BY <2>1, <2>2
<1>10. ASSUME NEW b \in 1 .. m + 1, Op(b) = "step" PROVE y.step >= 0
  <2>1. CASE c.op = "step"
    BY <1>7, <2>1
  <2>2. CASE c.op # "step"
    <3>1. b \in 1 .. m
      BY <1>1, <1>10, <2>2
    <3> QED
      BY <1>5, <1>7, <1>10, <2>2, <3>1
  <2> QED
    BY <2>1, <2>2
<1>11. y.shape # -1 => \E b \in LastOf(Viewing \cup {"num"}, m + 2) : Op(b) = "num" => y.counts # Unset
  <2> DEFINE V == Viewing \cup {"num"}
  <2>1. CASE c.op \in V
    <3>1. m + 1 \in LastOf(V, m + 2)
      BY <1>1, <2>1, LastOfNext
    <3>2. Op(m + 1) = "num" => y.counts # Unset
      BY <1>1, <1>8
    <3> QED
      BY <3>1, <3>2
  <2>2. CASE c.op \notin V
    <3>1. LastOf(V, m + 1) \subseteq LastOf(V, m + 2)
      BY <1>1, <2>2, LastOfNext
    <3> QED
      BY <1>5, <1>8, <2>2, <3>1
  <2> QED
    BY <2>1, <2>2
<1> QED
  BY <1>9, <1>10, <1>11

\* Each call follows the one before.
LEMMA CourseHas ==
    ASSUME NEW m, NEW t, Course(m, t), program \in Programs
    PROVE  /\ m \in Nat /\ m <= Len(Calls) /\ (\A k \in 0 .. m : t[k] \in Common)
           /\ \A k \in 0 .. m - 1 : /\ CallTyped(Calls[k + 1]) /\ Calls[k + 1].op = Op(k + 1)
                                    /\ k + 1 \in DOMAIN Calls /\ t[k + 1] = Then(t[k], Calls[k + 1])
  BY CallsAre DEF Course, Op

\* After the file was opened again it is read.
LEMMA Reopened ==
    ASSUME NEW m, NEW t, Course(m, t), Onward(m, t), program \in Programs,
           NEW k \in 0 .. m, NEW b \in 1 .. k, Op(b) = "reopen"
    PROVE  t[k].read
<1> DEFINE j == b - 1
<1>0. m \in Nat
  BY CourseHas
<1>1. j \in 0 .. m - 1 /\ b = j + 1 /\ b \in 0 .. m /\ b <= k
  BY <1>0
<1>2. t[b] = Then(t[j], Calls[b]) /\ t[j] \in Common /\ Calls[b].op = "reopen"
  BY <1>0, <1>1, CourseHas
<1> HIDE DEF j
<1>3. t[b].read = TRUE
  BY <1>2, ThenReopen
<1> QED
  BY <1>1, <1>3 DEF Onward

\* A call nobody has finished can be added to the course.
LEMMA Extend ==
    ASSUME NEW m, NEW t, Good(m, t), NEW r \in Procs, Done(r) < Len(Calls)
    PROVE  \E n, u : Good(n, u) /\ Done(r) < n
<1>1. /\ program \in Programs /\ Course(m, t) /\ Onward(m, t) /\ Sources(m, t) /\ Shape
      /\ \A q \in Procs : AtCall(q) /\ Matches(q, m, t) /\ Bounds(q) /\ Owns(q, t) /\ Divided(q)
      /\ Closed /\ Created(m, t)
      /\ ReadsWhatIsClosed => Turns(t) /\ \A q \in Procs : ReadIsRight(q)
      /\ WritesOnce => AskedFor(m, t) /\ Authored(m, t)
  BY DEF Good, Shape
<1>2. /\ m \in Nat /\ m <= Len(Calls) /\ Len(Calls) \in Nat
      /\ \A q \in Procs : Done(q) \in Nat /\ Done(q) <= m /\ h[q].n \in Nat /\ h[q].n <= Done(q)
  BY <1>1, CourseHas, CallsAre DEF Matches, Shape, Slots, Done
<1>3. CASE Done(r) < m
  BY <1>3
<1>4. CASE Done(r) = m
  <2> DEFINE c == Calls[m + 1]
             y == Then(t[m], c)
             u == [k \in 0 .. m + 1 |-> IF k <= m THEN t[k] ELSE y]
  <2>1. m + 1 \in 1 .. Len(Calls) /\ CallTyped(c) /\ t[m] \in Common
    BY <1>1, <1>2, <1>4, CallsAre, CourseHas
  <2> HIDE DEF c
  <2>2. y \in Common /\ Grown(y, t[m])
    BY <1>1, <2>1, ThenIs
  <2> HIDE DEF y
  <2>3. /\ \A k \in 0 .. m : u[k] = t[k] /\ k \in 0 .. m + 1
        /\ u[m + 1] = y /\ DOMAIN u = 0 .. m + 1
    BY <1>2
  <2>4. u \in [0 .. m + 1 -> Common]
    <3>1. \A k \in 0 .. m + 1 : (IF k <= m THEN t[k] ELSE y) \in Common
      BY <1>1, <1>2, <2>2, CourseHas
    <3> QED
      BY <3>1
  <2> HIDE DEF u
  <2>5. Course(m + 1, u)
    <3>1. u[0] = First
      BY <1>1, <1>2, <2>3 DEF Course
    <3>2. ASSUME NEW k \in 0 .. (m + 1) - 1 PROVE u[k + 1] = Then(u[k], Calls[k + 1])
      <4>1. CASE k = m
        BY <1>2, <2>3, <4>1 DEF y, c
      <4>2. CASE k # m
        <5>1. k \in 0 .. m - 1 /\ k \in 0 .. m /\ k + 1 \in 0 .. m
          BY <1>2, <4>2
        <5>2. t[k + 1] = Then(t[k], Calls[k + 1])
          BY <1>1, <5>1 DEF Course
        <5> QED
          BY <2>3, <5>1, <5>2
      <4> QED
        BY <4>1, <4>2
    <3>3. m + 1 \in 0 .. Len(Calls)
      BY <1>2, <2>1
    <3> QED
      BY <2>4, <3>1, <3>2, <3>3 DEF Course
  <2>6. Onward(m + 1, u)
    <3> SUFFICES ASSUME NEW j \in 0 .. m + 1, NEW k \in 0 .. m + 1, j <= k
                 PROVE  (u[j].read => u[k].read) /\ \A d \in Batches : u[j].turns[d] <= u[k].turns[d]
      BY DEF Onward
    <3>0. \A d \in Batches : t[m].turns[d] \in Nat /\ y.turns[d] \in Nat
      BY <2>1, <2>2, CommonHas DEF CommonTypes
    <3>1. CASE k <= m
      <4>1. j \in 0 .. m /\ k \in 0 .. m
        BY <1>2, <3>1
      <4>2. (t[j].read => t[k].read) /\ \A d \in Batches : t[j].turns[d] <= t[k].turns[d]
        BY <1>1, <4>1 DEF Onward
      <4> QED
        BY <2>3, <4>1, <4>2
    <3>2. CASE k = m + 1 /\ j <= m
      <4>1. j \in 0 .. m /\ m \in 0 .. m
        BY <1>2, <3>2
      <4>2. (t[j].read => t[m].read) /\ \A d \in Batches : t[j].turns[d] <= t[m].turns[d]
        BY <1>1, <1>2, <4>1 DEF Onward
      <4>3. \A d \in Batches : t[j].turns[d] \in Nat
        BY <1>1, <4>1, CourseHas, CommonHas DEF CommonTypes
      <4>4. u[j].read => u[k].read
        BY <2>2, <2>3, <3>2, <4>1, <4>2 DEF Grown
      <4>5. ASSUME NEW d \in Batches PROVE u[j].turns[d] <= u[k].turns[d]
        <5>1. t[j].turns[d] <= t[m].turns[d] /\ t[m].turns[d] <= y.turns[d]
          BY <2>2, <4>2 DEF Grown
        <5>2. t[j].turns[d] <= y.turns[d]
          BY <3>0, <4>3, <5>1
        <5> QED
          BY <2>3, <3>2, <4>1, <5>2
      <4> QED
        BY <4>4, <4>5
    <3>3. CASE k = m + 1 /\ j = m + 1
      BY <2>3, <3>0, <3>3
    <3> QED
      BY <1>2, <3>1, <3>2, <3>3
  <2>7. Sources(m + 1, u)
    <3> SUFFICES ASSUME NEW k \in 0 .. (m + 1) - 1, u[k].read PROVE \E q \in Procs : h[q].f.read
      BY DEF Sources
    <3>1. CASE k < m
      <4>1. k \in 0 .. m - 1 /\ t[k].read
        BY <1>2, <2>3, <3>1
      <4> QED
        BY <1>1, <4>1 DEF Sources
    <3>2. CASE k = m
      <4>1. t[m].read /\ h[r].f.read = t[m].read
        BY <1>1, <1>2, <1>4, <2>3, <3>2 DEF Matches
      <4> QED
        BY <4>1
    <3> QED
      BY <1>2, <3>1, <3>2
  <2>8. ASSUME NEW q \in Procs PROVE Matches(q, m + 1, u) /\ Owns(q, u)
    <3>1. Done(q) \in 0 .. m /\ h[q].n \in 0 .. m
      BY <1>2
    <3>2. u[Done(q)] = t[Done(q)] /\ u[h[q].n] = t[h[q].n]
      BY <2>3, <3>1
    <3>3. Matches(q, m + 1, u)
      BY <1>1, <1>2, <3>1, <3>2 DEF Matches
    <3>4. Owns(q, u)
      BY <1>1, <3>2 DEF Owns
    <3> QED
      BY <3>3, <3>4
  <2>9. Created(m + 1, u)
    <3> SUFFICES ASSUME NEW q \in Procs, NEW k \in 0 .. (m + 1) - 1, k < Done(q),
                        Op(k + 1) = "write", Writes(u[k])
                 PROVE  <<u[k].step, Calls[k + 1].arg>> \in DOMAIN file
      BY DEF Created
    <3>1. k \in 0 .. m - 1 /\ u[k] = t[k]
      BY <1>2, <2>3
    <3> QED
      BY <1>1, <3>1 DEF Created
  <2>10. ASSUME ReadsWhatIsClosed PROVE Turns(u)
    <3> SUFFICES ASSUME NEW a \in Procs, NEW b \in Procs, NEW d \in Batches, b = a + d
                 PROVE  Begun(b, d, u) + tokens[<<a, b>>] <= u[h[a].n].turns[d]
      BY DEF Turns
    <3>1. h[a].n \in 0 .. m /\ h[b].n \in 0 .. m /\ Done(b) \in 0 .. m
      BY <1>2
    <3>2. u[h[a].n] = t[h[a].n] /\ Begun(b, d, u) = Begun(b, d, t)
      BY <2>3, <3>1 DEF Begun
    <3>3. Begun(b, d, t) + tokens[<<a, b>>] <= t[h[a].n].turns[d]
      BY <1>1, <2>10 DEF Turns
    <3> QED
      BY <3>2, <3>3
  <2>11. ASSUME WritesOnce PROVE AskedFor(m + 1, u)
    <3> SUFFICES ASSUME NEW k \in 0 .. m + 1 PROVE AskedAt(u[k], k)
      BY DEF AskedFor
    <3>1. CASE k <= m
      BY <1>1, <1>2, <2>3, <2>11, <3>1 DEF AskedFor
    <3>2. CASE k = m + 1
      <4>1. m \in 0 .. m /\ AskedAt(t[m], m)
        BY <1>1, <1>2, <2>11 DEF AskedFor
      <4>2. (\E b \in 1 .. m : Op(b) = "reopen") => t[m].read
        BY <1>1, <4>1, Reopened
      <4>3. AskedAt(Then(t[m], Calls[m + 1]), m + 1)
        BY <1>1, <1>2, <1>4, <2>1, <2>11, <4>1, <4>2, AskedNext
      <4> QED
        BY <2>3, <3>2, <4>3 DEF y, c
    <3> QED
      BY <1>2, <3>1, <3>2
  <2>12. ASSUME WritesOnce PROVE Authored(m + 1, u)
    <3> SUFFICES ASSUME NEW key \in DOMAIN file
                 PROVE  \E k \in 0 .. (m + 1) - 1 :
                           /\ Op(k + 1) = "write" /\ Writes(u[k]) /\ key = <<u[k].step, Calls[k + 1].arg>>
                           /\ Len(file[key]) = u[k].shape
                           /\ faults = MaxFaults => \A q \in Procs : Behind(q, k) => InPlace(key, u[k].counts, q)
      BY DEF Authored
    <3>1. PICK k \in 0 .. m - 1 :
             /\ Op(k + 1) = "write" /\ Writes(t[k]) /\ key = <<t[k].step, Calls[k + 1].arg>>
             /\ Len(file[key]) = t[k].shape
             /\ faults = MaxFaults => \A q \in Procs : Behind(q, k) => InPlace(key, t[k].counts, q)
      BY <1>1, <2>12 DEF Authored
    <3>2. u[k] = t[k] /\ k \in 0 .. (m + 1) - 1
      BY <1>2, <2>3
    <3> QED
      BY <3>1, <3>2
  <2>13. Good(m + 1, u)
    BY <1>1, <2>5, <2>6, <2>7, <2>8, <2>9, <2>10, <2>11, <2>12 DEF Good
  <2> QED
    BY <1>2, <1>4, <2>13
<1> QED
  BY <1>2, <1>3, <1>4

-----------------------------------------------------------------------------
(* How one processor moves                                                  *)

SlotFields == {"n", "pc", "f", "ret", "failed", "held", "got"}
SlotTypes(g) ==
    /\ g.n \in Nat /\ g.pc \in Pcs /\ g.f \in Handles /\ g.ret \in {"ok", "error"}
    /\ g.failed \in BOOLEAN /\ g.held \in BOOLEAN /\ g.got \in Seq(Cells)

\* What a processor keeps, and how to see that something is that.
LEMMA SlotHas == ASSUME NEW g \in Slots PROVE DOMAIN g = SlotFields /\ SlotTypes(g)
<1>1. DOMAIN g = SlotFields
  BY DEF Slots, SlotFields
<1> QED
  BY <1>1 DEF Slots, SlotTypes

LEMMA IsSlot ==
    ASSUME NEW g, g = [x \in SlotFields |-> g[x]], SlotTypes(g)
    PROVE  g \in Slots
<1>1. g = [n |-> g.n, pc |-> g.pc, f |-> g.f, ret |-> g.ret, failed |-> g.failed, held |-> g.held, got |-> g.got]
  BY DEF SlotFields
<1> QED
  BY <1>1 DEF SlotTypes, Slots

\* Only the processor r moves.
Moves(r) ==
    /\ h' = [q \in Procs |-> h'[q]] /\ h'[r] = [x \in SlotFields |-> h'[r][x]]
    /\ \A q \in Procs : q # r => h'[q] = h[q]

\* One processor moves and the others stay what they are.
LEMMA StillSlots ==
    ASSUME h \in [Procs -> Slots], NEW r \in Procs, Moves(r), SlotTypes(h'[r])
    PROVE  h' \in [Procs -> Slots]
<1>1. h'[r] \in Slots
  BY IsSlot DEF Moves
<1>2. \A q \in Procs : h'[q] \in Slots
  BY <1>1 DEF Moves
<1> QED
  BY <1>2 DEF Moves

\* The ways in which one processor moves.
LEMMA ReturnIs ==
    ASSUME h \in [Procs -> Slots], NEW r \in Procs, NEW f, NEW ret, Return(r, f, ret)
    PROVE  /\ Moves(r)
           /\ h'[r].n = h[r].n + 1 /\ h'[r].pc = "idle" /\ h'[r].f = f /\ h'[r].ret = ret
           /\ h'[r].failed = h[r].failed /\ h'[r].held = h[r].held /\ h'[r].got = h[r].got
<1>1. DOMAIN h = Procs /\ DOMAIN h[r] = SlotFields
  BY SlotHas
<1>2. h' = [h EXCEPT ![r].f = f, ![r].ret = ret, ![r].pc = "idle", ![r].n = @ + 1]
  BY DEF Return
<1>3. h' = [q \in Procs |-> h'[q]] /\ \A q \in Procs : q # r => h'[q] = h[q]
  BY <1>1, <1>2
<1>4. h'[r] = [h[r] EXCEPT !.f = f, !.ret = ret, !.pc = "idle", !.n = @ + 1]
  BY <1>1, <1>2
<1>5. h'[r] = [x \in SlotFields |-> h'[r][x]]
  BY <1>1, <1>4
<1>6. /\ h'[r].n = h[r].n + 1 /\ h'[r].pc = "idle" /\ h'[r].f = f /\ h'[r].ret = ret
  BY <1>1, <1>4 DEF SlotFields
<1>7. /\ h'[r].failed = h[r].failed /\ h'[r].held = h[r].held /\ h'[r].got = h[r].got
  BY <1>1, <1>4 DEF SlotFields
<1> QED
  BY <1>3, <1>5, <1>6, <1>7 DEF Moves

LEMMA PcIs ==
    ASSUME h \in [Procs -> Slots], NEW r \in Procs, NEW pc, h' = [h EXCEPT ![r].pc = pc]
    PROVE  /\ Moves(r)
           /\ h'[r].n = h[r].n /\ h'[r].pc = pc /\ h'[r].f = h[r].f /\ h'[r].ret = h[r].ret
           /\ h'[r].failed = h[r].failed /\ h'[r].held = h[r].held /\ h'[r].got = h[r].got
<1>1. DOMAIN h = Procs /\ DOMAIN h[r] = SlotFields
  BY SlotHas
<1>3. h' = [q \in Procs |-> h'[q]] /\ \A q \in Procs : q # r => h'[q] = h[q]
  BY <1>1
<1>4. h'[r] = [h[r] EXCEPT !.pc = pc]
  BY <1>1
<1>5. h'[r] = [x \in SlotFields |-> h'[r][x]]
  BY <1>1, <1>4
<1>6. /\ h'[r].n = h[r].n /\ h'[r].pc = pc /\ h'[r].f = h[r].f /\ h'[r].ret = h[r].ret
      /\ h'[r].failed = h[r].failed /\ h'[r].held = h[r].held /\ h'[r].got = h[r].got
  BY <1>1, <1>4 DEF SlotFields
<1> QED
  BY <1>3, <1>5, <1>6 DEF Moves

LEMMA PcAndHandleIs ==
    ASSUME h \in [Procs -> Slots], NEW r \in Procs, NEW pc, NEW f, h' = [h EXCEPT ![r].pc = pc, ![r].f = f]
    PROVE  /\ Moves(r)
           /\ h'[r].n = h[r].n /\ h'[r].pc = pc /\ h'[r].f = f /\ h'[r].ret = h[r].ret
           /\ h'[r].failed = h[r].failed /\ h'[r].held = h[r].held /\ h'[r].got = h[r].got
<1>1. DOMAIN h = Procs /\ DOMAIN h[r] = SlotFields
  BY SlotHas
<1>3. h' = [q \in Procs |-> h'[q]] /\ \A q \in Procs : q # r => h'[q] = h[q]
  BY <1>1
<1>4. h'[r] = [h[r] EXCEPT !.pc = pc, !.f = f]
  BY <1>1
<1>5. h'[r] = [x \in SlotFields |-> h'[r][x]]
  BY <1>1, <1>4
<1>6. /\ h'[r].n = h[r].n /\ h'[r].pc = pc /\ h'[r].f = f /\ h'[r].ret = h[r].ret
      /\ h'[r].failed = h[r].failed /\ h'[r].held = h[r].held /\ h'[r].got = h[r].got
  BY <1>1, <1>4 DEF SlotFields
<1> QED
  BY <1>3, <1>5, <1>6 DEF Moves

\* How a transfer ends, for better or worse.
WrittenWell(r) == h' = [h EXCEPT ![r].pc = "end", ![r].failed = FALSE]
WrittenBadly(r) == h' = [h EXCEPT ![r].pc = "end", ![r].failed = TRUE]
ReadWell(r, got) == h' = [h EXCEPT ![r].pc = "end", ![r].failed = FALSE, ![r].got = got]
ReadBadly(r) ==
    h' = [h EXCEPT ![r].pc = "idle", ![r].failed = TRUE, ![r].ret = "error",
                   ![r].held = @ \/ (h[r].f.throttle > 0 /\ r + h[r].f.throttle < nprocs),
                   ![r].got = <<>>, ![r].n = @ + 1]

LEMMA WrittenIs ==
    ASSUME h \in [Procs -> Slots], NEW r \in Procs, WrittenWell(r) \/ WrittenBadly(r)
    PROVE  /\ Moves(r)
           /\ h'[r].n = h[r].n /\ h'[r].pc = "end" /\ h'[r].f = h[r].f /\ h'[r].ret = h[r].ret
           /\ h'[r].failed \in BOOLEAN /\ h'[r].held = h[r].held /\ h'[r].got = h[r].got
<1>1. DOMAIN h = Procs /\ DOMAIN h[r] = SlotFields
  BY SlotHas
<1> SUFFICES ASSUME NEW b \in BOOLEAN, h' = [h EXCEPT ![r].pc = "end", ![r].failed = b]
             PROVE  /\ Moves(r)
                    /\ h'[r].n = h[r].n /\ h'[r].pc = "end" /\ h'[r].f = h[r].f /\ h'[r].ret = h[r].ret
                    /\ h'[r].failed \in BOOLEAN /\ h'[r].held = h[r].held /\ h'[r].got = h[r].got
  BY DEF WrittenWell, WrittenBadly
<1>2. h' = [q \in Procs |-> h'[q]] /\ \A q \in Procs : q # r => h'[q] = h[q]
  BY <1>1
<1>3. h'[r] = [h[r] EXCEPT !.pc = "end", !.failed = b]
  BY <1>1
<1>4. h'[r] = [x \in SlotFields |-> h'[r][x]]
  BY <1>1, <1>3
<1>5. /\ h'[r].n = h[r].n /\ h'[r].pc = "end" /\ h'[r].f = h[r].f /\ h'[r].ret = h[r].ret
      /\ h'[r].failed = b /\ h'[r].held = h[r].held /\ h'[r].got = h[r].got
  BY <1>1, <1>3 DEF SlotFields
<1> QED
  BY <1>2, <1>4, <1>5 DEF Moves

LEMMA ReadIs ==
    ASSUME h \in [Procs -> Slots], NEW r \in Procs, NEW got, ReadWell(r, got)
    PROVE  /\ Moves(r)
           /\ h'[r].n = h[r].n /\ h'[r].pc = "end" /\ h'[r].f = h[r].f /\ h'[r].ret = h[r].ret
           /\ h'[r].failed \in BOOLEAN /\ h'[r].held = h[r].held /\ h'[r].got = got
<1>1. DOMAIN h = Procs /\ DOMAIN h[r] = SlotFields
  BY SlotHas
<1>2. h' = [q \in Procs |-> h'[q]] /\ \A q \in Procs : q # r => h'[q] = h[q]
  BY <1>1 DEF ReadWell
<1>3. h'[r] = [h[r] EXCEPT !.pc = "end", !.failed = FALSE, !.got = got]
  BY <1>1 DEF ReadWell
<1>4. h'[r] = [x \in SlotFields |-> h'[r][x]]
  BY <1>1, <1>3
<1>5. /\ h'[r].n = h[r].n /\ h'[r].pc = "end" /\ h'[r].f = h[r].f /\ h'[r].ret = h[r].ret
      /\ h'[r].failed \in BOOLEAN /\ h'[r].held = h[r].held /\ h'[r].got = got
  BY <1>1, <1>3 DEF SlotFields
<1> QED
  BY <1>2, <1>4, <1>5 DEF Moves

LEMMA ReadFailedIs ==
    ASSUME h \in [Procs -> Slots], NEW r \in Procs, ReadBadly(r)
    PROVE  /\ Moves(r)
           /\ h'[r].n = h[r].n + 1 /\ h'[r].pc = "idle" /\ h'[r].f = h[r].f /\ h'[r].ret = "error"
           /\ h'[r].failed \in BOOLEAN /\ h'[r].held \in BOOLEAN /\ h'[r].got = <<>>
<1> DEFINE held == h[r].held \/ (h[r].f.throttle > 0 /\ r + h[r].f.throttle < nprocs)
<1>1. DOMAIN h = Procs /\ DOMAIN h[r] = SlotFields
  BY SlotHas
<1>2. h' = [q \in Procs |-> h'[q]] /\ \A q \in Procs : q # r => h'[q] = h[q]
  BY <1>1 DEF ReadBadly
<1>3. h'[r] = [h[r] EXCEPT !.pc = "idle", !.failed = TRUE, !.ret = "error",
                           !.held = held, !.got = <<>>, !.n = @ + 1]
  BY <1>1 DEF ReadBadly
<1>4. held \in BOOLEAN
  OBVIOUS
<1> HIDE DEF held
<1>5. h'[r] = [x \in SlotFields |-> h'[r][x]]
  BY <1>1, <1>3
<1>6. h'[r].n = h[r].n + 1 /\ h'[r].pc = "idle" /\ h'[r].f = h[r].f /\ h'[r].ret = "error"
  BY <1>1, <1>3 DEF SlotFields
<1>7. h'[r].failed \in BOOLEAN /\ h'[r].held = held /\ h'[r].got = <<>>
  BY <1>1, <1>3 DEF SlotFields
<1> QED
  BY <1>2, <1>4, <1>5, <1>6, <1>7 DEF Moves

-----------------------------------------------------------------------------
(* What a move leaves as it was                                             *)

\* What the invariant says, piece by piece.
LEMMA GoodHas ==
    ASSUME NEW m, NEW t, Good(m, t)
    PROVE  /\ program \in Programs /\ Course(m, t) /\ Onward(m, t) /\ Sources(m, t) /\ Shape
           /\ h \in [Procs -> Slots] /\ FileTyped
           /\ \A q \in Procs : AtCall(q) /\ Matches(q, m, t) /\ Bounds(q) /\ Owns(q, t) /\ Divided(q)
           /\ Closed /\ Created(m, t)
           /\ ReadsWhatIsClosed => Turns(t) /\ \A q \in Procs : ReadIsRight(q)
           /\ WritesOnce => AskedFor(m, t) /\ Authored(m, t)
           /\ m \in Nat /\ m <= Len(Calls) /\ Len(Calls) \in Nat
           /\ \A q \in Procs : /\ SlotTypes(h[q]) /\ Done(q) \in Nat /\ Done(q) <= m /\ h[q].n <= Done(q)
                               /\ t[Done(q)] \in Common /\ t[h[q].n] \in Common
<1>1. /\ program \in Programs /\ Course(m, t) /\ Onward(m, t) /\ Sources(m, t) /\ Shape
      /\ h \in [Procs -> Slots] /\ FileTyped
      /\ \A q \in Procs : AtCall(q) /\ Matches(q, m, t) /\ Bounds(q) /\ Owns(q, t) /\ Divided(q)
      /\ Closed /\ Created(m, t)
      /\ ReadsWhatIsClosed => Turns(t) /\ \A q \in Procs : ReadIsRight(q)
      /\ WritesOnce => AskedFor(m, t) /\ Authored(m, t)
  BY DEF Good, Shape
<1>2. m \in Nat /\ m <= Len(Calls) /\ Len(Calls) \in Nat
  BY <1>1, CourseHas, CallsAre
<1>3. ASSUME NEW q \in Procs
      PROVE  /\ SlotTypes(h[q]) /\ Done(q) \in Nat /\ Done(q) <= m /\ h[q].n <= Done(q)
             /\ t[Done(q)] \in Common /\ t[h[q].n] \in Common
  <2>1. SlotTypes(h[q])
    BY <1>1, SlotHas
  <2>2. Done(q) \in Nat /\ Done(q) <= m /\ h[q].n <= Done(q) /\ h[q].n \in Nat
    BY <1>1, <2>1 DEF Matches, SlotTypes, Done
  <2> QED
    BY <1>1, <1>2, <2>1, <2>2, CourseHas
<1> QED
  BY <1>1, <1>2, <1>3

\* A call means the same where no step or data set it looks for was added.
LEMMA ThenStays ==
    ASSUME NEW x, NEW c, c.op \in Ops, program' = program,
           \A s : CanSet(x, s)' <=> CanSet(x, s), Reads(x, c.arg)' <=> Reads(x, c.arg)
    PROVE  Then(x, c)' = Then(x, c)
<1>1. ASSUME NEW s PROVE _H5Part_set_step(x, s)' = _H5Part_set_step(x, s)
  <2>1. (IF CanSet(x, s)' THEN s ELSE -1) = (IF CanSet(x, s) THEN s ELSE -1)
    OBVIOUS
  <2> QED
    BY <2>1 DEF _H5Part_set_step
<1>2. ASSUME NEW s PROVE WithStep(x, s)' = WithStep(x, s)
  BY <1>1 DEF WithStep
<1>3. Turn(x)' = Turn(x) /\ (Writes(x)' <=> Writes(x))
  BY DEF Turn, Writes, Batches
<1>4. Turn(WithStep(x, x.timestep))' = Turn(WithStep(x, x.timestep))
  BY <1>2 DEF Turn, Batches
<1>5. CASE c.op = "step"
  BY <1>1, <1>5 DEF Then, Viewing
<1>6. CASE c.op \in Viewing
  BY <1>2, <1>6 DEF Then, Viewing
<1>7. CASE c.op = "write"
  BY <1>3, <1>7 DEF Then, Viewing
<1>8. CASE c.op = "read"
  BY <1>2, <1>4, <1>8 DEF Then, Viewing
<1>9. CASE c.op = "reset"
  BY <1>9 DEF Then, Viewing
<1>10. CASE c.op = "num"
  BY <1>10 DEF Then, Viewing
<1>11. CASE c.op = "throttle"
  BY <1>11 DEF Then, Viewing
<1>12. CASE c.op = "reopen"
  BY <1>12 DEF Then, Viewing
<1> QED
  BY <1>5, <1>6, <1>7, <1>8, <1>9, <1>10, <1>11, <1>12 DEF Ops, Viewing

\* Only writers add steps and data sets, and before anybody reads they change nothing of the course.
LEMMA CourseStays ==
    ASSUME NEW m, NEW t, Good(m, t), NEW r \in Procs, program' = program,
           \/ steps' = steps /\ DOMAIN file' = DOMAIN file
           \/ ~h[r].f.read /\ h[r].pc # "close"
    PROVE  Course(m, t)'
<1>1. /\ program \in Programs /\ Course(m, t) /\ Sources(m, t) /\ Closed
      /\ m \in Nat /\ Calls' = Calls
  BY GoodHas DEF Calls
<1>2. ASSUME NEW k \in 0 .. m - 1, NEW c, c.op \in Ops PROVE Then(t[k], c)' = Then(t[k], c)
  <2> DEFINE x == t[k]
  <2>2. CASE steps' = steps /\ DOMAIN file' = DOMAIN file
    <3>1. \A s : CanSet(x, s)' <=> CanSet(x, s)
      BY <2>2 DEF CanSet
    <3>2. Reads(x, c.arg)' <=> Reads(x, c.arg)
      <4>1. WithStep(x, x.timestep)' = WithStep(x, x.timestep)
        BY <2>2 DEF WithStep, _H5Part_set_step, CanSet
      <4> HIDE DEF x
      <4> QED
        BY <2>2, <4>1 DEF Reads
    <3> HIDE DEF x
    <3>3. Then(x, c)' = Then(x, c)
      BY <1>1, <1>2, <3>1, <3>2, ThenStays
    <3> QED
      BY <3>3 DEF x
  <2>3. CASE ~h[r].f.read /\ h[r].pc # "close"
    <3>1. ~x.read
      BY <1>1, <2>3 DEF Sources, Closed
    <3>2. \A s : CanSet(x, s) /\ CanSet(x, s)'
      BY <3>1 DEF CanSet
    <3>3. ~Reads(x, c.arg) /\ ~Reads(x, c.arg)'
      BY <3>1 DEF Reads
    <3> HIDE DEF x
    <3>4. Then(x, c)' = Then(x, c)
      BY <1>2, <3>2, <3>3, ThenStays
    <3> QED
      BY <3>4 DEF x
  <2> QED
    BY <2>2, <2>3
<1>3. \A k \in 0 .. m - 1 : Calls[k + 1].op \in Ops
  BY <1>1, CourseHas DEF CallTyped
<1> QED
  BY <1>1, <1>2, <1>3 DEF Course

\* What holds of one processor stays while another moves.
LEMMA OtherStays ==
    ASSUME NEW m, NEW t, NEW q \in Procs, program' = program, h'[q] = h[q], DOMAIN file \subseteq DOMAIN file', steps \subseteq steps',
           AtCall(q), Matches(q, m, t), Bounds(q), Owns(q, t)
    PROVE  AtCall(q)' /\ Matches(q, m, t)' /\ Bounds(q)' /\ Owns(q, t)'
<1>1. Calls' = Calls /\ Call(q)' = Call(q) /\ Done(q)' = Done(q) /\ Key(q)' = Key(q)
  BY DEF Calls, Call, Done, Key
<1>2. AtCall(q)'
  BY <1>1 DEF AtCall
<1>3. Matches(q, m, t)'
  BY <1>1 DEF Matches, Writes
<1>4. Bounds(q)'
  BY <1>1 DEF Bounds
<1>5. Owns(q, t)'
  BY <1>1 DEF Owns
<1> QED
  BY <1>2, <1>3, <1>4, <1>5

\* While no data set is added and none changes its size.
SameSizes == DOMAIN file' = DOMAIN file /\ \A key \in DOMAIN file : Len(file'[key]) = Len(file[key])

\* Shares stay while data sets keep their sizes.
LEMMA ShareStays ==
    ASSUME NEW s, SameSizes, HasData(s)
    PROVE  Share(s)' = Share(s)
<1>1. FirstName(s)' = FirstName(s)
  BY DEF FirstName, SameSizes
<1>2. <<s, FirstName(s)>> \in DOMAIN file
  BY FirstNameIs
<1> QED
  BY <1>1, <1>2 DEF Share, SameSizes

LEMMA DividedStays ==
    ASSUME NEW m, NEW t, Good(m, t), NEW q \in Procs, program' = program, h'[q] = h[q], SameSizes,
           \A p \in Procs : Done(p)' \in Nat /\ Done(p) <= Done(p)'
    PROVE  Divided(q)'
<1>1. Divided(q) /\ \A p \in Procs : Done(p) \in Nat /\ h[p].n \in Nat
  BY GoodHas DEF SlotTypes
<1>2. Op(h[q].n)' = Op(h[q].n) /\ (HasData(h[q].f.step)' <=> HasData(h[q].f.step))
  BY DEF Op, Calls, HasData, SameSizes, Names
<1>3. (\A p \in Procs : Done(p)' <= h[q].n) => \A p \in Procs : Done(p) <= h[q].n
  BY <1>1
<1> SUFFICES ASSUME h[q].pc = "idle", h[q].n > 0, Op(h[q].n) = "canonical", HasData(h[q].f.step),
                    \A p \in Procs : Done(p)' <= h[q].n
             PROVE  LET total == Share(h[q].f.step)'
                    IN  IF total >= nprocs
                        THEN h[q].f.disk = [total |-> total, sel |-> Shares(total \div nprocs, q)]
                        ELSE h[q].f.disk.total < nprocs
  BY <1>2 DEF Divided, Shares, IndexRange
<1>4. Share(h[q].f.step)' = Share(h[q].f.step)
  BY ShareStays
<1> QED
  BY <1>1, <1>3, <1>4 DEF Divided

\* Nobody comes to read, or to write, but through opening the file.
LEMMA ClosedStays ==
    ASSUME Closed, NEW r \in Procs, Moves(r), h'[r].f.read = h[r].f.read, h[r].pc # "close"
    PROVE  Closed'
<1> SUFFICES ASSUME NEW q \in Procs, NEW p \in Procs, h'[q].f.read, ~h'[p].f.read PROVE h'[p].pc = "close"
  BY DEF Closed
<1>1. h[q].f.read /\ ~h[p].f.read
  BY DEF Moves
<1>2. h[p].pc = "close"
  BY <1>1 DEF Closed
<1> QED
  BY <1>2 DEF Moves

LEMMA SourcesStay ==
    ASSUME NEW m, NEW t, Sources(m, t), NEW r \in Procs, Moves(r), h[r].f.read => h'[r].f.read
    PROVE  Sources(m, t)'
  BY DEF Sources, Moves

\* Data sets that were made stay.
LEMMA CreatedStays ==
    ASSUME NEW m, NEW t, Good(m, t), NEW r \in Procs, program' = program, Moves(r), DOMAIN file \subseteq DOMAIN file',
           \A k \in 0 .. m - 1 : Done(r) <= k /\ k < Done(r)' /\ Op(k + 1) = "write" /\ Writes(t[k])
               => <<t[k].step, Calls[k + 1].arg>> \in DOMAIN file'
    PROVE  Created(m, t)'
<1>1. Calls' = Calls /\ Created(m, t) /\ m \in Nat /\ Done(r) \in Nat
  BY GoodHas DEF Calls
<1> SUFFICES ASSUME NEW q \in Procs, NEW k \in 0 .. m - 1, k < Done(q)', Op(k + 1)' = "write", Writes(t[k])'
             PROVE  <<t[k].step, Calls[k + 1].arg>> \in DOMAIN file'
  BY <1>1 DEF Created
<1>2. Op(k + 1) = "write" /\ Writes(t[k])
  BY <1>1 DEF Op, Writes
<1>3. CASE q # r
  <2>1. Done(q)' = Done(q)
    BY <1>3 DEF Done, Moves
  <2>2. <<t[k].step, Calls[k + 1].arg>> \in DOMAIN file
    BY <1>1, <1>2, <2>1 DEF Created
  <2> QED
    BY <2>2
<1>4. CASE q = r /\ k < Done(r)
  <2>2. <<t[k].step, Calls[k + 1].arg>> \in DOMAIN file
    BY <1>1, <1>2, <1>4 DEF Created
  <2> QED
    BY <2>2
<1>5. CASE q = r /\ ~(k < Done(r))
  BY <1>1, <1>2, <1>5
<1> QED
  BY <1>3, <1>4, <1>5

\* What was read stays the data set.
LEMMA ReadStays ==
    ASSUME NEW m, NEW t, Good(m, t), NEW q \in Procs, program' = program, h'[q] = h[q], ReadIsRight(q),
           \A key \in DOMAIN file : key \in DOMAIN file' /\ (h[q].f.read => file'[key] = file[key]), h[q].f.read \/ ~Got(q)
    PROVE  ReadIsRight(q)'
<1>1. Call(q)' = Call(q) /\ ReadName(q)' = ReadName(q) /\ (Got(q)' <=> Got(q)) /\ h'[q] = h[q]
  BY DEF Call, ReadName, Got, Op, Calls
<1>2. CASE ~Got(q)
  BY <1>1, <1>2 DEF ReadIsRight
<1>3. CASE Got(q) /\ h[q].f.read
  <2> DEFINE key == <<h[q].f.step, ReadName(q)>>
  <2>1. /\ key \in DOMAIN file
        /\ ~h[q].f.viewindexed /\ h[q].f.viewend < Len(file[key]) => h[q].got = InView(h[q].f, file[key])
    BY <1>3 DEF ReadIsRight
  <2>2. key \in DOMAIN file' /\ file'[key] = file[key] /\ key' = key
    BY <1>1, <1>3, <2>1
  <2> HIDE DEF key
  <2> QED
    BY <1>1, <2>1, <2>2 DEF ReadIsRight, key, InView
<1> QED
  BY <1>2, <1>3

\* Who has read from closed files only has the file open to read.
LEMMA GotReads ==
    ASSUME NEW m, NEW t, Good(m, t), ReadsWhatIsClosed, NEW q \in Procs, Got(q)
    PROVE  h[q].f.read
<1>1. /\ program \in Programs /\ Course(m, t) /\ Onward(m, t) /\ m \in Nat
      /\ AtCall(q) /\ Matches(q, m, t) /\ SlotTypes(h[q]) /\ Done(q) \in Nat /\ Done(q) <= m /\ Len(Calls) \in Nat
  BY GoodHas
<1>2. PICK k \in 1 .. Len(Calls) : k = Done(q) /\ Op(k) = "read"
  <2>1. CASE h[q].pc = "end"
    BY <1>1, <2>1 DEF Got, AtCall, Call, Op, Calls, Done, Transferring, SlotTypes
  <2>2. CASE h[q].pc = "idle"
    BY <1>1, <2>2 DEF Got, AtCall, Op, Done, Transferring, SlotTypes
  <2> QED
    BY <2>1, <2>2 DEF Got
<1>3. k \in DOMAIN Calls
  BY <1>1, <1>2, CallsAre
<1>4. PICK b \in 1 .. k - 1 : Op(b) = "reopen"
  BY <1>2, <1>3 DEF ReadsWhatIsClosed
<1>5. k \in 0 .. m /\ b \in 1 .. k
  BY <1>1, <1>2
<1>6. t[k].read
  BY <1>1, <1>4, <1>5, Reopened
<1> QED
  BY <1>1, <1>2, <1>6 DEF Matches

\* Each data set keeps its author while nothing is written.
LEMMA AuthoredStays ==
    ASSUME NEW m, NEW t, Good(m, t), WritesOnce, NEW r \in Procs, program' = program, Moves(r), file' = file,
           faults' \in 0 .. MaxFaults, faults' <= faults,
           \A k \in 0 .. m - 1 : Behind(r, k)' => Behind(r, k) \/ ~(Op(k + 1) = "write" /\ Writes(t[k]))
    PROVE  Authored(m, t)'
<1>1. Authored(m, t) /\ Calls' = Calls /\ faults \in 0 .. MaxFaults /\ MaxFaults \in Nat
  BY GoodHas, NprocsAssumption DEF Calls, Shape
<1>2. faults' = MaxFaults => faults = MaxFaults
  BY <1>1
<1> SUFFICES ASSUME NEW key \in DOMAIN file
             PROVE  \E k \in 0 .. m - 1 :
                       /\ Op(k + 1) = "write" /\ Writes(t[k]) /\ key = <<t[k].step, Calls[k + 1].arg>>
                       /\ Len(file[key]) = t[k].shape
                       /\ faults' = MaxFaults => \A q \in Procs : Behind(q, k)' => InPlace(key, t[k].counts, q)
  BY <1>1 DEF Authored, Op, Writes, InPlace
<1>3. PICK k \in 0 .. m - 1 :
         /\ Op(k + 1) = "write" /\ Writes(t[k]) /\ key = <<t[k].step, Calls[k + 1].arg>>
         /\ Len(file[key]) = t[k].shape
         /\ faults = MaxFaults => \A q \in Procs : Behind(q, k) => InPlace(key, t[k].counts, q)
  BY <1>1 DEF Authored
<1>4. ASSUME faults' = MaxFaults, NEW q \in Procs, Behind(q, k)' PROVE InPlace(key, t[k].counts, q)
  <2>1. Behind(q, k)
    <3>1. CASE q = r
      BY <1>3, <1>4, <3>1
    <3>2. CASE q # r
      BY <1>4, <3>2 DEF Behind, Moves
    <3> QED
      BY <3>1, <3>2
  <2> QED
    BY <1>2, <1>3, <1>4, <2>1
<1> QED
  BY <1>3, <1>4

ShapeThen ==
    /\ steps \subseteq steps' /\ steps' \subseteq Nat /\ tokens' \in [Procs \X Procs -> Nat] /\ faults' \in 0 .. MaxFaults

\* A move that writes nothing keeps the invariant if it keeps what it says of the one who moves.
LEMMA Quiet ==
    ASSUME NEW m, NEW t, Good(m, t), NEW r \in Procs, program' = program, Moves(r), file' = file,
           SlotTypes(h'[r]), ShapeThen, faults' <= faults,
           steps' = steps \/ (~h[r].f.read /\ h[r].pc # "close"),
           Closed', h[r].f.read => h'[r].f.read, Done(r) <= Done(r)', Done(r)' \in Nat,
           AtCall(r)', Matches(r, m, t)', Bounds(r)', Owns(r, t)', Divided(r)',
           \A k \in 0 .. m - 1 : Done(r) <= k /\ k < Done(r)' /\ Op(k + 1) = "write" /\ Writes(t[k])
               => <<t[k].step, Calls[k + 1].arg>> \in DOMAIN file,
           ReadsWhatIsClosed => Turns(t)' /\ ReadIsRight(r)',
           \A k \in 0 .. m - 1 : Behind(r, k)' => Behind(r, k) \/ ~(Op(k + 1) = "write" /\ Writes(t[k]))
    PROVE  Good(m, t)'
<1>1. /\ program \in Programs /\ Course(m, t) /\ Onward(m, t) /\ Sources(m, t) /\ Shape
      /\ h \in [Procs -> Slots] /\ FileTyped
      /\ \A q \in Procs : AtCall(q) /\ Matches(q, m, t) /\ Bounds(q) /\ Owns(q, t) /\ Divided(q)
      /\ ReadsWhatIsClosed => \A q \in Procs : ReadIsRight(q)
      /\ WritesOnce => AskedFor(m, t)
      /\ \A q \in Procs : Done(q) \in Nat
  BY GoodHas
<1>2. Course(m, t)'
  BY CourseStays
<1>3. Onward(m, t)'
  BY <1>1 DEF Onward, Batches
<1>4. Sources(m, t)'
  BY <1>1, SourcesStay
<1>5. Shape'
  <2>1. h' \in [Procs -> Slots]
    BY <1>1, StillSlots
  <2>2. FileTyped'
    BY <1>1 DEF FileTyped
  <2> QED
    BY <1>1, <2>1, <2>2 DEF Shape, ShapeThen
<1>6. SameSizes /\ \A p \in Procs : Done(p)' \in Nat /\ Done(p) <= Done(p)'
  <2>1. ASSUME NEW p \in Procs, p # r PROVE Done(p)' = Done(p)
    BY <2>1 DEF Moves, Done
  <2> QED
    BY <1>1, <2>1 DEF SameSizes
<1>7. ASSUME NEW q \in Procs PROVE AtCall(q)' /\ Matches(q, m, t)' /\ Bounds(q)' /\ Owns(q, t)' /\ Divided(q)'
  <2>1. CASE q = r
    BY <2>1
  <2>2. CASE q # r
    <3>1. h'[q] = h[q]
      BY <2>2 DEF Moves
    <3> QED
      BY <1>1, <1>6, <3>1, OtherStays, DividedStays DEF ShapeThen
  <2> QED
    BY <2>1, <2>2
<1>8. Created(m, t)'
  BY CreatedStays
<1>9. (ReadsWhatIsClosed' <=> ReadsWhatIsClosed) /\ (WritesOnce' <=> WritesOnce)
  BY DEF ReadsWhatIsClosed, WritesOnce, CountsGivenFirst, StepsOnce, NamesOnce, LastOf, Op, Calls
<1>10. ASSUME ReadsWhatIsClosed PROVE Turns(t)' /\ \A q \in Procs : ReadIsRight(q)'
  <2>1. ASSUME NEW q \in Procs, q # r PROVE ReadIsRight(q)'
    <3>1. h'[q] = h[q]
      BY <2>1 DEF Moves
    <3>2. h[q].f.read \/ ~Got(q)
      BY <1>10, GotReads
    <3> QED
      BY <1>1, <1>10, <3>1, <3>2, ReadStays
  <2> QED
    BY <1>10, <2>1
<1>11. ASSUME WritesOnce PROVE AskedFor(m, t)' /\ Authored(m, t)'
  <2>1. AskedFor(m, t)'
    BY <1>1, <1>11 DEF AskedFor, AskedAt, LastOf, Op, Calls
  <2>2. faults' \in 0 .. MaxFaults
    BY DEF ShapeThen
  <2>3. Authored(m, t)'
    BY <1>11, <2>2, AuthoredStays
  <2> QED
    BY <2>1, <2>3
<1> QED
  BY <1>2, <1>3, <1>4, <1>5, <1>7, <1>8, <1>9, <1>10, <1>11 DEF Good

-----------------------------------------------------------------------------
(* Calls that return at once                                                *)

\* Calls that need a step.
LEMMA HandleWithStep ==
    ASSUME NEW f \in Handles, NEW s \in Int
    PROVE  LET g == WithStep(f, s)
           IN  /\ g \in Handles
               /\ g.read = f.read /\ g.shape = f.shape /\ g.throttle = f.throttle
               /\ g.step = (IF f.step < 0 THEN (IF CanSet(f, s) THEN s ELSE -1) ELSE f.step)
               /\ g.timestep = (IF f.step < 0 THEN s ELSE f.timestep)
               /\ g.disk = f.disk /\ g.mem = f.mem /\ g.nparticles = f.nparticles
               /\ g.viewstart = f.viewstart /\ g.viewend = f.viewend /\ g.viewindexed = f.viewindexed
               /\ (InStep(f) => InStep(g))
  BY HandleStep DEF WithStep

\* r is about to make the next call of the program.
LEMMA AtTheCall ==
    ASSUME NEW m, NEW t, Good(m, t), NEW r \in Procs, h[r].n < m
    PROVE  LET n == h[r].n
           IN  /\ n \in Nat /\ n \in 0 .. m - 1 /\ n + 1 \in 0 .. m /\ n < Len(Calls)
               /\ CallTyped(Call(r)) /\ Call(r) = Calls[n + 1] /\ Call(r).op = Op(n + 1)
               /\ t[n + 1] = Then(t[n], Call(r)) /\ t[n] \in Common /\ t[n + 1] \in Common
<1> DEFINE n == h[r].n
<1>1. /\ program \in Programs /\ Course(m, t) /\ m \in Nat /\ SlotTypes(h[r]) /\ m <= Len(Calls)
      /\ Len(Calls) \in Nat
  BY GoodHas
<1>2. n \in Nat /\ n \in 0 .. m - 1 /\ n \in 0 .. m /\ n + 1 \in 0 .. m /\ n < Len(Calls)
  BY <1>1 DEF SlotTypes
<1>3. Call(r) = Calls[n + 1]
  BY DEF Call, Calls
<1> HIDE DEF n
<1>4. CallTyped(Calls[n + 1]) /\ Calls[n + 1].op = Op(n + 1) /\ t[n + 1] = Then(t[n], Calls[n + 1])
      /\ t[n] \in Common /\ t[n + 1] \in Common
  BY <1>1, <1>2, CourseHas
<1> QED
  BY <1>2, <1>3, <1>4 DEF n

\* Turns are kept while no token moves and r has begun no more transfers than before.
LEMMA TurnsStay ==
    ASSUME NEW m, NEW t, Good(m, t), ReadsWhatIsClosed, NEW r \in Procs, Moves(r), tokens' = tokens,
           h'[r].n \in Nat, h[r].n <= h'[r].n, h'[r].n <= m,
           \A d \in Batches : Begun(r, d, t)' = Begun(r, d, t)
    PROVE  Turns(t)'
<1>1. Turns(t) /\ Onward(m, t) /\ m \in Nat /\ Course(m, t) /\ program \in Programs
      /\ \A q \in Procs : SlotTypes(h[q]) /\ h[q].n <= Done(q) /\ Done(q) <= m /\ Done(q) \in Nat
      /\ tokens \in [Procs \X Procs -> Nat]
  BY GoodHas DEF Shape
<1>2. ASSUME NEW q \in Procs
      PROVE  h[q].n \in 0 .. m /\ h'[q].n \in 0 .. m /\ h[q].n <= h'[q].n /\ Done(q) \in 0 .. m
  BY <1>1 DEF SlotTypes, Moves
<1>3. \A q \in Procs : \A d \in Batches : Begun(q, d, t)' = Begun(q, d, t)
  <2>1. ASSUME NEW q \in Procs, q # r PROVE h'[q] = h[q]
    BY <2>1 DEF Moves
  <2> QED
    BY <2>1 DEF Begun, Done
<1> SUFFICES ASSUME NEW a \in Procs, NEW b \in Procs, NEW d \in Batches, b = a + d
             PROVE  Begun(b, d, t) + tokens[<<a, b>>] <= t[h'[a].n].turns[d]
  BY <1>3 DEF Turns, Procs, Batches
<1>4. t[h[a].n] \in Common /\ t[h'[a].n] \in Common /\ t[h[b].n] \in Common /\ t[Done(b)] \in Common
  BY <1>1, <1>2, CourseHas
<1>5. t[h[a].n].turns[d] \in Nat /\ t[h'[a].n].turns[d] \in Nat /\ Begun(b, d, t) \in Nat
      /\ tokens[<<a, b>>] \in Nat
  BY <1>1, <1>4, CommonHas DEF CommonTypes, Begun
<1>6. t[h[a].n].turns[d] <= t[h'[a].n].turns[d]
  BY <1>1, <1>2 DEF Onward
<1>7. Begun(b, d, t) + tokens[<<a, b>>] <= t[h[a].n].turns[d]
  BY <1>1 DEF Turns
<1> QED
  BY <1>5, <1>6, <1>7

\* A call that is no transfer, or a transfer that is refused, is made.
LEMMA Returned ==
    ASSUME NEW m, NEW t, Good(m, t), NEW r \in Procs, NEW f \in Handles, NEW ret \in {"ok", "error"},
           Return(r, f, ret), h[r].n < m, h[r].pc \notin Transferring,
           program' = program, file' = file, tokens' = tokens, faults' = faults,
           steps \subseteq steps', steps' \subseteq Nat,
           steps' = steps \/ (~h[r].f.read /\ h[r].pc # "close"),
           Call(r).op = "write" => ~Writes(t[h[r].n]),
           Call(r).op = "read" => ret = "error" /\ ~Reads(t[h[r].n], Call(r).arg),
           Closed', h[r].f.read => f.read, f.step >= 0 => f.step \in steps', InStep(f),
           LET x == t[h[r].n + 1]
           IN  /\ f.read = x.read /\ f.step = x.step /\ f.timestep = x.timestep
               /\ f.throttle = x.throttle /\ f.shape = x.shape
               /\ x.counts # Unset => /\ f.disk = OwnSpace(x.counts, r) /\ f.shape = SumOver(x.counts, Procs)
                                      /\ f.mem = MemFor(x.counts[r]),
           Call(r).op = "canonical" /\ HasData(f.step) =>
               IF Share(f.step) >= nprocs
               THEN f.disk = [total |-> Share(f.step), sel |-> Shares(Share(f.step) \div nprocs, r)]
               ELSE f.disk.total < nprocs
    PROVE  Good(m, t)'
<1> DEFINE n == h[r].n
<1>1. /\ n \in Nat /\ n \in 0 .. m - 1 /\ n + 1 \in 0 .. m /\ n < Len(Calls) /\ m \in Nat /\ m <= Len(Calls)
      /\ CallTyped(Call(r)) /\ Call(r) = Calls[n + 1] /\ Call(r).op = Op(n + 1)
      /\ t[n + 1] = Then(t[n], Call(r)) /\ t[n] \in Common /\ t[n + 1] \in Common
      /\ Len(Calls) \in Nat
  BY AtTheCall, GoodHas
<1>2. /\ h \in [Procs -> Slots] /\ SlotTypes(h[r]) /\ program \in Programs /\ Shape
  BY GoodHas
<1>3. /\ Moves(r)
      /\ h'[r].n = n + 1 /\ h'[r].pc = "idle" /\ h'[r].f = f /\ h'[r].ret = ret
      /\ h'[r].failed = h[r].failed /\ h'[r].held = h[r].held /\ h'[r].got = h[r].got
  BY <1>2, ReturnIs
<1>4. SlotTypes(h'[r])
  BY <1>1, <1>2, <1>3 DEF SlotTypes, Pcs
<1>5. ShapeThen
  BY <1>2 DEF Shape, ShapeThen
<1>6. Done(r) = n /\ Done(r)' = n + 1
  BY <1>3 DEF Done, Transferring
<1>7. Calls' = Calls
  BY DEF Calls
<1>8. AtCall(r)'
  BY <1>1, <1>3, <1>7 DEF AtCall, Transferring
<1>9. Matches(r, m, t)'
  BY <1>1, <1>3, <1>6 DEF Matches, Transferring
<1>10. Bounds(r)'
  <2>1. InStep(f)'  <=> InStep(f)
    BY DEF InStep, ALL, IndexRange
  <2> QED
    BY <1>3 DEF Bounds, InStep
<1>11. Owns(r, t)'
  BY <1>3, <1>6 DEF Owns
<1>12. Divided(r)'
  <2>1. \A k : Op(k)' = Op(k)
    BY <1>7 DEF Op
  <2>2. \A s : Share(s)' = Share(s) /\ (HasData(s)' <=> HasData(s))
    BY DEF Share, FirstName, HasData
  <2>3. \A s, q : Shares(s, q)' = Shares(s, q)
    BY DEF Shares, IndexRange
  <2> SUFFICES ASSUME Op(n + 1) = "canonical", HasData(f.step)
               PROVE  LET total == Share(f.step)
                      IN  IF total >= nprocs
                          THEN f.disk = [total |-> total, sel |-> Shares(total \div nprocs, r)]
                          ELSE f.disk.total < nprocs
    BY <1>3, <2>1, <2>2, <2>3 DEF Divided
  <2> QED
    BY <1>1
<1>13. ~Got(r)'
  <2>1. Call(r).op = "read" => ret = "error"
    OBVIOUS
  <2>3. Got(r)' => ret = "ok" /\ Calls[n + 1].op = "read"
    BY <1>3, <1>7 DEF Got, Op
  <2> QED
    BY <1>1, <2>1, <2>3
<1>14. \A d \in Batches : Begun(r, d, t)' = Begun(r, d, t)
  <2>1. h[r].pc # "start"
    BY DEF Transferring
  <2>2. \A d \in Batches : t[n + 1].turns[d] = t[n].turns[d]
    <3>1. CASE Call(r).op = "write"
      BY <1>1, <3>1, ThenWrite
    <3>2. CASE Call(r).op = "read"
      BY <1>1, <3>2, ThenRead
    <3>3. CASE Call(r).op \notin {"write", "read"}
      BY <1>1, <1>2, <3>3, ThenIs
    <3> QED
      BY <3>1, <3>2, <3>3
  <2> QED
    BY <1>3, <1>6, <2>1, <2>2 DEF Begun
<1>15. ASSUME ReadsWhatIsClosed PROVE Turns(t)' /\ ReadIsRight(r)'
  <2>1. Turns(t)'
    BY <1>1, <1>3, <1>14, <1>15, TurnsStay
  <2>2. ReadIsRight(r)'
    BY <1>13 DEF ReadIsRight
  <2> QED
    BY <2>1, <2>2
<1>16. \A k \in 0 .. m - 1 : Behind(r, k)' => Behind(r, k) \/ ~(Op(k + 1) = "write" /\ Writes(t[k]))
  BY <1>1, <1>3 DEF Behind
<1>17. \A k \in 0 .. m - 1 : Done(r) <= k /\ k < Done(r)' /\ Op(k + 1) = "write" /\ Writes(t[k])
               => <<t[k].step, Calls[k + 1].arg>> \in DOMAIN file
  BY <1>1, <1>6
<1>18. Done(r) <= Done(r)' /\ Done(r)' \in Nat /\ faults' <= faults
  BY <1>1, <1>2, <1>6, NprocsAssumption DEF Shape
<1>19. h[r].f.read => h'[r].f.read
  BY <1>3
<1> HIDE DEF n
<1> QED
  BY <1>3, <1>4, <1>5, <1>8, <1>9, <1>10, <1>11, <1>12, <1>15, <1>16, <1>17, <1>18, <1>19, Quiet

\* Between two calls a handle is what the calls made it.
LEMMA AtRest ==
    ASSUME NEW m, NEW t, Good(m, t), NEW r \in Procs, h[r].pc \notin Transferring, Done(r) < m
    PROVE  LET f == h[r].f
               x == t[h[r].n]
           IN  /\ h[r].n < m /\ Done(r) = h[r].n
               /\ f \in Handles /\ x \in Common /\ InStep(f) /\ (f.step >= 0 => f.step \in steps)
               /\ f.read = x.read /\ f.step = x.step /\ f.timestep = x.timestep /\ f.throttle = x.throttle
               /\ h[r].pc # "gather" =>
                    /\ f.shape = x.shape
                    /\ x.counts # Unset => /\ f.disk = OwnSpace(x.counts, r) /\ f.shape = SumOver(x.counts, Procs)
                                           /\ f.mem = MemFor(x.counts[r])
<1>1. Done(r) = h[r].n
  BY DEF Done
<1>2. AtCall(r) /\ Matches(r, m, t) /\ Bounds(r) /\ Owns(r, t) /\ SlotTypes(h[r]) /\ t[Done(r)] \in Common
  BY GoodHas
<1>3. h[r].f \in Handles /\ InStep(h[r].f) /\ (h[r].f.step >= 0 => h[r].f.step \in steps)
  BY <1>2 DEF SlotTypes, Bounds, AtCall
<1> QED
  BY <1>1, <1>2, <1>3 DEF Matches, Owns

\* H5PartResetView.
LEMMA ResetKeeps ==
    ASSUME NEW m, NEW t, Good(m, t), NEW r \in Procs, Done(r) < m, H5PartResetView(r)
    PROVE  Good(m, t)'
<1> DEFINE f == h[r].f
           x == t[h[r].n]
           y == t[h[r].n + 1]
           g == IF f.read THEN _reset_view(f) ELSE f
           ret == IF f.read THEN "ok" ELSE "error"
<1>1. /\ h[r].pc = "idle" /\ Call(r).op = "reset" /\ Return(r, g, ret)
      /\ program' = program /\ file' = file /\ steps' = steps /\ tokens' = tokens /\ faults' = faults
  BY DEF H5PartResetView, Ready, Has, disk_vars
<1>2. /\ h[r].n < m /\ f \in Handles /\ x \in Common /\ InStep(f) /\ (f.step >= 0 => f.step \in steps)
      /\ f.read = x.read /\ f.step = x.step /\ f.timestep = x.timestep /\ f.throttle = x.throttle
      /\ f.shape = x.shape
      /\ x.counts # Unset => /\ f.disk = OwnSpace(x.counts, r) /\ f.shape = SumOver(x.counts, Procs)
                             /\ f.mem = MemFor(x.counts[r])
  BY <1>1, AtRest DEF Transferring
<1>3. y = Then(x, Call(r)) /\ CallTyped(Call(r))
  BY <1>2, AtTheCall
<1>4. y.step = x.step /\ y.timestep = x.timestep /\ y.shape = x.shape /\ y.throttle = x.throttle
      /\ y.counts = (IF x.read THEN Unset ELSE x.counts) /\ y.read = x.read
  BY <1>1, <1>2, <1>3, ThenReset, ThenIs, GoodHas
<1>5. g \in Handles /\ InStep(g) /\ g.read = f.read /\ g.step = f.step /\ g.timestep = f.timestep
      /\ g.throttle = f.throttle /\ g.shape = f.shape
  BY <1>2, ResetIs
<1>6. Closed' /\ Shape
  <2>1. Moves(r) /\ h'[r].f = g
    BY <1>1, GoodHas, ReturnIs
  <2> QED
    BY <1>1, <1>5, <2>1, GoodHas, ClosedStays
<1>7. y.counts # Unset => g.disk = OwnSpace(y.counts, r) /\ g.shape = SumOver(y.counts, Procs)
                          /\ g.mem = MemFor(y.counts[r])
  BY <1>2, <1>4
<1>8. ret \in {"ok", "error"}
  OBVIOUS
<1>9. steps' \subseteq Nat
  BY <1>1, <1>6 DEF Shape
<1> HIDE DEF f, x, g, ret
<1>10. /\ g.read = y.read /\ g.step = y.step /\ g.timestep = y.timestep
       /\ g.throttle = y.throttle /\ g.shape = y.shape /\ (g.step >= 0 => g.step \in steps')
       /\ h[r].f.read => g.read
  BY <1>1, <1>2, <1>4, <1>5 DEF f
<1> HIDE DEF y
<1> QED
  BY <1>1, <1>2, <1>5, <1>6, <1>7, <1>8, <1>9, <1>10, Returned DEF Transferring, y

\* H5PartSetThrottle.
LEMMA ThrottleKeeps ==
    ASSUME NEW m, NEW t, Good(m, t), NEW r \in Procs, Done(r) < m, H5PartSetThrottle(r)
    PROVE  Good(m, t)'
<1> DEFINE f == h[r].f
           x == t[h[r].n]
           y == t[h[r].n + 1]
           g == [f EXCEPT !.throttle = IF program.independent THEN Call(r).arg ELSE @]
<1>1. /\ h[r].pc = "idle" /\ Call(r).op = "throttle" /\ Return(r, g, "ok")
      /\ program' = program /\ file' = file /\ steps' = steps /\ tokens' = tokens /\ faults' = faults
  BY DEF H5PartSetThrottle, Ready, Has, disk_vars
<1>2. /\ h[r].n < m /\ f \in Handles /\ x \in Common /\ InStep(f) /\ (f.step >= 0 => f.step \in steps)
      /\ f.read = x.read /\ f.step = x.step /\ f.timestep = x.timestep /\ f.throttle = x.throttle
      /\ f.shape = x.shape
      /\ x.counts # Unset => /\ f.disk = OwnSpace(x.counts, r) /\ f.shape = SumOver(x.counts, Procs)
                             /\ f.mem = MemFor(x.counts[r])
  BY <1>1, AtRest DEF Transferring
<1>3. y = Then(x, Call(r)) /\ CallTyped(Call(r))
  BY <1>2, AtTheCall
<1>4. y.step = x.step /\ y.timestep = x.timestep /\ y.shape = x.shape /\ y.counts = x.counts /\ y.read = x.read
      /\ y.throttle = IF program.independent THEN Call(r).arg ELSE x.throttle
  BY <1>1, <1>2, <1>3, ThenThrottle, ThenIs, GoodHas
<1>5. g \in Handles /\ InStep(g) /\ g.read = f.read /\ g.step = f.step /\ g.timestep = f.timestep
      /\ g.shape = f.shape /\ g.disk = f.disk /\ g.mem = f.mem
      /\ g.throttle = IF program.independent THEN Call(r).arg ELSE f.throttle
  <2>1. Call(r).arg \in Int
    BY <1>1, <1>3 DEF CallTyped
  <2>2. DOMAIN f = HandleFields /\ HandleTypes(f)
    BY <1>2, HandleHas
  <2> HIDE DEF f
  <2>3. DOMAIN g = HandleFields /\ \A z \in HandleFields : z # "throttle" => g[z] = f[z]
    BY <2>2
  <2>4. g.throttle = IF program.independent THEN Call(r).arg ELSE f.throttle
    BY <2>2 DEF HandleFields
  <2>5. g = [z \in HandleFields |-> g[z]]
    BY <2>2
  <2> HIDE DEF g
  <2>6. /\ g.read = f.read /\ g.step = f.step /\ g.timestep = f.timestep /\ g.nparticles = f.nparticles
        /\ g.shape = f.shape /\ g.disk = f.disk /\ g.mem = f.mem /\ g.viewstart = f.viewstart
        /\ g.viewend = f.viewend /\ g.viewindexed = f.viewindexed /\ g.pnparticles = f.pnparticles
    BY <2>3 DEF HandleFields
  <2>7. HandleTypes(g)
    BY <2>1, <2>2, <2>4, <2>6 DEF HandleTypes
  <2>8. g \in Handles
    BY <2>5, <2>7, IsHandle
  <2>9. InStep(g)
    BY <1>2, <2>6 DEF InStep
  <2> QED
    BY <2>4, <2>6, <2>8, <2>9
<1> HIDE DEF g
<1>6. Closed' /\ Shape
  <2>1. Moves(r) /\ h'[r].f = g
    BY <1>1, GoodHas, ReturnIs
  <2> QED
    BY <1>1, <1>5, <2>1, GoodHas, ClosedStays
<1>7. y.counts # Unset => g.disk = OwnSpace(y.counts, r) /\ g.shape = SumOver(y.counts, Procs)
                          /\ g.mem = MemFor(y.counts[r])
  BY <1>2, <1>4, <1>5
<1>9. steps' \subseteq Nat
  BY <1>1, <1>6 DEF Shape
<1> HIDE DEF f, x
<1>10. /\ g.read = y.read /\ g.step = y.step /\ g.timestep = y.timestep
       /\ g.throttle = y.throttle /\ g.shape = y.shape /\ (g.step >= 0 => g.step \in steps')
       /\ h[r].f.read => g.read
  BY <1>1, <1>2, <1>4, <1>5 DEF f
<1> HIDE DEF y
<1> QED
  BY <1>1, <1>2, <1>5, <1>6, <1>7, <1>9, <1>10, Returned DEF Transferring, y

\* The steps there are when the handle g has come to its step.
LEMMA StepsGrow ==
    ASSUME NEW f, NEW g, g.read = f.read, g.step \in Int, StepMade(g), steps \subseteq Nat,
           g.step >= 0 => g.step \in steps \/ ~f.read
    PROVE  /\ steps \subseteq steps' /\ steps' \subseteq Nat
           /\ steps' = steps \/ ~f.read
           /\ g.step >= 0 => g.step \in steps'
<1>1. CASE g.step < 0
  <2>1. steps' = steps
    BY <1>1 DEF StepMade
  <2> QED
    BY <1>1, <2>1
<1>2. CASE g.step >= 0
  <2>1. steps' = steps \cup {g.step}
    BY <1>2 DEF StepMade
  <2>2. g.step \in Nat
    BY <1>2
  <2>3. steps' = steps \/ ~f.read
    BY <1>2, <2>1
  <2> QED
    BY <2>1, <2>2, <2>3
<1> QED
  BY <1>1, <1>2

\* H5PartSetStep.
LEMMA StepKeeps ==
    ASSUME NEW m, NEW t, Good(m, t), NEW r \in Procs, Done(r) < m, H5PartSetStep(r)
    PROVE  Good(m, t)'
<1> DEFINE f == h[r].f
           x == t[h[r].n]
           y == t[h[r].n + 1]
           s == Call(r).arg
           g == _H5Part_set_step(f, s)
           ret == IF g.step < 0 THEN "error" ELSE "ok"
<1>1. /\ h[r].pc = "idle" /\ Call(r).op = "step" /\ Return(r, g, ret) /\ StepMade(g)
      /\ program' = program /\ file' = file /\ tokens' = tokens /\ faults' = faults
  BY DEF H5PartSetStep, Ready, Has
<1>2. /\ h[r].n < m /\ f \in Handles /\ x \in Common /\ InStep(f) /\ (f.step >= 0 => f.step \in steps)
      /\ f.read = x.read /\ f.step = x.step /\ f.timestep = x.timestep /\ f.throttle = x.throttle
      /\ f.shape = x.shape
      /\ x.counts # Unset => /\ f.disk = OwnSpace(x.counts, r) /\ f.shape = SumOver(x.counts, Procs)
                             /\ f.mem = MemFor(x.counts[r])
  BY <1>1, AtRest DEF Transferring
<1>3. y = Then(x, Call(r)) /\ CallTyped(Call(r)) /\ s \in Nat
  BY <1>1, <1>2, AtTheCall DEF CallTyped
<1>4. y.timestep = s /\ y.step = (IF CanSet(x, s) THEN s ELSE -1) /\ y.shape = x.shape
      /\ y.throttle = x.throttle /\ y.counts = x.counts /\ y.read = x.read
  BY <1>1, <1>2, <1>3, ThenIs, GoodHas
<1>5. g \in Handles /\ InStep(g) /\ g.read = f.read /\ g.step = (IF CanSet(f, s) THEN s ELSE -1) /\ g.timestep = s
      /\ g.throttle = f.throttle /\ g.shape = f.shape /\ g.disk = f.disk /\ g.mem = f.mem
  <2>1. s \in Int
    BY <1>3
  <2> HIDE DEF f, s
  <2> QED
    BY <1>2, <2>1, HandleStep
<1>6. CanSet(f, s) <=> CanSet(x, s)
  BY <1>2 DEF CanSet
<1> HIDE DEF g
<1>7. steps \subseteq steps' /\ steps' \subseteq Nat /\ (steps' = steps \/ ~f.read) /\ (g.step >= 0 => g.step \in steps')
  <2>1. steps \subseteq Nat
    BY GoodHas DEF Shape
  <2>2. g.step \in Int
    BY <1>3, <1>5
  <2>3. g.step >= 0 => g.step \in steps \/ ~f.read
    BY <1>5 DEF CanSet
  <2> QED
    BY <1>1, <1>5, <2>1, <2>2, <2>3, StepsGrow
<1>8. Closed'
  <2>1. Moves(r) /\ h'[r].f = g
    BY <1>1, GoodHas, ReturnIs
  <2> QED
    BY <1>1, <1>5, <2>1, GoodHas, ClosedStays
<1>9. y.counts # Unset => g.disk = OwnSpace(y.counts, r) /\ g.shape = SumOver(y.counts, Procs)
                          /\ g.mem = MemFor(y.counts[r])
  BY <1>2, <1>4, <1>5
<1>10. ret \in {"ok", "error"}
  OBVIOUS
<1> HIDE DEF x, ret
<1>11. /\ g.read = y.read /\ g.step = y.step /\ g.timestep = y.timestep
       /\ g.throttle = y.throttle /\ g.shape = y.shape
       /\ h[r].f.read => g.read
  BY <1>1, <1>2, <1>4, <1>5, <1>6 DEF f
<1> HIDE DEF y, s
<1> QED
  BY <1>1, <1>2, <1>5, <1>7, <1>8, <1>9, <1>10, <1>11, Returned DEF Transferring, y, f

\* Views are made of a handle whose step is set.
LEMMA ViewOfIs ==
    ASSUME FileTyped, NEW r \in Procs, NEW f \in Handles, NEW garbage \in Nat, CallTyped(Call(r)), Call(r).op \in Viewing
    PROVE  LET g == ViewOf(r, f, garbage)
           IN  /\ g \in Handles /\ SameBut(g, f) /\ InStep(g)
               /\ Call(r).op = "canonical" /\ HasData(f.step) =>
                     IF Share(f.step) >= nprocs
                     THEN g.disk = [total |-> Share(f.step), sel |-> Shares(Share(f.step) \div nprocs, r)]
                     ELSE g.disk.total < nprocs
<1> DEFINE a == Call(r).arg
<1>1. CASE Call(r).op = "view"
  <2>1. a[r][1] \in Nat \cup {-1} /\ a[r][2] \in Nat \cup {-1}
    BY <1>1 DEF CallTyped
  <2>2. ViewOf(r, f, garbage) = _set_view(f, a[r][1], a[r][2], garbage)
    BY <1>1 DEF ViewOf
  <2>3. LET g == _set_view(f, a[r][1], a[r][2], garbage)
        IN  g \in Handles /\ SameBut(g, f) /\ InStep(g)
    <3> HIDE DEF a
    <3> QED
      BY <2>1, SetViewIs
  <2> QED
    BY <1>1, <2>2, <2>3
<1>2. CASE Call(r).op = "indices"
  <2>1. a[r] \in Seq(Nat)
    BY <1>2 DEF CallTyped
  <2>2. ViewOf(r, f, garbage) = _set_view_indices(f, a[r], garbage)
    BY <1>2 DEF ViewOf
  <2> QED
    BY <1>2, <2>1, <2>2, SetViewIndicesIs
<1>3. CASE Call(r).op = "canonical"
  <2>2. ViewOf(r, f, garbage) = Canonical(f, r, garbage)
    BY <1>3 DEF ViewOf
  <2> QED
    BY <1>3, <2>2, CanonicalIs
<1> QED
  BY <1>1, <1>2, <1>3 DEF Viewing

\* H5PartSetView, H5PartSetViewIndices and H5PartSetCanonicalView.
LEMMA ViewKeeps ==
    ASSUME NEW m, NEW t, Good(m, t), NEW r \in Procs, Done(r) < m, H5PartSetView(r)
    PROVE  Good(m, t)'
<1> DEFINE f == h[r].f
           x == t[h[r].n]
           y == t[h[r].n + 1]
           e == IF Has(r, "canonical") THEN _reset_view(f) ELSE f
           g == WithStep(e, 0)
<1>1. /\ h[r].pc = "idle" /\ Call(r).op \in Viewing /\ StepMade(g)
      /\ program' = program /\ file' = file /\ tokens' = tokens /\ faults' = faults
      /\ \/ g.step < 0 /\ Return(r, g, "error")
         \/ g.step >= 0 /\ \E garbage \in Garbage : Return(r, ViewOf(r, g, garbage), "ok")
  BY DEF H5PartSetView, Ready, Has, Viewing
<1>2. /\ h[r].n < m /\ f \in Handles /\ x \in Common /\ InStep(f) /\ (f.step >= 0 => f.step \in steps)
      /\ f.read = x.read /\ f.step = x.step /\ f.timestep = x.timestep /\ f.throttle = x.throttle
      /\ f.shape = x.shape /\ h[r].n \in Nat
  BY <1>1, AtRest, AtTheCall DEF Transferring
<1>3. y = Then(x, Call(r)) /\ CallTyped(Call(r)) /\ program \in Programs
  BY <1>1, <1>2, AtTheCall, GoodHas
<1>4. /\ y.step = (IF x.step < 0 THEN (IF CanSet(x, 0) THEN 0 ELSE -1) ELSE x.step)
      /\ y.timestep = (IF x.step < 0 THEN 0 ELSE x.timestep)
      /\ y.shape = x.shape /\ y.throttle = x.throttle /\ y.counts = Unset /\ y.read = x.read
  BY <1>1, <1>2, <1>3, ThenIs DEF Viewing
<1>5. /\ e \in Handles /\ InStep(e) /\ e.read = f.read /\ e.step = f.step /\ e.timestep = f.timestep
      /\ e.shape = f.shape /\ e.throttle = f.throttle
  BY <1>2, ResetIs
<1> HIDE DEF e
<1>6. /\ g \in Handles /\ InStep(g) /\ g.read = f.read /\ g.shape = f.shape /\ g.throttle = f.throttle
      /\ g.step = (IF f.step < 0 THEN (IF CanSet(e, 0) THEN 0 ELSE -1) ELSE f.step)
      /\ g.timestep = (IF f.step < 0 THEN 0 ELSE f.timestep)
  BY <1>5, HandleWithStep
<1>7. (CanSet(e, 0) <=> CanSet(x, 0)) /\ (CanSet(e, 0) => 0 \in steps \/ ~f.read)
  BY <1>2, <1>5 DEF CanSet
<1> HIDE DEF g
<1>8. f.step \in Int /\ FileTyped
  BY <1>2, GoodHas, HandleHas DEF HandleTypes
<1>9. steps \subseteq steps' /\ steps' \subseteq Nat /\ (steps' = steps \/ ~f.read) /\ (g.step >= 0 => g.step \in steps')
  <2>1. steps \subseteq Nat
    BY GoodHas DEF Shape
  <2>2. g.step \in Int
    BY <1>6, <1>8
  <2>3. g.step >= 0 => g.step \in steps \/ ~f.read
    BY <1>2, <1>6, <1>7
  <2> QED
    BY <1>1, <1>6, <2>1, <2>2, <2>3, StepsGrow
<1> HIDE DEF f, x, y
<1>10. \E v \in Handles, ret \in {"ok", "error"} :
          /\ Return(r, v, ret) /\ SameBut(v, g) /\ InStep(v)
          /\ Call(r).op = "canonical" /\ HasData(g.step) =>
                     IF Share(g.step) >= nprocs
                     THEN v.disk = [total |-> Share(g.step), sel |-> Shares(Share(g.step) \div nprocs, r)]
                     ELSE v.disk.total < nprocs
  <2>1. CASE g.step < 0 /\ Return(r, g, "error")
    <3>1. ~HasData(g.step)
      <4>1. g.step \notin Nat
        BY <2>1
      <4> QED
        BY <1>8, <4>1 DEF HasData, FileTyped
    <3>2. SameBut(g, g)
      BY DEF SameBut
    <3> QED
      BY <1>6, <2>1, <3>1, <3>2
  <2>2. CASE g.step >= 0 /\ \E garbage \in Garbage : Return(r, ViewOf(r, g, garbage), "ok")
    <3>1. PICK garbage \in Garbage : Return(r, ViewOf(r, g, garbage), "ok")
      BY <2>2
    <3>2. garbage \in Nat
      BY GarbageAssumption
    <3> QED
      BY <1>1, <1>3, <1>6, <1>8, <3>1, <3>2, ViewOfIs
  <2> QED
    BY <1>1, <2>1, <2>2
<1>11. PICK v \in Handles, ret \in {"ok", "error"} :
          /\ Return(r, v, ret) /\ SameBut(v, g) /\ InStep(v)
          /\ Call(r).op = "canonical" /\ HasData(g.step) =>
                     IF Share(g.step) >= nprocs
                     THEN v.disk = [total |-> Share(g.step), sel |-> Shares(Share(g.step) \div nprocs, r)]
                     ELSE v.disk.total < nprocs
  BY <1>10
<1>12. v.read = f.read /\ v.step = g.step /\ v.timestep = g.timestep /\ v.shape = f.shape /\ v.throttle = f.throttle
  BY <1>6, <1>11 DEF SameBut
<1>13. Closed'
  <2>1. Moves(r) /\ h'[r].f = v
    BY <1>11, GoodHas, ReturnIs
  <2> QED
    BY <1>1, <1>12, <2>1, GoodHas, ClosedStays DEF f
<1>14. /\ v.read = y.read /\ v.step = y.step /\ v.timestep = y.timestep
       /\ v.throttle = y.throttle /\ v.shape = y.shape
       /\ h[r].f.read => v.read
  BY <1>2, <1>4, <1>6, <1>7, <1>12 DEF f
<1>15. Call(r).op \notin {"write", "read"}
  BY <1>1 DEF Viewing
<1>16. v.step >= 0 => v.step \in steps'
  BY <1>9, <1>12
<1>17. Call(r).op = "canonical" /\ HasData(v.step) =>
                     IF Share(v.step) >= nprocs
                     THEN v.disk = [total |-> Share(v.step), sel |-> Shares(Share(v.step) \div nprocs, r)]
                     ELSE v.disk.total < nprocs
  BY <1>11, <1>12
<1> QED
  BY <1>1, <1>2, <1>4, <1>9, <1>11, <1>13, <1>14, <1>15, <1>16, <1>17, Returned DEF Transferring, y, f

-----------------------------------------------------------------------------
(* Beginning to read; counts; closing and opening                           *)

\* _read_data up to the transfer.
LEMMA ReadBegins ==
    ASSUME NEW m, NEW t, Good(m, t), NEW r \in Procs, Done(r) < m, BeginRead(r)
    PROVE  Good(m, t)'
<1> DEFINE f == h[r].f
           n == h[r].n
           x == t[h[r].n]
           y == t[h[r].n + 1]
           s == h[r].f.timestep
           g == WithStep(f, s)
           name == Call(r).arg
<1>1. /\ h[r].pc = "idle" /\ Call(r).op = "read" /\ StepMade(g)
      /\ program' = program /\ file' = file /\ tokens' = tokens /\ faults' = faults
      /\ IF <<g.step, name>> \in DOMAIN file
         THEN h' = [h EXCEPT ![r].pc = "start", ![r].f = g]
         ELSE Return(r, g, "error")
  BY DEF BeginRead, Ready, Has
<1>2. /\ n < m /\ f \in Handles /\ x \in Common /\ InStep(f) /\ (f.step >= 0 => f.step \in steps)
      /\ f.read = x.read /\ f.step = x.step /\ f.timestep = x.timestep /\ f.throttle = x.throttle
      /\ f.shape = x.shape /\ Done(r) = n
      /\ x.counts # Unset => /\ f.disk = OwnSpace(x.counts, r) /\ f.shape = SumOver(x.counts, Procs)
                             /\ f.mem = MemFor(x.counts[r])
  BY <1>1, AtRest DEF Transferring
<1>3. /\ y = Then(x, Call(r)) /\ CallTyped(Call(r)) /\ program \in Programs /\ n \in Nat /\ n + 1 <= m
      /\ m \in Nat /\ n < Len(Calls) /\ Call(r).op = Op(n + 1) /\ n + 1 \in 0 .. m /\ Len(Calls) \in Nat
      /\ m <= Len(Calls) /\ y \in Common
  BY <1>1, <1>2, AtTheCall, GoodHas
<1>4. /\ y.step = (IF x.step < 0 THEN (IF CanSet(x, s) THEN s ELSE -1) ELSE x.step)
      /\ y.timestep = s /\ y.shape = x.shape /\ y.throttle = x.throttle /\ y.counts = x.counts
      /\ y.read = x.read
  <2>1. /\ y.step = (IF x.step < 0 THEN (IF CanSet(x, x.timestep) THEN x.timestep ELSE -1) ELSE x.step)
        /\ y.timestep = x.timestep /\ y.shape = x.shape /\ y.throttle = x.throttle /\ y.counts = x.counts
    BY <1>1, <1>2, <1>3, ThenRead
  <2>2. y.read = x.read
    BY <1>1, <1>2, <1>3, ThenIs
  <2>3. x.timestep = s
    BY <1>2
  <2> HIDE DEF x, y, s
  <2> QED
    BY <2>1, <2>2, <2>3
<1>5. s \in Int /\ f.step \in Int /\ FileTyped /\ f.timestep = s
  BY <1>2, GoodHas, HandleHas DEF HandleTypes
<1> HIDE DEF f, s
<1>6. /\ g \in Handles /\ InStep(g) /\ g.read = f.read /\ g.shape = f.shape /\ g.throttle = f.throttle
      /\ g.step = (IF f.step < 0 THEN (IF CanSet(f, s) THEN s ELSE -1) ELSE f.step)
      /\ g.timestep = (IF f.step < 0 THEN s ELSE f.timestep)
      /\ g.disk = f.disk /\ g.mem = f.mem
  BY <1>2, <1>5, HandleWithStep
<1>7. (CanSet(f, s) <=> CanSet(x, s)) /\ (CanSet(f, s) => s \in steps \/ ~f.read)
  BY <1>2 DEF CanSet
<1>8. WithStep(x, x.timestep).step = y.step
  <2>1. x.timestep = s /\ s \in Int
    BY <1>2, <1>5
  <2> HIDE DEF x, y
  <2> QED
    BY <1>2, <1>4, <2>1, CommonWithStep
<1> HIDE DEF g, x
<1>9. steps \subseteq steps' /\ steps' \subseteq Nat /\ (steps' = steps \/ ~f.read) /\ (g.step >= 0 => g.step \in steps')
  <2>1. steps \subseteq Nat
    BY GoodHas DEF Shape
  <2>2. g.step \in Int
    BY <1>5, <1>6
  <2>3. g.step >= 0 => g.step \in steps \/ ~f.read
    BY <1>2, <1>6, <1>7
  <2> QED
    BY <1>1, <1>6, <2>1, <2>2, <2>3, StepsGrow
<1> HIDE DEF y
<1>10. /\ g.read = y.read /\ g.step = y.step /\ g.timestep = y.timestep
       /\ g.throttle = y.throttle /\ g.shape = y.shape
       /\ y.counts # Unset => /\ g.disk = OwnSpace(y.counts, r) /\ g.shape = SumOver(y.counts, Procs)
                              /\ g.mem = MemFor(y.counts[r])
  BY <1>2, <1>4, <1>5, <1>6, <1>7
<1>11. CASE <<g.step, name>> \notin DOMAIN file
  <2>1. Return(r, g, "error") /\ ~Reads(x, name)
    BY <1>1, <1>8, <1>10, <1>11 DEF Reads
  <2>2. Closed'
    <3>1. Moves(r) /\ h'[r].f = g
      BY <2>1, GoodHas, ReturnIs
    <3> QED
      BY <1>1, <1>6, <3>1, GoodHas, ClosedStays DEF f
  <2>3. h[r].f.read => g.read
    BY <1>6 DEF f
  <2>4. steps' = steps \/ (~h[r].f.read /\ h[r].pc # "close")
    BY <1>1, <1>9 DEF f
  <2> QED
    BY <1>1, <1>2, <1>6, <1>9, <1>10, <2>1, <2>2, <2>3, <2>4, Returned DEF Transferring, y, x, name
<1>12. CASE <<g.step, name>> \in DOMAIN file
  <2>0. h \in [Procs -> Slots] /\ SlotTypes(h[r]) /\ Shape
    BY GoodHas
  <2>1. /\ Moves(r)
        /\ h'[r].n = n /\ h'[r].pc = "start" /\ h'[r].f = g /\ h'[r].ret = h[r].ret
        /\ h'[r].failed = h[r].failed /\ h'[r].held = h[r].held /\ h'[r].got = h[r].got
    BY <1>1, <1>12, <2>0, PcAndHandleIs
  <2>2. SlotTypes(h'[r])
    BY <1>3, <1>6, <2>0, <2>1 DEF SlotTypes, Pcs, Transferring
  <2>3. ShapeThen
    BY <1>1, <1>9, <2>0 DEF Shape, ShapeThen
  <2>4. Done(r)' = n + 1
    BY <2>1 DEF Done, Transferring
  <2>5. AtCall(r)'
    <3>1. Call(r)' = Call(r) /\ Calls' = Calls
      BY <1>1, <2>1 DEF Call, Calls
    <3>2. Key(r)' = <<g.step, name>>
      BY <2>1, <3>1 DEF Key
    <3> QED
      BY <1>1, <1>3, <1>9, <1>12, <2>1, <3>1, <3>2 DEF AtCall, Transferring
  <2>6. Matches(r, m, t)'
    <3>1. Call(r)' = Call(r)
      BY <1>1, <2>1 DEF Call
    <3> QED
      BY <1>1, <1>3, <1>10, <2>1, <2>4, <3>1 DEF Matches, y
  <2>7. Bounds(r)'
    BY <1>6, <2>1 DEF Bounds, InStep
  <2>8. Owns(r, t)'
    BY <1>10, <2>1, <2>4 DEF Owns, y
  <2>9. Divided(r)'
    BY <2>1 DEF Divided
  <2>10. Closed'
    BY <1>1, <1>6, <2>1, GoodHas, ClosedStays DEF f
  <2>11. ASSUME ReadsWhatIsClosed PROVE Turns(t)' /\ ReadIsRight(r)'
    <3>1. \A d \in Batches : Begun(r, d, t)' = Begun(r, d, t)
      BY <1>1, <1>2, <2>1 DEF Begun
    <3>2. ReadIsRight(r)'
      BY <2>1 DEF ReadIsRight, Got
    <3> QED
      BY <1>1, <1>2, <1>3, <2>1, <2>11, <3>1, <3>2, TurnsStay
  <2>12. \A k \in 0 .. m - 1 : Behind(r, k)' => Behind(r, k) \/ ~(Op(k + 1) = "write" /\ Writes(t[k]))
    BY <1>3, <2>1 DEF Behind
  <2>13. \A k \in 0 .. m - 1 : Done(r) <= k /\ k < Done(r)' /\ Op(k + 1) = "write" /\ Writes(t[k])
                 => <<t[k].step, Calls[k + 1].arg>> \in DOMAIN file
    BY <1>1, <1>2, <1>3, <2>4
  <2>14. Done(r) <= Done(r)' /\ Done(r)' \in Nat /\ faults' <= faults
    BY <1>1, <1>2, <1>3, <2>0, <2>4, NprocsAssumption DEF Shape
  <2>15. /\ h[r].f.read => h'[r].f.read
         /\ steps' = steps \/ (~h[r].f.read /\ h[r].pc # "close")
    BY <1>1, <1>6, <1>9, <2>1 DEF f
  <2> QED
    BY <1>1, <2>1, <2>2, <2>3, <2>5, <2>6, <2>7, <2>8, <2>9, <2>10, <2>11, <2>12, <2>13, <2>14, <2>15, Quiet
<1> QED
  BY <1>11, <1>12

\* The handle before and after the counts of all have been gathered.
Asking(f, count) ==
    [_reset_view(f) EXCEPT !.shape = -1, !.nparticles = count, !.mem = MemFor(count)]
Gathered(f, counts, r) ==
    [f EXCEPT !.pnparticles = counts, !.shape = SumOver(counts, Procs),
              !.viewstart = Start(counts, r), !.viewend = Start(counts, r) + counts[r] - 1,
              !.disk = OwnSpace(counts, r)]

LEMMA AskingIs ==
    ASSUME NEW f \in Handles, NEW count \in Nat
    PROVE  LET g == Asking(f, count)
           IN  /\ g \in Handles /\ g.read = f.read /\ g.step = f.step /\ g.timestep = f.timestep
               /\ g.throttle = f.throttle /\ InStep(g)
               /\ g.disk = ALL /\ ~g.viewindexed /\ g.nparticles = count /\ g.mem = MemFor(count)
<1> DEFINE e == _reset_view(f)
           g == Asking(f, count)
<1>1. /\ e \in Handles /\ e.read = f.read /\ e.step = f.step /\ e.timestep = f.timestep
      /\ e.throttle = f.throttle /\ e.viewstart = -1 /\ e.viewend = -1 /\ e.viewindexed = FALSE
      /\ e.disk = ALL /\ e.pnparticles = f.pnparticles
  BY ResetIs
<1>2. DOMAIN e = HandleFields /\ HandleTypes(e) /\ g = [e EXCEPT !.shape = -1, !.nparticles = count, !.mem = MemFor(count)]
  BY <1>1, HandleHas DEF Asking
<1> HIDE DEF e, g
<1>3. g.shape = -1 /\ g.nparticles = count /\ g.mem = MemFor(count)
  BY <1>2 DEF HandleFields
<1>4. /\ g.read = e.read /\ g.step = e.step /\ g.timestep = e.timestep /\ g.disk = e.disk
      /\ g.viewstart = e.viewstart /\ g.viewend = e.viewend /\ g.viewindexed = e.viewindexed
      /\ g.pnparticles = e.pnparticles /\ g.throttle = e.throttle
  BY <1>2 DEF HandleFields
<1>5. g = [x \in HandleFields |-> g[x]]
  BY <1>2
<1>6. MemFor(count) \in Int
  BY DEF MemFor
<1>7. HandleTypes(g)
  BY <1>2, <1>3, <1>4, <1>6 DEF HandleTypes
<1>8. g \in Handles
  BY <1>5, <1>7, IsHandle
<1>9. InStep(g)
  BY <1>1, <1>4 DEF InStep
<1> QED
  BY <1>1, <1>3, <1>4, <1>8, <1>9 DEF g

LEMMA GatheredIs ==
    ASSUME NEW f \in Handles, NEW counts \in [Procs -> Nat], NEW r \in Procs, f.nparticles = counts[r],
           ~f.viewindexed
    PROVE  LET g == Gathered(f, counts, r)
           IN  /\ g \in Handles /\ g.read = f.read /\ g.step = f.step /\ g.timestep = f.timestep
               /\ g.throttle = f.throttle /\ InStep(g)
               /\ g.shape = SumOver(counts, Procs) /\ g.disk = OwnSpace(counts, r) /\ g.mem = f.mem
<1> DEFINE g == Gathered(f, counts, r)
           start == Start(counts, r)
           d == OwnSpace(counts, r)
           total == SumOver(counts, Procs)
<1>1. DOMAIN f = HandleFields /\ HandleTypes(f)
      /\ g = [f EXCEPT !.pnparticles = counts, !.shape = total, !.viewstart = start,
                       !.viewend = start + counts[r] - 1, !.disk = d]
  BY HandleHas DEF Gathered
<1>2. /\ total \in Nat /\ start \in Nat /\ counts[r] \in Nat
      /\ d = [total |-> total, sel |-> IndexRange(start, start + counts[r] - 1)]
      /\ d.sel = IndexRange(start, start + counts[r] - 1) /\ d # ALL
  <2>1. total \in Nat /\ start \in Nat
    BY TotalIs, StartIs
  <2>2. d = [total |-> total, sel |-> IndexRange(start, start + counts[r] - 1)]
    BY DEF OwnSpace
  <2> HIDE DEF total, start, d
  <2>3. d.total = total /\ d.sel = IndexRange(start, start + counts[r] - 1)
    BY <2>2
  <2>4. d # ALL
    BY <2>1, <2>3, AllIs
  <2> QED
    BY <2>1, <2>2, <2>3, <2>4
<1> HIDE DEF g, start, d, total
<1>3. IndexRange(start, start + counts[r] - 1) \in Seq(Nat)
      /\ Len(IndexRange(start, start + counts[r] - 1)) = counts[r]
  <2> DEFINE end == start + counts[r] - 1
  <2>1. end \in Int /\ end - start + 1 = counts[r] /\ end >= start - 1
    BY <1>2
  <2> HIDE DEF end
  <2>2. IndexRange(start, end) \in Seq(Nat) /\ Len(IndexRange(start, end)) = counts[r]
    <3>1. start \in Int /\ start >= 0
      BY <1>2
    <3>2. IndexRange(start, end) \in Seq(Nat) /\ Len(IndexRange(start, end)) = end - start + 1
      BY <2>1, <3>1, IndexRangeIs
    <3> QED
      BY <2>1, <3>2
  <2> QED
    BY <2>2 DEF end
<1>4. d \in [total : Int, sel : Seq(Nat)]
  BY <1>2, <1>3
<1>5. g.shape = total /\ g.disk = d /\ g.viewstart = start /\ g.viewend = start + counts[r] - 1 /\ g.pnparticles = counts
  BY <1>1 DEF HandleFields
<1>6. /\ g.read = f.read /\ g.step = f.step /\ g.timestep = f.timestep /\ g.nparticles = f.nparticles
      /\ g.mem = f.mem /\ g.viewindexed = f.viewindexed /\ g.throttle = f.throttle
  BY <1>1 DEF HandleFields
<1>7. g = [x \in HandleFields |-> g[x]]
  BY <1>1
<1>8. HandleTypes(g)
  <2>1. g.viewend \in Int /\ g.viewstart \in Int /\ g.shape \in Int
    BY <1>2, <1>5
  <2>2. g.pnparticles \in {Unset} \cup [Procs -> Nat] /\ g.disk \in [total : Int, sel : Seq(Nat)]
    BY <1>4, <1>5
  <2> QED
    BY <1>1, <1>6, <2>1, <2>2 DEF HandleTypes
<1>9. g \in Handles
  BY <1>7, <1>8, IsHandle
<1>10. InStep(g)
  BY <1>2, <1>3, <1>5, <1>6 DEF InStep
<1> QED
  BY <1>5, <1>6, <1>9, <1>10 DEF g, d, total

\* H5PartSetNumParticles up to MPI_Allgather.
LEMMA AskingKeeps ==
    ASSUME NEW m, NEW t, Good(m, t), NEW r \in Procs, Done(r) < m, SetNumParticles(r)
    PROVE  Good(m, t)'
<1> DEFINE f == h[r].f
           n == h[r].n
           x == t[h[r].n]
           count == Call(r).arg[r]
           g == Asking(f, count)
<1>1. /\ h[r].pc = "idle" /\ Call(r).op = "num" /\ h' = [h EXCEPT ![r].pc = "gather", ![r].f = g]
      /\ program' = program /\ file' = file /\ steps' = steps /\ tokens' = tokens /\ faults' = faults
  BY DEF SetNumParticles, Ready, Has, disk_vars, Asking, MemFor
<1>2. /\ n < m /\ f \in Handles /\ x \in Common /\ InStep(f) /\ (f.step >= 0 => f.step \in steps)
      /\ f.read = x.read /\ f.step = x.step /\ f.timestep = x.timestep /\ f.throttle = x.throttle
      /\ Done(r) = n
  BY <1>1, AtRest DEF Transferring
<1>3. /\ CallTyped(Call(r)) /\ n \in Nat /\ n < Len(Calls) /\ Len(Calls) \in Nat /\ m \in Nat /\ count \in Nat
  BY <1>1, <1>2, AtTheCall, GoodHas DEF CallTyped
<1> HIDE DEF f
<1>4. /\ g \in Handles /\ g.read = f.read /\ g.step = f.step /\ g.timestep = f.timestep
      /\ g.throttle = f.throttle /\ InStep(g)
      /\ g.disk = ALL /\ ~g.viewindexed /\ g.nparticles = count /\ g.mem = MemFor(count)
  <2> HIDE DEF count
  <2> QED
    BY <1>2, <1>3, AskingIs
<1> HIDE DEF g
<1>5. h \in [Procs -> Slots] /\ SlotTypes(h[r]) /\ Shape
  BY GoodHas
<1>6. /\ Moves(r)
      /\ h'[r].n = n /\ h'[r].pc = "gather" /\ h'[r].f = g /\ h'[r].ret = h[r].ret
      /\ h'[r].failed = h[r].failed /\ h'[r].held = h[r].held /\ h'[r].got = h[r].got
  BY <1>1, <1>5, PcAndHandleIs
<1>7. SlotTypes(h'[r])
  BY <1>3, <1>4, <1>5, <1>6 DEF SlotTypes, Pcs
<1>8. ShapeThen
  BY <1>1, <1>5 DEF Shape, ShapeThen
<1>9. Done(r)' = n /\ Call(r)' = Call(r) /\ Calls' = Calls
  BY <1>1, <1>6 DEF Done, Transferring, Call, Calls
<1>10. AtCall(r)'
  BY <1>1, <1>2, <1>3, <1>4, <1>6, <1>9 DEF AtCall, Transferring
<1>11. Matches(r, m, t)'
  BY <1>1, <1>2, <1>3, <1>4, <1>6, <1>9 DEF Matches, Transferring, f
<1>12. Bounds(r)'
  BY <1>4, <1>6, <1>9 DEF Bounds, InStep
<1>13. Owns(r, t)' /\ Divided(r)'
  BY <1>6 DEF Owns, Divided
<1>14. Closed'
  BY <1>1, <1>4, <1>6, GoodHas, ClosedStays DEF f
<1>15. ASSUME ReadsWhatIsClosed PROVE Turns(t)' /\ ReadIsRight(r)'
  <2>1. \A d \in Batches : Begun(r, d, t)' = Begun(r, d, t)
    BY <1>1, <1>2, <1>6, <1>9 DEF Begun
  <2>2. ReadIsRight(r)'
    BY <1>6 DEF ReadIsRight, Got
  <2>3. h'[r].n \in Nat /\ h[r].n <= h'[r].n /\ h'[r].n <= m
    BY <1>2, <1>3, <1>6
  <2>4. Turns(t)'
    BY <1>1, <1>6, <1>15, <2>1, <2>3, TurnsStay
  <2> QED
    BY <2>2, <2>4
<1>16. \A k \in 0 .. m - 1 : Behind(r, k)' => Behind(r, k) \/ ~(Op(k + 1) = "write" /\ Writes(t[k]))
  BY <1>6 DEF Behind
<1>17. \A k \in 0 .. m - 1 : Done(r) <= k /\ k < Done(r)' /\ Op(k + 1) = "write" /\ Writes(t[k])
               => <<t[k].step, Calls[k + 1].arg>> \in DOMAIN file
  BY <1>2, <1>3, <1>9
<1>18. Done(r) <= Done(r)' /\ Done(r)' \in Nat /\ faults' <= faults
  BY <1>1, <1>2, <1>3, <1>5, <1>9, NprocsAssumption DEF Shape
<1>19. h[r].f.read => h'[r].f.read
  BY <1>4, <1>6 DEF f
<1> QED
  BY <1>1, <1>6, <1>7, <1>8, <1>10, <1>11, <1>12, <1>13, <1>14, <1>15, <1>16, <1>17, <1>18, <1>19, Quiet

\* ... and after it.
LEMMA GatheringKeeps ==
    ASSUME NEW m, NEW t, Good(m, t), NEW r \in Procs, Done(r) < m, NumParticlesGathered(r)
    PROVE  Good(m, t)'
<1> DEFINE f == h[r].f
           n == h[r].n
           x == t[h[r].n]
           y == t[h[r].n + 1]
           counts == Call(r).arg
           g == Gathered(f, counts, r)
<1>1. /\ h[r].pc = "gather" /\ Return(r, g, "ok")
      /\ program' = program /\ file' = file /\ steps' = steps /\ tokens' = tokens /\ faults' = faults
  BY DEF NumParticlesGathered, disk_vars, Gathered, OwnSpace
<1>2. /\ n < m /\ f \in Handles /\ x \in Common /\ (f.step >= 0 => f.step \in steps)
      /\ f.read = x.read /\ f.step = x.step /\ f.timestep = x.timestep /\ f.throttle = x.throttle
  BY <1>1, AtRest DEF Transferring
<1>3. /\ Call(r).op = "num" /\ ~f.viewindexed /\ f.nparticles = counts[r] /\ f.mem = MemFor(counts[r])
  BY <1>1, GoodHas DEF AtCall, Bounds
<1>4. y = Then(x, Call(r)) /\ CallTyped(Call(r)) /\ program \in Programs
  BY <1>1, <1>2, AtTheCall, GoodHas
<1>5. /\ counts \in [Procs -> Nat] /\ y.step = x.step /\ y.timestep = x.timestep /\ y.throttle = x.throttle
      /\ y.shape = SumOver(counts, Procs) /\ y.counts = counts /\ y.read = x.read
  BY <1>2, <1>3, <1>4, ThenNum, ThenIs
<1> HIDE DEF f, x, counts
<1>6. /\ g \in Handles /\ g.read = f.read /\ g.step = f.step /\ g.timestep = f.timestep
      /\ g.throttle = f.throttle /\ InStep(g)
      /\ g.shape = SumOver(counts, Procs) /\ g.disk = OwnSpace(counts, r) /\ g.mem = f.mem
  BY <1>2, <1>3, <1>5, GatheredIs
<1> HIDE DEF g, y
<1>7. Closed' /\ steps' \subseteq Nat
  <2>1. Moves(r) /\ h'[r].f = g
    BY <1>1, GoodHas, ReturnIs
  <2> QED
    BY <1>1, <1>6, <2>1, GoodHas, ClosedStays DEF f, Shape
<1>8. /\ g.read = y.read /\ g.step = y.step /\ g.timestep = y.timestep
      /\ g.throttle = y.throttle /\ g.shape = y.shape /\ (g.step >= 0 => g.step \in steps')
      /\ h[r].f.read => g.read
      /\ y.counts # Unset => /\ g.disk = OwnSpace(y.counts, r) /\ g.shape = SumOver(y.counts, Procs)
                             /\ g.mem = MemFor(y.counts[r])
  BY <1>1, <1>2, <1>3, <1>5, <1>6 DEF f
<1> QED
  BY <1>1, <1>2, <1>3, <1>6, <1>7, <1>8, Returned DEF Transferring, y

\* H5PartCloseFile.
LEMMA ClosingKeeps ==
    ASSUME NEW m, NEW t, Good(m, t), NEW r \in Procs, Done(r) < m, H5PartCloseFile(r)
    PROVE  Good(m, t)'
<1> DEFINE n == h[r].n
<1>1. /\ h[r].pc = "idle" /\ Call(r).op = "reopen" /\ h' = [h EXCEPT ![r].pc = "close"]
      /\ program' = program /\ file' = file /\ steps' = steps /\ tokens' = tokens /\ faults' = faults
  BY DEF H5PartCloseFile, Ready, Has, disk_vars
<1>2. n < m /\ Done(r) = n
  BY <1>1, AtRest DEF Transferring
<1>3. n \in Nat /\ n < Len(Calls) /\ Len(Calls) \in Nat /\ m \in Nat
  BY <1>1, <1>2, AtTheCall, GoodHas
<1>4. /\ h \in [Procs -> Slots] /\ SlotTypes(h[r]) /\ Shape
      /\ AtCall(r) /\ Matches(r, m, t) /\ Bounds(r) /\ Owns(r, t)
  BY GoodHas
<1>5. /\ Moves(r)
      /\ h'[r].n = n /\ h'[r].pc = "close" /\ h'[r].f = h[r].f /\ h'[r].ret = h[r].ret
      /\ h'[r].failed = h[r].failed /\ h'[r].held = h[r].held /\ h'[r].got = h[r].got
  BY <1>1, <1>4, PcIs
<1>6. SlotTypes(h'[r])
  BY <1>4, <1>5 DEF SlotTypes, Pcs
<1>7. ShapeThen
  BY <1>1, <1>4 DEF Shape, ShapeThen
<1>8. Done(r)' = n /\ Call(r)' = Call(r) /\ Calls' = Calls
  BY <1>1, <1>5 DEF Done, Transferring, Call, Calls
<1>9. AtCall(r)'
  BY <1>1, <1>3, <1>4, <1>5, <1>8 DEF AtCall, Transferring
<1>10. Matches(r, m, t)'
  BY <1>1, <1>2, <1>4, <1>5, <1>8 DEF Matches, Transferring
<1>11. Bounds(r)'
  BY <1>1, <1>4, <1>5 DEF Bounds, InStep
<1>12. Owns(r, t)' /\ Divided(r)'
  BY <1>1, <1>2, <1>4, <1>5, <1>8 DEF Owns, Divided
<1>13. Closed'
  BY <1>1, <1>5, GoodHas, ClosedStays
<1>14. ASSUME ReadsWhatIsClosed PROVE Turns(t)' /\ ReadIsRight(r)'
  <2>1. \A d \in Batches : Begun(r, d, t)' = Begun(r, d, t)
    BY <1>1, <1>2, <1>5, <1>8 DEF Begun
  <2>2. ReadIsRight(r)'
    BY <1>5 DEF ReadIsRight, Got
  <2>3. h'[r].n \in Nat /\ h[r].n <= h'[r].n /\ h'[r].n <= m
    BY <1>2, <1>3, <1>5
  <2>4. Turns(t)'
    BY <1>1, <1>5, <1>14, <2>1, <2>3, TurnsStay
  <2> QED
    BY <2>2, <2>4
<1>15. \A k \in 0 .. m - 1 : Behind(r, k)' => Behind(r, k) \/ ~(Op(k + 1) = "write" /\ Writes(t[k]))
  BY <1>5 DEF Behind
<1>16. \A k \in 0 .. m - 1 : Done(r) <= k /\ k < Done(r)' /\ Op(k + 1) = "write" /\ Writes(t[k])
               => <<t[k].step, Calls[k + 1].arg>> \in DOMAIN file
  BY <1>2, <1>3, <1>8
<1>17. Done(r) <= Done(r)' /\ Done(r)' \in Nat /\ faults' <= faults
  BY <1>1, <1>2, <1>3, <1>4, <1>8, NprocsAssumption DEF Shape
<1>18. h[r].f.read => h'[r].f.read
  BY <1>5
<1> QED
  BY <1>1, <1>5, <1>6, <1>7, <1>9, <1>10, <1>11, <1>12, <1>13, <1>14, <1>15, <1>16, <1>17, <1>18, Quiet

\* _H5Part_open_file.
LEMMA NewHandle ==
    ASSUME NEW b \in BOOLEAN
    PROVE  LET g == Handle(b)
           IN  /\ g \in Handles /\ InStep(g) /\ g.read = b /\ g.step = -1 /\ g.timestep = 0 /\ g.shape = -1
               /\ g.throttle = 0
<1> DEFINE g == Handle(b)
<1>1. g \in Handles
  BY AllIs DEF Handle, Handles
<1>2. /\ g.read = b /\ g.step = -1 /\ g.timestep = 0 /\ g.shape = -1 /\ g.throttle = 0
      /\ g.viewstart = -1 /\ g.viewend = -1 /\ g.disk = ALL /\ g.viewindexed = FALSE
  BY DEF Handle
<1> HIDE DEF g
<1>3. InStep(g)
  BY <1>2 DEF InStep
<1> QED
  BY <1>1, <1>2, <1>3 DEF g

\* H5PartOpenFileParallel.
LEMMA OpeningKeeps ==
    ASSUME NEW m, NEW t, Good(m, t), NEW r \in Procs, Done(r) < m, H5PartOpenFileParallel(r)
    PROVE  Good(m, t)'
<1> DEFINE f == h[r].f
           n == h[r].n
           x == t[h[r].n]
           y == t[h[r].n + 1]
           g == Handle(TRUE)
<1>1. /\ h[r].pc = "close" /\ Reached(r, "close") /\ Return(r, g, "ok")
      /\ program' = program /\ file' = file /\ steps' = steps /\ tokens' = tokens /\ faults' = faults
  BY DEF H5PartOpenFileParallel, disk_vars
<1>2. n < m /\ x \in Common
  BY <1>1, AtRest DEF Transferring
<1>3. Call(r).op = "reopen"
  BY <1>1, GoodHas DEF AtCall
<1>4. /\ y = Then(x, Call(r)) /\ CallTyped(Call(r)) /\ n \in Nat /\ n + 1 \in 0 .. m /\ Op(n + 1) = "reopen"
      /\ m \in Nat
  BY <1>1, <1>2, <1>3, AtTheCall, GoodHas
<1>5. /\ y.read = TRUE /\ y.step = -1 /\ y.timestep = 0 /\ y.shape = -1 /\ y.throttle = 0 /\ y.counts = Unset
  <2> DEFINE c == Call(r)
             z == Then(x, c)
  <2>1. c.op = "reopen" /\ y = z
    BY <1>3, <1>4
  <2> HIDE DEF x, y, c
  <2>2. /\ z.read = TRUE /\ z.step = -1 /\ z.timestep = 0 /\ z.shape = -1 /\ z.throttle = 0 /\ z.counts = Unset
    BY <1>2, <2>1, ThenReopen
  <2> HIDE DEF z
  <2> QED
    BY <2>1, <2>2, Zenon
<1>6. /\ g \in Handles /\ InStep(g) /\ g.read = TRUE /\ g.step = -1 /\ g.timestep = 0 /\ g.shape = -1
      /\ g.throttle = 0
  BY NewHandle
<1> HIDE DEF g, y
<1>7. Closed'
  <2>0. Moves(r) /\ h'[r].f = g /\ h \in [Procs -> Slots]
    BY <1>1, GoodHas, ReturnIs
  <2> SUFFICES ASSUME NEW q \in Procs, NEW p \in Procs, h'[q].f.read, ~h'[p].f.read PROVE h'[p].pc = "close"
    BY DEF Closed
  <2>1. p # r /\ h'[p] = h[p]
    BY <1>6, <2>0 DEF Moves
  <2>2. CASE h[p].n > n
    <3>1. /\ SlotTypes(h[p]) /\ Matches(p, m, t) /\ Course(m, t) /\ Onward(m, t) /\ program \in Programs
          /\ Done(p) \in Nat /\ Done(p) <= m /\ h[p].n <= Done(p)
      BY GoodHas
    <3>2. Done(p) \in 0 .. m /\ n + 1 \in 1 .. Done(p)
      BY <1>4, <2>2, <3>1 DEF SlotTypes
    <3>3. t[Done(p)].read
      BY <1>4, <3>1, <3>2, Reopened
    <3>4. h[p].f.read
      BY <3>1, <3>3 DEF Matches
    <3> QED
      BY <2>1, <3>4
  <2>3. CASE h[p].pc = "close"
    BY <2>1, <2>3
  <2> QED
    BY <1>1, <2>2, <2>3 DEF Reached
<1>8. steps' \subseteq Nat
  BY <1>1, GoodHas DEF Shape
<1>9. /\ g.read = y.read /\ g.step = y.step /\ g.timestep = y.timestep
      /\ g.throttle = y.throttle /\ g.shape = y.shape /\ ~(g.step >= 0)
  <2>1. ~(g.step >= 0)
    BY <1>6
  <2>2. g.read = y.read
    BY <1>5, <1>6, Zenon
  <2> QED
    BY <1>5, <1>6, <2>1, <2>2
<1> QED
  BY <1>1, <1>2, <1>3, <1>5, <1>6, <1>7, <1>8, <1>9, Returned DEF Transferring, y

-----------------------------------------------------------------------------
(* Transfers: waiting, passing on, reading                                  *)

\* In a transfer the handle is what the calls made it, this one included.
LEMMA InTransfer ==
    ASSUME NEW m, NEW t, Good(m, t), NEW r \in Procs, h[r].pc \in Transferring
    PROVE  LET f == h[r].f
               n == h[r].n
               x == t[n]
               y == t[n + 1]
           IN  /\ n \in Nat /\ n < m /\ Done(r) = n + 1 /\ m \in Nat /\ n \in 0 .. m - 1 /\ n + 1 \in 0 .. m
               /\ x \in Common /\ y \in Common /\ y = Then(x, Call(r)) /\ CallTyped(Call(r))
               /\ Call(r) = Calls[n + 1] /\ Call(r).op = Op(n + 1) /\ Call(r).op \in {"write", "read"}
               /\ n < Len(Calls) /\ Len(Calls) \in Nat
               /\ Key(r) \in DOMAIN file /\ (Call(r).op = "write" => Writes(x))
               /\ f \in Handles /\ f.read = y.read /\ f.step = y.step /\ f.throttle = y.throttle
               /\ y.read = x.read /\ y.throttle = x.throttle /\ y.counts = x.counts /\ y.shape = x.shape
               /\ f.shape = x.shape
               /\ (Call(r).op = "write" => y.step = x.step)
               /\ (Call(r).op = "read" => y.step = WithStep(x, x.timestep).step)
<1> DEFINE n == h[r].n
           c == Call(r)
           x == t[n]
           y == t[n + 1]
<1>1. /\ Done(r) = n + 1 /\ AtCall(r) /\ Matches(r, m, t) /\ SlotTypes(h[r]) /\ program \in Programs
      /\ Done(r) <= m /\ m \in Nat /\ h[r].pc # "gather"
  BY GoodHas DEF Done, Transferring
<1>2. n < m /\ n \in Nat
  BY <1>1 DEF SlotTypes
<1>3. /\ n \in Nat /\ n < m /\ Done(r) = n + 1 /\ m \in Nat /\ n \in 0 .. m - 1 /\ n + 1 \in 0 .. m
      /\ x \in Common /\ y \in Common /\ y = Then(x, c) /\ CallTyped(c)
      /\ c = Calls[n + 1] /\ c.op = Op(n + 1) /\ n < Len(Calls) /\ Len(Calls) \in Nat
  BY <1>1, <1>2, AtTheCall, GoodHas
<1>4. /\ c.op \in {"write", "read"} /\ Key(r) \in DOMAIN file /\ (c.op = "write" => Writes(x))
      /\ h[r].f.read = y.read /\ h[r].f.step = y.step /\ h[r].f.throttle = y.throttle
      /\ h[r].f.shape = y.shape /\ h[r].f \in Handles
  BY <1>1 DEF AtCall, Matches, SlotTypes
<1> HIDE DEF n, c, x
<1>5. /\ y.read = x.read /\ y.throttle = x.throttle /\ y.counts = x.counts /\ y.shape = x.shape
      /\ (c.op = "write" => y.step = x.step)
      /\ (c.op = "read" => y.step = WithStep(x, x.timestep).step)
  <2>1. y.read = x.read
    BY <1>1, <1>3, <1>4, ThenIs
  <2>2. CASE c.op = "write"
    BY <1>3, <2>1, <2>2, ThenWrite
  <2>3. CASE c.op = "read"
    <3>1. /\ y.step = (IF x.step < 0 THEN (IF CanSet(x, x.timestep) THEN x.timestep ELSE -1) ELSE x.step)
          /\ y.throttle = x.throttle /\ y.counts = x.counts /\ y.shape = x.shape
      BY <1>3, <2>3, ThenRead
    <3>2. x.timestep \in Int
      BY <1>3, CommonHas DEF CommonTypes
    <3>3. y.step = WithStep(x, x.timestep).step
      BY <1>3, <3>1, <3>2, CommonWithStep
    <3> QED
      BY <2>1, <2>3, <3>1, <3>3
  <2> QED
    BY <1>4, <2>2, <2>3
<1> QED
  BY <1>3, <1>4, <1>5 DEF n, c, x, y

\* The turn r takes, or has taken.
LEMMA TurnTaken ==
    ASSUME NEW m, NEW t, Good(m, t), NEW r \in Procs, h[r].pc \in Transferring, NEW d \in Batches
    PROVE  /\ t[h[r].n].turns[d] \in Nat /\ t[h[r].n + 1].turns[d] \in Nat
           /\ d # h[r].f.throttle => t[h[r].n + 1].turns[d] = t[h[r].n].turns[d]
           /\ t[h[r].n + 1].turns[d] <= t[h[r].n].turns[d] + 1
           /\ ReadsWhatIsClosed /\ d = h[r].f.throttle => t[h[r].n + 1].turns[d] = t[h[r].n].turns[d] + 1
<1> DEFINE n == h[r].n
           c == Call(r)
           x == t[n]
           y == t[n + 1]
<1>1. /\ x \in Common /\ y \in Common /\ y = Then(x, c) /\ c.op \in {"write", "read"}
      /\ (c.op = "write" => Writes(x)) /\ h[r].f.throttle = x.throttle
      /\ Key(r) \in DOMAIN file /\ h[r].f.step = y.step
      /\ (c.op = "read" => y.step = WithStep(x, x.timestep).step)
      /\ n + 1 \in 0 .. m /\ c.op = Op(n + 1) /\ y.read = x.read /\ h[r].f.read = y.read
      /\ n \in Nat /\ n < Len(Calls) /\ Len(Calls) \in Nat
  BY InTransfer
<1>2. x.turns[d] \in Nat /\ y.turns[d] \in Nat
  BY <1>1, CommonHas DEF CommonTypes
<1>3. ASSUME c.op = "read", ReadsWhatIsClosed PROVE Reads(x, c.arg)
  <2>1. Course(m, t) /\ Onward(m, t) /\ program \in Programs
    BY GoodHas
  <2>2. n + 1 \in DOMAIN Calls
    BY <1>1, <2>1, CallsAre
  <2>3. PICK b \in 1 .. (n + 1) - 1 : Op(b) = "reopen"
    BY <1>1, <1>3, <2>2 DEF ReadsWhatIsClosed
  <2>4. b \in 1 .. n + 1
    BY <1>1
  <2>5. t[n + 1].read
    BY <1>1, <2>1, <2>3, <2>4, Reopened
  <2>6. <<y.step, c.arg>> \in DOMAIN file
    BY <1>1 DEF Key
  <2> QED
    BY <1>1, <1>3, <2>5, <2>6 DEF Reads
<1> HIDE DEF n, c, x, y
<1>4. CASE c.op = "write"
  <2>1. y.turns[d] = IF Writes(x) /\ d = x.throttle THEN x.turns[d] + 1 ELSE x.turns[d]
    BY <1>1, <1>4, ThenWrite
  <2> QED
    BY <1>1, <1>2, <1>4, <2>1 DEF x, y, n
<1>5. CASE c.op = "read"
  <2>1. y.turns[d] = IF Reads(x, c.arg) /\ d = x.throttle THEN x.turns[d] + 1 ELSE x.turns[d]
    BY <1>1, <1>5, ThenRead
  <2> QED
    BY <1>1, <1>2, <1>3, <1>5, <2>1 DEF x, y, n
<1> QED
  BY <1>1, <1>4, <1>5

\* r goes on within a transfer: the handle stays.
LEMMA GoesOn ==
    ASSUME NEW m, NEW t, Good(m, t), NEW r \in Procs, h[r].pc \in Transferring,
           Moves(r), h'[r].n = h[r].n, h'[r].pc \in {"xfer", "end"}, h'[r].f = h[r].f, h'[r].ret = h[r].ret,
           h'[r].failed \in BOOLEAN, h'[r].held = h[r].held, h'[r].got \in Seq(Cells),
           program' = program, file' = file, steps' = steps,
           tokens' \in [Procs \X Procs -> Nat], faults' \in 0 .. MaxFaults, faults' <= faults,
           h'[r].pc = "end" /\ h[r].pc # "end" => Op(h[r].n + 1) # "write",
           ReadsWhatIsClosed => Turns(t)' /\ ReadIsRight(r)'
    PROVE  Good(m, t)'
<1> DEFINE n == h[r].n
<1>1. n \in Nat /\ n < Len(Calls) /\ Len(Calls) \in Nat /\ m \in Nat /\ Done(r) = n + 1
  BY InTransfer
<1>4. /\ h \in [Procs -> Slots] /\ SlotTypes(h[r]) /\ Shape
      /\ AtCall(r) /\ Matches(r, m, t) /\ Bounds(r) /\ Owns(r, t) /\ Closed
  BY GoodHas
<1>5. h[r].pc \notin {"idle", "gather", "close"} /\ h'[r].pc \notin {"idle", "gather", "close"}
      /\ h'[r].pc \in Transferring
  BY DEF Transferring
<1>6. SlotTypes(h'[r])
  BY <1>4, <1>5 DEF SlotTypes, Pcs
<1>7. ShapeThen
  BY <1>4 DEF Shape, ShapeThen
<1>8. Done(r)' = n + 1 /\ Call(r)' = Call(r) /\ Calls' = Calls /\ Key(r)' = Key(r)
  BY <1>5 DEF Done, Call, Calls, Key
<1>9. AtCall(r)'
  BY <1>1, <1>4, <1>5, <1>8 DEF AtCall
<1>10. Matches(r, m, t)'
  BY <1>1, <1>4, <1>5, <1>8 DEF Matches, Writes
<1>11. Bounds(r)'
  BY <1>4, <1>5 DEF Bounds, InStep
<1>12. Owns(r, t)' /\ Divided(r)'
  BY <1>1, <1>4, <1>5, <1>8 DEF Owns, Divided
<1>13. Closed'
  BY <1>4, <1>5, ClosedStays
<1>15. \A k \in 0 .. m - 1 : Behind(r, k)' => Behind(r, k) \/ ~(Op(k + 1) = "write" /\ Writes(t[k]))
  BY DEF Behind
<1>16. \A k \in 0 .. m - 1 : Done(r) <= k /\ k < Done(r)' /\ Op(k + 1) = "write" /\ Writes(t[k])
               => <<t[k].step, Calls[k + 1].arg>> \in DOMAIN file
  BY <1>1, <1>8
<1>17. Done(r) <= Done(r)' /\ Done(r)' \in Nat
  BY <1>1, <1>8
<1>18. h[r].f.read => h'[r].f.read
  OBVIOUS
<1> QED
  BY <1>6, <1>7, <1>9, <1>10, <1>11, <1>12, <1>13, <1>15, <1>16, <1>17, <1>18, Quiet

\* r leaves a transfer: it counts as made since it began.
LEMMA Leaves ==
    ASSUME NEW m, NEW t, Good(m, t), NEW r \in Procs, h[r].pc \in Transferring,
           Moves(r), h'[r].n = h[r].n + 1, h'[r].pc = "idle", h'[r].f = h[r].f, h'[r].ret \in {"ok", "error"},
           h'[r].failed \in BOOLEAN, h'[r].held \in BOOLEAN, h'[r].got \in Seq(Cells),
           program' = program, file' = file, steps' = steps,
           tokens' \in [Procs \X Procs -> Nat], faults' \in 0 .. MaxFaults, faults' <= faults,
           h[r].pc = "end" \/ Call(r).op = "read",
           ReadsWhatIsClosed => Turns(t)' /\ ReadIsRight(r)'
    PROVE  Good(m, t)'
<1> DEFINE n == h[r].n
<1>1. n \in Nat /\ n < Len(Calls) /\ Len(Calls) \in Nat /\ m \in Nat /\ n < m /\ Done(r) = n + 1
      /\ Call(r).op = Op(n + 1) /\ Call(r).op \in {"write", "read"} /\ Call(r) = Calls[n + 1]
  BY InTransfer
<1>4. /\ h \in [Procs -> Slots] /\ SlotTypes(h[r]) /\ Shape
      /\ AtCall(r) /\ Matches(r, m, t) /\ Bounds(r) /\ Owns(r, t) /\ Closed
  BY GoodHas
<1>5. h[r].pc \notin {"idle", "gather", "close"} /\ "idle" \notin Transferring
  BY DEF Transferring
<1>6. SlotTypes(h'[r])
  BY <1>1, <1>4 DEF SlotTypes, Pcs
<1>7. ShapeThen
  BY <1>4 DEF Shape, ShapeThen
<1>8. Done(r)' = n + 1 /\ Calls' = Calls
  BY <1>5 DEF Done, Calls
<1>9. AtCall(r)'
  BY <1>1, <1>4, <1>5, <1>8 DEF AtCall
<1>10. Matches(r, m, t)'
  BY <1>1, <1>4, <1>5, <1>8 DEF Matches
<1>11. Bounds(r)'
  BY <1>4, <1>5 DEF Bounds, InStep
<1>12. Owns(r, t)'
  BY <1>1, <1>4, <1>5, <1>8 DEF Owns
<1>13. Divided(r)'
  <2>1. Calls[n + 1].op # "canonical"
    BY <1>1
  <2> QED
    BY <1>8, <2>1 DEF Divided, Op
<1>14. Closed'
  BY <1>4, <1>5, ClosedStays
<1>15. \A k \in 0 .. m - 1 : Behind(r, k)' => Behind(r, k) \/ ~(Op(k + 1) = "write" /\ Writes(t[k]))
  BY <1>1 DEF Behind
<1>16. \A k \in 0 .. m - 1 : Done(r) <= k /\ k < Done(r)' /\ Op(k + 1) = "write" /\ Writes(t[k])
               => <<t[k].step, Calls[k + 1].arg>> \in DOMAIN file
  BY <1>1, <1>8
<1>17. Done(r) <= Done(r)' /\ Done(r)' \in Nat
  BY <1>1, <1>8
<1>18. h[r].f.read => h'[r].f.read
  OBVIOUS
<1> QED
  BY <1>6, <1>7, <1>9, <1>10, <1>11, <1>12, <1>13, <1>14, <1>15, <1>16, <1>17, <1>18, Quiet

\* _H5Part_start_throttle: a token is used up for the turn it stands for.
LEMMA WaitingKeeps ==
    ASSUME NEW m, NEW t, Good(m, t), NEW r \in Procs, _H5Part_start_throttle(r)
    PROVE  Good(m, t)'
<1> DEFINE f == h[r].f
           n == h[r].n
           token == <<r - f.throttle, r>>
<1>1. /\ h[r].pc = "start" /\ h' = [h EXCEPT ![r].pc = "xfer"]
      /\ program' = program /\ file' = file /\ steps' = steps /\ faults' = faults
      /\ IF WaitsForToken(f, r)
         THEN tokens[token] > 0 /\ tokens' = [tokens EXCEPT ![token] = @ - 1]
         ELSE tokens' = tokens
  BY DEF _H5Part_start_throttle, disk_vars
<1>2. h[r].pc \in Transferring
  BY <1>1 DEF Transferring
<1>3. n \in Nat /\ Done(r) = n + 1 /\ f \in Handles /\ f.throttle \in Int
  BY <1>2, InTransfer, HandleHas DEF HandleTypes
<1>4. h \in [Procs -> Slots] /\ SlotTypes(h[r]) /\ Shape /\ tokens \in [Procs \X Procs -> Nat] /\ faults \in 0 .. MaxFaults
  BY GoodHas DEF Shape
<1>5. /\ Moves(r)
      /\ h'[r].n = n /\ h'[r].pc = "xfer" /\ h'[r].f = f /\ h'[r].ret = h[r].ret
      /\ h'[r].failed = h[r].failed /\ h'[r].held = h[r].held /\ h'[r].got = h[r].got
  BY <1>1, <1>4, PcIs
<1>6. nprocs \in Nat /\ \A p \in Procs : p \in Nat /\ p < nprocs
  BY ProcsAre
<1>7. WaitsForToken(f, r) <=> f.throttle \in Batches /\ r >= f.throttle
  BY <1>3, <1>6 DEF WaitsForToken, Batches
<1>8. WaitsForToken(f, r) => token \in Procs \X Procs
  BY <1>3, <1>6, <1>7 DEF Batches, Procs
<1>9. /\ tokens' \in [Procs \X Procs -> Nat]
      /\ \A c \in Procs \X Procs :
            tokens'[c] = IF WaitsForToken(f, r) /\ c = token THEN tokens[c] - 1 ELSE tokens[c]
      /\ WaitsForToken(f, r) => tokens[token] >= 1
  <2> HIDE DEF token
  <2>1. CASE WaitsForToken(f, r)
    BY <1>1, <1>4, <1>8, <2>1
  <2>2. CASE ~WaitsForToken(f, r)
    BY <1>1, <1>4, <2>2
  <2> QED
    BY <2>1, <2>2
<1>10. ASSUME ReadsWhatIsClosed PROVE Turns(t)'
  <2> SUFFICES ASSUME NEW a \in Procs, NEW b \in Procs, NEW d \in Batches, b = a + d
               PROVE  Begun(b, d, t)' + tokens'[<<a, b>>] <= t[h'[a].n].turns[d]
    BY DEF Turns, Procs, Batches
  <2>1. h'[a].n = h[a].n
    BY <1>5 DEF Moves
  <2>2. Begun(b, d, t) + tokens[<<a, b>>] <= t[h[a].n].turns[d]
    BY <1>10, GoodHas DEF Turns
  <2>3. tokens[<<a, b>>] \in Nat /\ t[h[a].n].turns[d] \in Nat /\ Begun(b, d, t) \in Nat
    <3>1. t[h[a].n] \in Common /\ t[h[b].n] \in Common /\ t[Done(b)] \in Common
      BY GoodHas
    <3> QED
      BY <1>4, <3>1, CommonHas DEF CommonTypes, Begun
  <2>4. CASE b # r
    <3>1. Begun(b, d, t)' = Begun(b, d, t)
      BY <1>5, <2>4 DEF Begun, Done, Moves
    <3>2. tokens'[<<a, b>>] = tokens[<<a, b>>]
      BY <1>9, <2>4
    <3> QED
      BY <2>1, <2>2, <3>1, <3>2
  <2>5. CASE b = r
    <3>1. Begun(r, d, t)' = t[n + 1].turns[d] /\ Begun(r, d, t) = t[n].turns[d]
      BY <1>1, <1>5 DEF Begun, Done, Transferring
    <3>2. /\ t[n].turns[d] \in Nat /\ t[n + 1].turns[d] \in Nat
          /\ d # f.throttle => t[n + 1].turns[d] = t[n].turns[d]
          /\ t[n + 1].turns[d] <= t[n].turns[d] + 1
      BY <1>2, TurnTaken
    <3>3. CASE d = f.throttle
      <4>1. WaitsForToken(f, r) /\ <<a, b>> = token
        BY <1>3, <1>6, <1>7, <2>5, <3>3 DEF Batches
      <4>2. tokens'[<<a, b>>] = tokens[<<a, b>>] - 1
        BY <1>9, <4>1
      <4> QED
        BY <2>1, <2>2, <2>3, <2>5, <3>1, <3>2, <4>2
    <3>4. CASE d # f.throttle
      <4>1. tokens'[<<a, b>>] = tokens[<<a, b>>]
        <5>1. a # r - f.throttle
          BY <1>3, <1>6, <2>5, <3>4 DEF Batches
        <5> QED
          BY <1>9, <5>1
      <4> QED
        BY <2>1, <2>2, <2>3, <2>5, <3>1, <3>2, <3>4, <4>1
    <3> QED
      BY <3>3, <3>4
  <2> QED
    BY <2>4, <2>5
<1>11. ~Got(r)'
  BY <1>5 DEF Got
<1>12. ReadIsRight(r)'
  BY <1>11 DEF ReadIsRight
<1>13. h'[r].failed \in BOOLEAN /\ h'[r].got \in Seq(Cells) /\ faults' <= faults /\ faults' \in 0 .. MaxFaults
  BY <1>1, <1>4, <1>5, NprocsAssumption DEF SlotTypes
<1> QED
  BY <1>1, <1>2, <1>5, <1>9, <1>10, <1>12, <1>13, GoesOn

\* _H5Part_end_throttle: the turn becomes a token.
LEMMA PassingKeeps ==
    ASSUME NEW m, NEW t, Good(m, t), NEW r \in Procs, _H5Part_end_throttle(r)
    PROVE  Good(m, t)'
<1> DEFINE f == h[r].f
           n == h[r].n
           to == r + f.throttle
           passes == f.throttle > 0 /\ to < nprocs
<1>1. /\ h[r].pc = "end" /\ Return(r, f, "ok")
      /\ program' = program /\ file' = file /\ steps' = steps /\ faults' = faults
      /\ tokens' = IF passes THEN [tokens EXCEPT ![<<r, to>>] = @ + 1] ELSE tokens
  BY DEF _H5Part_end_throttle, disk_vars, PassesTo
<1>2. h[r].pc \in Transferring
  BY <1>1 DEF Transferring
<1>3. n \in Nat /\ Done(r) = n + 1 /\ f \in Handles /\ f.throttle \in Int /\ Call(r).op \in {"write", "read"}
      /\ Call(r) = Calls[n + 1]
  BY <1>2, InTransfer, HandleHas DEF HandleTypes
<1>4. h \in [Procs -> Slots] /\ SlotTypes(h[r]) /\ Shape /\ tokens \in [Procs \X Procs -> Nat] /\ faults \in 0 .. MaxFaults
  BY GoodHas DEF Shape
<1>5. /\ Moves(r)
      /\ h'[r].n = n + 1 /\ h'[r].pc = "idle" /\ h'[r].f = f /\ h'[r].ret = "ok"
      /\ h'[r].failed = h[r].failed /\ h'[r].held = h[r].held /\ h'[r].got = h[r].got
  BY <1>1, <1>4, ReturnIs
<1>6. nprocs \in Nat /\ \A p \in Procs : p \in Nat /\ p < nprocs
  BY ProcsAre
<1>7. /\ passes => to \in Procs /\ f.throttle \in Batches
      /\ f.throttle \in Batches /\ to \in Procs => passes
  BY <1>3, <1>6 DEF Batches, Procs
<1>8. /\ tokens' \in [Procs \X Procs -> Nat]
      /\ \A c \in Procs \X Procs :
            tokens'[c] = IF passes /\ c = <<r, to>> THEN tokens[c] + 1 ELSE tokens[c]
  <2> HIDE DEF passes, to
  <2>1. CASE passes
    BY <1>1, <1>4, <1>7, <2>1
  <2>2. CASE ~passes
    BY <1>1, <1>4, <2>2
  <2> QED
    BY <2>1, <2>2
<1>9. ASSUME ReadsWhatIsClosed PROVE Turns(t)'
  <2> SUFFICES ASSUME NEW a \in Procs, NEW b \in Procs, NEW d \in Batches, b = a + d
               PROVE  Begun(b, d, t)' + tokens'[<<a, b>>] <= t[h'[a].n].turns[d]
    BY DEF Turns, Procs, Batches
  <2>1. Begun(b, d, t)' = Begun(b, d, t)
    <3>1. CASE b = r
      BY <1>1, <1>5, <3>1 DEF Begun, Done, Transferring
    <3>2. CASE b # r
      BY <1>5, <3>2 DEF Begun, Done, Moves
    <3> QED
      BY <3>1, <3>2
  <2>2. Begun(b, d, t) + tokens[<<a, b>>] <= t[h[a].n].turns[d]
    BY <1>9, GoodHas DEF Turns
  <2>3. tokens[<<a, b>>] \in Nat /\ t[h[a].n].turns[d] \in Nat /\ Begun(b, d, t) \in Nat
    <3>1. t[h[a].n] \in Common /\ t[h[b].n] \in Common /\ t[Done(b)] \in Common
      BY GoodHas
    <3> QED
      BY <1>4, <3>1, CommonHas DEF CommonTypes, Begun
  <2>4. CASE a # r
    <3>1. h'[a].n = h[a].n /\ tokens'[<<a, b>>] = tokens[<<a, b>>]
      BY <1>5, <1>8, <2>4 DEF Moves
    <3> QED
      BY <2>1, <2>2, <3>1
  <2>5. CASE a = r
    <3>1. /\ t[n].turns[d] \in Nat /\ t[n + 1].turns[d] \in Nat
          /\ d # f.throttle => t[n + 1].turns[d] = t[n].turns[d]
          /\ d = f.throttle => t[n + 1].turns[d] = t[n].turns[d] + 1
      BY <1>2, <1>9, TurnTaken
    <3>2. CASE d = f.throttle
      <4>1. passes /\ <<a, b>> = <<r, to>>
        BY <1>7, <2>5, <3>2
      <4>2. tokens'[<<a, b>>] = tokens[<<a, b>>] + 1
        BY <1>8, <4>1
      <4> QED
        BY <1>5, <2>1, <2>2, <2>3, <2>5, <3>1, <3>2, <4>2
    <3>3. CASE d # f.throttle
      <4>1. b # to
        BY <1>3, <1>6, <2>5, <3>3 DEF Batches
      <4>2. tokens'[<<a, b>>] = tokens[<<a, b>>]
        BY <1>8, <4>1
      <4> QED
        BY <1>5, <2>1, <2>2, <2>3, <2>5, <3>1, <3>3, <4>2
    <3> QED
      BY <3>2, <3>3
  <2> QED
    BY <2>4, <2>5
<1>10. ASSUME ReadsWhatIsClosed PROVE ReadIsRight(r)'
  <2>1. CASE Call(r).op = "write"
    <3>1. ~Got(r)'
      <4>1. Calls' = Calls /\ Calls[n + 1].op # "read"
        BY <1>1, <1>3, <2>1 DEF Calls
      <4> QED
        BY <1>5, <4>1 DEF Got, Op
    <3> QED
      BY <3>1 DEF ReadIsRight
  <2>2. CASE Call(r).op = "read"
    <3> DEFINE key == <<f.step, Call(r).arg>>
    <3>1. ReadIsRight(r) /\ Got(r) /\ ReadName(r) = Call(r).arg
      BY <1>1, <1>10, <2>2, GoodHas DEF Got, ReadName
    <3>2. ReadName(r)' = Call(r).arg
      <4>1. Calls' = Calls
        BY <1>1 DEF Calls
      <4> QED
        BY <1>3, <1>5, <4>1 DEF ReadName
    <3>3. /\ key \in DOMAIN file
          /\ ~f.viewindexed /\ f.viewend < Len(file[key]) => h[r].got = InView(f, file[key])
      BY <3>1 DEF ReadIsRight
    <3> QED
      BY <1>1, <1>5, <3>2, <3>3 DEF ReadIsRight, InView
  <2> QED
    BY <1>3, <2>1, <2>2
<1>11. h'[r].failed \in BOOLEAN /\ h'[r].held \in BOOLEAN /\ h'[r].got \in Seq(Cells)
       /\ h'[r].ret \in {"ok", "error"} /\ faults' <= faults /\ faults' \in 0 .. MaxFaults
  BY <1>1, <1>4, <1>5, NprocsAssumption DEF SlotTypes
<1> QED
  BY <1>1, <1>2, <1>5, <1>8, <1>9, <1>10, <1>11, Leaves

Taken(space, stored) ==
    [k \in DOMAIN space.sel |-> IF space.sel[k] < Len(stored) THEN stored[space.sel[k] + 1] ELSE Beyond]

\* The selection of all elements.
LEMMA WholeIs ==
    ASSUME NEW stored \in Seq(Cells)
    PROVE  LET space == Whole(stored)
           IN  /\ space.sel \in Seq(Nat) /\ Len(space.sel) = Len(stored) /\ DOMAIN space.sel = 1 .. Len(stored)
               /\ \A k \in 1 .. Len(stored) : space.sel[k] = k - 1
               /\ space.total = Len(stored) /\ Len(stored) \in Nat
<1> DEFINE len == Len(stored)
           sel == IndexRange(0, len - 1)
           space == Whole(stored)
<1>1. len \in Nat
  BY LenProperties
<1>2. space = [total |-> len, sel |-> sel]
  BY DEF Whole
<1> HIDE DEF len
<1>3. sel \in Seq(Nat) /\ Len(sel) = len /\ DOMAIN sel = 1 .. len /\ \A k \in 1 .. len : sel[k] = k - 1
  <2> DEFINE end == len - 1
  <2>1. end \in Int /\ end >= 0 - 1 /\ end - 0 + 1 = len
    BY <1>1
  <2> HIDE DEF end
  <2> DEFINE zero == 0
             s == IndexRange(zero, end)
  <2>0. zero \in Int /\ zero >= 0 /\ end >= zero - 1 /\ zero = 0
    BY <2>1
  <2> HIDE DEF zero
  <2>2. /\ s \in Seq(Nat) /\ Len(s) = end - zero + 1 /\ DOMAIN s = 1 .. end - zero + 1
        /\ \A k \in 1 .. end - zero + 1 : s[k] = zero + k - 1
    BY <2>0, <2>1, IndexRangeIs
  <2> HIDE DEF s
  <2>3. \A k \in 1 .. len : s[k] = k - 1
    BY <2>0, <2>1, <2>2
  <2>4. s \in Seq(Nat) /\ Len(s) = len /\ DOMAIN s = 1 .. len
    BY <2>0, <2>1, <2>2
  <2> QED
    BY <2>3, <2>4 DEF end, s, zero
<1> HIDE DEF sel
<1>4. space.sel = sel /\ space.total = len
  BY <1>2
<1> HIDE DEF space
<1> QED
  BY <1>1, <1>3, <1>4 DEF len, space

\* What a read takes is the view of the data set.
LEMMA TakenIs ==
    ASSUME NEW f \in Handles, InStep(f), NEW stored \in Seq(Cells)
    PROVE  LET got == Taken(ReadSpace(f, stored), stored)
           IN  /\ got \in Seq(Cells)
               /\ ~f.viewindexed /\ f.viewend < Len(stored) => got = InView(f, stored)
<1> DEFINE space == ReadSpace(f, stored)
           sel == space.sel
           got == Taken(space, stored)
           len == Len(stored)
<1>1. len \in Nat /\ DOMAIN stored = 1 .. len /\ \A i \in 1 .. len : stored[i] \in Cells
  BY LenProperties
<1>2. /\ f.disk.sel \in Seq(Nat) /\ Len(f.disk.sel) \in Nat /\ f.viewstart \in Int /\ f.viewend \in Int
      /\ f.viewindexed \in BOOLEAN
  <2>1. f.disk.sel \in Seq(Nat) /\ f.viewstart \in Int /\ f.viewend \in Int /\ f.viewindexed \in BOOLEAN
    BY HandleHas DEF HandleTypes
  <2> QED
    BY <2>1, LenProperties
<1>3. sel \in Seq(Nat)
  BY <1>2, WholeIs DEF ReadSpace
<1>4. Len(sel) \in Nat /\ DOMAIN sel = 1 .. Len(sel) /\ \A k \in 1 .. Len(sel) : sel[k] \in Nat
  BY <1>3, LenProperties
<1>5. got \in Seq(Cells)
  <2> HIDE DEF space
  <2>1. \A k \in 1 .. Len(sel) : (IF sel[k] < len THEN stored[sel[k] + 1] ELSE Beyond) \in Cells
    <3>1. Beyond \in Cells
      <4>1. -1 \in Int
        OBVIOUS
      <4>2. "beyond" \in Names \cup {"", "beyond"}
        OBVIOUS
      <4>3. <<-1, "beyond">> \in Int \X (Names \cup {"", "beyond"})
        BY <4>1, <4>2
      <4> QED
        BY <4>1, <4>3 DEF Beyond, Cells, Keys
    <3> QED
      BY <1>1, <1>4, <3>1
  <2>2. got = [k \in 1 .. Len(sel) |-> IF sel[k] < len THEN stored[sel[k] + 1] ELSE Beyond]
    BY <1>4 DEF Taken
  <2> HIDE DEF got, sel, len
  <2> QED
    BY <1>4, <2>1, <2>2, IsASeq
<1>6. ASSUME ~f.viewindexed, f.viewend < len PROVE got = InView(f, stored)
  <2>1. CASE f.viewstart = -1 /\ f.viewend = -1 /\ f.disk = ALL
    <3>1. space = Whole(stored) /\ InView(f, stored) = stored
      BY <2>1 DEF ReadSpace, InView
    <3>2. Len(sel) = len /\ \A k \in 1 .. len : sel[k] = k - 1
      BY <3>1, WholeIs
    <3>3. got = [k \in 1 .. len |-> stored[k]]
      <4> HIDE DEF sel, len
      <4>1. \A k \in 1 .. len : (IF sel[k] < len THEN stored[sel[k] + 1] ELSE Beyond) = stored[k]
        BY <1>1, <3>2
      <4>2. got = [k \in 1 .. len |-> IF sel[k] < len THEN stored[sel[k] + 1] ELSE Beyond]
        BY <1>4, <3>2 DEF Taken, sel, len
      <4> HIDE DEF got
      <4> QED
        BY <4>1, <4>2
    <3>4. stored = [k \in 1 .. len |-> stored[k]]
      BY <1>1
    <3> QED
      BY <3>1, <3>3, <3>4
  <2>2. CASE /\ f.viewstart >= 0 /\ f.viewend >= -1 /\ f.viewend >= f.viewstart - 1
             /\ f.disk # ALL /\ f.disk.sel = IndexRange(f.viewstart, f.viewend)
    <3> DEFINE a == f.viewstart
               b == f.viewend
    <3>1. /\ a \in Nat /\ b \in Int /\ b - a + 1 \in Nat /\ b - a + 1 <= len
          /\ Len(f.disk.sel) = b - a + 1
          /\ \A k \in 1 .. b - a + 1 : f.disk.sel[k] = a + k - 1
      <4>1. a \in Nat /\ a \in Int /\ b \in Int /\ b >= a - 1 /\ b < len
        BY <1>2, <1>6, <2>2
      <4>2. f.disk.sel = IndexRange(a, b)
        BY <2>2
      <4> HIDE DEF a, b, len
      <4>3. b - a + 1 \in Nat /\ b - a + 1 <= len
        BY <1>1, <4>1
      <4> QED
        BY <4>1, <4>2, <4>3, IndexRangeIs
    <3>2. space = f.disk
      BY <2>2, <3>1 DEF ReadSpace
    <3>3. InView(f, stored) = SubSeq(stored, a + 1, b + 1)
      BY <2>2 DEF InView
    <3>4. Len(sel) = b - a + 1 /\ \A k \in 1 .. b - a + 1 : sel[k] = a + k - 1
      BY <3>1, <3>2
    <3>5. b < len
      BY <1>6
    <3> HIDE DEF a, b, space
    <3>6. got = [k \in 1 .. b - a + 1 |-> stored[a + k]]
      <4> HIDE DEF sel, len
      <4>1. \A k \in 1 .. b - a + 1 : (IF sel[k] < len THEN stored[sel[k] + 1] ELSE Beyond) = stored[a + k]
        <5> TAKE k \in 1 .. b - a + 1
        <5>1. sel[k] = a + k - 1 /\ a + k - 1 < len /\ (a + k - 1) + 1 = a + k
          BY <1>1, <3>1, <3>4, <3>5
        <5> QED
          BY <5>1
      <4>2. got = [k \in 1 .. b - a + 1 |-> IF sel[k] < len THEN stored[sel[k] + 1] ELSE Beyond]
        BY <1>4, <3>4 DEF Taken, sel, len
      <4> HIDE DEF got
      <4> QED
        BY <4>1, <4>2
    <3>7. SubSeq(stored, a + 1, b + 1) = [k \in 1 .. b - a + 1 |-> stored[a + k]]
      <4> DEFINE view == SubSeq(stored, a + 1, b + 1)
      <4>1. a + 1 \in 1 .. len + 1 /\ b + 1 \in a + 1 - 1 .. len /\ (b + 1) - (a + 1) + 1 = b - a + 1
        BY <1>1, <3>1, <3>5
      <4>0. a + 1 \in Int /\ b + 1 \in Int /\ (\A i \in a + 1 .. b + 1 : stored[i] \in Cells)
            /\ (a + 1 <= b + 1 \/ b - a + 1 = 0)
        BY <1>1, <3>1, <3>5
      <4>5. /\ view \in Seq(Cells) /\ Len(view) = IF a + 1 <= b + 1 THEN (b + 1) - (a + 1) + 1 ELSE 0
            /\ \A k \in 1 .. (b + 1) - (a + 1) + 1 : view[k] = stored[a + 1 + k - 1]
        BY <4>0, SubSeqProperties
      <4>2. /\ view \in Seq(Cells) /\ Len(view) = b - a + 1
            /\ \A k \in 1 .. b - a + 1 : view[k] = stored[a + 1 + k - 1]
        BY <3>1, <4>0, <4>1, <4>5
      <4>3. DOMAIN view = 1 .. b - a + 1
        BY <4>2
      <4> HIDE DEF view
      <4>4. \A k \in 1 .. b - a + 1 : view[k] = stored[a + k]
        BY <3>1, <4>2
      <4> QED
        BY <4>2, <4>3, <4>4 DEF view
    <3> QED
      BY <3>3, <3>6, <3>7
  <2> QED
    BY <1>6, <2>1, <2>2 DEF InStep
<1> QED
  BY <1>5, <1>6

\* H5Dread, whether HDF5 accepts it or not.
LEMMA ReadingKeeps ==
    ASSUME NEW m, NEW t, Good(m, t), NEW r \in Procs, ReadXfer(r)
    PROVE  Good(m, t)'
<1> DEFINE f == h[r].f
           n == h[r].n
           stored == file[Key(r)]
           space == ReadSpace(f, stored)
           accepted == Accepts(space, ReadMem(f, space))
<1>1. /\ h[r].pc = "xfer" /\ Call(r).op = "read"
      /\ program' = program /\ file' = file /\ steps' = steps /\ tokens' = tokens
      /\ \/ /\ ReadWell(r, Taken(space, stored))
            /\ faults' = faults
         \/ /\ faults > 0 \/ ~accepted
            /\ faults' = IF accepted THEN faults - 1 ELSE faults
            /\ ReadBadly(r)
  <2>1. ReadXfer(r)
    OBVIOUS
  <2>2. h[r].pc = "xfer" /\ Call(r).op = "read"
        /\ program' = program /\ file' = file /\ steps' = steps /\ tokens' = tokens
    BY <2>1 DEF ReadXfer, Has, disk_vars
  <2> HIDE DEF accepted, space, stored
  <2> QED
    BY <2>1, <2>2 DEF ReadXfer, ReadWell, ReadBadly, Taken, accepted, space, stored
<1> HIDE DEF accepted
<1>2. h[r].pc \in Transferring
  BY <1>1 DEF Transferring
<1>3. /\ n \in Nat /\ Done(r) = n + 1 /\ f \in Handles /\ Call(r) = Calls[n + 1] /\ Call(r).op = Op(n + 1)
      /\ Key(r) \in DOMAIN file /\ n < m /\ m \in Nat /\ n + 1 <= m
  BY <1>2, InTransfer
<1>4. h \in [Procs -> Slots] /\ SlotTypes(h[r]) /\ Shape /\ tokens \in [Procs \X Procs -> Nat]
      /\ faults \in 0 .. MaxFaults /\ FileTyped /\ InStep(f)
  <2>1. Bounds(r)
    BY GoodHas
  <2> QED
    BY <2>1, GoodHas DEF Shape, Bounds
<1>5. stored \in Seq(Cells)
  BY <1>3, <1>4 DEF FileTyped
<1>6. CASE /\ ReadWell(r, Taken(space, stored))
           /\ faults' = faults
  <2> DEFINE got == Taken(space, stored)
  <2>1. got \in Seq(Cells) /\ (~f.viewindexed /\ f.viewend < Len(stored) => got = InView(f, stored))
    <3> HIDE DEF stored, f
    <3> QED
      BY <1>3, <1>4, <1>5, TakenIs
  <2>2. ReadWell(r, got)
    BY <1>6
  <2> HIDE DEF got
  <2>3. /\ Moves(r)
        /\ h'[r].n = n /\ h'[r].pc = "end" /\ h'[r].f = f /\ h'[r].ret = h[r].ret
        /\ h'[r].failed \in BOOLEAN /\ h'[r].held = h[r].held /\ h'[r].got = got
    BY <1>4, <2>2, ReadIs
  <2>4. ASSUME ReadsWhatIsClosed PROVE Turns(t)' /\ ReadIsRight(r)'
    <3>1. \A d \in Batches : Begun(r, d, t)' = Begun(r, d, t)
      BY <1>1, <2>3 DEF Begun, Done, Transferring
    <3>2. h'[r].n \in Nat /\ h[r].n <= h'[r].n /\ h'[r].n <= m
      BY <1>3, <2>3
    <3>3. Turns(t)'
      BY <1>1, <2>3, <2>4, <3>1, <3>2, TurnsStay
    <3>4. Call(r)' = Call(r) /\ ReadName(r)' = Call(r).arg
      BY <1>1, <2>3 DEF Call, ReadName
    <3>5. Key(r) = <<f.step, Call(r).arg>>
      BY DEF Key
    <3>6. ReadIsRight(r)'
      <4> HIDE DEF f
      <4>1. h'[r].f = f /\ h'[r].got = got /\ file' = file
        BY <1>1, <2>3
      <4>2. <<f.step, Call(r).arg>> \in DOMAIN file /\ stored = file[<<f.step, Call(r).arg>>]
        BY <1>3, <3>5
      <4> HIDE DEF stored
      <4> QED
        BY <2>1, <3>4, <4>1, <4>2 DEF ReadIsRight, InView
    <3> QED
      BY <3>3, <3>6
  <2>5. h'[r].failed \in BOOLEAN /\ h'[r].got \in Seq(Cells) /\ faults' <= faults /\ faults' \in 0 .. MaxFaults
    BY <1>4, <1>6, <2>1, <2>3, NprocsAssumption
  <2>6. Op(h[r].n + 1) # "write"
    BY <1>1, <1>3
  <2> QED
    BY <1>1, <1>2, <1>4, <2>3, <2>4, <2>5, <2>6, GoesOn
<1>7. CASE /\ faults > 0 \/ ~accepted
           /\ faults' = IF accepted THEN faults - 1 ELSE faults
           /\ ReadBadly(r)
  <2>1. /\ Moves(r)
        /\ h'[r].n = n + 1 /\ h'[r].pc = "idle" /\ h'[r].f = f /\ h'[r].ret = "error"
        /\ h'[r].failed \in BOOLEAN /\ h'[r].held \in BOOLEAN /\ h'[r].got = <<>>
    BY <1>4, <1>7, ReadFailedIs
  <2>2. ASSUME ReadsWhatIsClosed PROVE Turns(t)' /\ ReadIsRight(r)'
    <3>1. \A d \in Batches : Begun(r, d, t)' = Begun(r, d, t)
      BY <1>1, <2>1 DEF Begun, Done, Transferring
    <3>2. h'[r].n \in Nat /\ h[r].n <= h'[r].n /\ h'[r].n <= m
      BY <1>3, <2>1
    <3>3. Turns(t)'
      BY <1>1, <2>1, <2>2, <3>1, <3>2, TurnsStay
    <3>4. ReadIsRight(r)'
      BY <2>1 DEF ReadIsRight, Got
    <3> QED
      BY <3>3, <3>4
  <2>3. faults' <= faults /\ faults' \in 0 .. MaxFaults
    <3>1. faults > 0 => faults - 1 \in 0 .. MaxFaults /\ faults - 1 <= faults
      BY <1>4, NprocsAssumption
    <3> QED
      BY <1>4, <1>7, <3>1
  <2>5. h'[r].got \in Seq(Cells) /\ h'[r].ret \in {"ok", "error"}
    BY <2>1
  <2> QED
    BY <1>1, <1>2, <1>4, <2>1, <2>2, <2>3, <2>5, Leaves
<1> QED
  BY <1>1, <1>6, <1>7

-----------------------------------------------------------------------------
(* Transfers: writing                                                       *)

\* Whoever writes under WritesOnce has counted the particles before.
LEMMA CountsWereSet ==
    ASSUME NEW m, NEW t, Good(m, t), WritesOnce, NEW k \in 0 .. m - 1, Op(k + 1) = "write", Writes(t[k])
    PROVE  t[k].counts # Unset
<1>1. AskedFor(m, t) /\ m \in Nat /\ m <= Len(Calls) /\ Len(Calls) \in Nat /\ program \in Programs
  BY GoodHas
<1>2. k \in 0 .. m /\ k + 1 \in 1 .. Len(Calls)
  BY <1>1
<1>3. AskedAt(t[k], k) /\ k + 1 \in DOMAIN Calls
  BY <1>1, <1>2, CallsAre DEF AskedFor
<1>4. PICK b \in LastOf(Viewing \cup {"num"}, k + 1) : Op(b) = "num" => t[k].counts # Unset
  BY <1>3 DEF AskedAt, Writes
<1>5. Op(b) = "num"
  BY <1>3, <1>4 DEF WritesOnce, CountsGivenFirst
<1> QED
  BY <1>4, <1>5

\* A new data set has its size and holes only.
LEMMA HolesAre ==
    ASSUME NEW n \in Int
    PROVE  LET d == [i \in 1 .. n |-> Hole] IN d \in Seq(Cells) /\ (n >= 0 => Len(d) = n)
<1>1. Hole \in Cells
  <2>1. -1 \in Int
    OBVIOUS
  <2>2. <<-1, "">> \in Int \X (Names \cup {"", "beyond"})
    BY <2>1
  <2> QED
    BY <2>1, <2>2 DEF Hole, Cells, Keys
<1>2. PICK len \in Nat : 1 .. n = 1 .. len /\ (n >= 0 => len = n)
  <2>1. CASE n >= 0
    BY <2>1
  <2>2. CASE n < 0
    <3>1. 1 .. n = 1 .. 0
      BY <2>2
    <3> QED
      BY <2>2, <3>1
  <2> QED
    BY <2>1, <2>2
<1>3. [i \in 1 .. len |-> Hole] \in Seq(Cells) /\ Len([i \in 1 .. len |-> Hole]) = len
  BY <1>1, <1>2
<1> QED
  BY <1>2, <1>3

\* r begins to write to a data set: an old one, or one made for it, with holes only.
LEMMA WriteBegins ==
    ASSUME NEW m, NEW t, Good(m, t), NEW r \in Procs, Done(r) < m, BeginWrite(r)
    PROVE  Good(m, t)'
<1> DEFINE f == h[r].f
           n == h[r].n
           x == t[h[r].n]
           y == t[h[r].n + 1]
           key == Key(r)
           empty == [i \in 1 .. f.shape |-> Hole]
<1>1. /\ h[r].pc = "idle" /\ Call(r).op = "write"
      /\ program' = program /\ steps' = steps /\ tokens' = tokens /\ faults' = faults
      /\ IF f.shape = -1 \/ f.step < 0 \/ f.read
         THEN Return(r, f, "error") /\ file' = file
         ELSE /\ h' = [h EXCEPT ![r].pc = "start"]
              /\ file' = IF key \in DOMAIN file THEN file
                         ELSE [k \in DOMAIN file \cup {key} |-> IF k = key THEN empty ELSE file[k]]
  <2>1. BeginWrite(r)
    OBVIOUS
  <2> QED
    BY <2>1 DEF BeginWrite, Ready, Has
<1> HIDE DEF empty, key
<1>2. /\ n < m /\ f \in Handles /\ x \in Common /\ InStep(f) /\ (f.step >= 0 => f.step \in steps)
      /\ f.read = x.read /\ f.step = x.step /\ f.timestep = x.timestep /\ f.throttle = x.throttle
      /\ f.shape = x.shape /\ Done(r) = n
      /\ x.counts # Unset => /\ f.disk = OwnSpace(x.counts, r) /\ f.shape = SumOver(x.counts, Procs)
                             /\ f.mem = MemFor(x.counts[r])
  BY <1>1, AtRest DEF Transferring
<1>3. /\ y = Then(x, Call(r)) /\ CallTyped(Call(r)) /\ program \in Programs /\ n \in Nat /\ n + 1 <= m
      /\ m \in Nat /\ n < Len(Calls) /\ Call(r).op = Op(n + 1) /\ n + 1 \in 0 .. m /\ Len(Calls) \in Nat
      /\ m <= Len(Calls) /\ y \in Common /\ n \in 0 .. m - 1 /\ Call(r) = Calls[n + 1]
  BY <1>1, <1>2, AtTheCall, GoodHas
<1>4. /\ y.step = x.step /\ y.timestep = x.timestep /\ y.shape = x.shape /\ y.throttle = x.throttle
      /\ y.counts = x.counts /\ y.read = x.read
  BY <1>1, <1>2, <1>3, ThenIs, ThenWrite
<1>5. /\ f.read = y.read /\ f.step = y.step /\ f.timestep = y.timestep
      /\ f.throttle = y.throttle /\ f.shape = y.shape
      /\ y.counts # Unset => /\ f.disk = OwnSpace(y.counts, r) /\ f.shape = SumOver(y.counts, Procs)
                             /\ f.mem = MemFor(y.counts[r])
  BY <1>2, <1>4
<1>6. /\ h \in [Procs -> Slots] /\ SlotTypes(h[r]) /\ Shape /\ FileTyped /\ Closed /\ Created(m, t)
      /\ Course(m, t) /\ Onward(m, t) /\ Sources(m, t) /\ m \in Nat
      /\ \A q \in Procs : AtCall(q) /\ Matches(q, m, t) /\ Bounds(q) /\ Owns(q, t) /\ Divided(q)
      /\ ReadsWhatIsClosed => \A q \in Procs : ReadIsRight(q)
      /\ WritesOnce => AskedFor(m, t) /\ Authored(m, t)
      /\ \A q \in Procs : Done(q) \in Nat /\ h[q].n <= Done(q) /\ SlotTypes(h[q])
  BY GoodHas
<1>7. Writes(x) <=> ~(f.shape = -1 \/ f.step < 0 \/ f.read)
  <2>1. f.step \in Int
    BY <1>2, HandleHas DEF HandleTypes
  <2> HIDE DEF f, x
  <2> QED
    BY <1>2, <2>1 DEF Writes
<1>8. CASE ~Writes(x)
  <2>1. Return(r, f, "error") /\ file' = file
    BY <1>1, <1>7, <1>8
  <2>2. Closed'
    <3>1. Moves(r) /\ h'[r].f = f
      BY <1>6, <2>1, ReturnIs
    <3> QED
      BY <1>1, <1>6, <3>1, ClosedStays
  <2>3. steps' \subseteq Nat
    BY <1>1, <1>6 DEF Shape
  <2> HIDE DEF x, y
  <2> QED
    BY <1>1, <1>2, <1>5, <1>8, <2>1, <2>2, <2>3, Returned DEF Transferring, y, x
<1>9. CASE Writes(x)
  <2>1. /\ Moves(r)
        /\ h'[r].n = n /\ h'[r].pc = "start" /\ h'[r].f = f /\ h'[r].ret = h[r].ret
        /\ h'[r].failed = h[r].failed /\ h'[r].held = h[r].held /\ h'[r].got = h[r].got
    BY <1>1, <1>6, <1>7, <1>9, PcIs
  <2>2. file' = IF key \in DOMAIN file THEN file
                ELSE [k \in DOMAIN file \cup {key} |-> IF k = key THEN empty ELSE file[k]]
    BY <1>1, <1>7, <1>9
  <2>3. /\ DOMAIN file' = DOMAIN file \cup {key}
        /\ \A k \in DOMAIN file : file'[k] = file[k]
        /\ key \notin DOMAIN file => file'[key] = empty
    BY <2>2
  <2>4. SlotTypes(h'[r])
    BY <1>6, <2>1 DEF SlotTypes, Pcs, Transferring
  <2>5. Done(r)' = n + 1 /\ Call(r)' = Call(r) /\ Calls' = Calls /\ Key(r)' = key
    BY <1>1, <2>1 DEF Done, Transferring, Call, Calls, Key, key
  <2>6. AtCall(r)'
    BY <1>1, <1>2, <1>3, <2>1, <2>3, <2>5 DEF AtCall, Transferring
  <2>7. Matches(r, m, t)'
    <3>1. Writes(t[h[r].n])'
      BY <1>9, <2>1 DEF Writes
    <3> QED
      BY <1>1, <1>3, <1>5, <2>1, <2>5, <3>1 DEF Matches
  <2>8. Bounds(r)' /\ Owns(r, t)' /\ Divided(r)'
    <3>1. Bounds(r)'
      BY <1>2, <2>1 DEF Bounds, InStep
    <3>2. Owns(r, t)'
      BY <1>5, <2>1, <2>5 DEF Owns
    <3>3. Divided(r)'
      BY <2>1 DEF Divided
    <3> QED
      BY <3>1, <3>2, <3>3
  <2>9. Closed'
    BY <1>1, <1>6, <2>1, ClosedStays
  <2>10. key = <<x.step, Calls[n + 1].arg>>
    BY <1>2, <1>3 DEF key, Key
  <2>11. \A q \in Procs : Done(q) > n => key \in DOMAIN file
    BY <1>1, <1>3, <1>6, <1>9, <2>10 DEF Created
  <2>12. ASSUME ReadsWhatIsClosed PROVE Turns(t)' /\ ReadIsRight(r)'
    <3>1. \A d \in Batches : Begun(r, d, t)' = Begun(r, d, t)
      BY <1>1, <1>2, <2>1 DEF Begun
    <3>2. ReadIsRight(r)'
      BY <2>1 DEF ReadIsRight, Got
    <3>3. h'[r].n \in Nat /\ h[r].n <= h'[r].n /\ h'[r].n <= m
      BY <1>2, <1>3, <2>1
    <3>4. Turns(t)'
      BY <1>1, <2>1, <2>12, <3>1, <3>3, TurnsStay
    <3> QED
      BY <3>2, <3>4
  <2>13. \A k \in 0 .. m - 1 : Behind(r, k)' <=> Behind(r, k)
    BY <1>1, <2>1 DEF Behind
  <2>14. \A k \in 0 .. m - 1 : Done(r) <= k /\ k < Done(r)' /\ Op(k + 1) = "write" /\ Writes(t[k])
                 => <<t[k].step, Calls[k + 1].arg>> \in DOMAIN file'
    <3> TAKE k \in 0 .. m - 1
    <3> HAVE Done(r) <= k /\ k < Done(r)' /\ Op(k + 1) = "write" /\ Writes(t[k])
    <3>1. k = n
      BY <1>2, <1>3, <2>5
    <3> QED
      BY <2>3, <2>10, <3>1
  <2>15. ShapeThen /\ faults' <= faults
    BY <1>1, <1>6, NprocsAssumption DEF Shape, ShapeThen
  <2>16. Done(r) <= Done(r)' /\ Done(r)' \in Nat
    BY <1>2, <1>3, <2>5
  <2>17. CASE key \in DOMAIN file
    <3>1. file' = file
      BY <2>2, <2>17
    <3> HIDE DEF f, n, x, y
    <3> QED
      BY <1>1, <2>1, <2>4, <2>6, <2>7, <2>8, <2>9, <2>12, <2>13, <2>14, <2>15, <2>16, <3>1, Quiet DEF f
  <2>18. CASE key \notin DOMAIN file
    <3>1. Course(m, t)'
      <4>1. ~h[r].f.read /\ h[r].pc # "close"
        BY <1>1, <1>7, <1>9
      <4> QED
        BY <1>1, <4>1, CourseStays
    <3>2. Onward(m, t)' /\ Sources(m, t)'
      <4>1. Onward(m, t)'
        BY <1>6 DEF Onward, Batches
      <4> QED
        BY <1>6, <2>1, <4>1, SourcesStay
    <3>3. Shape'
      <4>1. h' \in [Procs -> Slots]
        BY <1>6, <2>1, <2>4, StillSlots
      <4>2. key \in Nat \X Names
        <5>1. f.step \in Nat /\ Call(r).arg \in Names
          <6>1. f.step \in Int
            BY <1>2, HandleHas DEF HandleTypes
          <6> QED
            BY <1>1, <1>3, <1>7, <1>9, <6>1 DEF CallTyped
        <5> QED
          BY <5>1 DEF key, Key
      <4>3. empty \in Seq(Cells)
        <5>1. f.shape \in Int
          BY <1>2, HandleHas DEF HandleTypes
        <5> QED
          BY <5>1, HolesAre DEF empty
      <4>4. FileTyped'
        <5>1. file' = [k \in DOMAIN file' |-> file'[k]]
          BY <2>2, <2>18
        <5>2. \A k \in DOMAIN file' : file'[k] \in Seq(Cells)
          BY <1>6, <2>3, <2>18, <4>3 DEF FileTyped
        <5>3. DOMAIN file' \subseteq Nat \X Names
          BY <1>6, <2>3, <4>2 DEF FileTyped
        <5> QED
          BY <5>1, <5>2, <5>3 DEF FileTyped
      <4> QED
        BY <1>1, <1>6, <4>1, <4>4 DEF Shape
    <3>4. ASSUME NEW q \in Procs PROVE AtCall(q)' /\ Matches(q, m, t)' /\ Bounds(q)' /\ Owns(q, t)' /\ Divided(q)'
      <4>1. CASE q = r
        BY <2>6, <2>7, <2>8, <4>1
      <4>2. CASE q # r
        <5>1. h'[q] = h[q]
          BY <2>1, <4>2 DEF Moves
        <5>2. AtCall(q)' /\ Matches(q, m, t)' /\ Bounds(q)' /\ Owns(q, t)'
          BY <1>1, <1>6, <2>3, <5>1, OtherStays
        <5>3. Divided(q)'
          <6>1. ~(h[q].pc = "idle" /\ Done(r)' <= h[q].n)
            <7>1. ~(Done(q) > n)
              BY <2>11, <2>18
            <7> QED
              BY <1>3, <1>6, <2>5, <7>1 DEF SlotTypes
          <6> QED
            BY <5>1, <6>1 DEF Divided
        <5> QED
          BY <5>2, <5>3
      <4> QED
        BY <4>1, <4>2
    <3>5. Created(m, t)'
      BY <1>1, <2>1, <2>3, <2>14, CreatedStays
    <3>6. (ReadsWhatIsClosed' <=> ReadsWhatIsClosed) /\ (WritesOnce' <=> WritesOnce)
      BY <2>5 DEF ReadsWhatIsClosed, WritesOnce, CountsGivenFirst, StepsOnce, NamesOnce, LastOf, Op
    <3>7. ASSUME ReadsWhatIsClosed PROVE Turns(t)' /\ \A q \in Procs : ReadIsRight(q)'
      <4>1. ASSUME NEW q \in Procs, q # r PROVE ReadIsRight(q)'
        <5>1. h'[q] = h[q]
          BY <2>1, <4>1 DEF Moves
        <5>2. h[q].f.read \/ ~Got(q)
          BY <3>7, GotReads
        <5>3. \A k \in DOMAIN file : k \in DOMAIN file' /\ (h[q].f.read => file'[k] = file[k])
          BY <2>3
        <5> QED
          BY <1>1, <1>6, <3>7, <5>1, <5>2, <5>3, ReadStays
      <4> QED
        BY <2>12, <3>7, <4>1
    <3>8. ASSUME WritesOnce PROVE AskedFor(m, t)' /\ Authored(m, t)'
      <4>1. AskedFor(m, t)'
        BY <1>6, <2>5, <3>8 DEF AskedFor, AskedAt, LastOf, Op
      <4> SUFFICES ASSUME NEW e \in DOMAIN file'
                   PROVE  \E k \in 0 .. m - 1 :
                             /\ Op(k + 1) = "write" /\ Writes(t[k]) /\ e = <<t[k].step, Calls[k + 1].arg>>
                             /\ Len(file'[e]) = t[k].shape
                             /\ faults' = MaxFaults => \A q \in Procs : Behind(q, k)' =>
                                  \A i \in 1 .. t[k].counts[q] :
                                      file'[e][Start(t[k].counts, q) + i] = Cell(e, q, i)
        BY <2>5, <4>1 DEF Authored, Op, Writes, InPlace
      <4>2. CASE e = key
        <5> PICK j \in 0 .. m - 1 : j = n
          BY <1>3
        <5>1. ASSUME NEW q \in Procs PROVE ~Behind(q, j)'
          <6>1. CASE q = r
            BY <1>1, <1>3, <2>1, <6>1 DEF Behind
          <6>2. CASE q # r
            <7>1. ~(Done(q) > n) /\ h'[q] = h[q]
              BY <2>1, <2>11, <2>18, <6>2 DEF Moves
            <7> QED
              BY <1>3, <1>6, <7>1 DEF Behind, Done, SlotTypes, Transferring
          <6> QED
            BY <6>1, <6>2
        <5>2. Len(file'[e]) = x.shape
          <6>1. x.counts # Unset
            BY <1>1, <1>3, <1>9, <3>8, CountsWereSet
          <6>2. f.shape \in Nat
            <7>1. x.counts \in [Procs -> Nat]
              BY <1>2, <6>1, CommonHas DEF CommonTypes
            <7> QED
              BY <1>2, <6>1, <7>1, TotalIs
          <6>3. Len(empty) = f.shape
            BY <6>2, HolesAre DEF empty
          <6> QED
            BY <1>2, <2>3, <2>18, <4>2, <6>3
        <5> QED
          BY <1>1, <1>3, <1>9, <2>10, <4>2, <5>1, <5>2
      <4>3. CASE e # key
        <5>1. e \in DOMAIN file /\ file'[e] = file[e]
          BY <2>3, <4>3
        <5>2. PICK k \in 0 .. m - 1 :
                 /\ Op(k + 1) = "write" /\ Writes(t[k]) /\ e = <<t[k].step, Calls[k + 1].arg>>
                 /\ Len(file[e]) = t[k].shape
                 /\ faults = MaxFaults => \A q \in Procs : Behind(q, k) => InPlace(e, t[k].counts, q)
          BY <1>6, <3>8, <5>1 DEF Authored
        <5>3. \A q \in Procs : Behind(q, k)' => Behind(q, k)
          <6>1. ASSUME NEW q \in Procs, q # r PROVE Behind(q, k)' <=> Behind(q, k)
            BY <2>1, <6>1 DEF Behind, Moves
          <6> QED
            BY <2>13, <6>1
        <5> QED
          BY <1>1, <5>1, <5>2, <5>3 DEF InPlace
      <4> QED
        BY <4>2, <4>3
    <3> QED
      BY <2>9, <3>1, <3>2, <3>3, <3>4, <3>5, <3>6, <3>7, <3>8 DEF Good
  <2> QED
    BY <2>17, <2>18
<1> QED
  BY <1>8, <1>9

\* Processors with their own counts select their own particles.
LEMMA OwnSelection ==
    ASSUME NEW c \in [Procs -> Nat], NEW r \in Procs
    PROVE  LET sel == OwnSpace(c, r).sel
           IN  /\ OwnSpace(c, r).total = SumOver(c, Procs) /\ SumOver(c, Procs) \in Nat /\ Start(c, r) \in Nat
               /\ sel \in Seq(Nat) /\ DOMAIN sel = 1 .. c[r] /\ Len(sel) = c[r]
               /\ \A k \in 1 .. c[r] : sel[k] = Start(c, r) + k - 1
               /\ OwnSpace(c, r) # ALL
<1> DEFINE a == Start(c, r)
           b == Start(c, r) + c[r] - 1
<1>1. a \in Nat /\ SumOver(c, Procs) \in Nat /\ c[r] \in Nat
  BY StartIs, TotalIs
<1>2. a \in Int /\ b \in Int /\ a >= 0 /\ b >= a - 1 /\ b - a + 1 = c[r]
  BY <1>1
<1>3. /\ OwnSpace(c, r).sel = IndexRange(a, b) /\ OwnSpace(c, r).total = SumOver(c, Procs)
      /\ OwnSpace(c, r) # ALL
  BY <1>1 DEF OwnSpace, ALL
<1> HIDE DEF a, b
<1>4. /\ IndexRange(a, b) \in Seq(Nat) /\ DOMAIN IndexRange(a, b) = 1 .. c[r] /\ Len(IndexRange(a, b)) = c[r]
      /\ \A k \in 1 .. c[r] : IndexRange(a, b)[k] = a + k - 1
  BY <1>2, IndexRangeIs
<1> QED
  BY <1>1, <1>3, <1>4 DEF a

\* HDF5 accepts them where the data set has the size of all counts.
LEMMA OwnAccepted ==
    ASSUME NEW c \in [Procs -> Nat], NEW r \in Procs, NEW n \in Nat, n = SumOver(c, Procs)
    PROVE  Accepts([OwnSpace(c, r) EXCEPT !.total = Min({@, n})], MemFor(c[r]))
<1> DEFINE own == OwnSpace(c, r)
           space == [own EXCEPT !.total = Min({@, n})]
<1>1. /\ own.total = n /\ Start(c, r) \in Nat /\ DOMAIN own.sel = 1 .. c[r] /\ Len(own.sel) = c[r]
      /\ \A k \in 1 .. c[r] : own.sel[k] = Start(c, r) + k - 1
  BY OwnSelection
<1>2. Start(c, r) + c[r] <= n /\ c[r] \in Nat
  BY StartIs
<1>3. Min({n, n}) = n
  BY DEF Min
<1>4. own = [total |-> own.total, sel |-> own.sel]
  BY DEF OwnSpace
<1> HIDE DEF own
<1>5. space.sel = own.sel /\ space.total = n
  BY <1>1, <1>3, <1>4
<1> HIDE DEF space
<1>6. MemFor(c[r]) \in {-1, Len(space.sel)}
  BY <1>1, <1>2, <1>5 DEF MemFor
<1>7. ASSUME NEW i \in DOMAIN space.sel PROVE space.sel[i] < space.total
  <2> DEFINE s == Start(c, r)
  <2>1. s \in Nat /\ s + c[r] <= n
    BY <1>1, <1>2
  <2>2. i \in 1 .. c[r] /\ space.sel[i] = s + i - 1
    BY <1>1, <1>5
  <2> HIDE DEF s
  <2> QED
    BY <1>2, <1>5, <2>1, <2>2
<1>8. Accepts(space, MemFor(c[r]))
  BY <1>6, <1>7 DEF Accepts
<1> QED
  BY <1>8 DEF space, own

\* A write keeps the size of a data set.
LEMMA PlacedIs ==
    ASSUME NEW stored \in Seq(Cells), NEW space, space.sel \in Seq(Nat), NEW r \in Procs,
           Key(r) \in Keys
    PROVE  LET p == Placed(space, stored, r)
           IN  p \in Seq(Cells) /\ Len(p) = Len(stored)
<1> DEFINE At(i) == IF \E k \in DOMAIN space.sel : space.sel[k] = i - 1
                    THEN Cell(Key(r), r, CHOOSE k \in DOMAIN space.sel : space.sel[k] = i - 1)
                    ELSE stored[i]
           p == [i \in 1 .. Len(stored) |-> At(i)]
<1>1. Len(stored) \in Nat /\ DOMAIN stored = 1 .. Len(stored)
  BY LenProperties
<1>2. ASSUME NEW i \in 1 .. Len(stored) PROVE At(i) \in Cells
  <2>1. CASE \E k \in DOMAIN space.sel : space.sel[k] = i - 1
    <3> DEFINE j == CHOOSE k \in DOMAIN space.sel : space.sel[k] = i - 1
    <3>1. j \in DOMAIN space.sel
      BY <2>1
    <3> HIDE DEF j
    <3>2. j \in Int
      BY <3>1
    <3>3. r \in Int
      BY ProcsAre
    <3>5. Cell(Key(r), r, j) \in Cells
      BY <3>2, <3>3 DEF Cell, Cells
    <3> QED
      BY <2>1, <3>5 DEF j
  <2>2. CASE ~\E k \in DOMAIN space.sel : space.sel[k] = i - 1
    BY <1>1, <2>2
  <2> QED
    BY <2>1, <2>2
<1>3. Placed(space, stored, r) = p
  BY <1>1 DEF Placed
<1> HIDE DEF At
<1>4. p \in Seq(Cells) /\ Len(p) = Len(stored)
  BY <1>1, <1>2
<1> QED
  BY <1>3, <1>4

\* r's particles come to lie in r's range, in their order, and in no other.
LEMMA PlacedOwn ==
    ASSUME NEW stored \in Seq(Cells), NEW c \in [Procs -> Nat], NEW r \in Procs, Len(stored) = SumOver(c, Procs)
    PROVE  LET p == Placed(OwnSpace(c, r), stored, r)
           IN  /\ \A i \in 1 .. c[r] : p[Start(c, r) + i] = Cell(Key(r), r, i)
               /\ \A q \in Procs \ {r} : \A i \in 1 .. c[q] : p[Start(c, q) + i] = stored[Start(c, q) + i]
<1> DEFINE sel == OwnSpace(c, r).sel
           p == Placed(OwnSpace(c, r), stored, r)
           s == Start(c, r)
<1>1. /\ s \in Nat /\ DOMAIN sel = 1 .. c[r] /\ (\A k \in 1 .. c[r] : sel[k] = s + k - 1)
      /\ SumOver(c, Procs) \in Nat
  BY OwnSelection
<1>2. s + c[r] <= Len(stored) /\ Len(stored) \in Nat /\ DOMAIN stored = 1 .. Len(stored) /\ c[r] \in Nat
  BY StartIs, LenProperties
<1>3. \A i \in DOMAIN stored : p[i] = IF \E k \in DOMAIN sel : sel[k] = i - 1
                                      THEN Cell(Key(r), r, CHOOSE k \in DOMAIN sel : sel[k] = i - 1)
                                      ELSE stored[i]
  BY DEF Placed
<1> HIDE DEF sel, p, s
<1>4. ASSUME NEW i \in 1 .. c[r] PROVE p[s + i] = Cell(Key(r), r, i)
  <2>1. s + i \in DOMAIN stored /\ s + i - 1 = s + (i - 1)
    BY <1>1, <1>2
  <2>2. i \in DOMAIN sel /\ sel[i] = (s + i) - 1
    BY <1>1
  <2>3. \A k \in DOMAIN sel : sel[k] = (s + i) - 1 => k = i
    BY <1>1
  <2>4. (CHOOSE k \in DOMAIN sel : sel[k] = (s + i) - 1) = i
    BY <2>2, <2>3
  <2> QED
    BY <1>3, <2>1, <2>2, <2>4
<1>5. ASSUME NEW q \in Procs, q # r, NEW i \in 1 .. c[q] PROVE p[Start(c, q) + i] = stored[Start(c, q) + i]
  <2> DEFINE b == Start(c, q)
  <2>1. b \in Nat /\ b + c[q] <= Len(stored) /\ c[q] \in Nat
    BY StartIs
  <2>2. s + c[r] <= b \/ b + c[q] <= s
    <3>1. q < r \/ r < q
      BY <1>5, ProcsAre
    <3> QED
      BY <3>1, StartIs DEF s
  <2> HIDE DEF b
  <2>3. b + i \in DOMAIN stored
    BY <1>2, <2>1
  <2>4. ~\E k \in DOMAIN sel : sel[k] = (b + i) - 1
    BY <1>1, <1>2, <2>1, <2>2
  <2>5. p[b + i] = stored[b + i]
    BY <1>3, <2>3, <2>4
  <2> QED
    BY <2>5 DEF b
<1> QED
  BY <1>4, <1>5 DEF p, s

\* No two calls of such a program write the same data set.
LEMMA OneAuthor ==
    ASSUME NEW m, NEW t, Good(m, t), WritesOnce, NEW j \in 0 .. m - 1, NEW k \in 0 .. m - 1,
           Op(j + 1) = "write", Op(k + 1) = "write", Writes(t[j]), Writes(t[k]),
           t[j].step = t[k].step, Calls[j + 1].arg = Calls[k + 1].arg
    PROVE  j = k
<1>1. /\ AskedFor(m, t) /\ m \in Nat /\ m <= Len(Calls) /\ Len(Calls) \in Nat /\ program \in Programs
      /\ Course(m, t) /\ Onward(m, t)
  BY GoodHas
<1>2. ASSUME NEW a \in 0 .. m - 1, NEW b \in 0 .. m - 1, a < b, Op(a + 1) = "write", Op(b + 1) = "write",
             Writes(t[a]), Writes(t[b]), t[a].step = t[b].step, Calls[a + 1].arg = Calls[b + 1].arg
      PROVE  FALSE
  <2>1. a \in 0 .. m /\ b \in 0 .. m /\ a + 1 \in DOMAIN Calls /\ b + 1 \in DOMAIN Calls /\ a + 1 < b + 1
    BY <1>1, <1>2, CallsAre
  <2>2. \A e \in 1 .. b : Op(e) # "reopen"
    BY <1>1, <1>2, <2>1, Reopened DEF Writes
  <2>3. PICK e \in (a + 1) + 1 .. (b + 1) - 1 : Op(e) \in {"step", "reopen"}
    BY <1>2, <2>1 DEF WritesOnce, NamesOnce
  <2>4. e \in 1 .. b /\ Op(e) = "step" /\ e > a + 1
    BY <2>1, <2>2, <2>3
  <2>5. PICK c \in LastOf({"step"}, a + 1) : Calls[c].arg = t[a].step
    BY <1>1, <1>2, <2>1 DEF AskedFor, AskedAt, Writes
  <2>6. PICK d \in LastOf({"step"}, b + 1) : Calls[d].arg = t[b].step
    BY <1>1, <1>2, <2>1 DEF AskedFor, AskedAt, Writes
  <2>7. c \in 1 .. a /\ Op(c) = "step" /\ d \in 1 .. b /\ Op(d) = "step"
    BY <2>1, <2>5, <2>6 DEF LastOf
  <2>8. \A i \in d + 1 .. b : Op(i) # "step"
    BY <2>1, <2>6 DEF LastOf
  <2>9. d >= e
    BY <2>1, <2>4, <2>7, <2>8
  <2>10. c < d /\ c \in DOMAIN Calls /\ d \in DOMAIN Calls
    BY <1>1, <2>1, <2>4, <2>7, <2>9, CallsAre
  <2>11. PICK i \in c + 1 .. d - 1 : Op(i) = "reopen"
    BY <1>2, <2>5, <2>6, <2>7, <2>10 DEF WritesOnce, StepsOnce
  <2>12. i \in 1 .. b
    BY <2>1, <2>7, <2>11
  <2> QED
    BY <2>2, <2>11, <2>12
<1> QED
  BY <1>1, <1>2

\* What a transfer that writes does to the data sets.
Stored(r) ==
    /\ SameSizes /\ FileTyped'
    /\ \A key \in DOMAIN file : key # Key(r) => file'[key] = file[key]
\* ... and what it means that r's part of the data set was written through its own counts.
LEMMA WritingStores ==
    ASSUME NEW r \in Procs, FileTyped, Key(r) \in DOMAIN file, Key(r) \in Keys, NEW space, space.sel \in Seq(Nat),
           file' = [file EXCEPT ![Key(r)] = Placed(space, file[Key(r)], r)]
    PROVE  Stored(r) /\ file'[Key(r)] = Placed(space, file[Key(r)], r)
<1> DEFINE key == Key(r)
           stored == file[key]
           p == Placed(space, stored, r)
<1>1. stored \in Seq(Cells) /\ file = [k \in DOMAIN file |-> file[k]]
  BY DEF FileTyped
<1>2. p \in Seq(Cells) /\ Len(p) = Len(stored)
  <2> HIDE DEF stored
  <2> QED
    BY <1>1, PlacedIs
<1>3. /\ DOMAIN file' = DOMAIN file /\ file'[key] = p /\ file' = [k \in DOMAIN file |-> file'[k]]
      /\ \A k \in DOMAIN file : k # key => file'[k] = file[k]
  <2> HIDE DEF p, key
  <2>1. key \in DOMAIN file /\ file' = [file EXCEPT ![key] = p]
    BY DEF key, p
  <2> QED
    BY <1>1, <2>1
<1> HIDE DEF p, key
<1>4. SameSizes
  BY <1>2, <1>3 DEF SameSizes
<1>5. FileTyped'
  <2>1. \A k \in DOMAIN file : file'[k] \in Seq(Cells)
    BY <1>2, <1>3 DEF FileTyped
  <2>2. file' \in [DOMAIN file -> Seq(Cells)]
    BY <1>3, <2>1
  <2> QED
    BY <1>3, <2>2 DEF FileTyped
<1> QED
  BY <1>3, <1>4, <1>5 DEF Stored, p, key

\* r has written, or failed to: only its own data set may have changed.
LEMMA WritingKeeps ==
    ASSUME NEW m, NEW t, Good(m, t), NEW r \in Procs, WriteXfer(r)
    PROVE  Good(m, t)'
<1> DEFINE f == h[r].f
           n == h[r].n
           x == t[h[r].n]
           key == Key(r)
           stored == file[key]
           space == IF f.disk = ALL THEN Whole(stored) ELSE f.disk
           accepted == Accepts([space EXCEPT !.total = Min({@, Len(stored)})], f.mem)
<1>1. /\ h[r].pc = "xfer" /\ Call(r).op = "write"
      /\ program' = program /\ steps' = steps /\ tokens' = tokens
      /\ \/ /\ WrittenWell(r)
            /\ file' = [file EXCEPT ![key] = Placed(space, stored, r)]
            /\ faults' = faults
         \/ /\ faults > 0 \/ ~accepted
            /\ faults' = IF accepted THEN faults - 1 ELSE faults
            /\ WrittenBadly(r)
            /\ file' = file
  <2>1. WriteXfer(r)
    OBVIOUS
  <2>2. h[r].pc = "xfer" /\ Call(r).op = "write" /\ program' = program /\ steps' = steps /\ tokens' = tokens
    BY <2>1 DEF WriteXfer, Has
  <2> HIDE DEF accepted, space, stored, key
  <2> QED
    BY <2>1, <2>2 DEF WriteXfer, WrittenWell, WrittenBadly, accepted, space, stored, key
<1> HIDE DEF accepted
<1>2. h[r].pc \in Transferring
  BY <1>1 DEF Transferring
<1>3. /\ n \in Nat /\ Done(r) = n + 1 /\ f \in Handles /\ Call(r) = Calls[n + 1] /\ Call(r).op = Op(n + 1)
      /\ key \in DOMAIN file /\ n < m /\ m \in Nat /\ n + 1 <= m /\ n \in 0 .. m - 1 /\ Writes(x) /\ x \in Common
      /\ f.read = x.read /\ f.step = x.step /\ f.shape = x.shape /\ t[n + 1].counts = x.counts
  BY <1>1, <1>2, InTransfer
<1>4. /\ h \in [Procs -> Slots] /\ SlotTypes(h[r]) /\ Shape /\ tokens \in [Procs \X Procs -> Nat]
      /\ faults \in 0 .. MaxFaults /\ FileTyped /\ Closed /\ Created(m, t) /\ program \in Programs
      /\ Onward(m, t) /\ Sources(m, t)
      /\ \A q \in Procs : AtCall(q) /\ Matches(q, m, t) /\ Bounds(q) /\ Owns(q, t) /\ Divided(q)
      /\ WritesOnce => AskedFor(m, t) /\ Authored(m, t)
      /\ ReadsWhatIsClosed => \A q \in Procs : ReadIsRight(q)
      /\ \A q \in Procs : Done(q) \in Nat /\ h[q].n <= Done(q)
  BY GoodHas DEF Shape
<1>5. /\ Moves(r)
      /\ h'[r].n = n /\ h'[r].pc = "end" /\ h'[r].f = f /\ h'[r].ret = h[r].ret
      /\ h'[r].failed \in BOOLEAN /\ h'[r].held = h[r].held /\ h'[r].got = h[r].got
  BY <1>1, <1>4, WrittenIs
<1>6. stored \in Seq(Cells) /\ key \in Keys /\ key = <<x.step, Calls[n + 1].arg>>
  <2>1. key = <<f.step, Call(r).arg>>
    BY DEF Key
  <2>2. f.step \in Int
    BY <1>3, HandleHas DEF HandleTypes
  <2>3. Call(r).arg \in Names \cup {"", "beyond"}
    BY <1>1, <1>2, InTransfer DEF CallTyped
  <2>4. key \in Keys
    <3>1. \A a \in Int, b \in Names \cup {"", "beyond"} : <<a, b>> \in Keys
      BY DEF Keys
    <3> HIDE DEF key, f
    <3> QED
      BY <2>1, <2>2, <2>3, <3>1
  <2> QED
    BY <1>3, <1>4, <2>1, <2>4 DEF FileTyped
<1>7. space.sel \in Seq(Nat)
  <2>1. Whole(stored).sel \in Seq(Nat)
    <3> HIDE DEF stored
    <3> QED
      BY <1>6, WholeIs
  <2>2. f.disk.sel \in Seq(Nat)
    BY <1>3, HandleHas DEF HandleTypes
  <2> QED
    BY <2>1, <2>2
<1> HIDE DEF space
<1>8. Stored(r) /\ faults' \in 0 .. MaxFaults /\ faults' <= faults
  <2>1. CASE WrittenWell(r) /\ file' = [file EXCEPT ![key] = Placed(space, stored, r)] /\ faults' = faults
    <3>1. Stored(r)
      BY <1>3, <1>4, <1>6, <1>7, <2>1, WritingStores
    <3>2. faults <= faults
      BY <1>4, NprocsAssumption
    <3> QED
      BY <1>4, <2>1, <3>1, <3>2
  <2>2. CASE /\ faults > 0 \/ ~accepted
             /\ faults' = IF accepted THEN faults - 1 ELSE faults
             /\ file' = file
    <3>1. Stored(r)
      BY <1>4, <2>2 DEF Stored, SameSizes, FileTyped
    <3>2. faults > 0 => faults - 1 \in 0 .. MaxFaults /\ faults - 1 <= faults
      BY <1>4, NprocsAssumption
    <3>3. faults <= faults
      BY <1>4, NprocsAssumption
    <3> QED
      BY <1>4, <2>2, <3>1, <3>2, <3>3
  <2> QED
    BY <1>1, <2>1, <2>2
<1>9. /\ SameSizes /\ FileTyped' /\ DOMAIN file' = DOMAIN file
      /\ \A k \in DOMAIN file : k # key => file'[k] = file[k]
  BY <1>8 DEF Stored, SameSizes
<1>10. Done(r)' = n + 1 /\ Call(r)' = Call(r) /\ Calls' = Calls /\ Key(r)' = key
  BY <1>1, <1>5 DEF Done, Transferring, Call, Calls, Key
<1>11. SlotTypes(h'[r])
  BY <1>4, <1>5 DEF SlotTypes, Pcs, Transferring
<1>12. AtCall(r)' /\ Matches(r, m, t)' /\ Bounds(r)' /\ Owns(r, t)' /\ Divided(r)'
  <2>1. AtCall(r) /\ Matches(r, m, t) /\ Bounds(r) /\ Owns(r, t)
    BY <1>4
  <2>2. AtCall(r)'
    BY <1>1, <1>2, <1>3, <1>5, <1>9, <1>10, <2>1 DEF AtCall, Transferring
  <2>3. Matches(r, m, t)'
    BY <1>1, <1>2, <1>3, <1>5, <1>10, <2>1 DEF Matches, Transferring
  <2>4. Bounds(r)'
    BY <1>1, <1>5, <2>1 DEF Bounds
  <2>5. Owns(r, t)'
    BY <1>1, <1>3, <1>5, <1>10, <2>1 DEF Owns
  <2>6. Divided(r)'
    BY <1>5 DEF Divided
  <2> QED
    BY <2>2, <2>3, <2>4, <2>5, <2>6
<1>13. \A q \in Procs : Done(q)' \in Nat /\ Done(q) <= Done(q)'
  <2>1. ASSUME NEW q \in Procs, q # r PROVE Done(q)' = Done(q)
    BY <1>5, <2>1 DEF Moves, Done
  <2>2. Done(r)' = Done(r)
    BY <1>3, <1>10
  <2> QED
    BY <1>4, <2>1, <2>2
<1>14. ASSUME NEW q \in Procs PROVE AtCall(q)' /\ Matches(q, m, t)' /\ Bounds(q)' /\ Owns(q, t)' /\ Divided(q)'
  <2>1. CASE q = r
    BY <1>12, <2>1
  <2>2. CASE q # r
    <3>1. h'[q] = h[q]
      BY <1>5, <2>2 DEF Moves
    <3>2. AtCall(q)' /\ Matches(q, m, t)' /\ Bounds(q)' /\ Owns(q, t)'
      BY <1>1, <1>4, <1>9, <3>1, OtherStays
    <3>3. Divided(q)'
      BY <1>1, <1>9, <1>13, <3>1, DividedStays
    <3> QED
      BY <3>2, <3>3
  <2> QED
    BY <2>1, <2>2
<1>15. Course(m, t)' /\ Onward(m, t)' /\ Sources(m, t)' /\ Created(m, t)' /\ Closed' /\ Shape'
  <2>1. Course(m, t)'
    BY <1>1, <1>9, CourseStays
  <2>2. Onward(m, t)'
    BY <1>4 DEF Onward, Batches
  <2>3. Sources(m, t)'
    BY <1>4, <1>5, SourcesStay
  <2>4. \A k \in 0 .. m - 1 : ~(Done(r) <= k /\ k < Done(r)')
    BY <1>3, <1>10
  <2>5. Created(m, t)'
    BY <1>1, <1>5, <1>9, <2>4, CreatedStays
  <2>6. Closed'
    BY <1>1, <1>4, <1>5, ClosedStays
  <2>7. h' \in [Procs -> Slots]
    BY <1>4, <1>5, <1>11, StillSlots
  <2>8. Shape'
    BY <1>1, <1>4, <1>8, <1>9, <2>7 DEF Shape
  <2> QED
    BY <2>1, <2>2, <2>3, <2>5, <2>6, <2>8
<1>16. (ReadsWhatIsClosed' <=> ReadsWhatIsClosed) /\ (WritesOnce' <=> WritesOnce)
  BY <1>10 DEF ReadsWhatIsClosed, WritesOnce, CountsGivenFirst, StepsOnce, NamesOnce, LastOf, Op
<1>17. ASSUME ReadsWhatIsClosed PROVE Turns(t)' /\ \A q \in Procs : ReadIsRight(q)'
  <2>1. \A d \in Batches : Begun(r, d, t)' = Begun(r, d, t)
    BY <1>1, <1>5 DEF Begun, Done, Transferring
  <2>2. h'[r].n \in Nat /\ h[r].n <= h'[r].n /\ h'[r].n <= m
    BY <1>3, <1>5
  <2>3. Turns(t)'
    BY <1>1, <1>5, <1>17, <2>1, <2>2, TurnsStay
  <2>4. ReadIsRight(r)'
    BY <1>1, <1>5, <1>10 DEF ReadIsRight, Got
  <2>5. ASSUME NEW q \in Procs, q # r PROVE ReadIsRight(q)'
    <3>1. h'[q] = h[q]
      BY <1>5, <2>5 DEF Moves
    <3>2. ~h[q].f.read
      BY <1>1, <1>3, <1>4 DEF Closed, Writes
    <3>3. ~Got(q)
      BY <1>17, <3>2, GotReads
    <3> QED
      BY <1>1, <1>4, <1>9, <1>17, <3>1, <3>2, <3>3, ReadStays
  <2> QED
    BY <2>3, <2>4, <2>5
<1>18. ASSUME WritesOnce PROVE AskedFor(m, t)' /\ Authored(m, t)'
  <2>1. AskedFor(m, t)'
    BY <1>4, <1>10, <1>18 DEF AskedFor, AskedAt, LastOf, Op
  <2> PICK j \in 0 .. m - 1 : j = n
    BY <1>3
  <2> DEFINE c == t[j].counts
  <2>2. /\ c \in [Procs -> Nat] /\ f.disk = OwnSpace(c, r) /\ f.mem = MemFor(c[r])
        /\ t[j].shape = SumOver(c, Procs) /\ SumOver(c, Procs) \in Nat
    <3>1. c # Unset
      BY <1>1, <1>3, <1>18, CountsWereSet
    <3>2. c \in [Procs -> Nat]
      BY <1>3, <3>1, CommonHas DEF CommonTypes
    <3>3. Owns(r, t) /\ t[Done(r)].counts = c
      BY <1>3, <1>4
    <3>4. f.disk = OwnSpace(c, r) /\ f.shape = SumOver(c, Procs) /\ f.mem = MemFor(c[r])
      BY <1>1, <3>1, <3>3 DEF Owns
    <3> QED
      BY <1>3, <3>2, <3>4, TotalIs
  <2> HIDE DEF c
  <2>3. \A k \in 0 .. m - 1 : Op(k + 1) = "write" /\ Writes(t[k]) /\ key = <<t[k].step, Calls[k + 1].arg>> => k = j
    <3> TAKE k \in 0 .. m - 1
    <3> HAVE Op(k + 1) = "write" /\ Writes(t[k]) /\ key = <<t[k].step, Calls[k + 1].arg>>
    <3>1. t[k].step = t[j].step /\ Calls[k + 1].arg = Calls[j + 1].arg
      BY <1>6
    <3> HIDE DEF key
    <3> QED
      BY <1>1, <1>3, <1>18, <3>1, OneAuthor
  <2>4. Len(stored) = SumOver(c, Procs)
    BY <1>3, <1>4, <1>18, <2>2, <2>3 DEF Authored
  <2>5. space = OwnSpace(c, r)
    BY <2>2, OwnSelection DEF space
  <2>6. accepted
    BY <2>2, <2>4, <2>5, OwnAccepted DEF accepted
  <2>7. faults' = MaxFaults =>
            /\ faults = MaxFaults
            /\ file'[key] = Placed(OwnSpace(c, r), stored, r)
    <3>1. CASE WrittenWell(r) /\ file' = [file EXCEPT ![key] = Placed(space, stored, r)] /\ faults' = faults
      BY <1>3, <1>4, <1>6, <1>7, <2>5, <3>1, WritingStores
    <3>2. CASE faults' = faults - 1
      BY <1>4, <3>2, NprocsAssumption
    <3> QED
      BY <1>1, <2>6, <3>1, <3>2
  <2>8. ASSUME faults' = MaxFaults, NEW q \in Procs, Behind(q, j)'
        PROVE  \A i \in 1 .. c[q] : file'[key][Start(c, q) + i] = Cell(key, q, i)
    <3>1. CASE q = r
      <4>1. \A i \in 1 .. c[r] : Placed(OwnSpace(c, r), stored, r)[Start(c, r) + i] = Cell(key, r, i)
        <5> HIDE DEF stored
        <5> QED
          BY <1>6, <2>2, <2>4, PlacedOwn
      <4> QED
        BY <2>7, <2>8, <3>1, <4>1
    <3>2. CASE q # r
      <4>1. Behind(q, j)
        BY <1>5, <2>8, <3>2 DEF Behind, Moves
      <4>2. InPlace(key, c, q)
        BY <1>3, <1>4, <1>18, <2>3, <2>7, <2>8, <4>1 DEF Authored, c
      <4>3. \A i \in 1 .. c[q] : file'[key][Start(c, q) + i] = stored[Start(c, q) + i]
        BY <1>6, <2>2, <2>4, <2>7, <2>8, <3>2, PlacedOwn
      <4> QED
        BY <4>2, <4>3 DEF InPlace
    <3> QED
      BY <3>1, <3>2
  <2> SUFFICES ASSUME NEW e \in DOMAIN file'
               PROVE  \E k \in 0 .. m - 1 :
                         /\ Op(k + 1) = "write" /\ Writes(t[k]) /\ e = <<t[k].step, Calls[k + 1].arg>>
                         /\ Len(file'[e]) = t[k].shape
                         /\ faults' = MaxFaults => \A q \in Procs : Behind(q, k)' =>
                              \A i \in 1 .. t[k].counts[q] :
                                  file'[e][Start(t[k].counts, q) + i] = Cell(e, q, i)
    BY <1>10, <2>1 DEF Authored, Op, Writes, InPlace
  <2>9. PICK k \in 0 .. m - 1 :
           /\ Op(k + 1) = "write" /\ Writes(t[k]) /\ e = <<t[k].step, Calls[k + 1].arg>>
           /\ Len(file[e]) = t[k].shape
           /\ faults = MaxFaults => \A q \in Procs : Behind(q, k) => InPlace(e, t[k].counts, q)
    BY <1>4, <1>9, <1>18 DEF Authored
  <2>10. e \in DOMAIN file /\ Len(file'[e]) = t[k].shape
    BY <1>9, <2>9 DEF SameSizes
  <2>11. CASE e = key
    <3>1. k = j
      BY <2>3, <2>9, <2>11
    <3> QED
      BY <2>8, <2>9, <2>10, <2>11, <3>1 DEF c
  <2>12. CASE e # key
    <3>1. k # j
      BY <1>6, <2>9, <2>12
    <3>2. file'[e] = file[e]
      BY <1>9, <2>10, <2>12
    <3>3. \A q \in Procs : Behind(q, k)' => Behind(q, k)
      <4>1. ASSUME NEW q \in Procs, q # r PROVE Behind(q, k)' <=> Behind(q, k)
        BY <1>5, <4>1 DEF Behind, Moves
      <4>2. Behind(r, k)' => Behind(r, k)
        BY <1>5, <3>1 DEF Behind
      <4> QED
        BY <4>1, <4>2
    <3> QED
      BY <2>7, <2>9, <2>10, <3>2, <3>3 DEF InPlace
  <2> QED
    BY <2>11, <2>12
<1> QED
  BY <1>14, <1>15, <1>16, <1>17, <1>18 DEF Good

-----------------------------------------------------------------------------
(* The invariant                                                            *)

\* The invariant holds of files just created.
LEMMA GoodAtFirst == ASSUME Init PROVE IInv
<1> DEFINE zero == 0
           t == [k \in 0 .. zero |-> First]
           slot == [n |-> 0, pc |-> "idle", f |-> Handle(FALSE), ret |-> "ok",
                    failed |-> FALSE, held |-> FALSE, got |-> <<>>]
<1> DEFINE f == Handle(FALSE)
<1>0. /\ f \in Handles /\ InStep(f) /\ f.read = FALSE /\ f.step = -1 /\ f.timestep = 0 /\ f.shape = -1
      /\ f.throttle = 0
  BY NewHandle
<1> HIDE DEF f
<1>1. /\ program \in Programs /\ h = [r \in Procs |-> slot] /\ file = << >> /\ steps = {}
      /\ tokens = [c \in Procs \X Procs |-> 0] /\ faults = MaxFaults
  BY DEF Init
<1>2. /\ slot = [x \in SlotFields |-> slot[x]] /\ slot.n = 0 /\ slot.pc = "idle" /\ slot.f = f
      /\ slot.ret = "ok" /\ slot.failed = FALSE /\ slot.held = FALSE /\ slot.got = <<>>
  BY DEF SlotFields, f
<1> HIDE DEF slot
<1>3. \A r \in Procs : h[r] = slot
  BY <1>1
<1>4. SlotTypes(slot)
  <2>1. slot.failed \in BOOLEAN /\ slot.held \in BOOLEAN
    BY <1>2, Zenon
  <2>2. slot.n \in Nat /\ slot.pc \in Pcs /\ slot.ret \in {"ok", "error"}
    BY <1>2 DEF Pcs
  <2>3. << >> \in Seq(Cells)
    OBVIOUS
  <2>4. slot.f \in Handles /\ slot.got \in Seq(Cells)
    BY <1>0, <1>2, <2>3, Zenon
  <2> QED
    BY <2>1, <2>2, <2>4 DEF SlotTypes
<1>5. /\ zero \in Nat /\ zero = 0 /\ 0 .. zero = {0} /\ (\A k : k \notin 0 .. zero - 1)
      /\ DOMAIN t = 0 .. zero /\ t[zero] = First /\ t \in [0 .. zero -> Common]
  BY FirstIs
<1>6. /\ First.read = FALSE /\ First.step = -1 /\ First.timestep = 0 /\ First.shape = -1 /\ First.throttle = 0
      /\ First.counts = Unset /\ First.turns = [d \in Batches |-> 0]
  BY DEF First
<1> HIDE DEF zero, t
<1>7. Len(Calls) \in Nat
  BY <1>1, CallsAre
<1>8. Shape
  <2>1. h \in [Procs -> Slots]
    BY <1>1, <1>2, <1>4, IsSlot
  <2>2. FileTyped
    <3>1. DOMAIN file = {}
      BY <1>1
    <3>2. file = [k \in {} |-> 0]
      BY <1>1
    <3> QED
      BY <3>1, <3>2 DEF FileTyped
  <2>3. tokens \in [Procs \X Procs -> Nat]
    BY <1>1
  <2> QED
    BY <1>1, <2>1, <2>2, <2>3, NprocsAssumption DEF Shape
<1>9. Course(zero, t) /\ Onward(zero, t) /\ Sources(zero, t)
  <2>1. Course(zero, t)
    BY <1>5, <1>7 DEF Course
  <2>2. Onward(zero, t)
    <3>1. \A d \in Batches : First.turns[d] <= First.turns[d]
      BY <1>6
    <3> QED
      BY <1>5, <3>1 DEF Onward
  <2>3. Sources(zero, t)
    BY <1>5 DEF Sources
  <2> QED
    BY <2>1, <2>2, <2>3
<1>10. ASSUME NEW r \in Procs
       PROVE  AtCall(r) /\ Matches(r, zero, t) /\ Bounds(r) /\ Owns(r, t) /\ Divided(r)
  <2>1. Done(r) = 0 /\ h[r].pc = "idle" /\ h[r].n = 0 /\ h[r].f = f
    BY <1>2, <1>3 DEF Done, Transferring
  <2>2. AtCall(r)
    BY <1>7, <2>1, <1>0 DEF AtCall, Transferring
  <2>3. Matches(r, zero, t)
    <3> DEFINE x == t[Done(r)]
    <3>1. Done(r) <= zero /\ x = First
      BY <1>5, <2>1
    <3>2. f.read = First.read
      BY <1>0, <1>6, Zenon
    <3>3. /\ f.step = First.step /\ f.timestep = First.timestep /\ f.throttle = First.throttle
          /\ f.shape = First.shape
      BY <1>0, <1>6
    <3> QED
      BY <2>1, <3>1, <3>2, <3>3 DEF Matches, Transferring
  <2>4. Bounds(r)
    BY <2>1, <1>0 DEF Bounds
  <2>5. Owns(r, t)
    BY <1>5, <1>6, <2>1 DEF Owns
  <2>6. Divided(r)
    BY <2>1 DEF Divided
  <2> QED
    BY <2>2, <2>3, <2>4, <2>5, <2>6
<1>11. Closed /\ Created(zero, t)
  <2>1. \A r \in Procs : ~h[r].f.read
    BY <1>2, <1>3, <1>0
  <2> QED
    BY <1>5, <2>1 DEF Closed, Created
<1>12. Turns(t) /\ \A r \in Procs : ReadIsRight(r)
  <2>1. \A a, b \in Procs : tokens[<<a, b>>] = 0
    BY <1>1
  <2>2. \A r \in Procs : \A d \in Batches : Begun(r, d, t) = 0 /\ t[h[r].n].turns[d] = 0
    BY <1>2, <1>3, <1>5, <1>6 DEF Begun, Done, Transferring
  <2>3. Turns(t)
    BY <2>1, <2>2 DEF Turns
  <2>4. \A r \in Procs : ReadIsRight(r)
    BY <1>2, <1>3 DEF ReadIsRight, Got
  <2> QED
    BY <2>3, <2>4
<1>13. AskedFor(zero, t) /\ Authored(zero, t)
  <2>1. AskedAt(First, 0)
    <3>1. 1 .. 0 = {}
      OBVIOUS
    <3> QED
      BY <1>6, <3>1 DEF AskedAt
  <2>2. AskedFor(zero, t)
    BY <1>5, <2>1 DEF AskedFor
  <2>3. DOMAIN file = {}
    BY <1>1
  <2>4. Authored(zero, t)
    BY <2>3 DEF Authored
  <2> QED
    BY <2>2, <2>4
<1>14. Good(zero, t)
  BY <1>8, <1>9, <1>10, <1>11, <1>12, <1>13 DEF Good
<1> QED
  BY <1>14 DEF IInv

\* Nothing that stays as it is stops being good.
LEMMA StutterKeeps ==
    ASSUME NEW m, NEW t, Good(m, t), UNCHANGED vars
    PROVE  Good(m, t)'
<1>1. program' = program /\ h' = h /\ file' = file /\ steps' = steps /\ tokens' = tokens /\ faults' = faults
  BY DEF vars
<1>2. PICK r \in Procs : TRUE
  BY ProcsAre
<1>3. /\ h \in [Procs -> Slots] /\ SlotTypes(h[r]) /\ Shape /\ Closed
      /\ AtCall(r) /\ Matches(r, m, t) /\ Bounds(r) /\ Owns(r, t) /\ Divided(r)
      /\ ReadsWhatIsClosed => ReadIsRight(r)
      /\ \A q \in Procs : Done(q) \in Nat /\ h[q].n <= Done(q) /\ Done(q) <= m
      /\ m \in Nat
  BY <1>2, GoodHas
<1>4. h[r] = [x \in SlotFields |-> h[r][x]]
  <2>1. h[r] \in Slots
    BY <1>2, <1>3
  <2> QED
    BY <2>1 DEF Slots, SlotFields
<1>5. Moves(r)
  BY <1>1, <1>3, <1>4 DEF Moves
<1>6. \A q \in Procs : Done(q)' = Done(q)
  BY <1>1 DEF Done
<1>7. SameSizes
  BY <1>1 DEF SameSizes
<1>8. AtCall(r)' /\ Matches(r, m, t)' /\ Bounds(r)' /\ Owns(r, t)'
  BY <1>1, <1>2, <1>3, OtherStays
<1>9. Divided(r)'
  <2>1. \A q \in Procs : Done(q)' \in Nat /\ Done(q) <= Done(q)'
    BY <1>3, <1>6
  <2> QED
    BY <1>1, <1>2, <1>7, <2>1, DividedStays
<1>10. Closed'
  BY <1>1, <1>3 DEF Closed
<1>11. ASSUME ReadsWhatIsClosed PROVE Turns(t)' /\ ReadIsRight(r)'
  <2>1. \A d \in Batches : Begun(r, d, t)' = Begun(r, d, t)
    BY <1>1, <1>6 DEF Begun
  <2>2. h'[r].n \in Nat /\ h[r].n <= h'[r].n /\ h'[r].n <= m
    BY <1>1, <1>2, <1>3 DEF SlotTypes
  <2>3. Turns(t)'
    BY <1>1, <1>2, <1>5, <1>11, <2>1, <2>2, TurnsStay
  <2>4. ReadIsRight(r)'
    BY <1>1, <1>3, <1>11 DEF ReadIsRight, Got, ReadName, Op, Call, Calls, InView
  <2> QED
    BY <2>3, <2>4
<1>12. ShapeThen /\ faults' <= faults
  BY <1>1, <1>3, NprocsAssumption DEF Shape, ShapeThen
<1>13. Done(r) <= Done(r)' /\ Done(r)' \in Nat /\ SlotTypes(h'[r]) /\ (h[r].f.read => h'[r].f.read)
  BY <1>1, <1>2, <1>3, <1>6
<1>14. \A k \in 0 .. m - 1 : Behind(r, k)' <=> Behind(r, k)
  BY <1>1 DEF Behind
<1>15. \A k \in 0 .. m - 1 : ~(Done(r) <= k /\ k < Done(r)')
  BY <1>2, <1>3, <1>6
<1> QED
  BY <1>1, <1>2, <1>5, <1>8, <1>9, <1>10, <1>11, <1>12, <1>13, <1>14, <1>15, Quiet

\* Every step of a processor keeps what its calls made of its handle.
LEMMA GoodStays == ASSUME IInv, [Next]_vars PROVE IInv'
<1>1. PICK m, t : Good(m, t)
  BY DEF IInv
<1>2. CASE UNCHANGED vars
  BY <1>1, <1>2, StutterKeeps DEF IInv
<1>3. CASE Next
  <2>1. PICK r \in Procs : ProcStep(r)
    BY <1>3 DEF Next
  <2>2. Done(r) = h[r].n \/ h[r].pc \in Transferring
    BY DEF Done
  <2>3. CASE h[r].pc \notin Transferring /\ h[r].n < Len(Calls)
    <3>1. Done(r) < Len(Calls)
      BY <2>2, <2>3
    <3>2. PICK n, u : Good(n, u) /\ Done(r) < n
      BY <1>1, <3>1, Extend
    <3>3. \/ H5PartSetView(r) \/ H5PartResetView(r) \/ H5PartSetStep(r) \/ H5PartSetThrottle(r)
          \/ SetNumParticles(r) \/ NumParticlesGathered(r) \/ BeginWrite(r) \/ BeginRead(r)
          \/ H5PartCloseFile(r) \/ H5PartOpenFileParallel(r)
      BY <2>1, <2>3 DEF ProcStep, _H5Part_start_throttle, WriteXfer, ReadXfer, _H5Part_end_throttle, Transferring
    <3>4. Good(n, u)'
      BY <3>2, <3>3, ViewKeeps, ResetKeeps, StepKeeps, ThrottleKeeps, AskingKeeps, GatheringKeeps,
         WriteBegins, ReadBegins, ClosingKeeps, OpeningKeeps
    <3> QED
      BY <3>4 DEF IInv
  <2>4. CASE ~(h[r].pc \notin Transferring /\ h[r].n < Len(Calls))
    <3>1. _H5Part_start_throttle(r) \/ WriteXfer(r) \/ ReadXfer(r) \/ _H5Part_end_throttle(r)
      <4>1. AtCall(r)
        BY <1>1, GoodHas
      <4>2. ~H5PartSetView(r) /\ ~H5PartResetView(r) /\ ~H5PartSetStep(r) /\ ~H5PartSetThrottle(r)
            /\ ~SetNumParticles(r) /\ ~BeginWrite(r) /\ ~BeginRead(r) /\ ~H5PartCloseFile(r)
        BY <2>4 DEF H5PartSetView, H5PartResetView, H5PartSetStep, H5PartSetThrottle, SetNumParticles,
                    BeginWrite, BeginRead, H5PartCloseFile, Ready, Has, Calls, Transferring
      <4>3. ~NumParticlesGathered(r) /\ ~H5PartOpenFileParallel(r)
        BY <2>4, <4>1 DEF NumParticlesGathered, H5PartOpenFileParallel, AtCall, Transferring
      <4> QED
        BY <2>1, <4>2, <4>3 DEF ProcStep
    <3>2. Good(m, t)'
      BY <1>1, <3>1, WaitingKeeps, WritingKeeps, ReadingKeeps, PassingKeeps
    <3> QED
      BY <3>2 DEF IInv
  <2> QED
    BY <2>3, <2>4
<1> QED
  BY <1>2, <1>3

\* The invariant: whatever pace the processors go at, each handle, view, token and
\* data set is what the calls made so far say it is.
THEOREM HandlesFollowTheCalls == Spec => []IInv
<1>1. Init => IInv
  BY GoodAtFirst
<1>2. IInv /\ [Next]_vars => IInv'
  BY GoodStays
<1> QED
  BY <1>1, <1>2, PTL DEF Spec

-----------------------------------------------------------------------------
(* The properties                                                           *)

\* What a processor that has set its counts selects.
LEMMA OwnSelected ==
    ASSUME NEW c \in [Procs -> Nat], NEW r \in Procs, h[r].f.disk = OwnSpace(c, r)
    PROVE  \A k : k \in Selected(r) <=> \E i \in 1 .. c[r] : k = Start(c, r) + i - 1
<1>1. /\ DOMAIN h[r].f.disk.sel = 1 .. c[r]
      /\ \A i \in 1 .. c[r] : h[r].f.disk.sel[i] = Start(c, r) + i - 1
  BY OwnSelection
<1> QED
  BY <1>1 DEF Selected

\* After the counts: disjoint ranges that leave nothing out.
LEMMA CountsPartition ==
    ASSUME NEW m, NEW t, Good(m, t), Together("num")
    PROVE  Disjoint /\ UNION {Selected(r) : r \in Procs} = 0 .. h[0].f.shape - 1
<1> DEFINE n == h[0].n
           c == t[n].counts
<1>1. /\ 0 \in Procs /\ \A r \in Procs : h[r].pc = "idle" /\ h[r].n = n
      /\ n > 0 /\ Op(n) = "num"
  BY ProcsAre DEF Together, Op, Calls
<1>2. \A r \in Procs : Done(r) = n
  BY <1>1 DEF Done, Transferring
<1>3. /\ Course(m, t) /\ program \in Programs /\ n \in Nat /\ n <= m /\ m \in Nat
      /\ \A r \in Procs : Owns(r, t)
  BY <1>1, <1>2, GoodHas
<1>4. n - 1 \in 0 .. m - 1 /\ (n - 1) + 1 = n /\ n - 1 \in 0 .. m
  BY <1>1, <1>3
<1>5. c = Calls[n].arg /\ c \in [Procs -> Nat] /\ c # Unset
  <2>1. t[n - 1] \in Common /\ CallTyped(Calls[n]) /\ Calls[n].op = "num" /\ t[n] = Then(t[n - 1], Calls[n])
    BY <1>1, <1>3, <1>4, CourseHas
  <2> QED
    BY <2>1, ThenNum
<1> HIDE DEF c
<1>6. \A r \in Procs : h[r].f.disk = OwnSpace(c, r) /\ h[r].f.shape = SumOver(c, Procs)
  BY <1>1, <1>2, <1>3, <1>5 DEF Owns, c
<1>7. \A r \in Procs : /\ \A k : k \in Selected(r) <=> \E i \in 1 .. c[r] : k = Start(c, r) + i - 1
                       /\ Start(c, r) \in Nat /\ Start(c, r) + c[r] <= SumOver(c, Procs) /\ c[r] \in Nat
                       /\ \A q \in Procs : r < q => Start(c, r) + c[r] <= Start(c, q)
  BY <1>5, <1>6, OwnSelected, StartIs
<1>8. SumOver(c, Procs) \in Nat
  BY <1>5, TotalIs
<1>9. Disjoint
  <2> SUFFICES ASSUME NEW r \in Procs, NEW q \in Procs, r # q, NEW k, k \in Selected(r), k \in Selected(q)
               PROVE  FALSE
    BY DEF Disjoint
  <2>1. PICK i \in 1 .. c[r] : k = Start(c, r) + i - 1
    BY <1>7
  <2>2. PICK j \in 1 .. c[q] : k = Start(c, q) + j - 1
    BY <1>7
  <2>3. Start(c, r) + c[r] <= Start(c, q) \/ Start(c, q) + c[q] <= Start(c, r)
    <3>1. r < q \/ q < r
      BY ProcsAre
    <3> QED
      BY <1>7, <3>1
  <2>4. Start(c, r) \in Nat /\ Start(c, q) \in Nat /\ c[r] \in Nat /\ c[q] \in Nat
    BY <1>7
  <2> QED
    BY <2>1, <2>2, <2>3, <2>4
<1>10. ASSUME NEW k \in 0 .. SumOver(c, Procs) - 1 PROVE \E r \in Procs : k \in Selected(r)
  <2>1. PICK r \in Procs, j \in Nat : j < c[r] /\ k = Start(c, r) + j
    BY <1>5, <1>10, StartsCover
  <2>2. j + 1 \in 1 .. c[r] /\ k = Start(c, r) + (j + 1) - 1
    BY <1>7, <2>1
  <2> QED
    BY <1>7, <2>2
<1>11. ASSUME NEW r \in Procs, NEW k \in Selected(r) PROVE k \in 0 .. SumOver(c, Procs) - 1
  <2>1. PICK i \in 1 .. c[r] : k = Start(c, r) + i - 1
    BY <1>7
  <2>2. Start(c, r) \in Nat /\ Start(c, r) + c[r] <= SumOver(c, Procs) /\ c[r] \in Nat
    BY <1>7
  <2> QED
    BY <1>8, <2>1, <2>2
<1>12. UNION {Selected(r) : r \in Procs} = 0 .. SumOver(c, Procs) - 1
  BY <1>10, <1>11
<1> QED
  BY <1>1, <1>6, <1>9, <1>12

\* After canonical views: disjoint shares of one size.
LEMMA CanonicalDivides ==
    ASSUME NEW m, NEW t, Good(m, t), Together("canonical"), h[0].f.disk.total >= nprocs, HasData(h[0].f.step)
    PROVE  Disjoint /\ \A r \in Procs : Len(h[r].f.disk.sel) = h[0].f.disk.total \div nprocs
<1> DEFINE n == h[0].n
           s == h[0].f.step
           total == Share(s)
           share == total \div nprocs
<1>1. /\ 0 \in Procs /\ \A r \in Procs : h[r].pc = "idle" /\ h[r].n = n
      /\ n > 0 /\ Op(n) = "canonical"
  BY ProcsAre DEF Together, Op, Calls
<1>2. \A r \in Procs : Done(r) = n
  BY <1>1 DEF Done, Transferring
<1>3. /\ n \in Nat /\ n <= n /\ FileTyped
      /\ \A r \in Procs : Divided(r) /\ h[r].f.step = s
  <2>1. \A r \in Procs : Divided(r) /\ Matches(r, m, t) /\ FileTyped
    BY <1>1, GoodHas
  <2>2. \A r \in Procs : h[r].f.step = t[n].step
    BY <1>2, <2>1 DEF Matches
  <2>3. n \in Nat
    BY <1>1, GoodHas DEF SlotTypes
  <2> QED
    BY <1>1, <2>1, <2>2, <2>3
<1>4. \A r \in Procs : IF total >= nprocs
                       THEN h[r].f.disk = [total |-> total, sel |-> Shares(share, r)]
                       ELSE h[r].f.disk.total < nprocs
  <2> SUFFICES ASSUME NEW r \in Procs
               PROVE  IF total >= nprocs
                      THEN h[r].f.disk = [total |-> total, sel |-> Shares(share, r)]
                      ELSE h[r].f.disk.total < nprocs
    OBVIOUS
  <2>1. /\ h[r].pc = "idle" /\ h[r].n > 0 /\ Op(h[r].n) = "canonical" /\ h[r].f.step = s
        /\ HasData(h[r].f.step) /\ (\A q \in Procs : Done(q) <= h[r].n) /\ Divided(r)
    BY <1>1, <1>2, <1>3
  <2> QED
    BY <2>1 DEF Divided
<1>5. total \in Nat
  BY <1>3, ShareIs
<1> HIDE DEF total, share
<1>6. total >= nprocs
  <2>1. h[0].f.disk.total \in Int /\ nprocs \in Nat
    <3>1. h[0].f \in Handles
      BY <1>1, GoodHas DEF SlotTypes
    <3>2. h[0].f.disk \in [total : Int, sel : Seq(Nat)]
      BY <3>1, HandleHas DEF HandleTypes
    <3> QED
      BY <3>2, ProcsAre
  <2> SUFFICES ASSUME ~(total >= nprocs) PROVE FALSE
    OBVIOUS
  <2>2. h[0].f.disk.total < nprocs
    BY <1>1, <1>4, Zenon
  <2> QED
    BY <2>1, <2>2
<1>7. share \in Nat /\ share >= 1
  BY <1>1, <1>5, <1>6, ShareOut DEF share
<1>8. ASSUME NEW r \in Procs
      PROVE  /\ Len(h[r].f.disk.sel) = share /\ h[r].f.disk.total = total
             /\ \A k : k \in Selected(r) <=> \E i \in 0 .. share - 1 : k = r * share + i
  <2> DEFINE a == r * share
             sel == h[r].f.disk.sel
  <2>1. a \in Nat
    BY <1>5, ShareOut DEF share
  <2>2. sel = IndexRange(a, a + share - 1) /\ h[r].f.disk.total = total
    <3>1. h[r].f.disk = [total |-> total, sel |-> Shares(share, r)]
      BY <1>4, <1>6, Zenon
    <3>2. h[r].f.disk.sel = Shares(share, r) /\ h[r].f.disk.total = total
      BY <3>1
    <3> QED
      BY <3>2 DEF Shares
  <2> HIDE DEF a
  <2>3. /\ a \in Int /\ a + share - 1 \in Int /\ a + share - 1 >= a - 1 /\ (a + share - 1) - a + 1 = share
        /\ a >= 0
    BY <1>7, <2>1
  <2> DEFINE b == a + share - 1
  <2> HIDE DEF b
  <2>4. /\ DOMAIN IndexRange(a, b) = 1 .. share /\ Len(IndexRange(a, b)) = share
        /\ \A i \in 1 .. share : IndexRange(a, b)[i] = a + i - 1
    BY <2>3, IndexRangeIs DEF b
  <2>5. DOMAIN sel = 1 .. share /\ Len(sel) = share /\ \A i \in 1 .. share : sel[i] = a + i - 1
    BY <2>2, <2>4 DEF b
  <2> HIDE DEF sel
  <2>6. Selected(r) = {sel[i] : i \in DOMAIN sel}
    BY DEF Selected, sel
  <2>7. ASSUME NEW k PROVE k \in Selected(r) <=> \E i \in 0 .. share - 1 : k = a + i
    <3>1. ASSUME k \in Selected(r) PROVE \E i \in 0 .. share - 1 : k = a + i
      <4>1. PICK i \in 1 .. share : k = a + i - 1
        BY <2>5, <2>6, <3>1
      <4>2. i - 1 \in 0 .. share - 1 /\ k = a + (i - 1)
        BY <1>7, <2>1, <4>1
      <4> QED
        BY <4>2
    <3>2. ASSUME NEW i \in 0 .. share - 1, k = a + i PROVE k \in Selected(r)
      <4>1. i + 1 \in 1 .. share /\ k = a + (i + 1) - 1
        BY <1>7, <2>1, <3>2
      <4> QED
        BY <2>5, <2>6, <4>1
    <3> QED
      BY <3>1, <3>2
  <2> QED
    BY <2>2, <2>5, <2>7 DEF a, sel
<1>9. Disjoint
  <2> SUFFICES ASSUME NEW r \in Procs, NEW q \in Procs, r # q, NEW k, k \in Selected(r), k \in Selected(q)
               PROVE  FALSE
    BY DEF Disjoint
  <2>1. PICK i \in 0 .. share - 1 : k = r * share + i
    BY <1>8
  <2>2. PICK j \in 0 .. share - 1 : k = q * share + j
    BY <1>8
  <2>3. r \in Nat /\ q \in Nat /\ share \in Nat \ {0}
    BY <1>7, ProcsAre
  <2> QED
    BY <2>1, <2>2, <2>3, RowColumn
<1>10. \A r \in Procs : Len(h[r].f.disk.sel) = h[0].f.disk.total \div nprocs
  BY <1>1, <1>8 DEF share
<1> QED
  BY <1>9, <1>10

\* The counts divide the data set, and so do canonical views: what one processor selects
\* no other does (_H5PartSetNumParticles, H5PartSetCanonicalView).
THEOREM ViewsArePartitions == Spec => []ViewsPartition
<1>1. IInv => ViewsPartition
  <2> SUFFICES ASSUME NEW m, NEW t, Good(m, t) PROVE ViewsPartition
    BY DEF IInv
  <2>1. \A r \in Procs : h[r].f.disk # ALL => Len(h[r].f.disk.sel) = h[r].f.nparticles
    BY GoodHas DEF Bounds, InStep
  <2> QED
    BY <2>1, CountsPartition, CanonicalDivides DEF ViewsPartition
<1> QED
  BY <1>1, HandlesFollowTheCalls, PTL

\* Whoever has read, and got no error, got what its view says (_read_data).
THEOREM ReadsAreOfTheView == Spec => [](ReadsWhatIsClosed => ReadsTheView)
<1>1. IInv => (ReadsWhatIsClosed => ReadsTheView)
  <2> SUFFICES ASSUME NEW m, NEW t, Good(m, t), ReadsWhatIsClosed PROVE ReadsTheView
    BY DEF IInv
  <2>1. \A r \in Procs : ReadIsRight(r)
    BY GoodHas
  <2> QED
    BY <2>1 DEF ReadsTheView, ReadIsRight, Got, ReadName, Op, Calls, InView
<1> QED
  BY <1>1, HandlesFollowTheCalls, PTL

\* The counts the calls set add up to the data set they write.
LEMMA CountsMakeShape ==
    ASSUME NEW m, NEW t, Course(m, t), program \in Programs, NEW k \in 0 .. m, t[k].counts # Unset
    PROVE  t[k].shape = SumOver(t[k].counts, Procs)
<1> DEFINE Bad(j) == t[j].counts # Unset /\ t[j].shape # SumOver(t[j].counts, Procs)
           T == {j \in 0 .. m : Bad(j)}
<1>1. /\ m \in Nat /\ t[0] = First /\ \A j \in 0 .. m : t[j] \in Common
      /\ \A j \in 0 .. m - 1 : /\ CallTyped(Calls[j + 1]) /\ t[j + 1] = Then(t[j], Calls[j + 1])
  BY CourseHas DEF Course
<1>2. ASSUME NEW j \in 0 .. m, Bad(j), \A i \in T : j <= i PROVE FALSE
  <2>1. j # 0
    BY <1>1, <1>2 DEF First
  <2> DEFINE i == j - 1
             x == t[i]
             c == Calls[i + 1]
  <2>2. i \in 0 .. m - 1 /\ i \in 0 .. m /\ i < j /\ j = i + 1
    BY <1>1, <2>1
  <2>3. ~Bad(i)
    <3>1. i \notin T
      BY <1>2, <2>2
    <3> QED
      BY <2>2, <3>1
  <2>4. x \in Common /\ CallTyped(c) /\ t[j] = Then(x, c)
    BY <1>1, <2>2
  <2> HIDE DEF i, x, c
  <2>5. c.op \in Ops
    BY <2>4 DEF CallTyped
  <2>6. x.counts # Unset => x.shape = SumOver(x.counts, Procs)
    BY <2>3 DEF x
  <2>7. t[j].counts = Unset \/ t[j].shape = SumOver(t[j].counts, Procs)
    <3>1. CASE c.op \in {"write", "read"}
      BY <2>4, <2>6, <3>1, ThenWrite, ThenRead
    <3>2. CASE c.op \in {"reset", "throttle", "reopen"}
      <4>1. c.op = "reset" => t[j].shape = x.shape /\ (t[j].counts = Unset \/ t[j].counts = x.counts)
        BY <2>4, ThenReset
      <4>2. c.op = "throttle" => t[j].shape = x.shape /\ t[j].counts = x.counts
        BY <2>4, ThenThrottle
      <4>3. c.op = "reopen" => t[j].counts = Unset
        BY <2>4, ThenReopen
      <4> QED
        BY <2>6, <3>2, <4>1, <4>2, <4>3
    <3>3. CASE c.op = "num"
      BY <2>4, <3>3, ThenNum
    <3>4. CASE c.op \in Viewing \cup {"step"}
      BY <2>4, <2>6, <3>4, ThenIs
    <3> QED
      BY <2>5, <3>1, <3>2, <3>3, <3>4 DEF Ops, Viewing
  <2> QED
    BY <1>2, <2>7
<1>3. T = {}
  <2> SUFFICES ASSUME T # {} PROVE FALSE
    OBVIOUS
  <2>1. T \in SUBSET Nat
    BY <1>1
  <2> HIDE DEF T
  <2>2. PICK j \in T : \A i \in T : j <= i
    BY <2>1, Least
  <2>3. j \in 0 .. m /\ Bad(j)
    BY DEF T
  <2> HIDE DEF Bad
  <2> QED
    BY <1>2, <2>2, <2>3
<1> QED
  BY <1>3

\* A data set whose parts all lie in place is the particles of the processors, in order.
LEMMA PartsInOrder ==
    ASSUME NEW key, NEW c \in [Procs -> Nat], NEW n \in Nat, n = SumOver(c, Procs), \A r \in Procs : InPlace(key, c, r)
    PROVE  LET d == file[key]
           IN  /\ n > 0 => d[1][3] = 1
               /\ \A i \in 1 .. n : d[i][1] = key
               /\ \A i \in 1 .. n - 1 : Follows(d[i], d[i + 1])
<1> DEFINE d == file[key]
<1>1. ASSUME NEW i \in 1 .. n
      PROVE  \E r \in Procs, j \in Nat : j < c[r] /\ i - 1 = Start(c, r) + j /\ d[i] = Cell(key, r, j + 1)
  <2>1. i - 1 \in 0 .. SumOver(c, Procs) - 1
    OBVIOUS
  <2>2. PICK r \in Procs, j \in Nat : j < c[r] /\ i - 1 = Start(c, r) + j
    BY <2>1, StartsCover
  <2>3. j + 1 \in 1 .. c[r] /\ Start(c, r) + (j + 1) = i
    BY <2>2, StartIs
  <2>4. d[i] = Cell(key, r, j + 1)
    BY <2>3 DEF InPlace
  <2> QED
    BY <2>2, <2>4
<1>2. \A r, q \in Procs : r < q => Start(c, r) + c[r] <= Start(c, q)
  BY StartIs
<1>3. \A r \in Procs : Start(c, r) \in Nat /\ c[r] \in Nat /\ r \in Nat
  BY StartIs, ProcsAre
<1> HIDE DEF d
<1>4. ASSUME n > 0 PROVE d[1][3] = 1
  <2>1. PICK r \in Procs, j \in Nat : 1 - 1 = Start(c, r) + j /\ d[1] = Cell(key, r, j + 1)
    BY <1>1, <1>4
  <2>2. j = 0
    BY <1>3, <2>1
  <2> QED
    BY <2>1, <2>2 DEF Cell
<1>5. \A i \in 1 .. n : d[i][1] = key
  BY <1>1 DEF Cell
<1>6. ASSUME NEW i \in 1 .. n - 1 PROVE Follows(d[i], d[i + 1])
  <2>1. i \in 1 .. n /\ i + 1 \in 1 .. n /\ (i + 1) - 1 = i
    OBVIOUS
  <2>2. PICK r \in Procs, j \in Nat : j < c[r] /\ i - 1 = Start(c, r) + j /\ d[i] = Cell(key, r, j + 1)
    BY <1>1, <2>1
  <2>3. PICK q \in Procs, l \in Nat : l < c[q] /\ i = Start(c, q) + l /\ d[i + 1] = Cell(key, q, l + 1)
    BY <1>1, <2>1
  <2>4. /\ d[i][2] = r /\ d[i][3] = j + 1 /\ d[i + 1][2] = q /\ d[i + 1][3] = l + 1
    BY <2>2, <2>3 DEF Cell
  <2>5. r \in Nat /\ q \in Nat /\ Start(c, r) \in Nat /\ Start(c, q) \in Nat /\ c[r] \in Nat /\ c[q] \in Nat
    BY <1>3
  <2>6. CASE q = r
    <3>1. l = j + 1
      BY <2>2, <2>3, <2>5, <2>6
    <3> QED
      BY <2>4, <2>6, <3>1 DEF Follows
  <2>7. CASE r < q
    <3>1. Start(c, r) + c[r] <= Start(c, q)
      BY <1>2, <2>7
    <3>2. l = 0
      BY <2>1, <2>2, <2>3, <2>5, <3>1
    <3> QED
      BY <2>4, <2>5, <2>7, <3>2 DEF Follows
  <2>8. CASE q < r
    <3>1. Start(c, q) + c[q] <= Start(c, r)
      BY <1>2, <2>8
    <3> QED
      BY <2>1, <2>2, <2>3, <2>5, <3>1
  <2> QED
    BY <2>5, <2>6, <2>7, <2>8
<1> QED
  BY <1>4, <1>5, <1>6 DEF d

\* Who reads is past every write.
LEMMA ReadersAreBehind ==
    ASSUME NEW m, NEW t, Good(m, t), NEW r \in Procs, h[r].f.read, NEW k \in 0 .. m - 1, Writes(t[k])
    PROVE  Behind(r, k)
<1>1. /\ Matches(r, m, t) /\ SlotTypes(h[r]) /\ Done(r) \in Nat /\ Done(r) <= m /\ m \in Nat /\ Onward(m, t)
  BY GoodHas
<1>2. Done(r) \in 0 .. m /\ k \in 0 .. m /\ t[Done(r)].read /\ ~t[k].read
  BY <1>1 DEF Matches, Writes
<1>3. ~(Done(r) <= k)
  BY <1>1, <1>2 DEF Onward
<1>4. h[r].n \in Nat
  BY <1>1 DEF SlotTypes
<1>5. CASE h[r].pc \notin Transferring
  BY <1>1, <1>3, <1>4, <1>5 DEF Done, Behind
<1>6. CASE h[r].pc \in Transferring
  <2>1. Done(r) = h[r].n + 1 /\ t[h[r].n + 1].read = t[h[r].n].read
    BY <1>6, InTransfer
  <2>2. h[r].n # k
    BY <1>2, <2>1
  <2> QED
    BY <1>1, <1>3, <1>4, <2>1, <2>2 DEF Behind
<1> QED
  BY <1>5, <1>6

\* The data sets of a program that sets its counts last before it writes, and writes none of
\* them twice, are complete once the file was closed (_write_data under the ranges of
\* _H5PartSetNumParticles).
THEOREM WrittenSetsAreComplete == Spec => [](WritesOnce => DatasetsComplete)
<1>1. IInv => (WritesOnce => DatasetsComplete)
  <2> SUFFICES ASSUME NEW m, NEW t, Good(m, t), WritesOnce, \A r \in Procs : h[r].f.read,
                      NEW key \in DOMAIN file, faults = MaxFaults, file[key] # <<>>
               PROVE  LET d == file[key]
                      IN  /\ d[1][3] = 1 /\ \A i \in DOMAIN d : d[i][1] = key
                          /\ \A i \in 1 .. Len(d) - 1 : Follows(d[i], d[i + 1])
    BY DEF IInv, DatasetsComplete
  <2>1. PICK k \in 0 .. m - 1 :
           /\ Op(k + 1) = "write" /\ Writes(t[k]) /\ Len(file[key]) = t[k].shape
           /\ \A r \in Procs : Behind(r, k) => InPlace(key, t[k].counts, r)
    BY GoodHas DEF Authored
  <2> DEFINE c == t[k].counts
             n == t[k].shape
  <2>2. Course(m, t) /\ program \in Programs /\ m \in Nat /\ k \in 0 .. m /\ FileTyped
    BY GoodHas
  <2>3. c # Unset /\ t[k] \in Common
    BY <2>1, <2>2, CountsWereSet, CourseHas
  <2>4. c \in [Procs -> Nat] /\ n = SumOver(c, Procs) /\ n \in Nat
    <3>1. c \in [Procs -> Nat]
      BY <2>3, CommonHas DEF CommonTypes
    <3>2. n = SumOver(c, Procs)
      BY <2>2, <2>3, CountsMakeShape
    <3> QED
      BY <3>1, <3>2, TotalIs
  <2>5. \A r \in Procs : InPlace(key, c, r)
    BY <2>1, ReadersAreBehind
  <2>6. file[key] \in Seq(Cells) /\ DOMAIN file[key] = 1 .. n /\ n = Len(file[key]) /\ n > 0
    <3>1. file[key] \in Seq(Cells)
      BY <2>2 DEF FileTyped
    <3>2. file[key] # << >> => Len(file[key]) > 0
      BY <3>1, EmptySeq
    <3> QED
      BY <2>1, <3>1, <3>2, LenProperties
  <2> HIDE DEF c, n
  <2> QED
    <3> DEFINE d == file[key]
    <3>1. /\ n > 0 => d[1][3] = 1
          /\ \A i \in 1 .. n : d[i][1] = key
          /\ \A i \in 1 .. n - 1 : Follows(d[i], d[i + 1])
      BY <2>4, <2>5, PartsInOrder
    <3> HIDE DEF d
    <3>2. DOMAIN d = 1 .. n /\ n = Len(d) /\ n > 0
      BY <2>6 DEF d
    <3> QED
      BY <3>1, <3>2 DEF d
<1> QED
  BY <1>1, HandlesFollowTheCalls, PTL

\* Along the chain a, a + d, a + 2d, ... nobody has begun more transfers than a had before
\* the one it is in.
LEMMA TurnsDownTheChain ==
    ASSUME NEW m, NEW t, Good(m, t), Turns(t), NEW d \in Batches, NEW a \in Procs, NEW b \in Procs,
           NEW k \in Nat \ {0}, b = a + k * d
    PROVE  Begun(b, d, t) <= t[h[a].n].turns[d]
<1> DEFINE Late(c, j) == j \in Nat \ {0} /\ c = a + j * d /\ ~(Begun(c, d, t) <= t[h[a].n].turns[d])
           T == {c \in Procs : \E j \in Nat : Late(c, j)}
<1>1. \A q \in Procs : /\ t[h[q].n].turns[d] \in Nat /\ Begun(q, d, t) \in Nat
                       /\ t[h[q].n].turns[d] <= Begun(q, d, t)
  <2> SUFFICES ASSUME NEW q \in Procs
               PROVE  /\ t[h[q].n].turns[d] \in Nat /\ Begun(q, d, t) \in Nat
                      /\ t[h[q].n].turns[d] <= Begun(q, d, t)
    OBVIOUS
  <2>1. /\ t[Done(q)] \in Common /\ t[h[q].n] \in Common /\ h[q].n <= Done(q) /\ Done(q) <= m /\ Done(q) \in Nat
        /\ SlotTypes(h[q]) /\ m \in Nat /\ Onward(m, t)
    BY GoodHas
  <2>2. h[q].n \in 0 .. m /\ Done(q) \in 0 .. m
    BY <2>1 DEF SlotTypes
  <2>3. t[h[q].n].turns[d] <= t[Done(q)].turns[d]
    BY <2>1, <2>2 DEF Onward
  <2>4. t[h[q].n].turns \in [Batches -> Nat] /\ t[Done(q)].turns \in [Batches -> Nat]
    BY <2>1, CommonHas DEF CommonTypes
  <2>5. t[h[q].n].turns[d] \in Nat /\ t[Done(q)].turns[d] \in Nat
    BY <2>4
  <2> QED
    BY <2>3, <2>5 DEF Begun
<1>2. nprocs \in Nat /\ (\A q : q \in Procs <=> q \in Int /\ 0 <= q /\ q < nprocs) /\ d \in Nat /\ d > 0
  <2>1. nprocs \in Nat
    BY ProcsAre
  <2> QED
    BY <2>1 DEF Procs, Batches
<1>3. \A p \in Procs, q \in Procs : tokens[<<p, q>>] \in Nat
  BY GoodHas DEF Shape
<1>4. \A p \in Procs, q \in Procs : q = p + d => Begun(q, d, t) <= t[h[p].n].turns[d]
  <2> SUFFICES ASSUME NEW p \in Procs, NEW q \in Procs, q = p + d
               PROVE  Begun(q, d, t) <= t[h[p].n].turns[d]
    OBVIOUS
  <2>1. Begun(q, d, t) + tokens[<<p, q>>] <= t[h[p].n].turns[d]
    BY DEF Turns
  <2>2. Begun(q, d, t) \in Nat /\ tokens[<<p, q>>] \in Nat /\ t[h[p].n].turns[d] \in Nat
    BY <1>1, <1>3
  <2> QED
    BY <2>1, <2>2
<1>5. ASSUME NEW c \in Procs, NEW j \in Nat, Late(c, j), \A i \in T : c <= i PROVE FALSE
  <2>1. j # 1
    <3> SUFFICES ASSUME j = 1 PROVE FALSE
      OBVIOUS
    <3>1. c = a + d
      BY <1>2, <1>5
    <3> QED
      BY <1>4, <1>5, <3>1
  <2> DEFINE p == c - d
             i == j - 1
  <2>2. i \in Nat \ {0} /\ p = a + i * d
    <3>1. i \in Nat \ {0} /\ j = i + 1
      BY <1>5, <2>1
    <3>2. (i + 1) * d = i * d + d /\ i * d \in Nat
      BY <1>2, <3>1
    <3>3. c = a + (i * d + d)
      BY <1>5, <3>1, <3>2
    <3>4. a \in Nat
      BY ProcsAre
    <3> QED
      BY <1>2, <3>1, <3>2, <3>3, <3>4
  <2>3. p \in Procs /\ p < c /\ c = p + d
    <3>1. i * d \in Nat
      BY <1>2, <2>2
    <3>2. a \in Nat /\ c \in Nat /\ c < nprocs
      BY ProcsAre
    <3> HIDE DEF i
    <3>3. p \in Int /\ 0 <= p
      BY <1>2, <2>2, <3>1, <3>2
    <3> QED
      BY <1>2, <3>2, <3>3
  <2>4. p \notin T
    <3>1. p \in Int /\ c \in Int
      BY <1>2, <2>3
    <3> QED
      BY <1>5, <2>3, <3>1
  <2> HIDE DEF p, i
  <2>5. Begun(p, d, t) <= t[h[a].n].turns[d]
    BY <2>2, <2>3, <2>4
  <2>6. Begun(c, d, t) <= t[h[p].n].turns[d]
    BY <1>4, <2>3
  <2>7. /\ t[h[p].n].turns[d] <= Begun(p, d, t) /\ t[h[p].n].turns[d] \in Nat /\ Begun(p, d, t) \in Nat
        /\ t[h[a].n].turns[d] \in Nat /\ Begun(c, d, t) \in Nat
    BY <1>1, <2>3
  <2>8. Begun(c, d, t) <= t[h[a].n].turns[d]
    BY <2>5, <2>6, <2>7
  <2> QED
    BY <1>5, <2>8
<1>6. T = {}
  <2> SUFFICES ASSUME T # {} PROVE FALSE
    OBVIOUS
  <2>1. T \in SUBSET Nat
    BY ProcsAre
  <2> HIDE DEF T
  <2>2. PICK c \in T : \A i \in T : c <= i
    BY <2>1, Least
  <2> HIDE DEF Late
  <2>3. c \in Procs /\ \E j \in Nat : Late(c, j)
    BY DEF T
  <2> QED
    BY <1>5, <2>2, <2>3
<1> QED
  BY <1>6

\* Two processors inside the same transfer belong to different chains.
LEMMA NotInOneChain ==
    ASSUME NEW m, NEW t, Good(m, t), ReadsWhatIsClosed, NEW r \in Procs, NEW q \in Procs, r < q,
           h[r].pc = "xfer", h[q].pc = "xfer", h[r].n = h[q].n, h[r].f.throttle \in Batches
    PROVE  r % h[r].f.throttle # q % h[r].f.throttle
<1> DEFINE d == h[r].f.throttle
           n == h[r].n
           x == t[n]
           y == t[n + 1]
<1>1. Done(r) = n + 1 /\ Done(q) = n + 1 /\ h[q].f.throttle = d /\ n \in Nat
  <2>1. h[r].pc \in Transferring /\ h[q].pc \in Transferring
    BY DEF Transferring
  <2> QED
    BY <2>1, InTransfer
<1>2. y.turns[d] = x.turns[d] + 1 /\ x.turns[d] \in Nat /\ Turns(t)
  <2>1. h[q].pc \in Transferring /\ d \in Batches
    BY DEF Transferring
  <2>2. /\ t[h[q].n].turns[d] \in Nat
        /\ d = h[q].f.throttle => t[h[q].n + 1].turns[d] = t[h[q].n].turns[d] + 1
    <3> HIDE DEF d
    <3> QED
      BY <2>1, TurnTaken
  <2>3. d = h[q].f.throttle
    BY <1>1
  <2>4. Turns(t)
    BY GoodHas
  <2> HIDE DEF d
  <2> QED
    BY <2>2, <2>3, <2>4
<1>3. Begun(q, d, t) = y.turns[d]
  BY <1>1 DEF Begun
<1> SUFFICES ASSUME r % d = q % d PROVE FALSE
  OBVIOUS
<1>4. d \in Nat \ {0} /\ r \in Nat /\ q \in Nat /\ d \in Batches
  BY ProcsAre DEF Batches
<1> HIDE DEF d
<1> DEFINE i == r \div d
           j == q \div d
           k == j - i
<1>5. i \in Nat /\ j \in Nat /\ r = i * d + (r % d) /\ q = j * d + (q % d) /\ r % d \in Nat
  <2>1. i \in Nat /\ r % d \in 0 .. d - 1 /\ r = i * d + (r % d)
    BY <1>4, QuotientIs
  <2>2. j \in Nat /\ q = j * d + (q % d)
    BY <1>4, QuotientIs
  <2>3. r % d \in Nat
    BY <1>4, <2>1
  <2> QED
    BY <2>1, <2>2, <2>3
<1> HIDE DEF i, j
<1>6. j > i
  <2> SUFFICES ASSUME j <= i PROVE FALSE
    BY <1>5
  <2>1. j * d <= i * d /\ j * d \in Nat /\ i * d \in Nat
    BY <1>4, <1>5, Monotone
  <2> QED
    BY <1>4, <1>5, <2>1
<1>7. k \in Nat \ {0} /\ q = r + k * d
  <2>1. k \in Nat \ {0} /\ j = i + k
    BY <1>5, <1>6
  <2> HIDE DEF k
  <2>2. (i + k) * d = i * d + k * d /\ i * d \in Nat /\ k * d \in Nat
    BY <1>4, <1>5, <2>1
  <2>3. q = (i * d + k * d) + (r % d)
    BY <1>5, <2>1, <2>2
  <2> DEFINE a == i * d
             b == k * d
             rest == r % d
  <2>4. a \in Nat /\ b \in Nat /\ rest \in Nat /\ r = a + rest /\ q = (a + b) + rest
    BY <1>5, <2>2, <2>3
  <2> HIDE DEF a, b, rest
  <2>5. q = r + b
    BY <2>4
  <2> QED
    BY <2>1, <2>5 DEF b
<1> HIDE DEF k
<1>8. Begun(q, d, t) <= x.turns[d]
  BY <1>2, <1>4, <1>7, TurnsDownTheChain
<1> QED
  BY <1>2, <1>3, <1>8

\* No more processors than the throttle allows are inside the transfer of one call, where
\* only closed files are read (_H5Part_start_throttle, _H5Part_end_throttle).
THEOREM TransfersAreThrottled == Spec => [](ReadsWhatIsClosed => ThrottleHolds)
<1>1. IInv => (ReadsWhatIsClosed => ThrottleHolds)
  <2> SUFFICES ASSUME NEW m, NEW t, Good(m, t), ReadsWhatIsClosed, NEW r \in Procs,
                      h[r].pc = "xfer", h[r].f.throttle > 0
               PROVE  Cardinality({q \in Procs : h[q].pc = "xfer" /\ h[q].n = h[r].n}) <= h[r].f.throttle
    BY DEF IInv, ThrottleHolds
  <2> DEFINE d == h[r].f.throttle
             S == {q \in Procs : h[q].pc = "xfer" /\ h[q].n = h[r].n}
  <2>1. d \in Int /\ d > 0 /\ nprocs \in Nat
    <3>1. h[r].f \in Handles
      BY GoodHas DEF SlotTypes
    <3> QED
      BY <3>1, HandleHas, ProcsAre DEF HandleTypes
  <2>2. \A q \in S : q \in Procs /\ h[q].f.throttle = d
    <3> SUFFICES ASSUME NEW q \in S PROVE h[q].f.throttle = d
      OBVIOUS
    <3>1. h[r].pc \in Transferring /\ h[q].pc \in Transferring /\ h[q].n = h[r].n
      BY DEF Transferring
    <3> QED
      BY <3>1, InTransfer
  <2>3. Cardinality(0 .. d - 1) = d /\ IsFiniteSet(0 .. d - 1) /\ Cardinality(0 .. nprocs - 1) = nprocs
    <3>1. /\ IsFiniteSet(0 .. d - 1) /\ Cardinality(0 .. d - 1) = IF 0 > d - 1 THEN 0 ELSE (d - 1) - 0 + 1
          /\ Cardinality(0 .. nprocs - 1) = IF 0 > nprocs - 1 THEN 0 ELSE (nprocs - 1) - 0 + 1
      <4>1. 0 \in Int /\ d - 1 \in Int /\ nprocs - 1 \in Int
        BY <2>1
      <4> DEFINE zero == 0
                 a == d - 1
                 b == nprocs - 1
      <4> HIDE DEF zero, a, b
      <4>2. zero \in Int /\ a \in Int /\ b \in Int
        BY <4>1 DEF zero, a, b
      <4>3. /\ IsFiniteSet(zero .. a) /\ Cardinality(zero .. a) = IF zero > a THEN 0 ELSE a - zero + 1
            /\ Cardinality(zero .. b) = IF zero > b THEN 0 ELSE b - zero + 1
        BY <4>2, FS_Interval
      <4> QED
        BY <4>3 DEF zero, a, b
    <3>2. nprocs > 0
      BY ProcsAre
    <3> HIDE DEF d
    <3> QED
      BY <2>1, <3>1, <3>2
  <2>4. CASE d \in Batches
    <3> DEFINE f == [q \in S |-> q % d]
    <3>1. \A p, q \in S : p # q => p % d # q % d
      <4> SUFFICES ASSUME NEW p \in S, NEW q \in S, p # q PROVE p % d # q % d
        OBVIOUS
      <4>1. /\ p \in Procs /\ q \in Procs /\ h[p].pc = "xfer" /\ h[q].pc = "xfer" /\ h[p].n = h[q].n
            /\ h[p].f.throttle = d /\ h[q].f.throttle = d
        BY <2>2
      <4>2. p < q \/ q < p
        BY <4>1, ProcsAre
      <4> QED
        BY <2>4, <4>1, <4>2, NotInOneChain
    <3>2. \A q \in S : q % d \in 0 .. d - 1
      BY <2>1, <2>2, ProcsAre
    <3> HIDE DEF S, d
    <3>3. f \in Injection(S, 0 .. d - 1)
      BY <3>1, <3>2 DEF Injection, IsInjective
    <3>4. Cardinality(S) <= Cardinality(0 .. d - 1)
      BY <2>3, <3>3, FS_Injection
    <3> QED
      BY <2>3, <3>4 DEF S, d
  <2>5. CASE d \notin Batches
    <3>1. d > nprocs
      BY <2>1, <2>5 DEF Batches
    <3>2. S \in SUBSET Procs
      OBVIOUS
    <3> HIDE DEF S, d
    <3>3. Cardinality(S) <= Cardinality(Procs) /\ IsFiniteSet(S)
      BY <3>2, ProcsAre, FS_Subset
    <3>4. Cardinality(S) \in Nat
      BY <3>3, FS_CardinalityType
    <3>5. Cardinality(S) <= d
      BY <2>1, <2>3, <3>1, <3>3, <3>4 DEF Procs
    <3> QED
      BY <3>5 DEF S, d
  <2> QED
    BY <2>4, <2>5
<1> QED
  BY <1>1, HandlesFollowTheCalls, PTL
=============================================================================
