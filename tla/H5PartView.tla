----------------------------- MODULE H5PartView -----------------------------
(***************************************************************************)
(* Parallel H5Part files (h5part/src/H5Part.c): the processors of a job    *)
(* make the same calls on one file, each with its own particle counts and  *)
(* views, and HDF5 moves the selected particles.                           *)
(*                                                                         *)
(* A handle keeps the step, the view (inclusive bounds, -1 for none), the  *)
(* data spaces made for it, the counts of all processors and the throttle  *)
(* factor.  Each processor goes through the program at its own pace: only  *)
(* MPI_Allgather, the tokens of the throttle and the closing of the file   *)
(* make it wait.  A data set is a sequence of cells from 0; HDF5 refuses a *)
(* transfer whose two sides select different numbers of elements or whose  *)
(* selection lies outside its data space.                                  *)
(***************************************************************************)
EXTENDS Integers, Sequences, FiniteSets, FiniteSetsExt

CONSTANTS
    nprocs,      \* processors
    Programs,    \* sets of [independent, calls]: the VFD and the calls made
    Garbage,     \* totals that memory malloc'ed and never filled in may give
    MaxFaults    \* transfers HDF5 may still fail

ASSUME NprocsAssumption == nprocs \in Nat \ {0} /\ MaxFaults \in Nat
ASSUME GarbageAssumption == Garbage \subseteq Nat /\ Garbage # {}

Names == {"x", "y"}   \* data sets, in the order of their names
Ops == {"throttle", "step", "num", "view", "indices", "canonical", "reset",
        "write", "read", "reopen"}
Procs == 0 .. nprocs - 1

\* What each processor passes: -1 for either end of a view, its own count, its indices.
CallTyped(c) ==
    /\ c.op \in Ops
    /\ c.op \in {"write", "read"} => c.arg \in Names
    /\ c.op = "step" => c.arg \in Nat
    /\ c.op = "throttle" => c.arg \in Int
    /\ c.op = "num" => c.arg \in [Procs -> Nat]
    /\ c.op = "view" => c.arg \in [Procs -> (Nat \cup {-1}) \X (Nat \cup {-1})]
    /\ c.op = "indices" => c.arg \in [Procs -> Seq(Nat)]
ASSUME ProgramsAssumption ==
    \A p \in Programs : /\ p.independent \in BOOLEAN /\ p.calls \in Seq(Range(p.calls))
                        /\ \A c \in DOMAIN p.calls : CallTyped(p.calls[c])

VARIABLES
    program,  \* what the job does, chosen once
    h,        \* the processors' handles, and where each is in the program;
              \* .held is history: a token for another processor was kept back
    file,     \* <<step, name>> -> the cells of that data set
    steps,    \* the step groups there are
    tokens,   \* <<from, to>> -> throttle messages on their way
    faults

vars == <<program, h, file, steps, tokens, faults>>

ALL == [total |-> -1, sel |-> <<>>]   \* H5S_ALL
Cell(key, r, i) == <<key, r, i>>
Hole == <<<<-1, "">>, -1, -1>>
IndexRange(from, to) == [i \in 1 .. to - from + 1 |-> from + i - 1]
SumOver(f, S) == MapThenSumSet(LAMBDA r : f[r], S)

\* malloc'ed in _H5Part_open_file and not filled in before it is first gathered.
Unset == << >>

\* _H5Part_open_file
Handle(read) ==
    [read |-> read, step |-> -1, timestep |-> 0, nparticles |-> 0, shape |-> -1, disk |-> ALL, mem |-> -1,
     viewstart |-> -1, viewend |-> -1, viewindexed |-> FALSE, pnparticles |-> Unset,
     throttle |-> 0]

Call(r) == program.calls[h[r].n + 1]
Has(r, op) == h[r].n < Len(program.calls) /\ Call(r).op = op
Ready(r, op) == h[r].pc = "idle" /\ Has(r, op)

Init ==
    /\ program \in Programs
    /\ h = [r \in Procs |-> [n |-> 0, pc |-> "idle", f |-> Handle(FALSE), ret |-> "ok",
                             failed |-> FALSE, held |-> FALSE, got |-> <<>>]]
    /\ file = << >> /\ steps = {}
    /\ tokens = [c \in Procs \X Procs |-> 0]
    /\ faults = MaxFaults

disk_vars == <<file, steps>>

\* The call returns.
Return(r, f, ret) ==
    h' = [h EXCEPT ![r].f = f, ![r].ret = ret, ![r].pc = "idle", ![r].n = @ + 1]

-----------------------------------------------------------------------------
(* Views                                                                    *)

ResetBounds(f) ==   \* slip: the data spaces of the view stay
    [f EXCEPT !.viewstart = -1, !.viewend = -1, !.viewindexed = FALSE]

_reset_view(f) ==
    [f EXCEPT !.viewstart = -1, !.viewend = -1, !.viewindexed = FALSE,
              !.disk = ALL, !.mem = -1]

_H5Part_has_view(f) == f.viewindexed \/ (f.viewstart >= 0 /\ f.viewend >= 0)

\* H5Part counts the first data set of the step in the order of their names.
HasData(step) == \E x \in Names : <<step, x>> \in DOMAIN file
FirstName(step) == CHOOSE x \in Names :
    /\ <<step, x>> \in DOMAIN file
    /\ x = "y" => <<step, "x">> \notin DOMAIN file

_H5Part_get_num_particles(f, garbage) ==
    IF _H5Part_has_view(f) THEN Len(f.disk.sel)
    ELSE IF HasData(f.step)
         THEN Len(file[<<f.step, FirstName(f.step)>>])
         ELSE IF f.pnparticles = Unset THEN garbage ELSE SumOver(f.pnparticles, Procs)

SetViewExclusive(f, start, end, garbage) ==   \* slip: the range ends before end
    LET f0 == _reset_view(f)
        total == _H5Part_get_num_particles(f0, garbage)
        first == IF start = -1 THEN 0 ELSE start
        last == Max({IF end = -1 THEN total - 1 ELSE end, first})
    IN  IF (start = -1 /\ end = -1) \/ total = 0 THEN f0
        ELSE [f0 EXCEPT !.viewstart = first, !.viewend = last, !.nparticles = last - first,
                        !.disk = [total |-> total, sel |-> IndexRange(first, last - 1)],
                        !.mem = last - first]

\* -1 stands for either end of the data set; the range is inclusive.
_set_view(f, start, end, garbage) ==
    LET f0 == _reset_view(f)
        total == _H5Part_get_num_particles(f0, garbage)
        first == IF start = -1 THEN 0 ELSE start
        last == Max({IF end = -1 THEN total - 1 ELSE end, first})
        size == last - first + 1
    IN  IF (start = -1 /\ end = -1) \/ total = 0 THEN f0
        ELSE [f0 EXCEPT !.viewstart = first, !.viewend = last, !.nparticles = size,
                        !.disk = [total |-> total, sel |-> IndexRange(first, last)],
                        !.mem = size]

_set_view_indices(f, indices, garbage) ==
    LET f0 == _reset_view(f)
        total == _H5Part_get_num_particles(f0, garbage)
    IN  IF total = 0 THEN f0
        ELSE [f0 EXCEPT !.nparticles = Len(indices), !.viewindexed = TRUE,
                        !.disk = [total |-> total, sel |-> indices], !.mem = Len(indices)]

\* H5PartSetCanonicalView: equal shares; the rest of the division is left out.
Canonical(f, r, garbage) ==
    LET f0 == _reset_view(f)
        share == _H5Part_get_num_particles(f0, garbage) \div nprocs
        f1 == [f0 EXCEPT !.pnparticles = [q \in Procs |-> share]]
        start == SumOver(f1.pnparticles, 0 .. r - 1)
    IN  _set_view(f1, start, start + share - 1, garbage)

\* Steps are opened, or made where the file may be written.
CanSet(f, s) == s \in steps \/ ~f.read
_H5Part_set_step(f, s) ==
    [f EXCEPT !.timestep = s, !.step = IF CanSet(f, s) THEN s ELSE -1]

\* Calls that need a step set s when there is none.
WithStep(f, s) == IF f.step < 0 THEN _H5Part_set_step(f, s) ELSE f
StepMade(f) == steps' = IF f.step < 0 THEN steps ELSE steps \cup {f.step}

ViewOf(r, f, garbage) ==
    LET a == Call(r).arg
    IN  CASE Call(r).op = "view" -> _set_view(f, a[r][1], a[r][2], garbage)
          [] Call(r).op = "indices" -> _set_view_indices(f, a[r], garbage)
          [] Call(r).op = "canonical" -> Canonical(f, r, garbage)

H5PartSetView(r) ==
    /\ \E op \in {"view", "indices", "canonical"} : Ready(r, op)
    /\ LET f == IF Has(r, "canonical") THEN _reset_view(h[r].f) ELSE h[r].f
           g == WithStep(f, 0)
       IN  /\ \/ g.step < 0 /\ Return(r, g, "error")
              \/ /\ g.step >= 0
                 /\ \E garbage \in Garbage : Return(r, ViewOf(r, g, garbage), "ok")
           /\ StepMade(g)
    /\ UNCHANGED <<program, file, tokens, faults>>

H5PartResetView(r) ==
    /\ Ready(r, "reset")
    /\ Return(r, IF h[r].f.read THEN _reset_view(h[r].f) ELSE h[r].f,
              IF h[r].f.read THEN "ok" ELSE "error")
    /\ UNCHANGED <<program, disk_vars, tokens, faults>>

-----------------------------------------------------------------------------
(* Steps, counts and the throttle factor                                    *)

H5PartSetStep(r) ==
    /\ Ready(r, "step")
    /\ LET f == _H5Part_set_step(h[r].f, Call(r).arg)
       IN  /\ Return(r, f, IF f.step < 0 THEN "error" ELSE "ok")
           /\ StepMade(f)
    /\ UNCHANGED <<program, file, tokens, faults>>

\* The throttle is only permitted with independent transfers.
H5PartSetThrottle(r) ==
    /\ Ready(r, "throttle")
    /\ Return(r, [h[r].f EXCEPT !.throttle = IF program.independent THEN Call(r).arg ELSE @], "ok")
    /\ UNCHANGED <<program, disk_vars, tokens, faults>>

\* H5PartSetNumParticles up to the MPI_Allgather.
SetNumParticles(r) ==
    /\ Ready(r, "num")
    /\ LET count == Call(r).arg[r]
       IN  h' = [h EXCEPT ![r].pc = "gather",
                          ![r].f = [_reset_view(h[r].f) EXCEPT
                                      !.shape = -1, !.nparticles = count,
                                      !.mem = IF count > 0 THEN count ELSE -1]]
    /\ UNCHANGED <<program, disk_vars, tokens, faults>>

Reached(r, pc) == \A q \in Procs : h[q].n > h[r].n \/ (h[q].n = h[r].n /\ h[q].pc = pc)

StartInclusive(counts, r) == SumOver(counts, 0 .. r)   \* slip: one's own count included

\* A processor's first particle lies behind those of the processors before it.
Start(counts, r) == SumOver(counts, 0 .. r - 1)

\* ... and from it on: counts, view and data spaces.
NumParticlesGathered(r) ==
    /\ h[r].pc = "gather" /\ Reached(r, "gather")
    /\ LET counts == Call(r).arg
           total == SumOver(counts, Procs)
           start == Start(counts, r)
       IN  Return(r, [h[r].f EXCEPT
                        !.pnparticles = counts, !.shape = total,
                        !.viewstart = start, !.viewend = start + counts[r] - 1,
                        !.disk = [total |-> total,
                                  sel |-> IndexRange(start, start + counts[r] - 1)]], "ok")
    /\ UNCHANGED <<program, disk_vars, tokens, faults>>

-----------------------------------------------------------------------------
(* Transfers                                                                *)

Key(r) == <<h[r].f.step, Call(r).arg>>

\* _write_data: no view, no data set; otherwise open or create it.
BeginWrite(r) ==
    /\ Ready(r, "write")
    /\ IF h[r].f.shape = -1 \/ h[r].f.step < 0 \/ h[r].f.read
       THEN /\ Return(r, h[r].f, "error")
            /\ UNCHANGED file
       ELSE /\ h' = [h EXCEPT ![r].pc = "start"]
            /\ file' = IF Key(r) \in DOMAIN file THEN file
                       ELSE [k \in DOMAIN file \cup {Key(r)} |->
                               IF k = Key(r) THEN [i \in 1 .. h[r].f.shape |-> Hole]
                               ELSE file[k]]
    /\ UNCHANGED <<program, steps, tokens, faults>>

\* _read_data: sets the step itself if need be, and opens the data set.
BeginRead(r) ==
    /\ Ready(r, "read")
    /\ LET f == WithStep(h[r].f, h[r].f.timestep)
       IN  /\ IF <<f.step, Call(r).arg>> \in DOMAIN file
              THEN h' = [h EXCEPT ![r].pc = "start", ![r].f = f]
              ELSE Return(r, f, "error")
           /\ StepMade(f)
    /\ UNCHANGED <<program, file, tokens, faults>>

WaitsNever(f, r) == FALSE   \* slip: nobody waits for its token

\* Processors of the first batch start at once.
WaitsForToken(f, r) == f.throttle > 0 /\ r >= f.throttle

_H5Part_start_throttle(r) ==
    /\ h[r].pc = "start"
    /\ LET token == <<r - h[r].f.throttle, r>>
       IN  IF WaitsForToken(h[r].f, r)
           THEN tokens[token] > 0 /\ tokens' = [tokens EXCEPT ![token] = @ - 1]
           ELSE UNCHANGED tokens
    /\ h' = [h EXCEPT ![r].pc = "xfer"]
    /\ UNCHANGED <<program, disk_vars, faults>>

\* HDF5 accepts a selection inside its data space, of as many elements as the
\* space in memory has (-1: as many as it takes).
Accepts(space, count) ==
    /\ \A i \in DOMAIN space.sel : space.sel[i] < space.total
    /\ count \in {-1, Len(space.sel)}

Whole(stored) == [total |-> Len(stored), sel |-> IndexRange(0, Len(stored) - 1)]

\* What r's particles leave of the data set.
Placed(space, stored, r) ==
    [i \in DOMAIN stored |->
        IF \E k \in DOMAIN space.sel : space.sel[k] = i - 1
        THEN Cell(Key(r), r, CHOOSE k \in DOMAIN space.sel : space.sel[k] = i - 1)
        ELSE stored[i]]

\* H5Dwrite.  Its error code is overwritten by that of _H5Part_end_throttle.
WriteXfer(r) ==
    LET f == h[r].f
        stored == file[Key(r)]
        space == IF f.disk = ALL THEN Whole(stored) ELSE f.disk
        accepted == Accepts([space EXCEPT !.total = Min({@, Len(stored)})], f.mem)
    IN  /\ h[r].pc = "xfer" /\ Has(r, "write")
        /\ \/ /\ accepted
              /\ file' = [file EXCEPT ![Key(r)] = Placed(space, stored, r)]
              /\ h' = [h EXCEPT ![r].pc = "end", ![r].failed = FALSE]
              /\ UNCHANGED faults
           \/ /\ faults > 0 \/ ~accepted
              /\ faults' = IF accepted THEN faults - 1 ELSE faults
              /\ h' = [h EXCEPT ![r].pc = "end", ![r].failed = TRUE]
              /\ UNCHANGED file
        /\ UNCHANGED <<program, steps, tokens>>

\* The data space a read takes: the view's, unless it selects more than there is.
ReadSpace(f, stored) ==
    IF f.disk # ALL /\ Len(f.disk.sel) <= Len(stored) THEN f.disk ELSE Whole(stored)

\* The space in memory: the view's, unless it has no room.
ReadMem(f, space) == IF f.mem >= Len(space.sel) THEN f.mem ELSE -1

Beyond == <<<<-1, "beyond">>, -1, -1>>   \* what lies behind the data set

\* H5Dread.  On an error _read_data returns without passing the token on.
ReadXfer(r) ==
    LET f == h[r].f
        stored == file[Key(r)]
        space == ReadSpace(f, stored)
        accepted == Accepts(space, ReadMem(f, space))
    IN  /\ h[r].pc = "xfer" /\ Has(r, "read")
        /\ \/ /\ accepted
              /\ h' = [h EXCEPT ![r].pc = "end", ![r].failed = FALSE,
                                ![r].got = [k \in DOMAIN space.sel |->
                                    IF space.sel[k] < Len(stored) THEN stored[space.sel[k] + 1]
                                    ELSE Beyond]]
              /\ UNCHANGED faults
           \/ /\ faults > 0 \/ ~accepted
              /\ faults' = IF accepted THEN faults - 1 ELSE faults
              /\ h' = [h EXCEPT ![r].pc = "idle", ![r].failed = TRUE, ![r].ret = "error",
                                ![r].held = @ \/ (f.throttle > 0 /\ r + f.throttle < nprocs),
                                ![r].got = <<>>, ![r].n = @ + 1]
        /\ UNCHANGED <<program, disk_vars, tokens>>

PassesToNext(f, r) == r + 1   \* slip: to the next processor instead of the next batch

\* Who gets the token of processor r.
PassesTo(f, r) == r + f.throttle

_H5Part_end_throttle(r) ==
    /\ h[r].pc = "end"
    /\ LET to == PassesTo(h[r].f, r)
       IN  tokens' = IF h[r].f.throttle > 0 /\ to < nprocs
                     THEN [tokens EXCEPT ![<<r, to>>] = @ + 1] ELSE tokens
    /\ Return(r, h[r].f, "ok")
    /\ UNCHANGED <<program, disk_vars, faults>>

-----------------------------------------------------------------------------
(* Closing, and opening again to read                                       *)

H5PartCloseFile(r) ==
    /\ Ready(r, "reopen")
    /\ h' = [h EXCEPT ![r].pc = "close"]
    /\ UNCHANGED <<program, disk_vars, tokens, faults>>

H5PartOpenFileParallel(r) ==
    /\ h[r].pc = "close" /\ Reached(r, "close")
    /\ Return(r, Handle(TRUE), "ok")
    /\ UNCHANGED <<program, disk_vars, tokens, faults>>

ProcStep(r) ==
    \/ H5PartSetView(r) \/ H5PartResetView(r) \/ H5PartSetStep(r) \/ H5PartSetThrottle(r)
    \/ SetNumParticles(r) \/ NumParticlesGathered(r)
    \/ BeginWrite(r) \/ BeginRead(r) \/ _H5Part_start_throttle(r)
    \/ WriteXfer(r) \/ ReadXfer(r) \/ _H5Part_end_throttle(r)
    \/ H5PartCloseFile(r) \/ H5PartOpenFileParallel(r)

Next == \E r \in Procs : ProcStep(r)

\* Processors run on; MPI delivers what was sent.
Spec == Init /\ [][Next]_vars /\ \A r \in Procs : WF_vars(ProcStep(r))

-----------------------------------------------------------------------------
(* Properties                                                               *)

\* All processors have just returned from the same call.
Together(op) ==
    /\ \A r \in Procs : h[r].pc = "idle" /\ h[r].n = h[0].n
    /\ h[0].n > 0 /\ program.calls[h[0].n].op = op

Selected(r) == {h[r].f.disk.sel[k] : k \in DOMAIN h[r].f.disk.sel}
Disjoint == \A r, q \in Procs : r # q => Selected(r) \cap Selected(q) = {}

\* Setting the number of particles gives every processor its own range, and the
\* ranges together are the data set.  So are canonical views, but for the rest
\* of the division; the source admits to that.  A view and the data spaces that were
\* made for it never differ in size.
ViewsPartition ==
    /\ \A r \in Procs : (h[r].pc = "idle" /\ h[r].f.disk # ALL) =>
           Len(h[r].f.disk.sel) = h[r].f.nparticles
    /\ Together("num") =>
        /\ Disjoint
        /\ UNION {Selected(r) : r \in Procs} = 0 .. h[0].f.shape - 1
    /\ (Together("canonical") /\ h[0].f.disk.total >= nprocs /\ HasData(h[0].f.step)) =>
        /\ Disjoint
        /\ \A r \in Procs : Len(h[r].f.disk.sel) = h[0].f.disk.total \div nprocs

\* Once the file has been closed, a data set no transfer of which failed holds
\* the particles of all processors, in the order of the processors, with no hole.
Follows(a, b) == (b[2] = a[2] /\ b[3] = a[3] + 1) \/ (b[2] > a[2] /\ b[3] = 1)
DatasetsComplete ==
    (\A r \in Procs : h[r].f.read) => \A key \in DOMAIN file :
        LET d == file[key]
        IN  (faults = MaxFaults /\ d # <<>>) =>
                /\ d[1][3] = 1 /\ \A i \in DOMAIN d : d[i][1] = key
                /\ \A i \in 1 .. Len(d) - 1 : Follows(d[i], d[i + 1])

\* A read that succeeds returns the particles of the view, where the data set has
\* them, and the whole data set when no view was set.
ReadsTheView ==
    \A r \in Procs :
        LET t == h[r]
            stored == file[<<t.f.step, program.calls[t.n].arg>>]
        IN  (t.pc = "idle" /\ t.n > 0 /\ program.calls[t.n].op = "read" /\ t.ret = "ok"
             /\ ~t.f.viewindexed /\ t.f.viewend < Len(stored)) =>
                t.got = IF t.f.viewstart >= 0 THEN SubSeq(stored, t.f.viewstart + 1, t.f.viewend + 1)
                        ELSE stored

\* At most "throttle" processors are inside the transfer of one call.
ThrottleHolds ==
    \A r \in Procs : (h[r].pc = "xfer" /\ h[r].f.throttle > 0) =>
        Cardinality({q \in Procs : h[q].pc = "xfer" /\ h[q].n = h[r].n}) <= h[r].f.throttle

\* Every processor returns from every call, and uses up the tokens sent to it;
\* only a read that fails under a throttle holds its token back.
CallsReturn ==
    <>[](\/ \A r, q \in Procs : h[r].n = Len(program.calls) /\ tokens[<<q, r>>] = 0
         \/ \E r \in Procs : h[r].held)

\* H5Part.c of the writing functions: "\return H5PART_SUCCESS or error code".
WriteErrorsReported ==
    \A r \in Procs :
        (h[r].pc = "idle" /\ h[r].n > 0 /\ program.calls[h[r].n].op = "write" /\ h[r].failed)
            => h[r].ret = "error"
=============================================================================
