--------------------------- MODULE H5BlockFields ----------------------------
(***************************************************************************)
(* Three-dimensional fields in parallel H5Part files                       *)
(* (h5part/src/H5Block.c).  Every processor defines its partition of the   *)
(* field, ghost zones included; the layout is gathered, and each processor *)
(* computes on its own a layout without ghost zones, by which fields are   *)
(* written.  Fields are read by the layout as it was defined.              *)
(*                                                                         *)
(* A partition is <<from, to>> in each dimension, both ends included.      *)
(* Metadata calls are collective in HDF5: a processor sees the groups it   *)
(* has made itself, and all of them once the file is opened again.  The    *)
(* elements of the fields are in the file that the processors share.       *)
(***************************************************************************)
EXTENDS H5BlockLayout, FiniteSets, SequencesExt, FiniteSetsExt

CONSTANTS
    nprocs,
    Programs     \* the sequences of calls a job may make

ASSUME ProgramsAssumption ==
    /\ nprocs \in Nat \ {0}
    /\ \A p \in Programs : \A c \in DOMAIN p :
           p[c].op \in {"step", "define", "write", "read", "reopen"}

VARIABLES
    program,  \* the calls of this job
    h,        \* the processors: where each is, its file handle and its H5Block state
    file      \* <<step, name>> -> coordinates -> the element there

vars == <<program, h, file>>

Procs == 0 .. nprocs - 1

\* The state H5Block keeps with a file handle.  blockgroup is the step whose
\* "Block" group is open; shape, disk and mem are the hyperslabs.
_H5Block_init ==
    [user |-> << >>, write |-> << >>, have_layout |-> FALSE, timestep |-> -1,
     blockgroup |-> -1, shape |-> << >>, disk |-> << >>, mem |-> << >>]

Init ==
    /\ program \in Programs
    /\ h = [r \in Procs |-> [n |-> 0, pc |-> "idle", read |-> FALSE, timestep |-> -1,
                             b |-> _H5Block_init, groups |-> {}, fields |-> {},
                             ret |-> "ok", got |-> << >>]]
    /\ file = << >>

Call(r) == program[h[r].n + 1]
Ready(r, op) == h[r].pc = "idle" /\ h[r].n < Len(program) /\ Call(r).op = op
Reached(r, pc) == \A q \in Procs : h[q].n > h[r].n \/ (h[q].n = h[r].n /\ h[q].pc = pc)

\* r returns from its call, its fields having changed as in hr.
Return(r, hr, ret) == h' = [h EXCEPT ![r] = [hr EXCEPT !.n = @ + 1, !.pc = "idle", !.ret = ret]]

-----------------------------------------------------------------------------
(* Defining the layout                                                      *)

Box(p) == {<<i, j, k>> : i \in p[1][1] .. p[1][2], j \in p[2][1] .. p[2][2],
                         k \in p[3][1] .. p[3][2]}
Within(c, p) == \A d \in Dims : p[d][1] <= c[d] /\ c[d] <= p[d][2]
Inside(p, q) == \A d \in Dims : q[d][1] <= p[d][1] /\ p[d][2] <= q[d][2]
_have_ghostzone(p, q) == \A d \in Dims : p[d][1] <= q[d][2] /\ q[d][1] <= p[d][2]
_volume_of_ghostzone(p, q) ==
    LET side(d) == Min({p[d][2], q[d][2]}) - Max({p[d][1], q[d][1]}) + 1
    IN  side(1) * side(2) * side(3)

_get_dimension_sizes(layout) == [d \in Dims |-> Max({0} \cup {layout[r][d][2] : r \in Procs})]

ZonesOfNeighbours(layout) ==   \* slip: only with the processor that follows
    SelectSeq([k \in 1 .. nprocs - 1 |->
                 [p |-> k - 1, q |-> k, vol |-> _volume_of_ghostzone(layout[k - 1], layout[k])]],
              LAMBDA z : _have_ghostzone(layout[z.p], layout[z.q]))

\* The list of ghost zones: pairs of processors in order, with their volumes.
Zones(layout) ==
    LET pairs == SetToSortSeq({pq \in Procs \X Procs : pq[1] < pq[2]
                                   /\ _have_ghostzone(layout[pq[1]], layout[pq[2]])},
                              LAMBDA a, b : a[1] < b[1] \/ (a[1] = b[1] /\ a[2] < b[2]))
    IN  [k \in DOMAIN pairs |->
            [p |-> pairs[k][1], q |-> pairs[k][2],
             vol |-> _volume_of_ghostzone(layout[pairs[k][1]], layout[pairs[k][2]])]]

FirstLargest(zones) == Min({k \in DOMAIN zones : \A j \in DOMAIN zones : zones[j].vol <= zones[k].vol})

\* One turn of the loop.  p_max starts at the head of the remaining list, with the
\* volume it had; when that zone is gone by now it is freed, and p_max dangles
\* unless a zone with a larger volume follows.  What the next turn then follows
\* are the links of freed memory, which free() has overwritten.
DissolveLargest(s) ==
    LET z == s.zones[s.max]
        layout == _dissolve_ghostzone(s.layout, z.p, z.q)
        rest == RemoveAt(s.zones, s.max)
        left == SelectSeq(rest, LAMBDA e : _have_ghostzone(layout[e.p], layout[e.q]))
        zones == [k \in DOMAIN left |-> [left[k] EXCEPT
                    !.vol = _volume_of_ghostzone(layout[left[k].p], layout[left[k].q])]]
        headGone == left # << >> /\ Head(left) # Head(rest)
        max == FirstLargest(zones)
    IN  IF left = << >> THEN [layout |-> layout, zones |-> << >>, max |-> 0, dangling |-> FALSE]
        ELSE [layout |-> layout, zones |-> zones, max |-> max,
              dangling |-> headGone /\ zones[max].vol <= Head(rest).vol]

\* _dissolve_ghostzones: at most one turn for every zone.
_dissolve_ghostzones(layout) ==
    LET zones == Zones(layout)
        start == [layout |-> layout, zones |-> zones, dangling |-> FALSE,
                  max |-> IF zones = << >> THEN 0 ELSE FirstLargest(zones)]
    IN  FoldLeft(LAMBDA s, z : IF s.zones = << >> \/ s.dangling THEN s ELSE DissolveLargest(s),
                 start, zones)

_release_hyperslab(b) == [b EXCEPT !.shape = << >>, !.disk = << >>, !.mem = << >>]

\* H5BlockDefine3DFieldLayout up to the gathering of the layout.
DefineLayout(r) ==
    /\ Ready(r, "define")
    /\ h' = [h EXCEPT ![r].pc = "gather"]
    /\ UNCHANGED <<program, file>>

\* ... and from there on.
LayoutGathered(r) ==
    /\ h[r].pc = "gather" /\ Reached(r, "gather")
    /\ LET user == [q \in Procs |-> _normalize_partition(Call(r).arg[q])]
           reduced == _dissolve_ghostzones(user)
           b == [_release_hyperslab(h[r].b) EXCEPT
                    !.user = user, !.write = reduced.layout, !.have_layout = TRUE]
       IN  IF reduced.dangling THEN h' = [h EXCEPT ![r].pc = "crashed"]
           ELSE Return(r, [h[r] EXCEPT !.b = b], "ok")
    /\ UNCHANGED <<program, file>>

\* The processor that has a place in its reduced partition, -1 if none has.
H5Block3dGetProcOf(layout, c) ==
    LET owners == {r \in Procs : Within(c, layout[r])}
    IN  IF owners = {} THEN -1 ELSE Min(owners)

-----------------------------------------------------------------------------
(* Groups                                                                   *)

H5PartSetStep(r) ==
    /\ Ready(r, "step")
    /\ Return(r, [h[r] EXCEPT !.timestep = Call(r).arg], "ok")
    /\ UNCHANGED <<program, file>>

\* The group stays open while the step is the one it was last opened in.
_open_block_group(hr) ==
    LET stale == hr.timestep # hr.b.timestep /\ hr.b.blockgroup >= 0
        group == IF stale \/ hr.b.blockgroup < 0
                 THEN IF hr.timestep \in hr.groups THEN hr.timestep ELSE -1
                 ELSE hr.b.blockgroup
    IN  [hr EXCEPT !.b.blockgroup = group,
                   !.b.timestep = IF group >= 0 THEN hr.timestep ELSE @]

\* Making the group does not note the step it was made in.
_create_block_group(hr) ==
    [hr EXCEPT !.b.blockgroup = hr.timestep, !.groups = @ \cup {hr.timestep}]

BlockGroup(hr) ==
    IF hr.timestep \in hr.groups THEN _open_block_group(hr) ELSE _create_block_group(hr)

-----------------------------------------------------------------------------
(* Fields                                                                   *)

Origin(p) == [d \in Dims |-> p[d][1]]
Minus(c, a) == [d \in Dims |-> c[d] - a[d]]
Plus(c, a) == [d \in Dims |-> c[d] + a[d]]

MemFromZero(p, q) == <<0, 0, 0>>   \* slip: the ghost zone in memory is not skipped

\* Where the reduced partition p begins in the buffer of the partition q.
MemStart(p, q) == Minus(Origin(p), Origin(q))

\* Hyperslabs are made once for all fields written by one layout.
_select_hyperslab_for_writing(r, b) ==
    IF b.shape # << >> THEN b
    ELSE [b EXCEPT !.shape = _get_dimension_sizes(b.user),
                   !.disk = b.write[r],
                   !.mem = MemStart(b.write[r], b.user[r])]

Empty(shape) == [c \in Box([d \in Dims |-> <<0, shape[d]>>]) |-> << >>]

\* The caller's buffer holds, place by place, the field in its partition.
Element(r, intended, c) ==
    <<intended, Plus(Plus(Minus(c, Origin(h[r].b.disk)), h[r].b.mem), Origin(h[r].b.user[r])), r>>

\* H5Block3dWriteScalarField*: groups and hyperslabs, then the elements.
BeginWriteField(r) ==
    /\ Ready(r, "write")
    /\ IF h[r].read \/ h[r].timestep < 0 \/ ~h[r].b.have_layout
       THEN Return(r, h[r], "error")
       ELSE LET hr == BlockGroup(h[r])
                b == _select_hyperslab_for_writing(r, hr.b)
                key == <<b.blockgroup, Call(r).arg>>
            IN  IF key \in h[r].fields THEN Return(r, [hr EXCEPT !.b = b], "error")
                ELSE h' = [h EXCEPT ![r] = [hr EXCEPT !.b = b, !.pc = "write",
                                                      !.fields = @ \cup {key}]]
    /\ UNCHANGED <<program, file>>

WriteField(r) ==
    /\ h[r].pc = "write"
    /\ LET b == h[r].b
           key == <<b.blockgroup, Call(r).arg>>
           before == IF key \in DOMAIN file THEN file ELSE key :> Empty(b.shape) @@ file
       IN  file' = [before EXCEPT ![key] =
                      [c \in DOMAIN @ |->
                          IF Within(c, b.disk)
                          THEN Element(r, <<h[r].timestep, Call(r).arg>>, c) ELSE @[c]]]
    /\ Return(r, h[r], "ok")
    /\ UNCHANGED program

Extent(field) == [d \in Dims |-> <<0, Max({c[d] : c \in DOMAIN field})>>]

FieldDims(field) == [d \in Dims |-> Extent(field)[d][2] + 1]

\* A layout is compared with the field by its last places, not by its sizes, so that
\* one place too many in a dimension goes through.
LayoutRefused(field, layout) == \E d \in Dims : FieldDims(field)[d] < _get_dimension_sizes(layout)[d]

\* H5Block3dReadScalarField*: the partition as it was defined, ghost zones too.  The
\* library compares the layout of all processors with the field, so all are refused
\* alike; HDF5 refuses each selection that is not inside the field.
ReadField(r) ==
    /\ Ready(r, "read")
    /\ IF h[r].timestep < 0 \/ ~h[r].b.have_layout
       THEN Return(r, h[r], "error")
       ELSE LET hr == _open_block_group(h[r])
                field == file[<<hr.b.blockgroup, Call(r).arg>>]
                p == h[r].b.user[r]
                released == [hr EXCEPT !.b = _release_hyperslab(@)]
                selected == [released EXCEPT !.b.disk = p]
            IN  IF <<hr.b.blockgroup, Call(r).arg>> \notin h[r].fields THEN Return(r, hr, "error")
                ELSE IF LayoutRefused(field, h[r].b.user) THEN Return(r, released, "error")
                ELSE IF ~Inside(p, Extent(field)) THEN Return(r, selected, "error")
                ELSE Return(r, [selected EXCEPT !.got = [c \in Box(p) |-> field[c]]], "ok")
    /\ UNCHANGED <<program, file>>

\* The file is closed by all and opened to read.
H5PartCloseFile(r) ==
    /\ Ready(r, "reopen")
    /\ h' = [h EXCEPT ![r].pc = "close"]
    /\ UNCHANGED <<program, file>>

H5PartOpenFile(r) ==
    /\ h[r].pc = "close" /\ Reached(r, "close")
    /\ Return(r, [h[r] EXCEPT !.read = TRUE, !.timestep = -1, !.b = _H5Block_init], "ok")
    /\ UNCHANGED <<program, file>>

ProcStep(r) ==
    \/ DefineLayout(r) \/ LayoutGathered(r) \/ H5PartSetStep(r)
    \/ BeginWriteField(r) \/ WriteField(r) \/ ReadField(r)
    \/ H5PartCloseFile(r) \/ H5PartOpenFile(r)

Next == \E r \in Procs : ProcStep(r)

Spec == Init /\ [][Next]_vars /\ \A r \in Procs : WF_vars(ProcStep(r))

-----------------------------------------------------------------------------
(* Properties                                                               *)

\* r has just returned from this call.
Returned(r, op) == h[r].pc = "idle" /\ h[r].n > 0 /\ program[h[r].n].op = op

\* On grids with halos the reduced partitions of all processors are disjoint, each
\* lies inside its processor's partition, and together they are the whole field.
GhostzonesDissolved ==
    \A r \in Procs : Returned(r, "define") =>
        LET b == h[r].b
        IN  /\ \A p, q \in Procs : p # q => ~_have_ghostzone(b.write[p], b.write[q])
            /\ \A p \in Procs : Inside(b.write[p], b.user[p])
            /\ \A p \in Procs : \A c \in Box(b.user[p]) : \E q \in Procs : Within(c, b.write[q])

\* Every place of a field all processors have written has its own value, written
\* by the processor H5Block3dGetProcOf names; hyperslabs kept from one write to the
\* next are those of the layout in force.
WrittenByOwner ==
  /\ \A r \in Procs : h[r].b.shape # << >> =>
        h[r].b.shape = _get_dimension_sizes(h[r].b.user) /\ h[r].b.disk = h[r].b.write[r]
  /\ (\A r \in Procs : Returned(r, "write") /\ h[r].ret = "ok" /\ h[r].n = h[0].n) =>
        LET key == <<h[0].timestep, program[h[0].n].arg>>
        IN  \A c \in DOMAIN file[key] :
                file[key][c] = <<key, c, H5Block3dGetProcOf(h[0].b.write, c)>>

\* A field of the step a processor is in, read back by any layout that lies inside it,
\* is read by every processor, and whoever is told that it has read has the field in its
\* whole partition, in whatever step and by whatever layout it read before.
ReadsTheField ==
    \A r \in Procs :
        (Returned(r, "read") /\ h[r].read) =>
            LET key == <<h[r].timestep, program[h[r].n].arg>>
                there == key \in h[r].fields /\ h[r].b.have_layout
            IN  /\ (there /\ \A p \in Procs : Inside(h[r].b.user[p], Extent(file[key])))
                       => h[r].ret = "ok"
                /\ h[r].ret = "ok" =>
                       /\ there
                       /\ DOMAIN h[r].got = Box(h[r].b.user[r])
                       /\ \A c \in DOMAIN h[r].got : h[r].got[c][1] = key /\ h[r].got[c][2] = c

\* H5BlockReadWrite.c on writing a field: "to the current time-step".
WritesCurrentStep ==
    \A key \in DOMAIN file : \A c \in DOMAIN file[key] :
        file[key][c] # << >> => file[key][c][1] = key
=============================================================================
