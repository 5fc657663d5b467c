---------------------------- MODULE H5MultiBlock ----------------------------
(***************************************************************************)
(* Fields of equal blocks with halos, one block per processor              *)
(* (h5part/src/H5MultiBlock.c).  A field is written block by block with    *)
(* its block dimensions as an attribute; it is read by the blocks it was   *)
(* written by, and when a radius is defined the block is padded in place   *)
(* and its halo fetched from the neighbours by MPI, dimension after        *)
(* dimension, so that corners arrive over several processors.              *)
(*                                                                         *)
(* The file is open and its step set.  Elements of a field are their own   *)
(* coordinates.  Processors interleave between MPI calls; metadata and     *)
(* layout calls are collective.                                            *)
(***************************************************************************)
EXTENDS H5MultiBlockLayout, FiniteSets, Sequences, TLC

CONSTANTS
    nprocs,
    Programs     \* the sequences of calls a job may make

ASSUME ProgramsAssumption ==
    /\ nprocs \in Nat \ {0}
    /\ \A p \in Programs : \A c \in DOMAIN p :
           p[c].op \in {"radii", "dims", "shift", "write", "read", "reopen"}

VARIABLES
    program,  \* the calls of this job
    eager,    \* MPI buffers messages of this size: a send does not wait for its receiver
    h,        \* the processors: where each is and its H5MultiBlock state
    net,      \* messages sent and not received: <<from, to>> -> their contents in order
    file      \* name -> the field: its dimensions, block dimensions and elements

vars == <<program, eager, h, net, file>>

Procs == 0 .. nprocs - 1

_H5MultiBlock_init ==
    [halo_radii |-> <<0, 0, 0>>, block_dims |-> <<1, 1, 1>>, field_dims |-> <<1, 1, 1>>,
     decomp |-> <<1, 1, 1>>, offsets |-> <<0, 0, 0>>, field_edges |-> {}, read |-> FALSE,
     halo |-> FALSE, have_decomp |-> FALSE, proc_shift |-> 0]

Init ==
    /\ program \in Programs
    /\ eager \in BOOLEAN
    /\ h = [r \in Procs |-> [n |-> 0, pc |-> "idle", mb |-> _H5MultiBlock_init, writable |-> TRUE,
                             fields |-> {}, phase |-> 1, posted |-> FALSE, received |-> FALSE,
                             buf |-> << >>, ret |-> "ok"]]
    /\ net = [pq \in Procs \X Procs |-> << >>]
    /\ file = << >>

Call(r) == program[h[r].n + 1]
Ready(r, op) == h[r].pc = "idle" /\ h[r].n < Len(program) /\ Call(r).op = op
\* All processors have entered the call r is in.
Entered(r) == \A q \in Procs : h[q].n > h[r].n \/ (h[q].n = h[r].n /\ h[q].pc # "idle")
Return(r, hr, ret) == h' = [h EXCEPT ![r] = [hr EXCEPT !.n = @ + 1, !.pc = "idle", !.ret = ret]]
Local == UNCHANGED <<program, eager, net, file>>

-----------------------------------------------------------------------------
(* Decomposition                                                            *)

Unwrapped(r, mb) == r + mb.proc_shift   \* slip: ranks are not taken modulo nprocs

Rank(r, mb) == (r + mb.proc_shift) % nprocs

\* A block larger than the field makes the code divide by zero.
DividesByZero(mb) == LET decomp == Decomp(mb.field_dims, mb.block_dims)
                     IN  decomp[2] = 0 \/ decomp[3] = 0

\* Edges are added to those of earlier decompositions, and everything is set before
\* the number of blocks is compared with the number of processors.
_get_decomp_and_offsets(r, mb) ==
    LET decomp == Decomp(mb.field_dims, mb.block_dims)
        place == Place(decomp, Rank(r, mb))
        set == [mb EXCEPT !.decomp = decomp, !.offsets = Offsets(mb.block_dims, place),
                          !.field_edges = @ \cup Edges(decomp, place)]
    IN  IF Product(decomp) = nprocs THEN [mb |-> [set EXCEPT !.have_decomp = TRUE], ret |-> "ok"]
        ELSE [mb |-> set, ret |-> "error"]

H5MultiBlock3dDefineDims(r) ==
    /\ Ready(r, "dims")
    /\ LET mb == [h[r].mb EXCEPT !.field_dims = Inverted(Call(r).field),
                                 !.block_dims = Inverted(Call(r).block)]
           s == _get_decomp_and_offsets(r, mb)
       IN  IF DividesByZero(mb) THEN h' = [h EXCEPT ![r].pc = "crashed"]
           ELSE Return(r, [h[r] EXCEPT !.mb = s.mb], s.ret)
    /\ Local

H5MultiBlock3dDefineRadii(r) ==
    /\ Ready(r, "radii")
    /\ Return(r, [h[r] EXCEPT !.mb.halo_radii = Inverted(Call(r).radii), !.mb.halo = TRUE], "ok")
    /\ Local

H5MultiBlockShiftProcs(r) ==
    /\ Ready(r, "shift")
    /\ IF Call(r).shift < 0 THEN Return(r, h[r], "error")
       ELSE Return(r, [h[r] EXCEPT !.mb.proc_shift = Call(r).shift], "ok")
    /\ Local

\* What the library tells a processor of its block, and of the last field once one has
\* been read.  The offsets are the caller's own, whatever proc it asks for.
H5MultiBlock3dGetOffsetsOfProc(r, proc) == h[r].mb.offsets
TellDims(r, dims) == IF h[r].mb.read THEN [ret |-> "ok", dims |-> dims] ELSE [ret |-> "error"]
H5MultiBlock3dGetFieldDims(r) == TellDims(r, h[r].mb.field_dims)
H5MultiBlock3dGetBlockDims(r) == TellDims(r, h[r].mb.block_dims)

-----------------------------------------------------------------------------
(* Writing                                                                  *)

Plus(c, a) == [d \in Dims |-> c[d] + a[d]]
Box(dims) == {<<k, j, i>> : k \in 0 .. dims[1] - 1, j \in 0 .. dims[2] - 1, i \in 0 .. dims[3] - 1}
Block(mb) == {Plus(c, mb.offsets) : c \in Box(mb.block_dims)}

\* The layout that H5Block gathers decides the size of the field in the file.
LayoutDims == [d \in Dims |-> CHOOSE m \in {h[r].mb.offsets[d] + h[r].mb.block_dims[d] : r \in Procs} :
                                  \A r \in Procs : h[r].mb.offsets[d] + h[r].mb.block_dims[d] <= m]

\* _H5MultiBlock_write_data up to the gathering of the layout ...
BeginWriteField(r) ==
    /\ Ready(r, "write")
    /\ IF ~h[r].writable \/ ~h[r].mb.have_decomp THEN Return(r, h[r], "error")
       ELSE h' = [h EXCEPT ![r].pc = "gather"]
    /\ Local

\* ... then the group and the data set, with the attribute.  A field is not written twice.
CreateField(r) ==
    /\ h[r].pc = "gather" /\ Entered(r) /\ Call(r).op = "write"
    /\ LET name == Call(r).name
           field == [dims |-> LayoutDims, block |-> h[r].mb.block_dims,
                     data |-> [c \in Box(LayoutDims) |-> <<"fill">>]]
       IN  IF name \in h[r].fields THEN Return(r, h[r], "error") /\ UNCHANGED file
           ELSE /\ h' = [h EXCEPT ![r].pc = "write", ![r].fields = @ \cup {name}]
                /\ file' = IF name \in DOMAIN file THEN file ELSE name :> field @@ file
    /\ UNCHANGED <<program, eager, net>>

\* The caller's buffer holds the elements from the offsets of its block on.
WriteField(r) ==
    /\ h[r].pc = "write"
    /\ LET mb == h[r].mb
           InBuffer(c) == Plus([d \in Dims |-> c[d] - mb.offsets[d]],
                               H5MultiBlock3dGetOffsetsOfProc(r, r))
       IN  file' = [file EXCEPT ![Call(r).name].data =
                       [c \in DOMAIN @ |-> IF c \in Block(mb) THEN InBuffer(c) ELSE @[c]]]
    /\ Return(r, h[r], "ok")
    /\ UNCHANGED <<program, eager, net>>

-----------------------------------------------------------------------------
(* Reading                                                                  *)

Size(mb) == Product(HaloDims(mb.block_dims, mb.halo_radii))

\* malloc, then H5Dread of the block, its elements at the front of the buffer.
BlockRead(mb, data) ==
    [i \in 0 .. Size(mb) - 1 |->
        IF i < Product(mb.block_dims)
        THEN data[CHOOSE c \in Block(mb) :
                      i = Index(mb.block_dims, [d \in Dims |-> c[d] - mb.offsets[d]])]
        ELSE <<"junk">>]

\* Rows are moved in place from the last to the first.
_pad_block(mb, buf) ==
    LET block == mb.block_dims
        Move[m \in 0 .. block[1] * block[2]] ==
            IF m = 0 THEN buf
            ELSE LET b == Move[m - 1]
                     k == block[1] - 1 - ((m - 1) \div block[2])
                     j == block[2] - 1 - ((m - 1) % block[2])
                     shift == RowDst(block, mb.halo_radii, k, j) - RowSrc(block, k, j)
                 IN  [i \in DOMAIN b |->
                         IF i - shift \in RowSrc(block, k, j) .. RowSrc(block, k, j) + block[3] - 1
                         THEN b[i - shift] ELSE b[i]]
    IN  Move[block[1] * block[2]]

\* The halo: within the radius of a side in some dimension.
_zero_block(mb, buf) ==
    LET dims == HaloDims(mb.block_dims, mb.halo_radii)
        inHalo == {Index(dims, c) : c \in {c \in Box(dims) : \E d \in Dims :
                       c[d] < mb.halo_radii[d] \/ c[d] >= dims[d] - mb.halo_radii[d]}}
    IN  [i \in DOMAIN buf |-> IF i \in inHalo THEN <<"zero">> ELSE buf[i]]

\* _H5MultiBlock_read_data up to the gathering of the layout: the dimensions are
\* those of the field in the file.
BeginReadField(r) ==
    /\ Ready(r, "read")
    /\ IF Call(r).name \notin h[r].fields THEN Return(r, h[r], "error")
       ELSE LET field == file[Call(r).name]
                mb == [h[r].mb EXCEPT !.block_dims = field.block, !.field_dims = field.dims]
                s == _get_decomp_and_offsets(r, mb)
            IN  IF s.ret = "error" THEN Return(r, [h[r] EXCEPT !.mb = s.mb], "error")
                ELSE h' = [h EXCEPT ![r].mb = s.mb, ![r].pc = "gather"]
    /\ Local

\* The dimensions that are exchanged, forward and backward.
Phases(mb) == SelectSeq(<<<<1, 1>>, <<1, -1>>, <<2, 1>>, <<2, -1>>, <<3, 1>>, <<3, -1>>>>,
                        LAMBDA p : mb.decomp[p[1]] > 1)

\* ... and from there on: the block is read, padded and its halo zeroed.  When a row
\* overlaps its new place memcpy may leave anything in the block.
ReadBlock(r) ==
    /\ h[r].pc = "gather" /\ Entered(r) /\ Call(r).op = "read"
    /\ LET mb == h[r].mb
           data == BlockRead(mb, file[Call(r).name].data)
       IN  IF ~mb.halo THEN Return(r, [h[r] EXCEPT !.buf = data, !.mb.read = TRUE], "ok")
           ELSE \E junk \in BOOLEAN :
                /\ junk => RowsOverlap(mb.block_dims, mb.halo_radii)
                /\ h' = [h EXCEPT ![r].pc = "halo", ![r].phase = 1,
                           ![r].buf = _zero_block(mb, IF junk THEN [i \in DOMAIN data |-> <<"junk">>]
                                                      ELSE _pad_block(mb, data))]
    /\ Local

-----------------------------------------------------------------------------
(* Halo exchange                                                            *)

\* Whom r sends to and receives from in a phase, <<dimension, direction>>.
Next_(r, p) == r + p[2] * ProcSpacing(h[r].mb.decomp, p[1])
Previous(r, p) == r - p[2] * ProcSpacing(h[r].mb.decomp, p[1])

SameEdge(p) == <<p[1], 1>>   \* slip: the edges are not swapped on the way back

\* The block at the far edge only receives, the one at the near edge only sends.
FarEdge(p) == <<p[1], IF p[2] = 1 THEN 1 ELSE 0>>
NearEdge(p) == <<p[1], IF p[2] = 1 THEN 0 ELSE 1>>
Sends(r, p) == FarEdge(p) \notin h[r].mb.field_edges
Receives(r, p) == FarEdge(p) \in h[r].mb.field_edges \/ NearEdge(p) \notin h[r].mb.field_edges

PhaseOf(r) == Phases(h[r].mb)[h[r].phase]
HaloVector(r) == LET mb == h[r].mb
                 IN  Vector(HaloDims(mb.block_dims, mb.halo_radii), mb.halo_radii, PhaseOf(r)[1])
Exchanging(r) == h[r].pc = "halo" /\ h[r].phase <= Len(Phases(h[r].mb))

\* What a strided vector takes out of a buffer, and puts into one.
Packed(buf, v, off) == [i \in {q - off : q \in Positions(v, off)} |-> buf[off + i]]
Unpacked(buf, message, v, off) ==
    [i \in DOMAIN buf |-> IF i \in Positions(v, off) THEN message[i - off] ELSE buf[i]]

\* MPI aborts the job when a processor asks for one that does not exist.
BeginExchange(r) ==
    /\ Exchanging(r) /\ ~h[r].posted
    /\ LET p == PhaseOf(r)
           v == HaloVector(r)
           message == Packed(h[r].buf, v, SendOffset(v, p[2]))
       IN  IF \/ Sends(r, p) /\ Next_(r, p) \notin Procs
              \/ Receives(r, p) /\ Previous(r, p) \notin Procs
           THEN h' = [h EXCEPT ![r].pc = "aborted"] /\ UNCHANGED net
           ELSE /\ h' = [h EXCEPT ![r].posted = TRUE]
                /\ net' = IF Sends(r, p)
                          THEN [net EXCEPT ![<<r, Next_(r, p)>>] = Append(@, message)] ELSE net
    /\ UNCHANGED <<program, eager, file>>

ReceiveHalo(r) ==
    /\ Exchanging(r) /\ h[r].posted /\ ~h[r].received
    /\ LET p == PhaseOf(r)
           v == HaloVector(r)
           channel == <<Previous(r, p), r>>
       IN  /\ Receives(r, p) /\ net[channel] # << >>
           /\ h' = [h EXCEPT ![r].received = TRUE,
                             ![r].buf = Unpacked(@, Head(net[channel]), v, RecvOffset(v, p[2]))]
           /\ net' = [net EXCEPT ![channel] = Tail(@)]
    /\ UNCHANGED <<program, eager, file>>

EndExchange(r) ==
    /\ Exchanging(r) /\ h[r].posted
    /\ LET p == PhaseOf(r)
       IN  /\ Receives(r, p) => h[r].received
           /\ Sends(r, p) => eager \/ net[<<r, Next_(r, p)>>] = << >>
    /\ h' = [h EXCEPT ![r].phase = @ + 1, ![r].posted = FALSE, ![r].received = FALSE]
    /\ Local

EndReadField(r) ==
    /\ h[r].pc = "halo" /\ h[r].phase > Len(Phases(h[r].mb))
    /\ Return(r, [h[r] EXCEPT !.mb.read = TRUE], "ok")
    /\ Local

\* The file is closed by all and opened to read, with the step set.
Close(r) ==
    /\ Ready(r, "reopen")
    /\ h' = [h EXCEPT ![r].pc = "close"]
    /\ Local

_H5MultiBlock_close(r) ==
    /\ h[r].pc = "close" /\ Entered(r)
    /\ Return(r, [h[r] EXCEPT !.mb = _H5MultiBlock_init, !.writable = FALSE], "ok")
    /\ Local

ProcStep(r) ==
    \/ H5MultiBlock3dDefineDims(r) \/ H5MultiBlock3dDefineRadii(r) \/ H5MultiBlockShiftProcs(r)
    \/ BeginWriteField(r) \/ CreateField(r) \/ WriteField(r)
    \/ BeginReadField(r) \/ ReadBlock(r)
    \/ BeginExchange(r) \/ ReceiveHalo(r) \/ EndExchange(r) \/ EndReadField(r)
    \/ Close(r) \/ _H5MultiBlock_close(r)

Next == \E r \in Procs : ProcStep(r)

\* The processors run on: while one of them can take a step, one of them does.
Spec == Init /\ [][Next]_vars /\ WF_vars(Next)

-----------------------------------------------------------------------------
(* Properties                                                               *)

\* r has just returned from this call.
Returned(r, op) == h[r].pc = "idle" /\ h[r].n > 0 /\ program[h[r].n].op = op

\* What belongs at a place of the padded block: the field there, 0 outside the field.
Expected(r, c) ==
    LET radii == IF h[r].mb.halo THEN h[r].mb.halo_radii ELSE <<0, 0, 0>>
        place == [d \in Dims |-> c[d] - radii[d] + H5MultiBlock3dGetOffsetsOfProc(r, r)[d]]
    IN  IF \A d \in Dims : place[d] \in 0 .. H5MultiBlock3dGetFieldDims(r).dims[d] - 1
        THEN place ELSE <<"zero">>

\* A processor that has read a field holds its block and, within the radii around it,
\* what the blocks of its neighbours hold, corners included, and zeros outside the
\* field.  (Radii up to the dimensions of a block; ranks not shifted; no radius in x
\* only that is smaller than the block, with which a row overlaps its own new place.)
HalosAreNeighbours ==
    \A r \in Procs :
        /\ h[r].pc \notin {"aborted", "crashed"}
        /\ Returned(r, "read") /\ h[r].ret = "ok" =>
               LET block == H5MultiBlock3dGetBlockDims(r).dims
                   dims == IF h[r].mb.halo THEN HaloDims(block, h[r].mb.halo_radii) ELSE block
               IN  \A c \in Box(dims) : h[r].buf[Index(dims, c)] = Expected(r, c)

\* A field that all processors have written has the dimensions that were defined, less
\* a fringe that no block fills, and no place left out, whichever way the blocks were
\* dealt out: as defined when the blocks divide the field.
FieldsAreWhole ==
    (\A r \in Procs : Returned(r, "write") /\ h[r].ret = "ok" /\ h[r].n = h[0].n) =>
        LET field == file[program[h[0].n].name]
            mb == h[0].mb
        IN  /\ field.dims = [d \in Dims |-> mb.field_dims[d] - (mb.field_dims[d] % mb.block_dims[d])]
            /\ \A c \in DOMAIN field.data : field.data[c] = c

\* The exchange never waits for a message that nobody sends, even when MPI buffers
\* nothing: every job ends.
JobEnds == <>(\A r \in Procs : h[r].pc = "idle" /\ h[r].n = Len(program))

\* H5MultiBlock.c on defining dimensions: an error "if block dims do not divide field
\* dims".
FringesAreRefused ==
    \A r \in Procs : (Returned(r, "dims") /\ h[r].ret = "ok") =>
        \A d \in Dims : h[r].mb.field_dims[d] % h[r].mb.block_dims[d] = 0

\* H5MultiBlockReadWrite.c on reading: "Uses the block decomposition specified in the
\* file".  No exchange asks for a processor that is not there.
NeighboursExist == \A r \in Procs : h[r].pc # "aborted"
=============================================================================
