----------------------------- MODULE H5PartFile -----------------------------
(***************************************************************************)
(* Files, steps, data sets and attributes of H5Part                        *)
(* (h5part/src/H5Part.c, H5PartAttrib.c).  A caller opens a file to write, *)
(* append or read, makes any calls in any order and closes it, a number of *)
(* times.  Metadata calls are collective, so one processor stands for all; *)
(* what the processors do differently is in H5PartView and H5BlockFields.  *)
(*                                                                         *)
(* A call that fails may leave HDF5 objects open.  They outlive the file   *)
(* handle, and a file with an open object stays open in the library.       *)
(*                                                                         *)
(* The name of a step group is its step name and number; a step name is a  *)
(* sequence, of which a prefix is a prefix of the name.                    *)
(***************************************************************************)
EXTENDS Integers, FiniteSets, SequencesExt, FiniteSetsExt

CONSTANTS
    StepNames,       \* the names for steps a caller may define
    Default,         \* the one a handle starts with ("Step")
    Steps,           \* numbers of steps
    Sizes,           \* numbers of particles
    MemberNames,     \* names of data sets and "Block", as HDF5 orders them
    AttribNames,     \* names of attributes, in the order of their indices
    Calls,           \* the typed calls the caller uses
    RenamesInSteps,  \* whether a step name is also defined after a step was set
    MaxObjects,      \* bound on the objects in a file
    MaxSessions      \* bound on the times the file is opened

ASSUME FileAssumption ==
    /\ Default \in StepNames
    /\ Steps \subseteq Nat
    /\ Sizes \subseteq Nat \ {0}
    /\ \A name \in StepNames : name \in Seq(ToSet(name))
    /\ RenamesInSteps \in BOOLEAN
    /\ MaxObjects \in Nat /\ MaxSessions \in Nat
\* An order has each name once.
IsOrder(names) == names \in Seq(ToSet(names)) /\ IsInjective(names)
ASSUME OrderAssumption ==
    /\ IsOrder(MemberNames) /\ "Block" \in ToSet(MemberNames)
    /\ IsOrder(AttribNames)

VARIABLES
    disk,     \* the file: its attributes and step groups
    f,        \* the file handle, with its H5Block state
    stray,    \* objects no handle refers to any more, and what the call that left them returned
    held,     \* how stray objects keep a file open that was closed
    sessions  \* how often the file was opened

vars == <<disk, f, stray, held, sessions>>

None == << >>

\* What is at x, in what may have had nothing there.
With(old, x, new) == [y \in DOMAIN old \cup {x} |-> IF y = x THEN new ELSE old[y]]

\* The members of S in the order of names.
InOrder(names, S) ==
    LET UpTo(i) == {k \in 1 .. i : names[k] \in S}
    IN  [n \in 1 .. Cardinality(UpTo(Len(names))) |->
            names[CHOOSE i \in UpTo(Len(names)) : Cardinality(UpTo(i)) = n]]

NoFile == [exists |-> FALSE, attrs |-> << >>, steps |-> << >>]
EmptyFile == [NoFile EXCEPT !.exists = TRUE]
EmptyStep == [data |-> << >>, attrs |-> << >>, fields |-> << >>]

\* H5Block's part of the handle: the step and group of the open "Block" group.
_H5Block_init == [timestep |-> -1, group |-> None, layout |-> FALSE, chunk |-> FALSE]

Handle(mode, timestep) ==
    [mode |-> mode, name |-> Default, timestep |-> timestep, group |-> None, n |-> 0,
     b |-> _H5Block_init]

Init ==
    /\ disk = NoFile
    /\ f = Handle("closed", 0)
    /\ stray = {}
    /\ held = "no"
    /\ sessions = 0

-----------------------------------------------------------------------------
(* Types                                                                    *)

\* HDF5's types, by class and size.
Native == [float64 |-> <<"FLOAT", 8>>, float32 |-> <<"FLOAT", 4>>, int64 |-> <<"INTEGER", 8>>,
           int32 |-> <<"INTEGER", 4>>, char |-> <<"INTEGER", 1>>]

\* A string's size is its length, of a scalar.
_H5Part_make_string_type(size) == <<"STRING", size>>

_H5Part_normalize_h5_type(type) ==
    CASE type[1] = "INTEGER" /\ type[2] = 8 -> "int64"
      [] type[1] = "INTEGER" /\ type[2] = 4 -> "int32"
      [] type[1] = "INTEGER" /\ type[2] = 1 -> "char"
      [] type[1] = "FLOAT" /\ type[2] = 8 -> "float64"
      [] type[1] = "FLOAT" /\ type[2] = 4 -> "float32"
      [] type[1] = "STRING" -> "string"
      [] OTHER -> "error"

\* The typed calls, and what each passes on.
H5PartWriteData == [
    H5PartWriteDataFloat64 |-> "float64", H5PartWriteDataFloat32 |-> "float32",
    H5PartWriteDataInt64 |-> "int64", H5PartWriteDataInt32 |-> "int32"]

Scalar(type) == [type |-> Native[type], n |-> 1]
Text(length) == [type |-> _H5Part_make_string_type(length + 1), n |-> 1]

FileAttribs == [
    H5PartWriteFileAttribFloat64 |-> Scalar("float64"),
    H5PartWriteFileAttribFloat32 |-> Scalar("float32"),
    H5PartWriteFileAttribInt64 |-> Scalar("int64"),
    H5PartWriteFileAttribInt32 |-> Scalar("int32")]

StepAttribs == [
    H5PartWriteStepAttribFloat64 |-> Scalar("float64"),
    H5PartWriteStepAttribFloat32 |-> Scalar("float32"),
    H5PartWriteStepAttribInt64 |-> Scalar("int64"),
    H5PartWriteStepAttribInt32 |-> Scalar("int32")]

H5PartWriteFileAttribString == Text(1)
H5PartWriteStepAttribString == Text(1)
H5PartWriteFileAttrib == [type |-> Native["char"], n |-> 3]
H5PartWriteStepAttrib == [type |-> Native["char"], n |-> 3]

\* What the attribute calls the caller uses write.
Values(typed, name, text, generic, array) ==
    {typed[c] : c \in Calls \cap DOMAIN typed}
    \cup {v \in {text} : name \in Calls} \cup {v \in {array} : generic \in Calls}

-----------------------------------------------------------------------------
(* Names and the members of groups                                          *)

_H5Part_get_step_name(name, step) == <<name, step>>
StepGroup == _H5Part_get_step_name(f.name, f.timestep)

_H5Part_have_group(key) == key \in DOMAIN disk.steps

\* The members of a group in HDF5's order, with their types.
StepMembers(key) ==
    LET step == disk.steps[key]
        type(m) == IF m = "Block" THEN "group" ELSE "dataset"
        names == InOrder(MemberNames, DOMAIN step.data \cup {m \in {"Block"} : step.fields # << >>})
    IN  [i \in DOMAIN names |-> [name |-> names[i], type |-> type(names[i])]]

RootMembers ==
    LET keys == SetToSeq(DOMAIN disk.steps)
    IN  [i \in DOMAIN keys |-> [name |-> keys[i][1], type |-> "group"]]

CountsAll(data, m) ==   \* slip: objects of the other types are counted too
    IF data.done THEN data
    ELSE IF data.named /\ data.stop = data.count THEN [data EXCEPT !.name = m.name, !.done = TRUE]
    ELSE [data EXCEPT !.count = @ + 1]

\* One member: passed over, taken as the one looked for, or counted.
_H5Part_iteration_operator(data, m) ==
    IF data.done \/ (data.type # "unknown" /\ m.type # data.type) THEN data
    ELSE IF data.named /\ data.stop = data.count THEN [data EXCEPT !.name = m.name, !.done = TRUE]
    ELSE IF data.pattern = << >> \/ IsPrefix(data.pattern, m.name)
         THEN [data EXCEPT !.count = @ + 1] ELSE data

Iteration(type, pattern) ==
    [type |-> type, pattern |-> pattern, named |-> FALSE, stop |-> 0, count |-> 0,
     done |-> FALSE, name |-> None]

_H5Part_get_num_objects_matching_pattern(members, type, pattern) ==
    FoldLeft(_H5Part_iteration_operator, Iteration(type, pattern), members).count

_H5Part_get_num_objects(members, type) ==
    _H5Part_get_num_objects_matching_pattern(members, type, << >>)

\* The name of the object with this index; ret is 0 when there is none.
_H5Part_get_object_name(members, type, idx) ==
    LET data == FoldLeft(_H5Part_iteration_operator,
                         [Iteration(type, << >>) EXCEPT !.named = TRUE, !.stop = idx], members)
    IN  [ret |-> IF data.done THEN 1 ELSE 0, name |-> data.name]

H5PartHasStep(step) == _H5Part_have_group(_H5Part_get_step_name(f.name, step))

H5PartGetNumSteps ==
    _H5Part_get_num_objects_matching_pattern(RootMembers, "unknown", f.name)

\* Queries by the name of the current step; -1 stands for an error.
H5PartGetNumDatasets ==
    IF _H5Part_have_group(StepGroup) THEN _H5Part_get_num_objects(StepMembers(StepGroup), "dataset")
    ELSE -1

\* An index out of range is reported to the error handler, and the call succeeds.
H5PartGetDatasetName(idx) ==
    IF f.group = None \/ ~_H5Part_have_group(StepGroup) THEN [ret |-> "error", name |-> None]
    ELSE [ret |-> "ok", name |-> _H5Part_get_object_name(StepMembers(StepGroup), "dataset", idx).name]

H5PartGetDatasetInfo(idx) ==
    IF f.group = None \/ ~_H5Part_have_group(StepGroup) THEN [ret |-> "error"]
    ELSE LET object == _H5Part_get_object_name(StepMembers(StepGroup), "dataset", idx)
         IN  IF object.ret = 0 \/ object.name \notin DOMAIN disk.steps[f.group].data
             THEN [ret |-> "error"]
             ELSE LET dataset == disk.steps[f.group].data[object.name]
                  IN  [ret |-> "ok", name |-> object.name, n |-> dataset.n,
                       type |-> _H5Part_normalize_h5_type(dataset.type)]

-----------------------------------------------------------------------------
(* Calls                                                                    *)

\* A bound: no call leaves objects behind after one has.
Objects == Cardinality(DOMAIN disk.attrs)
    + MapThenSumSet(LAMBDA k : LET s == disk.steps[k]
                               IN  1 + Cardinality(DOMAIN s.data) + Cardinality(DOMAIN s.attrs)
                                   + MapThenSumSet(LAMBDA n : 1 + Cardinality(DOMAIN s.fields[n].attrs),
                                                   DOMAIN s.fields),
                    DOMAIN disk.steps)
Room == Objects < MaxObjects

\* A call returns, having changed the handle and the file and left these objects open.
Return(ret, hf, file, objects) ==
    /\ objects # {} => stray = {}
    /\ f' = hf
    /\ disk' = file
    /\ stray' = stray \cup {[object |-> o, ret |-> ret] : o \in objects}
    /\ UNCHANGED <<held, sessions>>

Refused == Return("error", f, disk, {})

Opened == f.mode # "closed"
Writable == f.mode \in {"write", "append"}

AppendAnew(mode) ==   \* slip: a file that exists is made again, too
    IF mode = "read" THEN IF disk.exists THEN {disk} ELSE {} ELSE {EmptyFile}

\* The file HDF5 opens or makes, if it does.  A file it still holds is not made
\* again, and not opened to write when it is held to be read.
FileFor(mode) ==
    CASE mode = "read"  -> IF disk.exists THEN {disk} ELSE {}
      [] mode = "write" -> IF held = "no" THEN {EmptyFile} ELSE {}
      [] mode = "append" -> IF ~disk.exists THEN {EmptyFile}
                            ELSE IF held # "read" THEN {disk} ELSE {}

\* A handle to append starts in the step behind those there are; NULL if it fails.
_H5Part_open_file(mode) ==
    /\ ~Opened /\ sessions < MaxSessions
    /\ sessions' = sessions + 1
    /\ \/ \E file \in FileFor(mode) :
              /\ disk' = file
              /\ f' = Handle(mode, IF mode # "append" \/ ~disk.exists THEN 0
                                   ELSE _H5Part_get_num_objects_matching_pattern(
                                            RootMembers, "group", Default))
       \/ FileFor(mode) = {} /\ UNCHANGED <<disk, f>>
    /\ UNCHANGED <<stray, held>>

H5PartOpenFile == \E mode \in {"read", "write", "append"} : _H5Part_open_file(mode)

LeftInBlock(hf) == hf   \* slip: close_block is not set, or does not close the group

_H5Block_close(hf) == [hf EXCEPT !.b = _H5Block_init]

\* What a handle has open in the file.
HandleObjects(hf) ==
    {o \in {"step"} : hf.group # None} \cup {o \in {"Block"} : hf.b.group # None}

\* Objects that stay open keep the file open.
H5PartCloseFile ==
    LET open == HandleObjects([_H5Block_close(f) EXCEPT !.group = None])
    IN  /\ Opened
        /\ open # {} => stray = {}
        /\ f' = Handle("closed", 0)
        /\ stray' = stray \cup {[object |-> o, ret |-> "ok"] : o \in open}
        /\ held' = IF stray' = {} THEN "no"
                   ELSE IF Writable \/ held = "write" THEN "write" ELSE "read"
        /\ UNCHANGED <<disk, sessions>>

H5PartDefineStepName ==
    /\ Opened
    /\ RenamesInSteps \/ (f.group = None /\ f.b.group = None)
    /\ \E name \in StepNames : Return("ok", [f EXCEPT !.name = name], disk, {})

\* The group of the old step is closed before the new one is looked for.
Reopened(hf, step) == [hf EXCEPT !.group = None, !.timestep = step]

\* Opens the step, or makes it in a file that is written.
_H5Part_set_step(step) ==
    LET key == _H5Part_get_step_name(f.name, step)
        hf == Reopened(f, step)
    IN  IF _H5Part_have_group(key) THEN [ret |-> "ok", f |-> [hf EXCEPT !.group = key], disk |-> disk]
        ELSE IF Writable
        THEN [ret |-> "ok", f |-> [hf EXCEPT !.group = key],
              disk |-> [disk EXCEPT !.steps = With(@, key, EmptyStep)]]
        ELSE [ret |-> "error", f |-> hf, disk |-> disk]

\* The bound on objects stands for a disk that is large enough.
SetStepTo(step) ==
    /\ Room \/ _H5Part_have_group(_H5Part_get_step_name(f.name, step)) \/ ~Writable
    /\ LET s == _H5Part_set_step(step) IN Return(s.ret, s.f, s.disk, {})

H5PartSetStep == Opened /\ \E step \in Steps : SetStepTo(step)

\* Step 0 is set when there is none.  H5PartGetView and the calls that set a view
\* do the same.
H5PartGetNumParticles == Opened /\ f.group = None /\ SetStepTo(0)

H5PartSetNumParticles ==
    Opened /\ \E n \in Sizes : Return("ok", [f EXCEPT !.n = n], disk, {})

\* A data set that is there is written again; its type stays.  (The caller does
\* that with as many particles as it has.)
_write_data(name, type) ==
    IF name \in DOMAIN disk.steps[f.group].data
    THEN f.n = disk.steps[f.group].data[name].n /\ Return("ok", f, disk, {})
    ELSE /\ Room
         /\ Return("ok", f, [disk EXCEPT !.steps[f.group].data = With(@, name, [type |-> type, n |-> f.n])],
                   {})

WriteData ==
    /\ Opened
    /\ \E call \in Calls \cap DOMAIN H5PartWriteData : \E name \in ToSet(MemberNames) \ {"Block"} :
           IF ~Writable \/ f.group = None \/ f.n = 0 THEN Refused
           ELSE _write_data(name, Native[H5PartWriteData[call]])

\* Sets the step of the handle when none is open; a data set that is not there fails.
_read_data ==
    IF f.group = None THEN SetStepTo(f.timestep)
    ELSE \E name \in ToSet(MemberNames) \ {"Block"} :
            Return(IF name \in DOMAIN disk.steps[f.group].data THEN "ok" ELSE "error", f, disk, {})

ReadData == Opened /\ _read_data

\* The step is set, and seven data sets are read in it.
H5PartReadParticleStep == H5PartSetStep

-----------------------------------------------------------------------------
(* Attributes                                                               *)

\* Attributes are made, never written again.
_H5Part_write_attrib(attrs, name, value) ==
    IF name \in DOMAIN attrs THEN [ret |-> "error", attrs |-> attrs]
    ELSE [ret |-> "ok", attrs |-> With(attrs, name, value)]

Indexed(attrs) == InOrder(AttribNames, DOMAIN attrs)

\* The attribute with this index.
_H5Part_get_attrib_info(attrs, idx) ==
    IF idx >= Len(Indexed(attrs)) THEN [ret |-> "error"]
    ELSE LET name == Indexed(attrs)[idx + 1]
         IN  [ret |-> "ok", name |-> name, n |-> attrs[name].n,
              type |-> _H5Part_normalize_h5_type(attrs[name].type)]

_H5Part_read_attrib(attrs, name) == IF name \in DOMAIN attrs THEN "ok" ELSE "error"

\* "/" is opened for each call, and stays open when the call fails.
LeftOpen(ret, object) == IF ret = "ok" THEN {} ELSE {object}

_H5Part_write_file_attrib(name, value) ==
    LET w == _H5Part_write_attrib(disk.attrs, name, value)
    IN  Return(w.ret, f, [disk EXCEPT !.attrs = w.attrs], LeftOpen(w.ret, "/"))

WriteFileAttrib ==
    /\ Opened
    /\ \E name \in ToSet(AttribNames) :
       \E value \in Values(FileAttribs, "H5PartWriteFileAttribString", H5PartWriteFileAttribString,
                           "H5PartWriteFileAttrib", H5PartWriteFileAttrib) :
           IF ~Writable THEN Refused
           ELSE (Room \/ name \in DOMAIN disk.attrs) /\ _H5Part_write_file_attrib(name, value)

\* The step's group is the handle's: nothing else is open.
_H5Part_write_step_attrib(name, value) ==
    LET w == _H5Part_write_attrib(disk.steps[f.group].attrs, name, value)
    IN  Return(w.ret, f, [disk EXCEPT !.steps[f.group].attrs = w.attrs], {})

WriteStepAttrib ==
    /\ Opened
    /\ \E name \in ToSet(AttribNames) :
       \E value \in Values(StepAttribs, "H5PartWriteStepAttribString", H5PartWriteStepAttribString,
                           "H5PartWriteStepAttrib", H5PartWriteStepAttrib) :
           IF ~Writable \/ f.group = None THEN Refused
           ELSE /\ Room \/ name \in DOMAIN disk.steps[f.group].attrs
                /\ _H5Part_write_step_attrib(name, value)

H5PartGetNumFileAttribs == Cardinality(DOMAIN disk.attrs)
H5PartGetNumStepAttribs == IF f.group = None THEN -1 ELSE Cardinality(DOMAIN disk.steps[f.group].attrs)

Indices == 0 .. Len(AttribNames)

FileAttribInfo(idx) == _H5Part_get_attrib_info(disk.attrs, idx)

H5PartGetFileAttribInfo ==
    /\ Opened
    /\ \E idx \in Indices :
           LET ret == FileAttribInfo(idx).ret
           IN  Return(ret, f, disk, LeftOpen(ret, "/"))

H5PartGetStepAttribInfo(idx) ==
    IF f.group = None THEN [ret |-> "error"]
    ELSE _H5Part_get_attrib_info(disk.steps[f.group].attrs, idx)

H5PartReadFileAttrib ==
    /\ Opened
    /\ \E name \in ToSet(AttribNames) :
           LET ret == _H5Part_read_attrib(disk.attrs, name)
           IN  Return(ret, f, disk, LeftOpen(ret, "/"))

H5PartReadStepAttrib(name) ==
    IF f.group = None THEN "error" ELSE _H5Part_read_attrib(disk.steps[f.group].attrs, name)

FileCall ==
    \/ H5PartOpenFile \/ H5PartCloseFile \/ H5PartDefineStepName \/ H5PartSetStep
    \/ H5PartGetNumParticles \/ H5PartSetNumParticles \/ WriteData \/ ReadData
    \/ H5PartReadParticleStep
    \/ WriteFileAttrib \/ WriteStepAttrib \/ H5PartGetFileAttribInfo \/ H5PartReadFileAttrib
=============================================================================
