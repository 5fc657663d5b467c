---------------------------- MODULE H5BlockFile -----------------------------
(***************************************************************************)
(* Fields in the files of H5PartFile (h5part/src/H5Block.c and             *)
(* H5BlockReadWrite.c): a field is a group in the "Block" group of a step, *)
(* with a data set for each component and attributes of its own.  The      *)
(* handle keeps the "Block" group open from call to call.                  *)
(***************************************************************************)
EXTENDS H5PartFile

CONSTANTS
    FieldNames,       \* names of fields, in HDF5's order
    FieldAttribNames  \* names of their attributes, in the order of their indices

ASSUME FieldAssumption == IsOrder(FieldNames) /\ IsOrder(FieldAttribNames)

-----------------------------------------------------------------------------
(* Typed calls: components and type                                         *)

Field(rank, type) == [rank |-> rank, type |-> type]

Float64Fields == [
    H5Block3dWriteScalarFieldFloat64 |-> Field(1, "float64"),
    H5Block3dReadScalarFieldFloat64 |-> Field(1, "float64"),
    H5Block3dWrite3dVectorFieldFloat64 |-> Field(3, "float64"),
    H5Block3dRead3dVectorFieldFloat64 |-> Field(3, "float64")]
Float32Fields == [
    H5Block3dWriteScalarFieldFloat32 |-> Field(1, "float32"),
    H5Block3dReadScalarFieldFloat32 |-> Field(1, "float32"),
    H5Block3dWrite3dVectorFieldFloat32 |-> Field(3, "float32"),
    H5Block3dRead3dVectorFieldFloat32 |-> Field(3, "float32")]
Int64Fields == [
    H5Block3dWriteScalarFieldInt64 |-> Field(1, "int64"),
    H5Block3dReadScalarFieldInt64 |-> Field(1, "int64"),
    H5Block3dWrite3dVectorFieldInt64 |-> Field(3, "int64"),
    H5Block3dRead3dVectorFieldInt64 |-> Field(3, "int64")]
Int32Fields == [
    H5Block3dWriteScalarFieldInt32 |-> Field(1, "int32"),
    H5Block3dReadScalarFieldInt32 |-> Field(1, "int32"),
    H5Block3dWrite3dVectorFieldInt32 |-> Field(3, "int32"),
    H5Block3dRead3dVectorFieldInt32 |-> Field(3, "int32")]
Both(calls, more) ==
    [c \in DOMAIN calls \cup DOMAIN more |-> IF c \in DOMAIN calls THEN calls[c] ELSE more[c]]
FieldCalls == Both(Both(Float64Fields, Float32Fields), Both(Int64Fields, Int32Fields))

\* Which of them write.
Writes(call) ==
    call \in {"H5Block3dWriteScalarFieldFloat64", "H5Block3dWrite3dVectorFieldFloat64",
              "H5Block3dWriteScalarFieldFloat32", "H5Block3dWrite3dVectorFieldFloat32",
              "H5Block3dWriteScalarFieldInt64", "H5Block3dWrite3dVectorFieldInt64",
              "H5Block3dWriteScalarFieldInt32", "H5Block3dWrite3dVectorFieldInt32"}

\* Attributes of fields: a text is an array of characters here.
H5BlockWriteFieldAttrib == [type |-> Native["int32"], n |-> 2]
H5BlockWriteFieldAttribString == [type |-> Native["char"], n |-> 2]
H5Block3dSetFieldOrigin == [type |-> Native["float64"], n |-> 3]
H5Block3dSetFieldSpacing == [type |-> Native["float64"], n |-> 3]
FieldAttribs == [
    H5BlockWriteFieldAttrib |-> H5BlockWriteFieldAttrib,
    H5BlockWriteFieldAttribString |-> H5BlockWriteFieldAttribString,
    H5Block3dSetFieldOrigin |-> H5Block3dSetFieldOrigin,
    H5Block3dSetFieldSpacing |-> H5Block3dSetFieldSpacing]
OfItsOwn == [H5Block3dSetFieldOrigin |-> "__Origin__", H5Block3dSetFieldSpacing |-> "__Spacing__"]
NamesFor(call) == IF call \in DOMAIN OfItsOwn THEN {OfItsOwn[call]}
                  ELSE ToSet(FieldAttribNames) \ {"__Origin__", "__Spacing__"}

-----------------------------------------------------------------------------
(* The groups                                                               *)

HasBlock(key) == disk.steps[key].fields # << >>
FieldsIn(hf) == disk.steps[hf.b.group].fields

KeepsBlock(hf) ==   \* slip: the group of another step is not closed
    IF hf.b.group # None THEN [ret |-> "ok", f |-> [hf EXCEPT !.b.timestep = hf.timestep]]
    ELSE IF HasBlock(hf.group)
    THEN [ret |-> "ok", f |-> [hf EXCEPT !.b.group = hf.group, !.b.timestep = hf.timestep]]
    ELSE [ret |-> "error", f |-> hf]

\* The open group is kept while the number of the step is the one noted.
_open_block_group(hf) ==
    LET group == IF hf.timestep # hf.b.timestep THEN None ELSE hf.b.group
    IN  IF group # None THEN [ret |-> "ok", f |-> hf]
        ELSE IF HasBlock(hf.group)
        THEN [ret |-> "ok", f |-> [hf EXCEPT !.b.group = hf.group, !.b.timestep = hf.timestep]]
        ELSE [ret |-> "error", f |-> [hf EXCEPT !.b.group = None]]

\* A group that is made is not noted with its step.
_create_block_group(hf) == [ret |-> "ok", f |-> [hf EXCEPT !.b.group = hf.group]]

_H5Block_open_field_group(hf, name) ==
    LET o == _open_block_group(hf)
    IN  IF o.ret = "ok" /\ name \notin DOMAIN FieldsIn(o.f) THEN [o EXCEPT !.ret = "error"] ELSE o

H5BlockHasFieldData == HasBlock(f.group)

\* The fields of the step, by name; what is told of one is looked up in the open group.
FieldMembers ==
    LET names == InOrder(FieldNames, DOMAIN disk.steps[f.group].fields)
    IN  [i \in DOMAIN names |-> [name |-> names[i], type |-> "group"]]

H5BlockGetNumFields ==
    IF HasBlock(f.group) THEN _H5Part_get_num_objects(FieldMembers, "group") ELSE 0

Components(rank) == [i \in 1 .. rank |-> [name |-> i, type |-> "dataset"]]

_get_field_info(name) ==
    LET o == _H5Block_open_field_group(f, name)
    IN  IF o.ret = "error" THEN [ret |-> "error"]
        ELSE LET field == FieldsIn(o.f)[name]
             IN  [ret |-> "ok", name |-> name,
                  rank |-> _H5Part_get_num_objects(Components(field.rank), "dataset"),
                  type |-> _H5Part_normalize_h5_type(field.type)]

\* An index out of range is no error: the call goes on with the name that the caller's
\* buffer holds, and tells what there is of that field.
H5BlockGetFieldInfo(idx, buffer) ==
    LET object == _H5Part_get_object_name(FieldMembers, "group", idx)
    IN  IF ~HasBlock(f.group) THEN [ret |-> "error"]
        ELSE _get_field_info(IF object.ret = 0 THEN buffer ELSE object.name)

-----------------------------------------------------------------------------
(* Calls                                                                    *)

InStep == Opened /\ f.group # None

H5BlockDefine3DFieldLayout == Opened /\ Return("ok", [f EXCEPT !.b.layout = TRUE], disk, {})
H5BlockDefine3DChunkDims == Opened /\ Return("ok", [f EXCEPT !.b.chunk = TRUE], disk, {})

\* _H5Block_create_field_group and the components.
CreateField(name, call) ==
    LET o == IF HasBlock(f.group) THEN _open_block_group(f) ELSE _create_block_group(f)
        field == [rank |-> call.rank, type |-> Native[call.type], chunk |-> f.b.chunk, attrs |-> << >>]
    IN  IF name \in DOMAIN FieldsIn(o.f) THEN Return("error", o.f, disk, {})
        ELSE Room /\ Return("ok", o.f,
                            [disk EXCEPT !.steps[o.f.b.group].fields = With(@, name, field)], {})

H5Block3dWriteField ==
    /\ Opened
    /\ \E call \in Calls \cap DOMAIN FieldCalls : \E name \in ToSet(FieldNames) :
           /\ Writes(call)
           /\ IF ~Writable \/ f.group = None \/ ~f.b.layout THEN Refused
              ELSE CreateField(name, FieldCalls[call])

\* Components a field does not have are found missing with its group open.
H5Block3dReadField ==
    /\ Opened
    /\ \E call \in Calls \cap DOMAIN FieldCalls : \E name \in ToSet(FieldNames) :
           /\ ~Writes(call)
           /\ IF f.group = None \/ ~f.b.layout THEN Refused
              ELSE LET o == _H5Block_open_field_group(f, name)
                   IN  IF o.ret = "error" THEN Return("error", o.f, disk, {})
                       ELSE IF FieldsIn(o.f)[name].rank < FieldCalls[call].rank
                       THEN Return("error", o.f, disk, {"field"})
                       ELSE Return("ok", o.f, disk, {})

\* A call with the group of a field open, which stays open when the call fails:
\* Use is given the field and returns what it returns and the field's attributes.
WithField(name, Use(_)) ==
    LET o == _H5Block_open_field_group(f, name)
    IN  IF o.ret = "error" THEN Return("error", o.f, disk, {})
        ELSE LET u == Use(FieldsIn(o.f)[name])
             IN  Return(u.ret, o.f,
                        [disk EXCEPT !.steps[o.f.b.group].fields[name].attrs = u.attrs],
                        LeftOpen(u.ret, "field"))

WriteFieldAttrib ==
    /\ Opened
    /\ \E call \in Calls \cap DOMAIN FieldAttribs : \E name \in ToSet(FieldNames) :
       \E attr \in NamesFor(call) :
           IF ~Writable \/ f.group = None THEN Refused
           ELSE Room /\ WithField(name, LAMBDA field :
                                      _H5Part_write_attrib(field.attrs, attr, FieldAttribs[call]))

H5BlockGetNumFieldAttribs ==
    /\ InStep
    /\ \E name \in ToSet(FieldNames) :
           WithField(name, LAMBDA field : [ret |-> "ok", attrs |-> field.attrs])

FieldIndexed(attrs) == InOrder(FieldAttribNames, DOMAIN attrs)

H5BlockGetFieldAttribInfo ==
    /\ InStep
    /\ \E name \in ToSet(FieldNames) : \E idx \in 0 .. Len(FieldAttribNames) :
           WithField(name, LAMBDA field :
               [ret |-> IF idx < Len(FieldIndexed(field.attrs)) THEN "ok" ELSE "error",
                attrs |-> field.attrs])

\* H5BlockReadFieldAttrib, and with attributes of their own H5Block3dGetFieldOrigin
\* and H5Block3dGetFieldSpacing.
ReadFieldAttrib ==
    /\ InStep
    /\ \E name \in ToSet(FieldNames) : \E attr \in ToSet(FieldAttribNames) :
           WithField(name, LAMBDA field :
               [ret |-> _H5Part_read_attrib(field.attrs, attr), attrs |-> field.attrs])

\* A field that is not chunked is found out with its group and data set open.
H5BlockGet3DChunkDims ==
    /\ InStep
    /\ \E name \in ToSet(FieldNames) :
           LET o == _H5Block_open_field_group(f, name)
           IN  IF o.ret = "error" THEN Return("error", o.f, disk, {})
               ELSE IF FieldsIn(o.f)[name].chunk THEN Return("ok", o.f, disk, {})
               ELSE Return("error", o.f, disk, {"field", "dataset"})

\* H5BlockGetFieldInfo, with an index in range or the name in the caller's buffer, and
\* H5BlockGetFieldInfoByName as calls: a field that is not there leaves nothing open.
GetFieldInfo ==
    /\ InStep
    /\ \E name \in ToSet(FieldNames) :
           LET o == _H5Block_open_field_group(f, name) IN Return(o.ret, o.f, disk, {})

BlockCall ==
    \/ H5BlockDefine3DFieldLayout \/ H5BlockDefine3DChunkDims
    \/ H5Block3dWriteField \/ H5Block3dReadField \/ WriteFieldAttrib
    \/ H5BlockGetNumFieldAttribs \/ H5BlockGetFieldAttribInfo \/ ReadFieldAttrib
    \/ H5BlockGet3DChunkDims \/ GetFieldInfo

Next == FileCall \/ BlockCall

Spec == Init /\ [][Next]_vars

-----------------------------------------------------------------------------
(* Properties                                                               *)

\* Only a call that returned an error has left an object open: whoever checks what
\* the calls return closes his file.
OnlyFailedCallsLeak == \A s \in stray : s.ret = "error"

\* What is looked up by the name of the current step is looked up in the group the
\* handle has open, and in a file opened to read H5Block works in the "Block" group of
\* that step (of no other it had open before).
QueriesSeeTheStep ==
    (InStep /\ ~RenamesInSteps) =>
        /\ StepGroup = f.group /\ H5PartHasStep(f.timestep)
        /\ H5BlockHasFieldData <=> H5BlockGetNumFields > 0
        /\ f.mode = "read" => LET o == _open_block_group(f)
                              IN  /\ o.ret = "ok" <=> HasBlock(f.group)
                                  /\ o.ret = "ok" => o.f.b.group = f.group

\* Each object of a group is told once, with its type and size, by the indices below the
\* number a caller is told, ...
EachOnce(n, Info(_), objects) ==
    /\ n = Cardinality(objects)
    /\ {Info(idx) : idx \in 0 .. n - 1} = objects

\* ... and the first index past them is an error.
Enumerates(n, Info(_), objects) == EachOnce(n, Info, objects) /\ Info(n).ret = "error"

Infos(attrs) == {[ret |-> "ok", name |-> a, n |-> attrs[a].n,
                  type |-> _H5Part_normalize_h5_type(attrs[a].type)] : a \in DOMAIN attrs}

\* Data sets and attributes are enumerated; so are the fields of files that are read,
\* whatever the caller's buffer holds, but past the last of them the call tells of a
\* field again when the buffer has its name.  The number of steps is the number of
\* groups that have the step name.
EnumerationIsComplete ==
    (InStep /\ ~RenamesInSteps) =>
        LET step == disk.steps[f.group]
        IN  /\ Enumerates(H5PartGetNumDatasets, H5PartGetDatasetInfo,
                   {[ret |-> "ok", name |-> d, n |-> step.data[d].n,
                     type |-> _H5Part_normalize_h5_type(step.data[d].type)] : d \in DOMAIN step.data})
            /\ \A idx \in 0 .. H5PartGetNumDatasets - 1 :
                   H5PartGetDatasetName(idx).name = H5PartGetDatasetInfo(idx).name
            /\ Enumerates(H5PartGetNumStepAttribs, H5PartGetStepAttribInfo, Infos(step.attrs))
            /\ Enumerates(H5PartGetNumFileAttribs, FileAttribInfo, Infos(disk.attrs))
            /\ \A idx \in 0 .. H5PartGetNumStepAttribs - 1 :
                   H5PartReadStepAttrib(H5PartGetStepAttribInfo(idx).name) = "ok"
            /\ f.mode = "read" =>
                   \A buffer \in ToSet(FieldNames) :
                       LET Info(idx) == H5BlockGetFieldInfo(idx, buffer)
                       IN  /\ EachOnce(H5BlockGetNumFields, Info,
                                 {[ret |-> "ok", name |-> n, rank |-> step.fields[n].rank,
                                   type |-> _H5Part_normalize_h5_type(step.fields[n].type)] :
                                     n \in DOMAIN step.fields})
                           /\ Info(H5BlockGetNumFields).ret = "ok" <=> buffer \in DOMAIN step.fields
            /\ H5PartGetNumSteps = Cardinality({key \in DOMAIN disk.steps : key[1] = f.name})

\* What is in a file stays there, with its type and size, unless the file is opened to
\* write anew; a handle that reads changes nothing.
Extends(new, old) == \A x \in DOMAIN old : x \in DOMAIN new /\ new[x] = old[x]
OldDataStays ==
    [][disk' # disk =>
         \/ ~Opened /\ f'.mode = "write"
         \/ /\ f'.mode # "read"
            /\ Extends(disk'.attrs, disk.attrs)
            /\ \A key \in DOMAIN disk.steps :
                   /\ key \in DOMAIN disk'.steps
                   /\ Extends(disk'.steps[key].data, disk.steps[key].data)
                   /\ Extends(disk'.steps[key].attrs, disk.steps[key].attrs)
                   /\ \A n \in DOMAIN disk.steps[key].fields :
                          /\ n \in DOMAIN disk'.steps[key].fields
                          /\ \A c \in {"rank", "type", "chunk"} :
                                 disk'.steps[key].fields[n][c] = disk.steps[key].fields[n][c]
                          /\ Extends(disk'.steps[key].fields[n].attrs,
                                     disk.steps[key].fields[n].attrs)]_vars

=============================================================================
