---------------------------- MODULE MCH5BlockFile ---------------------------
\* Instances of H5BlockFile: two step names, two steps, a data set on either side
\* of "Block" in the order of names.
EXTENDS H5BlockFile

Step == <<"Step">>
Other == <<"Other">>
Names == {Step, Other}
Members == <<"A", "Block", "x">>
Attribs == <<"a">>
Fields == <<"E">>
FieldAttribNames_ == <<"__Origin__", "u">>

\* One call of each kind, of different types.
SomeCalls == {"H5PartWriteDataFloat64", "H5PartWriteStepAttribInt32", "H5PartWriteFileAttribString",
              "H5Block3dWriteScalarFieldFloat32", "H5Block3dRead3dVectorFieldInt64",
              "H5Block3dSetFieldOrigin"}
=============================================================================
