# Verification of tokio-abc

tokio-abc is a set of I/O benchmarks that NERSC runs on its file systems every
day: IOR, HACC-IO, VPIC-IO and BD-CATS-IO (the last two on top of H5Part), with
cron scripts that start them. All of them are MPI programs: what makes them
hard to get right is that many tasks must make the same collective calls in the
same order, must agree on who writes which bytes, and must find again, possibly
in another task or a later run, exactly the bytes that were written.

This directory holds TLA+ modules of the parts where that logic lives, TLC
configurations that check them on small instances, and TLAPS proofs.

## 1. Inventory

| Component | State | Operations | What is hard | Correct when |
|---|---|---|---|---|
| IOR test driver, `ior/src/ior.c` | per task: parameters, `testFileName`, `rankOffset`, open file, transfer buffer, error counters; shared: the files | `TestIoSys` (remove, create, write, close, stat, write check, read, read check, delete; repeated), `WriteOrRead`, `ReadCheck`, `CountErrors`, `CheckFileSize`, `RemoveFile`, `GetTestFileName`, `GetOffsetArray*` | about twenty collectives inside branches that depend on parameters, on local clocks and on errors; who removes a file while others still have it open; three independent computations of whose data is read | all tasks call the same collectives, correct data is never reported as wrong, wrong data is reported to everyone, files are complete when their size is read and gone when the test ends |
| IOR POSIX backend, `aiori-POSIX.c` | a file descriptor, the position, bytes left | create, open, transfer loop with retries, fsync, close, delete, size | short reads and writes, an end of file, a retry count, many tasks on one file | a transfer that returns has moved every byte, retries are bounded |
| IOR S3 backend, `aiori-S3.c` | multi-part upload: upload id, part number, etags per task; EMC extension: byte ranges | create/open, transfer, close, delete, size | parts numbered by each task for a list that rank 0 assembles; who creates and resets the object | the object assembled is the data in order |
| IOR HDF5, MPI-IO, NetCDF, PLFS and HDFS backends, `aiori-*.c` | handles of the libraries; static toggles, the open data set and the suffix of the next one, a file view, a library mode | same table of functions | an offset in a file has to become a data set, a row, a place in a view or a handle's position; what tells two passes apart outlives files and phases | to the driver each is the same store: a transfer moves the cell it was asked for |
| IOR options, `parse_options.c` | the list of tests and its parameter records | command line, script, directives | options of one test carry over to the next | every test runs with the parameters it was given |
| IOR utilities, `utilities.c` | none | regions, hints, time stamps, random numbers | | |
| HACC-IO, `hacc-io/restartio_glean.cc` | a restart file per partition or job; header at its start | `CreateCheckpoint`, `Write`, `Close`, `OpenRestart`, `Read` | the header describes data of all tasks and is written last, by one of them; the reading job may be arranged differently | a restart reads what the last complete checkpoint wrote |
| H5Part data, `h5part/src/H5Part.c` | the file handle: step, number of particles, view (start, end), data spaces, throttle | set step, set number of particles, views, read and write data | views are collective, inclusive, may be unset, and outlive a change of step; throttling passes a token | tasks' views partition the step's particles |
| H5Part files and attributes, `H5Part.c`, `H5PartAttrib.c` | the open group of a step next to the step's number and name; what the file holds | open to read, write, append; close; steps, step names, typed data sets, attributes, queries and enumerations by index | half of the queries go by the open group and half by the name of the step; HDF5 objects are closed only where all went well | the two halves agree, everything is enumerated once, nothing stored is lost, who checks results can close the file |
| H5Block files, `H5Block.c`, `H5BlockReadWrite.c` | the "Block" group kept open from call to call | scalar and vector fields of five types, their attributes, origin, spacing, chunks, queries | the kept group belongs to the step it was opened in | as above |
| H5Block layouts, `H5Block.c`, `H5BlockReadWrite.c` | layout: each task's partition with and without ghost zones | define layout, dissolve ghost zones, get partitions, write and read fields | every task resolves overlaps alone and must reach the others' result | the write partitions do not overlap and cover the field |
| H5MultiBlock, `H5MultiBlock.c`, `H5MultiBlockReadWrite.c` | decomposition (given or computed), block and field dimensions, halo radii, which edges of the field a processor is at | define dimensions and radii, shift processors, write a field in blocks, read it with halos | a halo's corners come from diagonal neighbours by way of others; blocking sends and receives along rows of processors; padding a block in place | every block has its neighbours' layers around it, written fields have no gap, the exchange ends |
| VPIC-IO, `vpic-io/vpicio_uni.c` | particle arrays, one H5Part file | one step, eight variables | no result of H5Part is looked at | every particle is in the file at its place |
| BD-CATS-IO, `bdcats-io/*.cpp` | arrays of particles, their IDs; a random sample packed over them | read a slice or a sample of named data sets or all, write points back | slices with a remainder, computed in several places; a sample packed over the data it comes from | a record is the particle its ID names, in all data sets; no particle is read twice |
| H5Part for Fortran, `H5PartF.c` | none | wrappers | | |
| Cron scripts, `run-*.sh`, `build-*.sh` | environment, output directories | start each benchmark of a list | | |

How they interact. IOR's driver calls a backend through a table of functions
(`create`, `open`, `xfer`, `close`, `delete`, `fsync`, `get_file_size`); all
tasks of `testComm` go through the same phases, held together by MPI
collectives, and meet in the file system (POSIX) or in the object store (S3).
HACC-IO has its own driver and its own file format, and a job meets earlier
jobs only in the files they left. VPIC-IO and BD-CATS-IO call H5Part; H5Part
and H5Block call HDF5, share the file handle and its current step, and close
together. Nothing else is shared: there are no threads and no callbacks.

The hazards that a test would hardly reach are listed with their lines in
`PROJECT.json`. Most fall into five kinds: (1) collectives that do not match
because tasks decide differently, (2) one task's effect on shared storage
overtaking another's step, (3) state that outlives what it was computed for
(a buffer, a view, a group, a data space, a part number), (4) boundaries:
inclusive ranges, empty ranges, remainders, volumes; (5) two ways of finding the
same thing (a group and a name, an offset and a rank, an ID and a place) that
must agree.

## 2. Modules

| Module | Models | State ↔ code | Actions ↔ code |
|---|---|---|---|
| `PosixXfer` | `POSIX_Xfer` | `remaining`, `ptr`, `xferRetries` are the locals of the same names, `pos` the descriptor's position, `buffer` the caller's buffer, `file` and `size` the shared file | `Seek` is the lseek before the loop, `WriteCall`/`ReadCall` one turn of the loop with any return value the kernel may give, `CallFails` an error or an end of file, `StartRead` the barrier between the phases |
| `IorStore` | what a backend promises (abstract) | `content` of the cells, the transfer each task has `pending`, what its last read `delivered` | `Ask`, `Write`, `Read`, `Clear` |
| `IorLayout` | where transfers go: `GetOffsetArraySequential`, the second offset of `ReadCheck` | no state: operators over a test's parameters | |
| `IorTest` | `TestIoSys`, `WriteOrRead`, `CompareBuffers`, `ReadCheck`, `CountErrors`, `CheckFileSize`, `RemoveFile`, `GetTestFileName`, `GetOffsetArraySequential`, `GetOffsetArrayRandom`, `SeedRandGen`, POSIX create/open/stat | `test` is `IOR_param_t`; `st[r]` the locals of task r (`rep`, `rankOffset`, `pairCnt`, `errorFound`, `totalErrorCount`, buffers, descriptors, name; `rng` the place in `random()`, `todo` random offsets left); `calls` the collectives made on each communicator; `dir` and `disk` names and inodes | one action per stretch of code between two collectives or system calls; `Leave...`/`Got...` leave a collective |
| `IorBackends` | create, open, transfer, close, size and delete of the MPI-IO, HDF5, NetCDF, PLFS and HDFS backends in the phases of `TestIoSys` | `st[r]` holds the loop (`rep`, phase, `pairCnt`) and the backend's statics (`firstReadCheck`, `startDataSet`, `newlyOpenedFile`, `dataSetSuffix`, `dataSet`) or the library's mode (`indep`); `disk` the files as the library keeps them | `BeginPhase`, `Open`/`Join` (with the barriers inside the open of PLFS and HDFS), `Call` (what `*_Xfer` sets up before it calls its library), `WriteSome`/`ReadSome` (one library call), `Close`, `GetFileSize`, `Agree`, `Remove` |
| `HaccCheckpoint` | `RestartIO_GLEAN` and `testhacc_io` | `Program` is the straight line every rank follows, `pc[r]` its place in it; `base` is `scan_size`, `count` `m_localParticles`; `files` name → existence, header, data | one action per step: `Create`, `Truncate`, `Scan`, `WriteVar`, `WriteHeader`, `Closed`, `ReadHeader`, `Scatter`, `ReadVar`, `Verify`; `Kill` and `NextJob` are the batch system |
| `S3Upload` | `S3_Create/Open/Xfer/Close/GetFileSize`, `EMC_*` in the phases of `TestIoSys` | `st[r]` holds `UploadId`, `part_number`, the etags; `objects`, `uploads`, `bucket` are the server; `gathered` the messages of `MPI_Gather` | one action per request to the server or collective |
| `H5PartView` | `H5Part.c`: open, close, steps, particle counts, views, canonical views, throttle, read and write | `h[r].f` is `H5PartFile` (`viewstart`, `viewend`, `nparticles`, `shape`, `disk`, `throttle`, `timestep`), `tokens` the throttle's messages, `file` the data sets | one action per call of the interface, a transfer being split into start of the throttle, transfer, end of the throttle |
| `H5PartFile` | `H5Part.c`, `H5PartAttrib.c`: open, close, steps and their names, particle counts, typed data sets, attributes, enumerations | `f` is the handle (mode, step name, `timestep`, open `group`, H5Block's part `b`), `disk` the file, `stray` the HDF5 objects no handle refers to any more, with what the call that left them returned | one action per call of the interface with all its outcomes; queries that change nothing are operators |
| `H5BlockFile` | the fields of `H5Block.c` and `H5BlockReadWrite.c` in such files | `f.b` (step and group of the open "Block" group, layout, chunk) | as above, added to the calls of `H5PartFile` |
| `H5BlockLayout` | `_normalize_partition`, `_volume_of_partition`, `_dissolve_*_ghostzone` | no state: operators | |
| `H5BlockFields` | `H5Block.c` and the scalar read and write of `H5BlockReadWrite.c` | `h[r].b` is `H5BlockStruct` (user and write layout, open group, hyperslabs), `file` fields by step and name | `DefineLayout`, `LayoutGathered`, `H5PartSetStep`, `BeginWriteField`, `WriteField`, `ReadField`, close and open |
| `H5MultiBlockLayout` | `_nth_root_int_divisor`, `CalculateDecomp`, ranks and places, indices in padded blocks, what is sent and received along a dimension | no state: operators | |
| `H5MultiBlock` | `H5MultiBlock.c`, `H5MultiBlockReadWrite.c` | `h[r].mb` is `H5MultiBlockStruct`, `h[r].buf` the block or the padded block, `net` MPI messages, `file` fields | `DefineDims`, `DefineRadii`, `ShiftProcs`, `BeginWriteField`/`CreateField`/`WriteField`, `BeginReadField`/`ReadBlock`, `BeginExchange`/`ReceiveHalo`/`EndExchange` per dimension, close and reopen |
| `VpicIo` | `main` and `create_and_write_synthetic_h5part_data` | `w[p]` how many of its calls process p has behind it, `file` the variables | one action per call |
| `BdCats` | `bdats_h5reader.cpp`, `dbscan_read.cpp`, after a `VpicIo` job | `rd[r]` is the process: `m_data`, `m_class`, IDs, counts, the sample (`seen`, `location`), `out` the file written back | `GetMetadata`, `OpenFile_`, `ReadSegment`, `Draw`, `Sort`, `Pack` (one point), the barrier, close, `init_h5outfile`, `write_dataset`, `close_h5outfile` |
| `RowsAndColumns`, `IorTestInvariant`, `*_proofs` | | lemmas, the invariants of the driver, theorems: section 4 | |

`H5BlockFields` extends `H5BlockLayout`, `H5MultiBlock` extends
`H5MultiBlockLayout`, which extends `H5BlockLayout` (the same partitions); `H5BlockFile` extends `H5PartFile` (one handle, one file,
the calls of both in any order), `BdCats` extends `VpicIo` (it reads the file
that VPIC-IO has written), `IorTest` and `IorBackends` extend `IorLayout`. `IorTest` treats a transfer of its backend as one step on one cell
of a file, which is what `IorStore` says. `PosixXfer` takes such a transfer
apart into the calls of the POSIX backend's loop, and its `ImplementsStore`, a
refinement of `IorStore`, is the licence to put it together again; `IorBackends`
does the same for the other backends, where the question is less the loop than
the way from the driver's offset to the place the library is told. In both, a
cell under a transfer counts as what it was before until the transfer returns.

MPI is modelled the same way everywhere. The n-th collective a task makes on a
communicator is matched with the n-th of every other member. A task may leave a
barrier, an allreduce or an allgather when all have entered, a broadcast or a
scatter when the root has, a reduce or a gather at once unless it is the root.
This is the weakest synchronisation MPI promises, so a model step that needs
more than it cannot happen by accident.

Data are abstracted to what the properties tell apart: who wrote a cell, when,
and for which place. In `IorTest` a transfer is one unit of offset and carries
the task, the stamp and the offset that `FillBuffer` puts into it; in
`HaccCheckpoint` a cell of two bytes carries job, rank, array and index, so an
array misplaced by half an element is seen; in H5Part and H5Block a cell
carries its data set, writer and index, in H5MultiBlock its place in the field,
in VPIC-IO and BD-CATS-IO the variable, the writing process and the index. In
`H5PartFile` and `H5BlockFile` data have a length and a type and no contents
(`H5PartView` and `H5BlockFields` have those): what counts there is which group a
call works in and what it leaves behind. A seed of `random()` in `IorTest` stands
for the numbers that follow it: it is the assignment of offsets to tasks.

## 3. Runs

Passing runs:

| Run | Instance | What it shows |
|---|---|---|
| `posix_xfer` | 2 tasks, transfers of 3 bytes in neighbouring regions, 2 retries, crosswise reading | `WriteIsWhole`, `ReadIsWhole`: however the kernel cuts a transfer, and whatever the neighbour does, nothing is lost or shifted. `ImplementsStore`: to the driver the loop is one step. `Terminates`: calls that move nothing end in an abort |
| `ior_test` | 2 tasks in a world of 3 (plain, faulty and random-offset tests), 3 tasks on 3 nodes (reordered reads, one repetition or two), 83 parameter records | `CollectivesMatch`: no collective meets another one, through all branches. `NoFalseErrors`: checks never blame correct data, whichever task reads whose file with whatever in its buffers, and whichever offsets were dealt to whom. `NeverAborts`, `WrittenByOwner`, `RemovalsAreSafe`: files exist when needed, are whole when measured, hold their owners' data and go only when nobody needs them. `ErrorsReachAll`: one task's error is known to all. `Terminates`: every test ends and leaves no file behind that it was not told to keep |
| `ior_backends` | 2 tasks in a world of 3, 3 tasks with reordered reads, transfers of 2 pieces, 38 parameter records: each backend in the tests it can do, up to 2 segments, 2 transfers per block and 2 repetitions, with views, collective calls, kept files, short calls | `ImplementsStore`: every transfer is one step of the store on the cell the driver asked for. `FilesAreWhole`: at the comparison of sizes every cell is its owner's, so that no truncation came late, and nothing is stored outside the data sets, rows and file of the test. `Ends`: no data set is opened twice, missing or closed too early, no library called in the wrong mode |
| `hacc_checkpoint` | up to 3 jobs one after another, 1 to 3 ranks, 1 or 2 particles, three arrays of 2, 4 and 1 cells, one file or one per rank, a kill at any point | `CompleteWhenClosed`: a file whose `Close` has returned anywhere is complete, although the header is written while others still write. `RestartIsExact`: a job never rejects its own data, and what a killed overwrite leaves mixes old and new but is never misplaced. `OtherShapesRefused`: no job of another shape gets to the data. `JobsEnd` |
| `s3_upload` | 2 or 3 tasks, 2 repetitions, segmented and strided, with and without a deadline: shared uploads, an upload per task whose blocks are one transfer (what `aiori-S3.c` calls supported), byte ranges of shared objects and of one per task | `ReadersFindTheData`: the part numbers each task computes and the list rank 0 makes agree, no reader comes too early, and objects have the size the tests ask for. `NothingRefused`; `JobEnds`, leaving no upload open |
| `h5part_view` | 3 processors, one or two steps, even, uneven and no particles, nine ways of viewing, throttles of 1 and 2, one failing transfer, two values for uninitialised memory | `ViewsPartition`: setting counts and canonical views divide the data set. `DatasetsComplete`, `ReadsTheView`: inclusive, empty and stale views included. `ThrottleHolds`: never more than so many inside one transfer, with tokens of two transfers under way. `CallsReturn` |
| `h5part_file` | one handle, any calls in any order; 2 step names, 2 steps, data sets named before and after "Block", 1 attribute name, 1 field name, up to 4 objects, 2 openings of the file | `OnlyFailedCallsLeak`: an HDF5 object stays open only when the call that opened it returned an error, so who checks results can close the file. `QueriesSeeTheStep`: queries by the name of the step and by its open group agree, and H5Block works in the step that is set. `EnumerationIsComplete`: indices from 0 to the number a caller is told name every data set, attribute and field once; the number itself is refused, but for fields, where the name in the caller's buffer is looked up instead. `OldDataStays`: nothing in a file changes unless it is opened to be written anew |
| `h5block_fields` | 4 processors, grids with and without halos over fields of 5x5x2, 2x5x5 and 7x2x2 places; a second layout, and a read, between two writes; a field of one name in two steps; layouts longer than the field by one place and by two | `GhostzonesDissolved`: reduced partitions tile the field. `WrittenByOwner`: each place is written once, by the processor H5Block names. `ReadsTheField`: a layout inside the field is read by all processors; whoever is told that it has read has the field of the step it is in, in its whole partition |
| `h5multiblock` | 4 processors in squares and rows along each pair of dimensions, blocks of 1 to 2 places a side, radii up to the block, shifted processors, two fields, a field its blocks do not divide, refused calls; MPI with and without buffering | `HalosAreNeighbours`: whatever the interleaving, each block ends with its neighbours' layers and corners around it, zeros outside the field. `FieldsAreWhole`: a field written by all has the dimensions that were defined, less a fringe no block fills, and no place left out. `JobEnds`: the chains of blocking sends and receives never wait for each other in a circle |
| `bdcats` | files of 6 particles by 2 processes; 13 reading jobs of 1 to 4 processes: slices, first percents, samples, with a class or without, all columns, a data set that is not there; every number `rand()` may give; one failing call | `RecordsBelong`: whatever is drawn and however far the packing has come, a record is the particle its ID names in every data set. `EveryPointOnce`: no particle is in two processes' hands; a whole reading has all. `RowsBelong`: in the file written back each row is one particle in all data sets. `JobsEnd` |

Runs that disagree with what the repository says (each with its quotation under
"findings" in `PROJECT.json`):

| Run | Shows |
|---|---|
| `h5part_write_error` | the result of `H5Dwrite` is overwritten before it is looked at; the parallel library reports a failed write as success |
| `h5block_step` | going back to a step after writing fields in another, a field goes to the later step's group |

Ten more configurations are kept beside these. Each violates the one property it names;
`tlc -config <configuration> <module>` shows how.

| Configuration | Module | Shows |
|---|---|---|
| `MCIorReorderedCheck.cfg` | `MCIorTest` | `NoFalseErrors`: with `-C` and `-W` the write check reads the data of a task two nodes on, as USER_GUIDE 594-595 says, and compares it with the checking task's own pattern: the buffers are filled when `rankOffset` is still 0 (`ior.c:2086`) |
| `MCIorKeptWithError.cfg` | `MCIorTest` | `RemovalsAreSafe`: USER_GUIDE 207-208, `keepFileWithError` "ensures that with any error found in data-checking, the error-filled file(s) will not be deleted"; the end of a repetition keeps the file, and the next repetition removes it before it writes (`ior.c:2137-2140`) |
| `MCIorRandomAfterSmaller.cfg` | `MCIorTest` | `WrittenByOwner`: a test with random offsets on a shared file, after one that had fewer tasks: `SeedRandGen` (`ior.c:2643`, "synchronize seeds across tasks") has synchronised the smaller test's tasks only, so tasks deal the offsets differently; some are written twice and some never |
| `MCS3Reset.cfg` | `MCS3Upload` | `NoPutIsLost`: `S3_EMC` on a shared object without `-g`: a slow task's reset to length 0 comes after a fast one's puts. `aiori-S3.c:646-648`: "there should be no races, anyhow" |
| `MCS3Gather.cfg` | `MCS3Upload` | `UploadCompletes`: a shared upload with `-N` below the size of the world: etags are counted over `testComm` and gathered over `MPI_COMM_WORLD`, where rank 0 waits for tasks that are elsewhere. `aiori-S3.c:952-955`: all the parties to the upload provide their etags |
| `MCS3Append.cfg` | `MCS3Upload` | `AppendsFail`: an object per task (`-F`), blocks of two transfers, pure S3. `aiori-S3.c:133`: "N:N fails if 'transfer-size' != 'block-size' (because that requires 'append')", likewise 56-59; 624-629: the files "will be smaller than the amount of data that was written to them". In the code the transfers are parts of the task's own upload (706-745) and are put together when it closes; the test ends with whole objects |
| `MCH5MultiBlockFringe.cfg` | `MCH5MultiBlock` | `FringesAreRefused`: `H5MultiBlock.c:1125`, `H5PART_ERR_INVAL` "if block dims do not divide field dims" (and line 18); the number of blocks is rounded down (128-130) and only compared with the number of processors (174): a field of 5x2x1 in blocks of 2x1x1 is accepted on 4 processors, and 4x2x1 of it are stored |
| `MCH5MultiBlockTwo.cfg` | `MCH5MultiBlock` | `NeighboursExist`: fields with different blocks, both read with halos: `field_edges` is only ever added to (`H5MultiBlock.c:150-158`), so a processor at an edge of the first field treats that side as an edge of the second |
| `MCBdCatsSample.cfg` | `MCBdCats` | `SampleIsUnique`: `bdats_h5reader.cpp:387` promises unique numbers; `seen` is set at the count and not at the number, so numbers come twice |
| `MCBdCatsColumns.cfg` | `MCBdCats` | `AllColumnsRead`: `dbscan_read.cpp:89`, "the reader will read all columns", but the type of each column is never set and comes from the stack |

Bounds, and why they are enough. Two tasks suffice for every race on shared
storage in this code, because no step of it waits for, or is told apart by, a
third; the third is there for what is asymmetric: a task outside `testComm`, a
root with two others of different speed, a ring (`-C`, `-Z`, the throttle) in
which the successor is not the predecessor. Two repetitions or steps are the
fewest in which anything stale can show. Three bytes are the fewest with a first, a middle and
a last call. Four processors are the fewest in a two-dimensional grid, where a
ghost zone at the corner is shared by all. `HaccCheckpoint` uses particle
records of three arrays of different widths instead of nine: the arithmetic of
placing them has one case per width. Two segments of two blocks are the fewest
in which the row, data set or view position of a transfer is not its offset,
and two pieces the fewest that a short call can part. Deadlock is not checked in any run,
because all these systems stop when they are done; that they do not stop
earlier is `Terminates`, `Ends`, `JobsEnd`, `JobEnds` or `CallsReturn`.
(`h5block_fields` has no liveness property: its only waits are the gathering
of the layout and the closing of the file; `h5part_file` has no waits at all.)
In `h5part_file` four objects and two openings let a step, its "Block" group, an
attribute and a data set or field be there at once, be closed, and be found
again by another handle; a second step name is what tells a name from a group.
Four processors are the fewest where H5MultiBlock's corners travel over two
processors, and where a row of processors has both ends and a middle. Six
particles over four processes leave a remainder of 2 for the last; samples of
one, two and three points cover a number drawn twice, drawn in reverse and not
drawn. Random offsets need two tasks and two transfers each: a task may then get
all, none, or some of the offsets.

Fairness. Weak fairness of each task's next step: tasks are sequential programs
the operating system runs, and MPI delivers what was sent. Faults (a spoiled
transfer, a failing call, a kill) have no fairness: they may never happen. The
choice between returning after a short call or at the deadline has none either.
`H5MultiBlock` and `BdCats` have weak fairness of the whole next-state relation:
their jobs are finite, so no process can be kept waiting by others running for
ever; in `BdCats` it says besides that `rand()` does not give refused
numbers for ever (drawing again is no step of the model).

## 4. Proofs

`PosixXfer_proofs` proves the safety properties of `PosixXfer` for any set
of tasks, any transfer size, retry limit and file size, from the named
assumptions of the module: sizes are natural numbers, the tasks' regions are
disjoint and inside the file (what `GetOffsetArraySequential` gives them).
The properties speak of transfers that have returned; what makes them inductive
is the middle of the loop, `IInv`:

- `Accounted`: bytes moved and bytes left always add up to the length;
- `Positioned`: the kernel's position is where the loop believes it to be (it
  sets it only once, before the loop);
- `Moved`: every byte before `ptr` is already in its place, in the file for a
  write, in the buffer for a read, and stays there because regions are disjoint
  (`RegionsDisjoint`);
- `Reaches`: the file is long enough for what has been written, whence no EOF;
- `TriesLeft`: what is left of the retries.

`TypeCorrect`, `WritesWhole`, `ReadsWhole`, `NeverEOF` and `RetriesAreBounded`
follow from `IInv`. `LoopIsOneStep` proves the refinement, `Spec =>
ImplementsStore`: under `IInv`, a `Seek` is the store's `Ask`, the call that
moves the last byte its `Write` or `Read`, and every other step (shorter calls,
failures, the abort, the barrier) leaves `content`, `pending` and `delivered`
as they are.

`RowsAndColumns` proves, of the offsets in `IorLayout`, for any number of
tasks, block and segment sizes: they lie inside the file (`OffsetsInFile`); no two
transfers share a place of a shared file (`OffsetsApart`, from the uniqueness of
division with remainder, `RowColumn`); and the second offset of `ReadCheck`,
computed from the first by shifting and wrapping inside a segment, is the offset
the neighbour's own formula gives (`RereadIsNeighbours`). `OffsetsFitTheLoop` joins
the two modules: in bytes, the regions the driver gives its tasks satisfy
`DisjointAssumption` and `BaseAssumption`, under which the loop was proved. The
file is a table, and the proofs rest on what else that module holds: division with
remainder is unique, products are monotone, bounded sets of numbers have a greatest
element; sums over finite sets of indices, element by element (`SumOn`, `SumOfAdded`);
and ranks, the number of elements below a given one, by which a finite set of numbers
is counted off. The other proofs share these lemmas.

`H5Block_proofs` is first about the layouts of H5Block and H5MultiBlock: one ghost zone of any two partitions of any
size: `SplitDivides` (a dissolve function that changes two overlapping ranges
leaves both non-empty, inside what they were, disjoint, and loses no place),
`NormalizeIsPartition`, `DissolvingKeepsPartitions` (the same of a whole layout:
nobody else's partition changes, the two end disjoint whenever there is a way),
and `FlatFieldsKeepGhostzones` (there is no way if the field is one place
thick, because `_volume_of_partition` leaves out the + 1 of inclusive ends; so
both processors write the zone, against `H5Block.c:556-558`, "garanties, that
there are no ghost-zones left"). That dissolving all zones of
a grid one after the other leaves a tiling is model-checked only: it depends
on the order, and fails for arbitrary overlaps.

`H5Block_proofs` goes on, for any number of processors and any dimensions:
`CalculateDecompIsExact` (the root-and-divisor search always ends with as many
blocks as processors: the root taken is a divisor, and what is left is shared by
exact division), `BlocksCoverField` (rank and place determine each other, so the
blocks of all ranks cover the field), `PaddingLosesNoRow` (rows are moved from
the last to the first; where a row goes, no row begins that is still to be moved).

`BdCats_proofs` proves `RecordsStayTogether`, `Spec => []RecordsBelong`, for any
number of writers and readers, any file, any jobs and any numbers drawn. The
inductive invariant `IInv` has one conjunct per phase of a process (`AtStart`,
`AtOpen`, `AtRead`, `AtDraw`, `AtSort`, `AtPack`, `AtEnd`), saying which arrays
hold which part of the process's slice, and `FileIsMade` for the VPIC-IO job
before it. The hard phase is the packing: point k is copied from
`location[k]` to k over data that may still be needed. It is not, because
`SortedIsAbove`: in the sorted sample the number at place k is at least k. And
that holds for a reason nobody wrote down: a number is refused when `seen` is set
there, `seen` is set for the places already filled, so the number drawn for place
k is at least k before sorting, and sorting cannot change that (by counting: if
the number at place k were below k, k + 1 of the numbers would be, but only those
drawn for the k places before k can). So the
loop that fails to draw unique numbers draws just those that make the packing
safe. `IInv` assumes at most one class among the data sets (`JobsAssumption`).

It also proves `PointsAreShared`, `Spec => []EveryPointOnce`. Two facts
about the division carry it: slices are disjoint (`SlicesApart`) and together are the
file (`SlicesCover`: a place behind the last multiple of the share is the last
process's, any other the process's whose number the division gives). `SlicesInv` adds
to `IInv` what a process knows of its slice at each stage: that all found the same
number of particles, that the sample is drawn from no more points than the slice
has, and that the IDs given so far are in the slice. It needs no assumption
on the types of the data sets: an array read wrongly still has the right IDs.

`RowsAreParticles`, `Spec => []RowsBelong`, is about what a program writes back with any
sequence of calls. `BackInv` adds three things. `FileIsRight`: until a call of VPIC-IO fails,
the particles of a process that is past a variable are in the file (`PutIn`). `Paced`: the
number of collective calls a process has behind it says where it is (`Key`, `After`), and
nobody is more than one ahead; so while one process writes a data set all others are at the
same call or just behind it (`OthersAtCall`). `OutIsRight`: a data set that is there has
the rows of everybody who is not about to write them (`SetIsRight`), and nothing is there
while somebody still reads. A process's rows start at a sum over the lower ranks, so rows of
two processes are apart and together are all rows (`RowsOfRanks`, by the lemmas on sums).
`BackAssumption` says that a program writes only what it has read, and a class as a class.

`S3Upload_proofs` proves `ReadersFindTheData` and `NothingRefused` for any number of
tasks, segments, transfers and repetitions, objects per task of several transfers (see
`MCS3Append.cfg`) included. What has to be shown is that nobody reads,
completes or creates an object another task is not done with, and there is no barrier
that says so everywhere; the argument counts. `Paced`: `calls` is a function of the
repetition and the place in the program (`Entered`), and a task that has left a
collective knows that all others have entered it; so the places any two tasks can be
in together follow from two numbers (`Ahead`). On that rest `Amounts` and `Gathering`
(how many parts each has put and sent), `UploadIsShared`, `PartsAreCells` (a part's
number names one task and one transfer, by `RowColumn`), and `Assembled`, `OwnParts`,
`Ranges` (what an object holds when rank 0, its owner, or everybody has put it
together). The counts of etags agree because every task tallies the largest number
anyone has put (`GreatestIs`). The theorems assume `BarriersGuardBytes`: tests that put byte
ranges into a shared object have the barrier between create and the first put
(`-g`). Without it the statement is false, as `MCS3Reset.cfg` shows; with it `NoPutIsLost` holds too (`BarrierSavesPuts`).

`HaccCheckpoint_proofs` proves the three invariants of `HaccCheckpoint` for any record,
any plan of jobs of any shapes, any number of ranks and particles and a kill anywhere.
`IInv` says in which order ranks may be (`Gates`: nobody is past a barrier another has
not reached), that every rank's base is its rank times the particles of one
(`Bases`, a prefix sum of equal counts), what is in the file so far (`Wrote`,
`InPlace`), that a header is a true description of some job that had the file
(`HeadersAre`) and of the last complete one (`SoundIs`), and what a restarted rank has in
memory (`Restarts`). The heart is that the places of the variables are apart
(`SpotsApart`: two cells of different ranks or variables never share a place, by
the sums of the widths before them), for which the lemmas on sums are there: that a
write of one variable by one rank leaves every other rank's alone is what lets a header
be written while others still write, and what makes a mixture of two killed jobs' data
never misplaced.

`IorTest_proofs` is about the driver, `TestIoSys`, for any number of tasks, any
set of tests and of parameters, and any interleaving and failures. `CallsMatch`: the
n-th call on a communicator is the same call with all its members, and on
`MPI_COMM_WORLD` too. `ErrorsAreKnown`: an error any task's check has found is in the
total all tasks have when the test is over. Tasks read parameters, clocks and phases
by themselves; what makes them agree is in no one place of the code, so `IInv` says
it by counting:

- `Recorded`: the calls a task has made are a prefix of one script, the calls of a
  repetition one after the other. `Place(r)` tells how many of them are behind a task,
  from its phase and the step in it, and `Script(i)` the i-th;
- `Aligned`: tasks in one repetition have begun it after equally many calls, and a task is
  at most one repetition ahead, and then the other has only the end of its own left;
- `Synced`: who has left a call has left no later than those it depends on have
  entered (all for a barrier or an allreduce, the root for a broadcast);
- `Agree`: tasks with the same number of calls behind them know the same totals, which
  is what the branches that lead to further calls depend on;
- `Evidence`: an error found is still in a task's own count, or in the total of the root,
  or, after the broadcast, in everybody's; `Fresh`: counts are reset only when counted;
- `Bystander`, `WorldRecorded` and `AllEnd`: tasks outside `testComm` make no call of the test
  and all meet at the barrier of `MPI_COMM_WORLD` behind it.

`FilesAreTheirOwners` is about what the write phase leaves: `WrittenByOwner`, the sizes
that agree, the places each with the signature of its task. Nothing it says is about a
moment while somebody writes, so its invariant `FInv`, kept under `IInv`, is about just
that:

- `Whole`: what is not in a file yet is a transfer some task has still before it (`Owes`),
  and `NobodyWrites`, from the counting above, says that when a task looks there is none;
- `Signed`: what is in a file is of the task whose place it is, since tasks write at
  their own offsets (`OffsetsApart`) and sign with their own numbers (`Buffers`);
- `HasFile` and `Directory`: an open file is the one the name stands for, though files are
  removed and made anew; `Counts`: transfers made; `Names`: whose file a task has.

It is for tests with offsets in order. A test that reorders its reads must store
offsets in its signatures (`-l o`) or have one repetition: otherwise the
second repetition writes the buffer that the reads of the first have filled with other
tasks' data, and the statement is false. `SignsItsOwn` says so.

`RemovalsKeepWhatIsNeeded` is the action property `RemovalsAreSafe`. `RInv` carries it:
`OpenSteps` are the steps at which a task has a file open (`Shuts`), `Inodes` says that
descriptors and names stand for files there are, `Noted` that an error found in this
repetition is in somebody's count or already in everybody's `errorFound`. The two
handlers that remove files run when every task is at steps outside `OpenSteps`. It
assumes one repetition if errors are to be kept, the configuration above shows why.

`JobsGoOn` is about `NeverAborts`. What can end a job that was not asked to quit on errors
is a file: one that is opened, measured or compared with and is not there, one that is
shorter than what is read from it, and with striping one that is there before it is made. `FInv` has the lengths;
`AInv` adds who needs which file when:

- `Provided`: the files a task has yet to read or to find are there. In a test that writes,
  these are those of its own repetition, from the moment it has written (by `Whole`,
  all tasks have); in a test that only reads, those of all repetitions to come (`Needs`);
- `Compares`: the file a read check compares with is one there is;
- `Cleared`: with striping, between the removal of the old file and the creation of the
  new one there is none.

A file goes away only where the two handlers that remove files run, and there nobody is
who needs it, again by counting calls. The hypotheses are `Sequential` (no random offsets and no
stonewalling, whose transfers may be fewer than the reads expect) and `Supplied`: a
test of several repetitions that only reads must keep its files, since it
removes them at the end of the first; with a file per repetition (`-m`) that condition is
stronger than needed.

TLC has checked `IInv`, `FInv`, `RInv` and `AInv` on the instance of the run `ior_test` before they were proved. The
theorems assume `TasksDecideAlike`: no time limit, because each task compares its own clock with
it (`ior.c:1977`), and all tasks in a test that draws random offsets, because their
histogram is gathered on `MPI_COMM_WORLD` (`ior.c:1934`). Both are real conditions on the use of
the program; a test of one task satisfies the first with a limit too, and the run has one.

The last part of `H5Block_proofs` takes one handle of H5Part and H5Block and any calls in any order,
with any names, types, steps and numbers of objects. `LeaksAreReported`: each call leaves nothing open unless it returns an error (`Fine` says what all calls have in
common; one lemma per call). `FilesOnlyGrow`, `Spec => OldDataStays`: no call but opening to
write anew loses or changes anything. `QueriesSeeTheGroup`: `Linked` ties the numbers a
handle keeps (step, H5Block's own step) to the groups it has open, through renumbered
steps, failed calls and reopening. `EverythingIsEnumerated`: the iterations count members
through a fold over the group in the order of names (`InOrderIs`, `FoldIs`, `CountIs`),
and index i tells the i-th that is of the wanted kind (`NameIs`, by the lemmas on ranks in
`RowsAndColumns`), each of them once. It assumes `NamesApart` (no step name
begins like another), without which `H5PartGetNumSteps` counts too many (section 5).

`H5PartView_proofs` is about parallel H5Part files, for any number of processors, any
program of calls, and any pace at which each processor makes them; `ViewsArePartitions`,
`ReadsAreOfTheView`, `TransfersAreThrottled` and `WrittenSetsAreComplete` are the four
safety properties of the run `h5part_view`. Handles are private, the program is common. So the
inductive invariant says what a handle is by a sequence t: t[k] is what the handles of
all processors have in common after k calls (mode, step, shape, throttle factor, the
counts last set and still in force, and how many transfers began under each factor).

- `Course`, `Matches`: t[k + 1] is call k + 1 applied to t[k], and the handle of r agrees
  with t at the number of calls r has made. t is not a variable: it exists, as long as the
  fastest processor needs it (`Extend`), and stays when others catch up, because
  nobody adds a step or a data set once somebody reads (`Closed`, `Sources`, `CourseStays`);
- `Bounds`, `Owns`, `Divided`: bounds and data space of a view agree in size; counts in
  force make r's data space its own range (`StartIs`, `StartsCover`, sums over
  `RowsAndColumns`), canonical views make it its share;
- `Turns`: for b = a + d, the transfers b has begun under factor d and the tokens from a to b
  that nobody has used are together no more than the transfers a has finished. Down a chain
  a, a + d, a + 2d, ... nobody can be inside the same transfer twice
  (`TurnsDownTheChain`, `NotInOneChain`), and there are d chains. Tokens of earlier calls and of
  other factors may be under way, which is why turns are counted by factor;
- `ReadIsRight`: what r has read is the view of the data set, and still is;
- `AskedFor`, `Authored`: each data set was made by one call of the program, has the size the counts
  of that call add up to, and holds the cells of every processor that is past it, each in its range.

TLC has checked `IInv` on the programs of `h5part_view` and on others that keep none of the
conditions below. `ViewsArePartitions` has no condition. Reading a data set that
another processor may still be writing has no outcome to promise, and may fail for one and
not for the next, so `ReadsAreOfTheView` and `TransfersAreThrottled` assume `ReadsWhatIsClosed`
(a read comes after a reopen). `WrittenSetsAreComplete` assumes `WritesOnce`: the counts are
set last before a write, steps are asked for before they are written to, no data set is
written twice. Programs of the run do all that, but for those that break it on purpose.

Out of the prover's reach and left to TLC: liveness and fairness. Sums and folds are
within it only where the set is finite and taken apart element by element, because the
library's induction theorems take operators; each lemma about them is proved with its
property written out, by the least number that would refute it (`Least` in
`RowsAndColumns`). Only
model-checked so far, though in reach: of `IorTest` `NoFalseErrors`, and `NeverAborts`
and `WrittenByOwner` with random offsets or stonewalling; `FilesAreWhole` of `IorBackends`; of `H5BlockFields` and `H5MultiBlock`
only the layouts are proved about.

## 5. Observations that no run states

Met while modelling; nothing in the repository contradicts them in words, or
they lie outside the bounds of the runs.

- `ior.c:1934` and `1936` gather the histogram of `-Z` over `MPI_COMM_WORLD`,
  inside a test that may have fewer tasks; the runs with `-Z` have all tasks.
- Tests that a backend cannot do are left out of `ior_backends`:
  - HDF5 with `-F -C -R`: the second read of the read check is given the other
    file (`fd_fppReadCheck`), but `HDF5_Xfer` reads from the data set that is
    open, which is the first file's (`SetupDataSet` is not called in the second
    pass), so a task compares data with itself against another file's owner.
  - NetCDF with `-C` or `-Z`: the row is computed from `rank`
    (`aiori-NCMPI.c:272`), not from the rank it pretends to be, so that tasks
    read their own data back, which `USER_GUIDE` 592-600 says `-C` avoids; and
    with `-R` the toggle is turned once per phase only (its second turn needs
    the second pass to be at the task's first offset), so that a second
    repetition does not enter independent mode.
  - MPI-IO with `-V -C -R` on a shared file: the second offset lies outside the
    task's view, and `SeekOffset` maps it to a wrong or negative place.
  - PLFS with short reads: `plfs_read` is called at `param->offset` again
    (`aiori-PLFS.c:298`), although the message before it names
    `param->offset + length - remaining`.
  - HDFS with shared files: reads and writes go where the handle is, whatever
    the offset. HDFS files are never removed (`ior.c:1366`, "BUG: access()
    assumes a POSIX filesystem").
  - A test that asks for no reading phase opens write-only
    (`parse_options.c:115-131`), a write check (`-w -W`) included: it cannot
    read under MPI-IO, and under PLFS its open truncates the file first. PLFS and HDFS refuse to write
    and read in one test.
- `MPIIO_GetFileSize` opens on `testComm` also when each task has a file of its
  own, that is, collectively with different names.
- `S3_Xfer` and `EMC_Xfer` (`aiori-S3.c:889`) do not return the value they
  compute. The model returns the transfer size, the outcome that lets a test
  go on.
- `restartio_glean.cc:138` sizes the header for two words per rank of the
  largest machine, but the tables start 16 words into it (line 179).
- `H5Part.c`: with fewer particles than processors every canonical view is
  (0, -1), which means the whole data set; the comment at 3048-3062 admits only
  to a lost remainder, so `ViewsPartition` demands nothing there. `SetNumParticles(0)`
  on processor 0 leaves the same pair, "no view". A view that survives a change
  of step is compared with the new data set by its count only.
- `H5Part.c`: a read that fails under a throttle returns before it has passed
  its token on; those behind it wait for ever. `CallsReturn` excepts exactly
  this (`held`).
- `H5Part.c`: `pnparticles` is summed before it is first filled in, so each
  processor may see another total; the runs let it be any member of `Garbage`.
- `H5Block.c:627`: `p_max` points to a list element that may have been freed.
  With grids this is not reached; with three partitions that overlap
  strongly (for instance [0,2]x[0,2], [0,3]x[1,4], [1,3]x[0,3]) it is. The model
  goes to `pc = "crashed"` there.
- `H5Block.c:1118-1120`: the last places of all processors' partitions are compared with
  the sizes of the field, so that a layout one place too long goes through; HDF5 then
  refuses the processors whose own partition is not inside, while the others read. A layout
  longer than that is refused on every processor alike. Both are in `h5block_fields`.
- `H5MultiBlock.c:295`: `memcpy` moves a row over itself when the radius is in x only and
  smaller than the block. The model lets the block become anything then; the run leaves such
  radii out, so `HalosAreNeighbours` does not speak of them. The getters of field and block
  dimensions (1175, 1205) give those of a later `H5MultiBlock3dDefineDims`, not of the last
  field read, when that call came after the read.
- `aiori-S3.c:1094-1100` says that a rank writes "every P-th part" of a strided object, P
  being the parts of a rank as in the lines before; the code strides by the number of tasks
  (743 and 1125). The mutant `PartNumberAsCommented` follows the comment: the server
  refuses its list. Segments of one transfer each in an object per task are appends too,
  though block and transfer size are equal; `s3_upload` has them.
- `ior.c:493` and `2729`: errors are added to the total in `CountErrors` and again by its
  caller. `ErrorsReachAll` claims that the total is not 0 for anybody, not how large it is.
- `ior.c`, random offsets: a write check without a write (`-W -z` on a kept file)
  deals the offsets by the seed -1 (line 226), not by the one they were written
  with. From the second repetition on a task writes what it last read, that is,
  other tasks' data; its write check, against the same buffer, is content.
- `ior.c:2227`: with `-Z` each task seeds `random()` by its rank; this is harmless
  for random offsets only because the two go together with a file per task only.
- `H5Part.c`, files: calls that fail half way leave groups, data sets and
  attributes open, after which `H5Fclose` keeps the file open; `OnlyFailedCallsLeak`
  demands no more than that calls that succeed leave none.
- `H5PartDefineStepName` after `H5PartSetStep` changes the name that half of the
  queries use, but not the open group; `h5part_file` makes it before steps are set
  (`RenamesInSteps = FALSE`).
- `H5PartSetStep`: line 2026-2029 says that stepping to an existing step is not
  allowed when writing; the code opens it. `H5PartGetNumParticles` sets step 0 when
  none is set. `H5PartGetNumSteps` counts every group whose name starts with the
  step name: with the names "Step" and "Step2" it counts both.
- `H5PartGetDatasetName` with an index past the end falls off its end
  (`H5Part.c:2468`): what it returns is left over. `H5BlockGetFieldInfo` with such an
  index goes on with the name the caller's buffer held. `H5PartGetView` without a view
  (`H5Part.c:3028-3043`) returns a start and an end, where lines 2994-2995 promise -1.
- `H5MultiBlock.c:1146`: dimensions that are refused leave `have_decomp` set from an
  earlier call, with the new dimensions already stored.
- BD-CATS-IO: a sample's numbers are taken modulo the size of the sample, so points
  beyond that are never drawn. `qcompare` cuts differences to int; slices
  are taken to be shorter than 2^31. The percentage is computed exactly in the model and in
  floating point in the code. A class that is not the last data set makes a later
  column write past `m_data`: `ReadSegment` ends the job there, as one outcome of memory
  overwritten. In `dbscan_read.cpp` the option `f` falls through to the next case.
- VPIC-IO looks at no result: with a file that could not be opened it makes all
  its calls, and ends as if it had written.
- `restartio_glean.cc:1266` drops the results of writes, and line 561 repeats a
  write that moves nothing for ever; `HaccCheckpoint` has no failing writes.

## 6. Not modelled, and why

The libraries under the backends are external and modelled by what the code
relies on: a failed call exits, MPI-IO and NetCDF transfers are whole, PLFS and
HDFS may move part of what is asked. Their file sizes are counts of stored
pieces (headers and unwritten rows left out). Strided data types (`-S`), shared
file pointers (not implemented in the code), one data set per task (refused by
`ValidateTests`), preallocation and fsync are left out. Formatting, statistics, time stamps, hints and
option strings carry no protocol. The Fortran interface converts arguments and makes one call each. In the
modelled parts: stonewalling compares a clock with a deadline, which becomes a
choice; NUMA and memory limits, and interleaved performance output are left out;
MPI-IO in HACC-IO makes the same accesses as POSIX and is not distinguished, the
Blue Gene layout of partitions is not modelled. In H5Part, property lists
(alignment, chunks, drivers), builds without MPI, strided memory, external links
and truncated names are left out; in H5MultiBlock, the exchange by packed buffers,
which no build selects. The chain of tests (`parse_options.c`, `CreateTest`) is
left out: a test of `IorTest` is told by a parameter how many tasks an earlier one
had, which is all that one test leaves to the next besides files. The cron and
build scripts set variables and start programs one after another.

## 7. Plan

Done, in this order, the most important behaviour first: `PosixXfer` and its
proofs; `IorTest`; `HaccCheckpoint`; `S3Upload`; `H5PartView`;
`H5BlockLayout`, `H5BlockFields` and the proofs about one ghost zone;
`IorStore` with `PosixXfer` proved, and `IorBackends` checked, to implement it;
`IorLayout` and the proofs about offsets; `H5MultiBlockLayout` with its proofs and
`H5MultiBlock`; `H5PartFile` and `H5BlockFile`; `VpicIo`, `BdCats` and the proof
that records stay together; random offsets in `IorTest`; the proof that points
are shared; the lemmas on sums and ranks; the proofs about `S3Upload`, `HaccCheckpoint`
and `H5BlockFile`; that offsets fit the loop; that rows written back are particles; that the collectives of
`IorTest` match and errors reach all; the invariants of `H5PartView`; that files are
their owners' and are removed only when nobody needs them; that jobs go on.

Next:

1. The invariants of `H5BlockFields` and `H5MultiBlock`, on top of the lemmas about their
   layouts: who wrote a place, that halos are the neighbours' rows.
2. `NoFalseErrors` of `IorTest`, on top of `FInv`; `NeverAborts` and `WrittenByOwner` with random offsets.
3. `FilesAreWhole` of `IorBackends`.
4. Random offsets in `IorBackends` (MPI-IO without views, PLFS), and the chain of
   tests, should a second thing be found that a test leaves behind.
