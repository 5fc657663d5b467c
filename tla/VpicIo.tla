------------------------------- MODULE VpicIo -------------------------------
(***************************************************************************)
(* VPIC-IO (vpic-io/vpicio_uni.c): every process writes numparticles       *)
(* particles, eight variables each, into step 0 of one H5Part file.        *)
(*                                                                         *)
(* A process is as many calls into main as w says.  H5Part is the one of   *)
(* H5PartView, which shows that a data set holds the particles of all      *)
(* processes in the order of their ranks: here a write puts a process's    *)
(* particles at that place.  Barriers, the opening and closing of the file *)
(* and H5PartSetNumParticles make processes wait for each other; nothing   *)
(* that H5Part returns is looked at.                                       *)
(***************************************************************************)
EXTENDS Integers, Sequences, FiniteSets

CONSTANTS
    num_procs,
    Counts,      \* the numbers of particles per process a job may be asked for
    MaxFaults    \* calls of HDF5 that may still fail

ASSUME VpicAssumption ==
    num_procs \in Nat \ {0} /\ Counts \subseteq Nat \ {0} /\ MaxFaults \in Nat

VARIABLES
    numparticles,
    w,       \* the calls each process has behind it
    file,    \* .opened: "yet", "yes" or "no"; .sets: variable -> particles from 0
    faults

vpic_vars == <<numparticles, w, file>>

Writers == 0 .. num_procs - 1
Total == num_procs * numparticles

\* main and create_and_write_synthetic_h5part_data
Variables == <<"x", "y", "z", "id1", "id2", "px", "py", "pz">>
Calls == <<"barrier", "open", "attrib", "barrier", "step", "num",
           "x", "y", "z", "id1", "id2", "px", "py", "pz", "barrier", "close", "barrier">>
IsVariable(call) == \E v \in DOMAIN Variables : Variables[v] = call

\* init_particles: particle i of process p, as it appears in a variable.
Particle(name, p, i) == <<name, p, i>>
Hole == <<"hole", 0, 0>>

InitVpic ==
    /\ numparticles \in Counts
    /\ w = [p \in Writers |-> 0]
    /\ file = [opened |-> "yet", origin |-> FALSE, step |-> FALSE, sets |-> << >>]
    /\ faults = MaxFaults

In(p, call) == w[p] < Len(Calls) /\ Calls[w[p] + 1] = call
Done(p) == w' = [w EXCEPT ![p] = @ + 1] /\ UNCHANGED numparticles
Together(p) == \A q \in Writers : w[q] >= w[p]
WritersDone == \A p \in Writers : w[p] = Len(Calls)

Barrier(p) ==
    /\ In(p, "barrier") /\ Together(p)
    /\ Done(p) /\ UNCHANGED <<file, faults>>

\* The file is created for all processes or for none.
OpenFile(p) ==
    /\ In(p, "open") /\ Together(p)
    /\ \/ file.opened \in {"yet", "yes"} /\ file' = [file EXCEPT !.opened = "yes"] /\ UNCHANGED faults
       \/ /\ file.opened = "no" \/ (file.opened = "yet" /\ faults > 0)
          /\ file' = [file EXCEPT !.opened = "no"]
          /\ faults' = IF file.opened = "yet" THEN faults - 1 ELSE faults
    /\ Done(p)

\* Without a file every call of H5Part returns at once.
WriteFileAttribString(p) ==
    /\ In(p, "attrib")
    /\ file' = IF file.opened = "yes" THEN [file EXCEPT !.origin = TRUE] ELSE file
    /\ Done(p) /\ UNCHANGED faults

SetStep(p) ==
    /\ In(p, "step")
    /\ file' = IF file.opened = "yes" THEN [file EXCEPT !.step = TRUE] ELSE file
    /\ Done(p) /\ UNCHANGED faults

SetNumParticles(p) ==
    /\ In(p, "num") /\ (file.opened = "yes" => Together(p))
    /\ Done(p) /\ UNCHANGED <<file, faults>>

\* The first process there creates the data set.
Created(name) ==
    IF name \in DOMAIN file.sets THEN file.sets
    ELSE [v \in DOMAIN file.sets \cup {name} |->
            IF v = name THEN [i \in 0 .. Total - 1 |-> Hole] ELSE file.sets[v]]

\* H5Part puts process p behind the particles of those before it.
Put(rows, name, p) ==
    [g \in DOMAIN rows |-> IF g \div numparticles = p THEN Particle(name, p, g % numparticles)
                           ELSE rows[g]]

WriteVariable(p) ==
    /\ w[p] < Len(Calls) /\ IsVariable(Calls[w[p] + 1])
    /\ LET name == Calls[w[p] + 1]
           created == [file EXCEPT !.sets = Created(name)]
       IN  \/ file.opened = "no" /\ UNCHANGED <<file, faults>>
           \/ /\ file.opened = "yes"
              /\ file' = [created EXCEPT !.sets[name] = Put(@, name, p)]
              /\ UNCHANGED faults
           \/ /\ file.opened = "yes" /\ faults > 0
              /\ file' = created /\ faults' = faults - 1
    /\ Done(p)

CloseFile(p) ==
    /\ In(p, "close") /\ (file.opened = "yes" => Together(p))
    /\ Done(p) /\ UNCHANGED <<file, faults>>

NextVpic ==
    \E p \in Writers :
        \/ Barrier(p) \/ OpenFile(p) \/ WriteFileAttribString(p) \/ SetStep(p)
        \/ SetNumParticles(p) \/ WriteVariable(p) \/ CloseFile(p)
=============================================================================
