--------------------------- MODULE IorTest_proofs ---------------------------
(***************************************************************************)
(* That the tasks of an IOR test make the same collective calls in the     *)
(* same order, that in the end all of them know of every error one of them *)
(* has found, that what a write phase leaves is whole and its owners',     *)
(* that no file is unlinked that is open or must be kept, and that every   *)
(* file a task needs is there: for any number of tasks, any parameters     *)
(* ValidateTests lets through, any interleaving.                           *)
(*                                                                         *)
(* The argument follows where a task is: Place(r) counts the calls it has  *)
(* made in this repetition, worked out from its phase and its step, and    *)
(* Script(i) is the i-th call of a repetition.  What the files hold (FInv) *)
(* rests on that: while anybody writes nobody looks, for there is a        *)
(* barrier between, and what is not in a file yet somebody still owes it.  *)
(***************************************************************************)
EXTENDS IorTestInvariant, RowsAndColumns, SequenceTheorems

-----------------------------------------------------------------------------
(* Numbers                                                                   *)

LEMMA ParamsAre ==
    ASSUME Given
    PROVE  /\ test.numTasks \in Nat \ {0} /\ test.repetitions \in Nat \ {0}
           /\ XfersPerTask \in Nat
           /\ test.writeFile \in BOOLEAN /\ test.checkWrite \in BOOLEAN
           /\ test.readFile \in BOOLEAN /\ test.checkRead \in BOOLEAN
           /\ test.filePerProc \in BOOLEAN /\ test.lustre_set_striping \in BOOLEAN
           /\ test.intraTestBarriers \in BOOLEAN /\ test.randomOffset \in BOOLEAN
           /\ test.reorderTasksRandom \in BOOLEAN /\ test.hitsHistogram \in BOOLEAN
           /\ test.deadlineForStonewalling \in BOOLEAN /\ test.keepFile \in BOOLEAN
           /\ test.keepFileWithError \in BOOLEAN /\ test.quitOnError \in BOOLEAN
           /\ ~test.maxTimeDuration
           /\ test.randomOffset => ~test.checkRead
           /\ test.deadlineForStonewalling => ~test.checkWrite /\ ~test.checkRead
           /\ test.readFile \/ test.writeFile \/ test.checkRead \/ test.checkWrite
           /\ test.reorderTasksRandom /\ test.hitsHistogram => test.numTasks >= NumTasksWorld
<1>1. ParamsTyped(test) /\ ValidateTests(test)
  BY TestsAssumption DEF Given
<1>2. ~test.maxTimeDuration /\ (test.reorderTasksRandom /\ test.hitsHistogram => test.numTasks >= NumTasksWorld)
  BY DEF Given, TasksDecideAlike
<1>3. test.numTasks \in Int /\ test.repetitions \in Int /\ test.xfersPerBlock \in Int /\ test.segmentCount \in Int
  BY <1>1 DEF ParamsTyped, IntParams
<1>4. XfersPerTask \in Nat
  BY <1>1, <1>3 DEF ValidateTests, XfersPerTask, XfersOf
<1>5. /\ test.writeFile \in BOOLEAN /\ test.checkWrite \in BOOLEAN
      /\ test.readFile \in BOOLEAN /\ test.checkRead \in BOOLEAN
      /\ test.filePerProc \in BOOLEAN /\ test.lustre_set_striping \in BOOLEAN
      /\ test.intraTestBarriers \in BOOLEAN /\ test.randomOffset \in BOOLEAN
      /\ test.reorderTasksRandom \in BOOLEAN /\ test.hitsHistogram \in BOOLEAN
      /\ test.deadlineForStonewalling \in BOOLEAN /\ test.keepFile \in BOOLEAN
      /\ test.keepFileWithError \in BOOLEAN /\ test.quitOnError \in BOOLEAN
  BY <1>1 DEF ParamsTyped, IntParams, ParamNames
<1>6. test.numTasks > 0 /\ test.repetitions > 0
  BY <1>1 DEF ValidateTests
<1>7. /\ test.randomOffset => ~test.checkRead
      /\ test.deadlineForStonewalling => ~test.checkWrite /\ ~test.checkRead
      /\ test.readFile \/ test.writeFile \/ test.checkRead \/ test.checkWrite
  BY <1>1, Zenon DEF ValidateTests
<1> QED
  BY <1>2, <1>3, <1>4, <1>5, <1>6, <1>7

LEMMA MembersAre ==
    ASSUME Given
    PROVE  /\ N \in Nat \ {0} /\ Members \subseteq World /\ 0 \in Members /\ Members \subseteq Nat
           /\ IsFiniteSet(Members) /\ Members = 0 .. N - 1
           /\ test.numTasks >= NumTasksWorld => Members = World
  <1>1. N \in Nat \ {0} /\ N <= NumTasksWorld /\ (test.numTasks >= NumTasksWorld => N = NumTasksWorld)
    BY WorldAssumption, ParamsAre DEF N
  <1>2. IsFiniteSet(0 .. N - 1)
    BY <1>1, FS_Interval
  <1> QED
    BY <1>1, <1>2, WorldAssumption DEF Members, World

\* What is counted in a phase, in this order.
LEMMA StagesAre ==
    ASSUME Given, NEW phase \in Phases
    PROVE  /\ Opening(phase) \in Nat /\ Opening(phase) >= 1
           /\ Dealt(phase) \in Nat /\ Dealt(phase) = Opening(phase) + Bit(test.randomOffset)
           /\ Body(phase) \in Nat
           /\ Body(phase) = Dealt(phase) + (IF phase = "readcheck" THEN 3 * XfersPerTask ELSE 0)
           /\ CountEnd(phase) \in Nat /\ CountEnd(phase) = Body(phase) + 2 * Bit(Checks)
           /\ Shut(phase) \in Nat /\ Shut(phase) = CountEnd(phase) + Bit(Around(phase))
           /\ Bit(test.randomOffset) \in {0, 1} /\ (Bit(test.randomOffset) = 1 <=> test.randomOffset)
           /\ Bit(Checks) \in {0, 1} /\ (Bit(Checks) = 1 <=> Checks)
           /\ Bit(Around(phase)) \in {0, 1} /\ (Bit(Around(phase)) = 1 <=> Around(phase))
           /\ XfersPerTask \in Nat
<1>1. /\ Bit(test.randomOffset) \in {0, 1} /\ (Bit(test.randomOffset) = 1 <=> test.randomOffset)
      /\ Bit(Checks) \in {0, 1} /\ (Bit(Checks) = 1 <=> Checks)
      /\ Bit(Around(phase)) \in {0, 1} /\ (Bit(Around(phase)) = 1 <=> Around(phase))
      /\ Bit(Around("write")) \in {0, 1} /\ Bit(Around("read")) \in {0, 1} /\ Bit(Stripes) \in {0, 1}
  BY DEF Bit
<1>2. XfersPerTask \in Nat
  BY ParamsAre
<1>3. Opening(phase) \in Nat /\ Opening(phase) >= 1
  BY <1>1 DEF Opening
<1>4. Dealt(phase) \in Nat /\ Dealt(phase) = Opening(phase) + Bit(test.randomOffset)
  BY <1>1, <1>3 DEF Dealt
<1>5. Body(phase) = Dealt(phase) + (IF phase = "readcheck" THEN 3 * XfersPerTask ELSE 0)
  BY DEF Body
<1>6. Body(phase) \in Nat
  BY <1>2, <1>4, <1>5
<1>7. CountEnd(phase) = Body(phase) + 2 * Bit(Checks) /\ CountEnd(phase) \in Nat
  BY <1>1, <1>6 DEF CountEnd
<1>8. Shut(phase) = CountEnd(phase) + Bit(Around(phase)) /\ Shut(phase) \in Nat
  BY <1>1, <1>7 DEF Shut
<1> QED
  BY <1>1, <1>2, <1>3, <1>4, <1>5, <1>6, <1>7, <1>8

Rest(phase) == CASE phase = "write" -> 3 [] phase = "read" -> 2 [] OTHER -> 0

LEMMA LengthIs ==
    ASSUME Given, NEW phase \in Phases \ {"finish"}
    PROVE  /\ LengthOf(phase) \in Nat /\ Rest(phase) \in Nat
           /\ Wanted(phase) => LengthOf(phase) = Shut(phase) + Rest(phase)
           /\ ~Wanted(phase) => LengthOf(phase) = 0
<1>1. Shut(phase) \in Nat
  BY StagesAre
<1>2. Rest(phase) \in Nat
  BY DEF Rest
<1>3. /\ Wanted(phase) => LengthOf(phase) = Shut(phase) + Rest(phase)
      /\ ~Wanted(phase) => LengthOf(phase) = 0
  BY DEF LengthOf, Rest
<1> QED
  BY <1>1, <1>2, <1>3

LEMMA StartIs ==
    ASSUME Given
    PROVE  /\ \A phase \in Phases : Start(phase) \in Nat /\ Start(phase) >= 1
           /\ \A phase \in Phases \ {"finish"} :
                  /\ Following[phase] \in Phases
                  /\ Start(Following[phase]) = Start(phase) + LengthOf(phase)
           /\ Start("write") = 1
           /\ Start("writecheck") = Start("write") + LengthOf("write")
           /\ Start("read") = Start("writecheck") + LengthOf("writecheck")
           /\ Start("readcheck") = Start("read") + LengthOf("read")
           /\ Start("finish") = Start("readcheck") + LengthOf("readcheck")
<1>1. /\ LengthOf("write") \in Nat /\ LengthOf("writecheck") \in Nat
      /\ LengthOf("read") \in Nat /\ LengthOf("readcheck") \in Nat
  BY LengthIs DEF Phases
<1>2. /\ Start("write") = 1
      /\ Start("writecheck") = 1 + LengthOf("write")
      /\ Start("read") = 1 + LengthOf("write") + LengthOf("writecheck")
      /\ Start("readcheck") = 1 + LengthOf("write") + LengthOf("writecheck") + LengthOf("read")
      /\ Start("finish") = 1 + LengthOf("write") + LengthOf("writecheck") + LengthOf("read")
                             + LengthOf("readcheck")
  BY DEF Start
<1>3. /\ Following["write"] = "writecheck" /\ Following["writecheck"] = "read"
      /\ Following["read"] = "readcheck" /\ Following["readcheck"] = "finish"
  BY DEF Following
<1>4. \A phase \in Phases : phase \in {"write", "writecheck", "read", "readcheck", "finish"}
  BY DEF Phases
<1>5. \A phase \in Phases : Start(phase) \in Nat /\ Start(phase) >= 1
  BY <1>1, <1>2, <1>4
<1>6. \A phase \in Phases \ {"finish"} :
          Following[phase] \in Phases /\ Start(Following[phase]) = Start(phase) + LengthOf(phase)
  BY <1>1, <1>2, <1>3, <1>4 DEF Phases
<1> QED
  BY <1>1, <1>2, <1>5, <1>6

\* What the calls of a repetition are.
LEMMA ScriptIs ==
    ASSUME Given
    PROVE  /\ Script(1) = "Bcast"
           /\ \A phase \in Phases \ {"finish"} : \A j \in 1 .. LengthOf(phase) :
                  Script(Start(phase) + j) = CallOf(phase, j)
           /\ \A i \in Nat : i > Start("finish") => Script(i) = "Barrier"
<1>1. /\ LengthOf("write") \in Nat /\ LengthOf("writecheck") \in Nat
      /\ LengthOf("read") \in Nat /\ LengthOf("readcheck") \in Nat
  BY LengthIs DEF Phases
<1>2. /\ Start("write") = 1
      /\ Start("writecheck") = 1 + LengthOf("write")
      /\ Start("read") = Start("writecheck") + LengthOf("writecheck")
      /\ Start("readcheck") = Start("read") + LengthOf("read")
      /\ Start("finish") = Start("readcheck") + LengthOf("readcheck")
  BY StartIs
<1>3. Script(1) = "Bcast"
  BY <1>1, <1>2 DEF Script
<1>4. \A i \in Nat : i > Start("finish") => Script(i) = "Barrier"
  <2> SUFFICES ASSUME NEW i \in Nat, i > Start("finish") PROVE Script(i) = "Barrier"
    OBVIOUS
  <2>1. /\ ~(i <= 1) /\ ~(i <= Start("writecheck")) /\ ~(i <= Start("read"))
        /\ ~(i <= Start("readcheck")) /\ ~(i <= Start("finish"))
    BY <1>1, <1>2
  <2> QED
    BY <2>1, Zenon DEF Script
<1>5. ASSUME NEW phase \in Phases \ {"finish"}, NEW j \in 1 .. LengthOf(phase)
      PROVE  Script(Start(phase) + j) = CallOf(phase, j)
  <2>1. CASE phase = "write"
    BY <1>1, <1>2, <2>1 DEF Script
  <2>2. CASE phase = "writecheck"
    <3> DEFINE i == Start("writecheck") + j
    <3>1. i > 1 /\ i > Start("writecheck") /\ i <= Start("read") /\ i - Start("writecheck") = j
      BY <1>1, <1>2, <2>2
    <3>2. Script(i) = CallOf("writecheck", i - Start("writecheck"))
      BY <1>1, <1>2, <3>1 DEF Script
    <3> QED
      BY <2>2, <3>1, <3>2
  <2>3. CASE phase = "read"
    <3> DEFINE i == Start("read") + j
    <3>1. i > 1 /\ i > Start("writecheck") /\ i > Start("read") /\ i <= Start("readcheck")
          /\ i - Start("read") = j
      BY <1>1, <1>2, <2>3
    <3>2. Script(i) = CallOf("read", i - Start("read"))
      BY <1>1, <1>2, <3>1 DEF Script
    <3> QED
      BY <2>3, <3>1, <3>2
  <2>4. CASE phase = "readcheck"
    <3> DEFINE i == Start("readcheck") + j
    <3>1. i > 1 /\ i > Start("writecheck") /\ i > Start("read") /\ i > Start("readcheck")
          /\ i <= Start("finish") /\ i - Start("readcheck") = j
      BY <1>1, <1>2, <2>4
    <3>2. Script(i) = CallOf("readcheck", i - Start("readcheck"))
      BY <1>1, <1>2, <3>1 DEF Script
    <3> QED
      BY <2>4, <3>1, <3>2
  <2> QED
    BY <2>1, <2>2, <2>3, <2>4 DEF Phases
<1> QED
  BY <1>3, <1>4, <1>5

LEMMA CallIs ==
    ASSUME Given, NEW phase \in Phases \ {"finish"}, NEW j \in Nat
    PROVE  /\ j <= Opening(phase) => CallOf(phase, j) = "Barrier"
           /\ Opening(phase) < j /\ j <= Dealt(phase) => CallOf(phase, j) = "Bcast"
           /\ Dealt(phase) < j /\ j <= Body(phase) => CallOf(phase, j) = "Barrier"
           /\ Checks /\ j = Body(phase) + 1 => CallOf(phase, j) = "Reduce"
           /\ Checks /\ j = Body(phase) + 2 => CallOf(phase, j) = "Bcast"
           /\ CountEnd(phase) < j /\ j <= Shut(phase) + Bit(phase = "write") => CallOf(phase, j) = "Barrier"
           /\ j = Shut(phase) + Bit(phase = "write") + 1 => CallOf(phase, j) = "Allreduce"
           /\ j = Shut(phase) + Bit(phase = "write") + 2 => CallOf(phase, j) = "Reduce"
  BY StagesAre DEF Bit, CallOf

-----------------------------------------------------------------------------
(* What a step does to where its task is                                     *)

LEMMA GoWent ==
    ASSUME Shape, NEW r \in World, NEW rec, NEW label \in Labels, Go(r, rec, label), DOMAIN rec = Fields,
           ~aborted, Pc(r) \in DOMAIN Kind => MayLeave(r, Pc(r)), test' = test, DOMAIN wire' = DOMAIN wire
    PROVE  /\ Went(r) /\ NewPc(r) = label
           /\ \A f \in Fields \ {"pc"} : st'[r][f] = rec[f]
<1>1. st' = [st EXCEPT ![r] = [rec EXCEPT !.pc = label]]
  BY Zenon DEF Go
<1>2. DOMAIN st = World /\ (\A q \in World : DOMAIN st[q] = Fields) /\ "pc" \in Fields
  BY DEF Shape, Fields
<1>3. st'[r] = [rec EXCEPT !.pc = label] /\ (\A q \in World \ {r} : st'[q] = st[q]) /\ DOMAIN st' = World
  BY <1>1, <1>2
<1>4. DOMAIN st'[r] = Fields /\ NewPc(r) = label /\ \A f \in Fields \ {"pc"} : st'[r][f] = rec[f]
  BY <1>2, <1>3 DEF NewPc
<1>5. \A q \in World : DOMAIN st'[q] = Fields
  BY <1>2, <1>3, <1>4
<1>6. calls' = IF label \in DOMAIN Kind THEN [calls EXCEPT ![Comm(label)][r] = Append(@, Kind[label])]
               ELSE calls
  BY Zenon DEF Go
<1> QED
  BY <1>3, <1>4, <1>5, <1>6, Zenon DEF Went

LEMMA KindIs ==
    /\ DOMAIN Kind = {"stamp", "hist", "gate", "ready", "striped", "opened", "rc1", "rc2", "rc3", "seed",
                      "cntR", "cntB", "xfered", "closed", "size", "times", "delete", "repEnd",
                      "commFree", "world"}
    /\ TestLabels = {"stamp", "gate", "ready", "striped", "opened", "rc1", "rc2", "rc3", "seed",
                     "cntR", "cntB", "xfered", "closed", "size", "times", "delete", "repEnd", "commFree"}
    /\ \A label \in DOMAIN Kind : Kind[label] \in Kinds
    /\ \A label \in TestLabels : Comm(label) = "test"
    /\ Comm("hist") = "world" /\ Comm("world") = "world"
    /\ Kind["stamp"] = "Bcast" /\ Kind["seed"] = "Bcast" /\ Kind["cntB"] = "Bcast"
    /\ Kind["cntR"] = "Reduce" /\ Kind["times"] = "Reduce" /\ Kind["size"] = "Allreduce"
    /\ Kind["commFree"] = "CommFree" /\ Kind["world"] = "Barrier" /\ Kind["hist"] = "Gather"
    /\ \A label \in {"gate", "ready", "striped", "opened", "rc1", "rc2", "rc3", "xfered", "closed",
                     "delete", "repEnd"} : Kind[label] = "Barrier"
<1>1. DOMAIN Kind = {"stamp", "hist", "gate", "ready", "striped", "opened", "rc1", "rc2", "rc3", "seed",
                      "cntR", "cntB", "xfered", "closed", "size", "times", "delete", "repEnd",
                      "commFree", "world"}
  BY DEF Kind
<1>2. TestLabels = {"stamp", "gate", "ready", "striped", "opened", "rc1", "rc2", "rc3", "seed",
                     "cntR", "cntB", "xfered", "closed", "size", "times", "delete", "repEnd", "commFree"}
  BY <1>1 DEF TestLabels
<1>3. \A label \in DOMAIN Kind : Kind[label] \in Kinds
  BY DEF Kind, Kinds
<1>4. /\ \A label \in TestLabels : Comm(label) = "test"
      /\ Comm("hist") = "world" /\ Comm("world") = "world"
  BY <1>2 DEF Comm
<1>5. /\ Kind["stamp"] = "Bcast" /\ Kind["seed"] = "Bcast" /\ Kind["cntB"] = "Bcast"
      /\ Kind["cntR"] = "Reduce" /\ Kind["times"] = "Reduce" /\ Kind["size"] = "Allreduce"
      /\ Kind["commFree"] = "CommFree" /\ Kind["world"] = "Barrier" /\ Kind["hist"] = "Gather"
      /\ \A label \in {"gate", "ready", "striped", "opened", "rc1", "rc2", "rc3", "xfered", "closed",
                       "delete", "repEnd"} : Kind[label] = "Barrier"
  BY DEF Kind
<1> QED
  BY <1>1, <1>2, <1>3, <1>4, <1>5

\* The logs after a step.
LEMMA LogsAre ==
    ASSUME Shape, NEW r \in World, Went(r)
    PROVE  /\ calls' \in [{"world", "test"} -> [World -> Seq(Kinds)]]
           /\ \A q \in World \ {r} : Log(q)' = Log(q) /\ WorldLog(q)' = WorldLog(q)
           /\ NewPc(r) \in TestLabels =>
                  Log(r)' = Append(Log(r), Kind[NewPc(r)]) /\ WorldLog(r)' = WorldLog(r)
           /\ NewPc(r) \in {"hist", "world"} =>
                  Log(r)' = Log(r) /\ WorldLog(r)' = Append(WorldLog(r), Kind[NewPc(r)])
           /\ NewPc(r) \notin DOMAIN Kind => Log(r)' = Log(r) /\ WorldLog(r)' = WorldLog(r)
<1> DEFINE label == NewPc(r)
           c == Comm(label)
           added == [calls[c] EXCEPT ![r] = Append(calls[c][r], Kind[label])]
<1>1. calls \in [{"world", "test"} -> [World -> Seq(Kinds)]]
  BY DEF Shape
<1>2. CASE label \notin DOMAIN Kind
  BY <1>2, KindIs, <1>1 DEF Went, Log, WorldLog
<1>3. CASE label \in DOMAIN Kind
  <2>1. calls' = [calls EXCEPT ![c] = added]
    BY <1>3, Zenon DEF Went
  <2>2. c \in {"world", "test"} /\ Kind[label] \in Kinds
    BY <1>3, KindIs DEF Comm
  <2> HIDE DEF c, label
  <2>3. calls[c] \in [World -> Seq(Kinds)] /\ calls[c][r] \in Seq(Kinds)
    BY <1>1, <2>2
  <2>4. Append(calls[c][r], Kind[label]) \in Seq(Kinds)
    BY <2>2, <2>3, AppendProperties
  <2>5. /\ added \in [World -> Seq(Kinds)] /\ added[r] = Append(calls[c][r], Kind[label])
        /\ \A q \in World \ {r} : added[q] = calls[c][q]
    BY <2>3, <2>4
  <2> HIDE DEF added
  <2>6. /\ calls' \in [{"world", "test"} -> [World -> Seq(Kinds)]]
        /\ calls'[c] = added /\ \A d \in {"world", "test"} \ {c} : calls'[d] = calls[d]
    BY <1>1, <2>1, <2>2, <2>5
  <2>7. \A q \in World \ {r} : calls'["test"][q] = calls["test"][q] /\ calls'["world"][q] = calls["world"][q]
    BY <2>2, <2>5, <2>6
  <2>8. label \in TestLabels => c = "test"
    BY KindIs DEF c
  <2>9. label \in {"hist", "world"} => c = "world"
    BY KindIs DEF c
  <2>10. /\ c = "test" => calls'["test"][r] = Append(calls["test"][r], Kind[label])
                          /\ calls'["world"][r] = calls["world"][r]
         /\ c = "world" => calls'["world"][r] = Append(calls["world"][r], Kind[label])
                          /\ calls'["test"][r] = calls["test"][r]
    BY <2>2, <2>5, <2>6
  <2> QED
    BY <1>3, <2>6, <2>7, <2>8, <2>9, <2>10 DEF Log, WorldLog, label
<1> QED
  BY <1>2, <1>3
-----------------------------------------------------------------------------
(* The kinds of steps                                                        *)

LEMMA LabelsAre ==
    /\ Labels = {"rep", "stamp", "commFree", "world", "done", "phase", "delete", "repEnd", "hist", "gate",
                 "ready", "striped", "open", "opened", "deal", "seed", "xfer", "rc1", "rc2", "rc3", "cntR",
                 "cntB", "xfered", "close", "closed", "stat", "size", "times"}
    /\ TestLabels \cup {"hist", "world"} = DOMAIN Kind /\ DOMAIN Kind \subseteq Labels
  BY KindIs DEF Labels, Outside, Ends, Inside

\* A step to a label with some fields of the record changed.
LEMMA Gone ==
    ASSUME NEW r, Known(r), NEW rec, NEW label \in Labels, Go(r, rec, label), DOMAIN rec = Fields,
           At(r, Pc(r)), Pc(r) \in DOMAIN Kind => MayLeave(r, Pc(r)), test' = test,
           DOMAIN wire' = DOMAIN wire
    PROVE  /\ Went(r) /\ NewPc(r) = label
           /\ \A f \in Fields \ {"pc"} : st'[r][f] = rec[f]
           /\ \A f \in Control : st'[r][f] = rec[f]
<1>1. Control \subseteq Fields \ {"pc"}
  BY DEF Control, Fields
<1>2. Shape /\ r \in World /\ ~aborted
  BY DEF Known, At
<1>3. /\ Went(r) /\ NewPc(r) = label
      /\ \A f \in Fields \ {"pc"} : st'[r][f] = rec[f]
  BY <1>2, GoWent
<1> QED
  BY <1>1, <1>3

LEMMA KnownIs ==
    ASSUME NEW r, Known(r)
    PROVE  /\ r \in World /\ DOMAIN st[r] = Fields /\ Given /\ DOMAIN wire = {"stamp", "sum", "seed"}
           /\ Pc(r) \notin {"world", "done"} => r \in Members /\ Placed(r) /\ Typed(r)
<1>1. Shape /\ r \in World
  BY DEF Known
<1>2. DOMAIN st[r] = Fields /\ Given /\ DOMAIN wire = {"stamp", "sum", "seed"}
  BY <1>1 DEF Shape
<1>3. Pc(r) \notin {"world", "done"} => r \in Members /\ Placed(r) /\ Typed(r)
  BY Zenon DEF Known, Ended
<1> QED
  BY <1>1, <1>2, <1>3

\* A step that leaves what is followed here alone.
LEMMA Quietly ==
    ASSUME NEW r, Known(r), NEW rec, NEW label \in Labels, Go(r, rec, label), DOMAIN rec = Fields,
           \A f \in Control : rec[f] = st[r][f], ~aborted, Pc(r) \in DOMAIN Kind => MayLeave(r, Pc(r)),
           test' = test, wire'.sum = wire.sum, DOMAIN wire' = DOMAIN wire, found' = found
    PROVE  Went(r) /\ NewPc(r) = label /\ Fixed(r, {}) /\ Unseen
  BY Gone DEF At, Pc, Fixed, Unseen

LEMMA LeavesKind ==
    ASSUME NEW r, NEW label, Leaving(r, label)
    PROVE  Pc(r) = label /\ ~aborted /\ (Pc(r) \in DOMAIN Kind => MayLeave(r, Pc(r)))
  BY Zenon DEF Leaving, At, Pc

LEMMA OnlyTasksIs ==
    ASSUME OnlyTasks
    PROVE  test' = test /\ wire'.sum = wire.sum /\ DOMAIN wire' = DOMAIN wire /\ found' = found
  BY DEF OnlyTasks

LEMMA PassOnMoves ==
    ASSUME NEW r, Known(r), PassOn(r)
    PROVE  GoesOn(r)
<1>1. PICK label \in DOMAIN Onward : Leaving(r, label) /\ Go(r, st[r], Onward[label]) /\ OnlyTasks
  BY Zenon DEF PassOn
<1>2. label \in {"hist", "opened", "rc2", "xfered", "closed", "size", "commFree", "world"}
  BY DEF Onward
<1>3. Onward[label] \in Labels
  BY <1>2, LabelsAre DEF Onward, WriteOrRead
<1>4. Pc(r) = label
  BY <1>1, LeavesKind
<1>5. Went(r) /\ NewPc(r) = Onward[label] /\ Fixed(r, {}) /\ Unseen
  BY <1>1, LeavesKind, KnownIs, <1>3, OnlyTasksIs, Quietly
<1>6. Onto(r)
  <2>1. CASE label = "opened"
    BY <2>1, <1>4, <1>5 DEF Onward, WriteOrRead, Onto, OpenedOn
  <2>2. CASE label # "opened"
    BY <1>2, <1>4, <1>5, <2>2 DEF Onward, Plain, Onto, PlainOn
  <2> QED
    BY <2>1, <2>2
<1> QED
  BY <1>5, <1>6 DEF GoesOn

LEMMA BeginRepMoves ==
    ASSUME NEW r, Known(r), BeginRep(r)
    PROVE  GoesOn(r)
<1>1. Pc(r) = "rep" /\ ~aborted /\ Pc(r) \notin DOMAIN Kind
  BY KindIs DEF BeginRep, At, Pc
<1>2. DOMAIN st[r] = Fields /\ DOMAIN wire = {"stamp", "sum", "seed"}
  BY KnownIs
<1>3. DOMAIN wire' = DOMAIN wire /\ wire'.sum = wire.sum /\ test' = test /\ found' = found
  BY <1>2 DEF BeginRep
<1> DEFINE label == IF Rep(r) < test.repetitions THEN "stamp" ELSE "commFree"
<1>4. Go(r, st[r], label) /\ label \in Labels
  BY LabelsAre DEF BeginRep, MoreReps, Rep
<1>5. Went(r) /\ NewPc(r) = label /\ Fixed(r, {}) /\ Unseen
  BY <1>1, <1>2, <1>3, <1>4, Quietly
<1>6. Onto(r)
  BY <1>1, <1>5, Zenon DEF Onto, BeginOn
<1> QED
  BY <1>5, <1>6 DEF GoesOn

LEMMA StartWriteMoves ==
    ASSUME NEW r, Known(r), StartWrite(r)
    PROVE  GoesOn(r)
<1>1. Pc(r) = "phase" /\ Phase(r) = "write" /\ Wanted(Phase(r)) /\ ~aborted /\ Pc(r) \notin DOMAIN Kind
  BY KindIs DEF StartWrite, Starting, At, Pc, Phase
<1>2. DOMAIN st[r] = Fields
  BY KnownIs
<1> DEFINE rec == Named(r, st[r])
<1>3. test' = test /\ wire' = wire /\ found' = found /\ Go(r, rec, "ready")
  BY DEF StartWrite
<1>4. DOMAIN rec = Fields /\ \A f \in Control : rec[f] = st[r][f]
  BY <1>2 DEF Named, Fields, Control
<1>5. Went(r) /\ NewPc(r) = "ready" /\ Fixed(r, {}) /\ Unseen
  BY <1>1, <1>3, <1>4, Quietly, LabelsAre
<1>6. Onto(r)
  BY <1>1, <1>5, Zenon DEF Onto, EnterOn
<1> QED
  BY <1>5, <1>6 DEF GoesOn

LEMMA StartCheckMoves ==
    ASSUME NEW r, Known(r), StartCheck(r)
    PROVE  GoesOn(r)
<1>1. Pc(r) = "phase" /\ Phase(r) \in {"writecheck", "readcheck"} /\ Wanted(Phase(r)) /\ ~aborted
      /\ Pc(r) \notin DOMAIN Kind
  BY KindIs DEF StartCheck, Starting, At, Pc, Phase
<1>2. DOMAIN st[r] = Fields
  BY KnownIs
<1>3. Go(r, st[r], "gate") /\ OnlyTasks
  BY DEF StartCheck
<1>5. Went(r) /\ NewPc(r) = "gate" /\ Fixed(r, {}) /\ Unseen
  BY <1>1, <1>2, <1>3, Quietly, LabelsAre, OnlyTasksIs
<1>6. Onto(r)
  BY <1>1, <1>5 DEF Onto, EnterOn
<1> QED
  BY <1>5, <1>6 DEF GoesOn

LEMMA StartReadMoves ==
    ASSUME NEW r, Known(r), StartRead(r)
    PROVE  GoesOn(r)
<1>1. Pc(r) = "phase" /\ Phase(r) = "read" /\ Wanted(Phase(r)) /\ ~aborted /\ Pc(r) \notin DOMAIN Kind
  BY KindIs DEF StartRead, Starting, At, Pc, Phase
<1>2. DOMAIN st[r] = Fields
  BY KnownIs
<1> DEFINE label == IF test.reorderTasksRandom /\ test.hitsHistogram THEN "hist" ELSE "ready"
<1>3. PICK o : Go(r, Named(r, [st[r] EXCEPT !.rankOffset = o]), label)
  BY Zenon DEF StartRead
<1> DEFINE rec == Named(r, [st[r] EXCEPT !.rankOffset = o])
<1>4. DOMAIN rec = Fields /\ \A f \in Control : rec[f] = st[r][f]
  BY <1>2 DEF Named, Fields, Control
<1>5. OnlyTasks /\ label \in Labels
  BY LabelsAre DEF StartRead
<1>6. Went(r) /\ NewPc(r) = label /\ Fixed(r, {}) /\ Unseen
  <2> HIDE DEF label, rec
  <2>1. Go(r, rec, label)
    BY <1>3 DEF rec
  <2> QED
    BY <1>1, <2>1, <1>4, <1>5, Quietly, OnlyTasksIs
<1>7. Onto(r)
  BY <1>1, <1>6, Zenon DEF Onto, EnterOn
<1> QED
  BY <1>6, <1>7 DEF GoesOn

LEMMA LeaveGateMoves ==
    ASSUME NEW r, Known(r), LeaveGate(r)
    PROVE  GoesOn(r)
<1>1. Leaving(r, "gate") /\ OnlyTasks
  BY DEF LeaveGate
<1>2. Pc(r) = "gate" /\ ~aborted /\ (Pc(r) \in DOMAIN Kind => MayLeave(r, Pc(r)))
  BY <1>1, LeavesKind
<1>3. DOMAIN st[r] = Fields
  BY KnownIs
<1> DEFINE label == IF Phase(r) = "writecheck" THEN "open" ELSE "ready"
<1>4. PICK o : Go(r, Named(r, [st[r] EXCEPT !.rankOffset = o]), label)
  BY Zenon DEF LeaveGate, Phase
<1> DEFINE rec == Named(r, [st[r] EXCEPT !.rankOffset = o])
<1>5. DOMAIN rec = Fields /\ \A f \in Control : rec[f] = st[r][f]
  BY <1>3 DEF Named, Fields, Control
<1>6. label \in Labels
  BY LabelsAre
<1>7. Went(r) /\ NewPc(r) = label /\ Fixed(r, {}) /\ Unseen
  <2> HIDE DEF label, rec
  <2>1. Go(r, rec, label)
    BY <1>4 DEF rec
  <2> QED
    BY <1>1, <1>2, <2>1, <1>5, <1>6, Quietly, OnlyTasksIs
<1>8. Onto(r)
  BY <1>2, <1>7, Zenon DEF Onto, GateOn
<1> QED
  BY <1>7, <1>8 DEF GoesOn

LEMMA FirstIs ==
    ASSUME NEW r
    PROVE  /\ BeginXfer(r) = First(Phase(r)) /\ AfterCount(r) = After(Phase(r))
           /\ First(Phase(r)) \in Labels /\ After(Phase(r)) \in Labels
           /\ Striping(r) <=> Phase(r) = "write" /\ Stripes
  BY LabelsAre DEF BeginXfer, AfterCount, First, After, Phase, WriteOrRead, BarrierAround, Around, Striping, Stripes

LEMMA LeaveReadyMoves ==
    ASSUME NEW r, Known(r), LeaveReady(r)
    PROVE  GoesOn(r)
<1>1. Leaving(r, "ready") /\ OnlyTasks
  BY DEF LeaveReady
<1>2. Pc(r) = "ready" /\ ~aborted /\ (Pc(r) \in DOMAIN Kind => MayLeave(r, Pc(r)))
  BY <1>1, LeavesKind
<1>3. DOMAIN st[r] = Fields
  BY KnownIs
<1> DEFINE label == IF Phase(r) = "write" /\ Stripes /\ r # 0 THEN "striped" ELSE "open"
<1>4. Go(r, st[r], label) /\ label \in Labels
  BY FirstIs, LabelsAre DEF LeaveReady
<1>5. Went(r) /\ NewPc(r) = label /\ Fixed(r, {}) /\ Unseen
  <2> HIDE DEF label
  <2> QED
    BY <1>1, <1>2, <1>3, <1>4, Quietly, OnlyTasksIs
<1>6. Onto(r)
  BY <1>2, <1>5, Zenon DEF Onto, ReadyOn
<1> QED
  BY <1>5, <1>6 DEF GoesOn

LEMMA LeaveStripedMoves ==
    ASSUME NEW r, Known(r), LeaveStriped(r)
    PROVE  GoesOn(r)
<1>1. Leaving(r, "striped") /\ OnlyTasks
  BY DEF LeaveStriped
<1>2. Pc(r) = "striped" /\ ~aborted /\ (Pc(r) \in DOMAIN Kind => MayLeave(r, Pc(r)))
  BY <1>1, LeavesKind
<1>3. DOMAIN st[r] = Fields
  BY KnownIs
<1> DEFINE label == IF r = 0 THEN First(Phase(r)) ELSE "open"
<1>4. Go(r, st[r], label) /\ label \in Labels
  BY FirstIs, LabelsAre DEF LeaveStriped
<1>5. Went(r) /\ NewPc(r) = label /\ Fixed(r, {}) /\ Unseen
  <2> HIDE DEF label
  <2> QED
    BY <1>1, <1>2, <1>3, <1>4, Quietly, OnlyTasksIs
<1>6. Onto(r)
  BY <1>2, <1>5, Zenon DEF Onto, StripedOn
<1> QED
  BY <1>5, <1>6 DEF GoesOn

LEMMA DealMoves ==
    ASSUME NEW r, Known(r), GetOffsetArrayRandom(r)
    PROVE  GoesOn(r)
<1>1. Pc(r) = "deal" /\ ~aborted /\ Pc(r) \notin DOMAIN Kind
  BY KindIs DEF GetOffsetArrayRandom, At, Pc
<1>2. DOMAIN st[r] = Fields /\ DOMAIN wire = {"stamp", "sum", "seed"}
  BY KnownIs
<1>3. PICK a, b : Go(r, [st[r] EXCEPT !.randomSeed = a, !.todo = b], "seed")
  BY Zenon DEF GetOffsetArrayRandom
<1>4. PICK seed : wire' = [wire EXCEPT !.seed = seed]
  BY Zenon DEF GetOffsetArrayRandom
<1>5. wire'.sum = wire.sum /\ DOMAIN wire' = DOMAIN wire /\ test' = test /\ found' = found
  BY <1>2, <1>4 DEF GetOffsetArrayRandom
<1> DEFINE rec == [st[r] EXCEPT !.randomSeed = a, !.todo = b]
<1>6. DOMAIN rec = Fields /\ \A f \in Control : rec[f] = st[r][f]
  BY <1>2 DEF Fields, Control
<1>7. Went(r) /\ NewPc(r) = "seed" /\ Fixed(r, {}) /\ Unseen
  BY <1>1, <1>3, <1>5, <1>6, Quietly, LabelsAre, ZenonT(40)
<1>8. Onto(r)
  BY <1>1, <1>7 DEF Onto, PlainOn, Plain
<1> QED
  BY <1>7, <1>8 DEF GoesOn

LEMMA SeedMoves ==
    ASSUME NEW r, Known(r), SeedRandGen(r)
    PROVE  GoesOn(r)
<1>1. Leaving(r, "seed") /\ OnlyTasks
  BY DEF SeedRandGen
<1>2. Pc(r) = "seed" /\ ~aborted /\ (Pc(r) \in DOMAIN Kind => MayLeave(r, Pc(r)))
  BY <1>1, LeavesKind
<1>3. DOMAIN st[r] = Fields
  BY KnownIs
<1> DEFINE rec == [st[r] EXCEPT !.rng = wire.seed]
<1>4. DOMAIN rec = Fields /\ \A f \in Control : rec[f] = st[r][f]
  BY <1>3 DEF Fields, Control
<1>5. Go(r, rec, "xfer")
  BY DEF SeedRandGen
<1>6. Went(r) /\ NewPc(r) = "xfer" /\ Fixed(r, {}) /\ Unseen
  BY <1>1, <1>2, <1>4, <1>5, Quietly, LabelsAre, OnlyTasksIs
<1>7. Onto(r)
  BY <1>2, <1>6 DEF Onto, PlainOn, Plain
<1> QED
  BY <1>6, <1>7 DEF GoesOn

LEMMA SkipPhaseMoves ==
    ASSUME NEW r, Known(r), SkipPhase(r)
    PROVE  Turns(r)
<1>1. Pc(r) = "phase" /\ ~aborted /\ Pc(r) \notin DOMAIN Kind /\ Phase(r) # "finish"
  BY KindIs DEF SkipPhase, At, Pc, Phase
<1>2. DOMAIN st[r] = Fields /\ Placed(r) /\ Typed(r) /\ Given
  BY <1>1, KnownIs
<1>3. TRUE \notin MayElapse(r)
  BY <1>2, ParamsAre DEF MayElapse, Typed
<1>4. ~Wanted(Phase(r)) /\ Go(r, NextPhase(st[r]), "phase")
  BY <1>3, Zenon DEF SkipPhase, Phase
<1>5. test' = test /\ DOMAIN wire' = DOMAIN wire /\ Unseen
  BY DEF SkipPhase, OnlyTasks, Unseen
<1>6. DOMAIN NextPhase(st[r]) = Fields
  BY <1>2 DEF NextPhase
<1>7. At(r, Pc(r))
  BY <1>1, Zenon DEF At, Pc
<1>8. /\ Went(r) /\ NewPc(r) = "phase"
      /\ \A f \in Fields \ {"pc"} : st'[r][f] = NextPhase(st[r])[f]
      /\ \A f \in Control : st'[r][f] = NextPhase(st[r])[f]
  BY <1>1, <1>4, <1>5, <1>6, <1>7, LabelsAre, Gone
<1>9. Fixed(r, {"phase"})
  BY <1>2, <1>8 DEF Fixed, NextPhase, Control, Fields
<1>10. st'[r].phase = Following[Phase(r)]
  BY <1>2, <1>8 DEF NextPhase, Fields, Phase
<1> QED
  BY <1>1, <1>4, <1>5, <1>8, <1>9, <1>10, Zenon DEF Turns

LEMMA GotStampMoves ==
    ASSUME NEW r, Known(r), GotStamp(r)
    PROVE  Turns(r)
<1>1. Leaving(r, "stamp") /\ OnlyTasks
  BY DEF GotStamp
<1>2. Pc(r) = "stamp" /\ ~aborted /\ (Pc(r) \in DOMAIN Kind => MayLeave(r, Pc(r)))
  BY <1>1, LeavesKind
<1>3. DOMAIN st[r] = Fields
  BY KnownIs
<1> DEFINE rec == [st[r] EXCEPT !.stamp = wire.stamp, !.phase = "write"]
<1>4. /\ DOMAIN rec = Fields /\ (\A f \in Control \ {"phase"} : rec[f] = st[r][f]) /\ rec.phase = "write"
      /\ "phase" \in Control
  BY <1>3 DEF Fields, Control
<1>5. test' = test /\ DOMAIN wire' = DOMAIN wire /\ Unseen
  BY <1>1 DEF OnlyTasks, Unseen
<1>6. Go(r, rec, "phase") /\ At(r, Pc(r))
  BY <1>2, Zenon DEF GotStamp, At, Pc
<1>7. /\ Went(r) /\ NewPc(r) = "phase" /\ \A f \in Control : st'[r][f] = rec[f]
  <2> HIDE DEF rec
  <2> QED
    BY <1>2, <1>4, <1>5, <1>6, LabelsAre, Gone
<1>8. Fixed(r, {"phase"}) /\ st'[r].phase = "write"
  BY <1>4, <1>7 DEF Fixed
<1> QED
  BY <1>2, <1>5, <1>7, <1>8, Zenon DEF Turns

LEMMA LeaveTimesMoves ==
    ASSUME NEW r, Known(r), LeaveTimes(r)
    PROVE  Turns(r)
<1>1. Leaving(r, "times") /\ OnlyTasks
  BY DEF LeaveTimes
<1>2. Pc(r) = "times" /\ ~aborted /\ (Pc(r) \in DOMAIN Kind => MayLeave(r, Pc(r)))
  BY <1>1, LeavesKind
<1>3. DOMAIN st[r] = Fields /\ Placed(r)
  BY <1>2, KnownIs
<1>4. Phase(r) # "finish"
  BY <1>2, <1>3 DEF Placed, Inside
<1> DEFINE rec == NextPhase(st[r])
<1>5. /\ DOMAIN rec = Fields /\ (\A f \in Control \ {"phase"} : rec[f] = st[r][f])
      /\ rec.phase = Following[Phase(r)] /\ "phase" \in Control
  BY <1>3 DEF Fields, Control, NextPhase, Phase
<1>6. test' = test /\ DOMAIN wire' = DOMAIN wire /\ Unseen
  BY <1>1 DEF OnlyTasks, Unseen
<1>7. Go(r, rec, "phase") /\ At(r, Pc(r))
  BY <1>2, Zenon DEF LeaveTimes, At, Pc
<1>8. /\ Went(r) /\ NewPc(r) = "phase" /\ \A f \in Control : st'[r][f] = rec[f]
  <2> HIDE DEF rec
  <2> QED
    BY <1>2, <1>5, <1>6, <1>7, LabelsAre, Gone
<1>9. Fixed(r, {"phase"}) /\ st'[r].phase = Following[Phase(r)]
  BY <1>5, <1>8 DEF Fixed
<1> QED
  BY <1>2, <1>4, <1>6, <1>8, <1>9, Zenon DEF Turns

LEMMA CloseMoves ==
    ASSUME NEW r, Known(r), CloseFile(r)
    PROVE  GoesOn(r) \/ Turns(r)
<1>1. Pc(r) = "close" /\ ~aborted /\ Pc(r) \notin DOMAIN Kind /\ OnlyTasks
  BY KindIs DEF CloseFile, At, Pc
<1>2. DOMAIN st[r] = Fields /\ Placed(r)
  BY <1>1, KnownIs
<1>3. Phase(r) \in {"write", "writecheck", "read", "readcheck"}
  BY <1>1, <1>2 DEF Placed, Inside, Phases
<1>4. test' = test /\ DOMAIN wire' = DOMAIN wire /\ Unseen
  BY <1>1 DEF OnlyTasks, Unseen
<1>5. At(r, Pc(r))
  BY <1>1, Zenon DEF At, Pc
<1> DEFINE rec == [st[r] EXCEPT !.fd = 0, !.fdCheck = 0]
<1>6. rec.phase = Phase(r)
  BY <1>2 DEF Fields, Phase
<1>7. CASE Phase(r) \in {"writecheck", "readcheck"}
  <2> DEFINE to == IF Phase(r) = "writecheck" THEN NextPhase([rec EXCEPT !.rankOffset = 0]) ELSE NextPhase(rec)
  <2>1. Go(r, to, "phase")
    BY <1>6, <1>7 DEF AfterClose, CloseFile
  <2>2. /\ DOMAIN to = Fields /\ (\A f \in Control \ {"phase"} : to[f] = st[r][f])
        /\ to.phase = Following[Phase(r)] /\ "phase" \in Control
    BY <1>2 DEF Fields, Control, NextPhase, Phase
  <2> HIDE DEF to
  <2>3. /\ Went(r) /\ NewPc(r) = "phase" /\ \A f \in Control : st'[r][f] = to[f]
    BY <1>1, <1>4, <1>5, <2>1, <2>2, LabelsAre, Gone
  <2>4. Fixed(r, {"phase"}) /\ st'[r].phase = Following[Phase(r)]
    BY <2>2, <2>3 DEF Fixed
  <2>5. Phase(r) # "finish"
    BY <1>7
  <2> QED
    BY <1>1, <1>4, <1>7, <2>3, <2>4, <2>5, Zenon DEF Turns
<1>8. CASE Phase(r) \in {"write", "read"}
  <2> DEFINE label == IF Phase(r) = "write" THEN "closed" ELSE "stat"
  <2>1. Go(r, rec, label)
    BY <1>6, <1>8 DEF AfterClose, CloseFile
  <2>2. DOMAIN rec = Fields /\ \A f \in Control : rec[f] = st[r][f]
    BY <1>2 DEF Fields, Control
  <2>3. Went(r) /\ NewPc(r) = label /\ Fixed(r, {}) /\ Unseen
    <3> HIDE DEF rec
    <3> QED
      BY <1>1, <2>1, <2>2, Quietly, LabelsAre, OnlyTasksIs
  <2>4. Onto(r)
    BY <1>1, <1>8, <2>3 DEF Onto, CloseOn
  <2> QED
    BY <2>3, <2>4 DEF GoesOn
<1> QED
  BY <1>3, <1>7, <1>8

LEMMA StatMoves ==
    ASSUME NEW r, Known(r), StatFile(r)
    PROVE  GoesOn(r) \/ Stops
<1>1. CASE st[r].name \in DOMAIN dir
  <2>1. Pc(r) = "stat" /\ ~aborted /\ Pc(r) \notin DOMAIN Kind /\ OnlyTasks
    BY <1>1, KindIs DEF StatFile, At, Pc
  <2>2. DOMAIN st[r] = Fields
    BY KnownIs
  <2>3. PICK a : Go(r, [st[r] EXCEPT !.statSize = a], "size")
    BY <1>1, Zenon DEF StatFile
  <2> DEFINE rec == [st[r] EXCEPT !.statSize = a]
  <2>4. DOMAIN rec = Fields /\ \A f \in Control : rec[f] = st[r][f]
    BY <2>2 DEF Fields, Control
  <2>5. Went(r) /\ NewPc(r) = "size" /\ Fixed(r, {}) /\ Unseen
    BY <2>1, <2>3, <2>4, Quietly, LabelsAre, OnlyTasksIs
  <2>6. Onto(r)
    BY <2>1, <2>5 DEF Onto, PlainOn, Plain
  <2> QED
    BY <2>5, <2>6 DEF GoesOn
<1>2. CASE st[r].name \notin DOMAIN dir
  BY <1>2 DEF StatFile, Abort, Stops
<1> QED
  BY <1>1, <1>2

LEMMA OpenMoves ==
    ASSUME NEW r, Known(r), CreateFile(r) \/ OpenFile(r)
    PROVE  Opens(r) \/ Stops
<1> SUFFICES ASSUME ~Abort PROVE Opens(r)
  BY DEF Abort, Stops
<1>1. Pc(r) = "open" /\ ~aborted /\ Pc(r) \notin DOMAIN Kind
  BY KindIs DEF CreateFile, OpenFile, At, Pc
<1>2. DOMAIN st[r] = Fields
  BY KnownIs
<1> DEFINE label == IF Phase(r) = "write" /\ Stripes /\ r = 0 THEN "striped" ELSE First(Phase(r))
<1>3. label \in Labels
  BY FirstIs, LabelsAre
<1>4. \E a, b : Go(r, Opened(r, a, b), label)
  <2>1. CASE CreateFile(r)
    <3>1. AfterCreate(r) = label
      BY <2>1, FirstIs DEF AfterCreate, CreateFile, Phase
    <3>2. PICK a : Go(r, Opened(r, a, 0), AfterCreate(r))
      BY <2>1, Zenon DEF CreateFile
    <3> QED
      BY <3>1, <3>2, Zenon
  <2>2. CASE OpenFile(r)
    BY <2>2, FirstIs DEF OpenFile, Phase
  <2> QED
    BY <2>1, <2>2
<1>5. test' = test /\ wire' = wire /\ found' = found
  BY DEF CreateFile, OpenFile, OnlyTasks
<1>6. PICK a, b : Go(r, Opened(r, a, b), label)
  BY <1>4, Zenon
<1> DEFINE rec == Opened(r, a, b)
<1>7. DOMAIN rec = Fields /\ (\A f \in Control \ {"pairCnt", "errors"} : rec[f] = st[r][f])
      /\ rec.pairCnt = 0 /\ rec.errors = 0 /\ {"pairCnt", "errors"} \subseteq Control
  BY <1>2 DEF Opened, Fields, Control
<1>8. At(r, Pc(r))
  BY <1>1, Zenon DEF At, Pc
<1>9. /\ Went(r) /\ NewPc(r) = label /\ \A f \in Control : st'[r][f] = rec[f]
  <2> HIDE DEF rec, label
  <2>1. Go(r, rec, label)
    BY <1>6 DEF rec
  <2> QED
    BY <2>1, <1>1, <1>3, <1>5, <1>7, <1>8, Gone
<1>10. Fixed(r, {"pairCnt", "errors"}) /\ st'[r].pairCnt = 0 /\ st'[r].errors = 0
  BY <1>7, <1>9 DEF Fixed
<1> QED
  BY <1>1, <1>5, <1>9, <1>10 DEF Opens, Unseen

LEMMA MovedOn ==
    ASSUME NEW r, Known(r), NEW rec, NEW off, Go(r, Moved(rec, off), "xfer"), DOMAIN rec = Fields,
           \A f \in Control \ {"errors"} : rec[f] = st[r][f], ~aborted,
           Pc(r) \in DOMAIN Kind => MayLeave(r, Pc(r)), test' = test, wire' = wire
    PROVE  /\ Went(r) /\ NewPc(r) = "xfer" /\ Fixed(r, {"pairCnt", "errors"}) /\ wire'.sum = wire.sum
           /\ st'[r].pairCnt = st[r].pairCnt + 1 /\ st'[r].errors = rec.errors
<1> DEFINE to == Moved(rec, off)
<1>1. /\ DOMAIN to = Fields /\ (\A f \in Control \ {"pairCnt"} : to[f] = rec[f])
      /\ to.pairCnt = rec.pairCnt + 1 /\ {"pairCnt", "errors"} \subseteq Control
  BY DEF Moved, Fields, Control
<1>2. At(r, Pc(r))
  BY Zenon DEF At, Pc
<1>3. Went(r) /\ NewPc(r) = "xfer" /\ \A f \in Control : st'[r][f] = to[f]
  <2> HIDE DEF to
  <2>1. Go(r, to, "xfer")
    BY DEF to
  <2> QED
    BY <1>1, <1>2, <2>1, Gone, LabelsAre
<1> HIDE DEF to
<1> QED
  BY <1>1, <1>3 DEF Fixed

LEMMA XferMoves ==
    ASSUME NEW r, Known(r), WriteXfer(r) \/ ReadXfer(r)
    PROVE  Transfers(r) \/ Stops
<1>1. Pc(r) = "xfer" /\ Phase(r) # "readcheck" /\ ~aborted /\ Pc(r) \notin DOMAIN Kind
  BY KindIs DEF WriteXfer, ReadXfer, At, Pc, Phase
<1>2. DOMAIN st[r] = Fields
  BY KnownIs
<1>3. Stops \/ \E b, off : /\ Go(r, Moved([st[r] EXCEPT !.buffer = b], off), "xfer")
                           /\ test' = test /\ wire' = wire /\ found' = found
  <2>1. CASE WriteXfer(r)
    BY <2>1 DEF WriteXfer
  <2>2. CASE ReadXfer(r)
    <3> SUFFICES ASSUME ~Abort PROVE \E b, off : /\ Go(r, Moved([st[r] EXCEPT !.buffer = b], off), "xfer")
                                                 /\ test' = test /\ wire' = wire /\ found' = found
      BY DEF Abort, Stops
    <3>1. PICK b, off : Go(r, Moved([st[r] EXCEPT !.buffer = b], off), "xfer") /\ OnlyTasks
      BY <2>2, Zenon DEF ReadXfer
    <3>2. test' = test /\ wire' = wire /\ found' = found
      BY <3>1 DEF OnlyTasks
    <3> QED
      BY <3>1, <3>2
  <2> QED
    BY <2>1, <2>2
<1>4. ASSUME NEW b, NEW off, Go(r, Moved([st[r] EXCEPT !.buffer = b], off), "xfer"),
             test' = test, wire' = wire, found' = found
      PROVE  Transfers(r)
  <2> DEFINE rec == [st[r] EXCEPT !.buffer = b]
  <2>1. DOMAIN rec = Fields /\ \A f \in Control : rec[f] = st[r][f]
    BY <1>2 DEF Fields, Control
  <2>2. "errors" \in Control
    BY DEF Control
  <2> HIDE DEF rec
  <2>3. Go(r, Moved(rec, off), "xfer")
    BY <1>4 DEF rec
  <2>4. /\ Went(r) /\ NewPc(r) = "xfer" /\ Fixed(r, {"pairCnt", "errors"}) /\ wire'.sum = wire.sum
        /\ st'[r].pairCnt = st[r].pairCnt + 1 /\ st'[r].errors = rec.errors
    BY <1>1, <1>4, <2>1, <2>3, MovedOn
  <2> QED
    BY <1>1, <1>4, <2>1, <2>2, <2>4 DEF Transfers
<1> QED
  BY <1>3, <1>4

LEMMA ComparedMoves ==
    ASSUME NEW r, Known(r), NEW rec, NEW off, NEW a, NEW b, Compared(r, rec, off, a, b),
           DOMAIN rec = Fields, \A f \in Control : rec[f] = st[r][f], ~aborted,
           Pc(r) \in DOMAIN Kind => MayLeave(r, Pc(r)), test' = test, wire' = wire,
           Phase(r) \in {"writecheck", "readcheck"},
           Pc(r) = (IF Phase(r) = "readcheck" THEN "rc3" ELSE "xfer")
    PROVE  Transfers(r)
<1>1. "errors" \in Control
  BY DEF Control
<1>2. CASE a = b
  BY <1>2, MovedOn, <1>1 DEF Compared, Transfers
<1>3. CASE a # b
  <2> DEFINE bad == [rec EXCEPT !.errors = @ + 1]
  <2>1. Go(r, Moved(bad, off), "xfer") /\ found' = found + 1
    BY <1>3 DEF Compared
  <2>2. DOMAIN bad = Fields /\ (\A f \in Control \ {"errors"} : bad[f] = st[r][f])
        /\ bad.errors = st[r].errors + 1
    BY <1>1 DEF Fields, Control
  <2> HIDE DEF bad
  <2>3. /\ Went(r) /\ NewPc(r) = "xfer" /\ Fixed(r, {"pairCnt", "errors"}) /\ wire'.sum = wire.sum
        /\ st'[r].pairCnt = st[r].pairCnt + 1 /\ st'[r].errors = bad.errors
    BY <2>1, <2>2, MovedOn
  <2> QED
    BY <2>1, <2>2, <2>3 DEF Transfers
<1> QED
  BY <1>2, <1>3

LEMMA WriteCheckMoves ==
    ASSUME NEW r, Known(r), WriteCheckXfer(r)
    PROVE  Transfers(r) \/ Stops
<1> SUFFICES ASSUME ~Abort PROVE Transfers(r)
  BY DEF Abort, Stops
<1>1. Pc(r) = "xfer" /\ Phase(r) = "writecheck" /\ ~aborted /\ Pc(r) \notin DOMAIN Kind
  BY KindIs DEF WriteCheckXfer, At, Pc, Phase
<1>2. DOMAIN st[r] = Fields
  BY KnownIs
<1>3. PICK off : LET rec == [st[r] EXCEPT !.buffer = Filled(r), !.checkBuffer = disk[st[r].fd][off]]
                 IN  /\ Compared(r, rec, off, rec.buffer, rec.checkBuffer)
                     /\ UNCHANGED <<test, dir, disk, wire, faults>>
  BY Zenon DEF WriteCheckXfer
<1> DEFINE rec == [st[r] EXCEPT !.buffer = Filled(r), !.checkBuffer = disk[st[r].fd][off]]
<1>4. DOMAIN rec = Fields /\ \A f \in Control : rec[f] = st[r][f]
  BY <1>2 DEF Fields, Control
<1>5. Compared(r, rec, off, rec.buffer, rec.checkBuffer) /\ test' = test /\ wire' = wire
  BY <1>3
<1> HIDE DEF rec
<1> QED
  BY <1>1, <1>4, <1>5, ComparedMoves

LEMMA CompareMoves ==
    ASSUME NEW r, Known(r), CompareReads(r)
    PROVE  Transfers(r)
<1>1. Leaving(r, "rc3")
  BY DEF CompareReads
<1>2. Pc(r) = "rc3" /\ ~aborted /\ (Pc(r) \in DOMAIN Kind => MayLeave(r, Pc(r)))
  BY <1>1, LeavesKind
<1>3. DOMAIN st[r] = Fields /\ Placed(r)
  BY <1>2, KnownIs
<1>4. Phase(r) = "readcheck"
  BY <1>2, <1>3 DEF Placed
<1>5. /\ Compared(r, st[r], Offset(r), st[r].buffer, st[ReadCheckFrom(r)].checkBuffer)
      /\ test' = test /\ wire' = wire
  BY DEF CompareReads
<1> QED
  BY <1>2, <1>3, <1>4, <1>5, ComparedMoves

\* The read check has as many transfers as every task has.
LEMMA ReadCheckLoop ==
    ASSUME NEW r, Known(r), Pc(r) = "xfer", Phase(r) = "readcheck"
    PROVE  /\ MoreXfers(r) <=> st[r].pairCnt < XfersPerTask
           /\ st[r].pairCnt \in Nat /\ XfersPerTask \in Nat
           /\ ~test.deadlineForStonewalling
<1>1. Placed(r) /\ Given
  BY KnownIs
<1>2. test.checkRead
  BY <1>1 DEF Placed, Inside, Wanted
<1>3. ~test.randomOffset /\ ~test.deadlineForStonewalling /\ XfersPerTask \in Nat
  BY <1>1, <1>2, ParamsAre
<1>4. st[r].pairCnt \in Nat
  BY <1>1 DEF Placed
<1>5. MoreXfers(r) <=> st[r].pairCnt < XfersPerTask
  BY <1>3 DEF MoreXfers, Offsets
<1> QED
  BY <1>3, <1>4, <1>5

LEMMA ReadCheckMoves ==
    ASSUME NEW r, Known(r), ReadCheckXfer(r) \/ Reread(r)
    PROVE  GoesOn(r) \/ Stops
<1> SUFFICES ASSUME ~Abort PROVE GoesOn(r)
  BY DEF Abort, Stops
<1>1. CASE ReadCheckXfer(r)
  <2>1. Pc(r) = "xfer" /\ Phase(r) = "readcheck" /\ ~aborted /\ Pc(r) \notin DOMAIN Kind /\ MoreXfers(r)
    BY <1>1, KindIs DEF ReadCheckXfer, At, Pc, Phase
  <2>2. DOMAIN st[r] = Fields
    BY KnownIs
  <2>3. PICK b : Go(r, [st[r] EXCEPT !.buffer = b], "rc1") /\ OnlyTasks
    BY <1>1, Zenon DEF ReadCheckXfer
  <2> DEFINE rec == [st[r] EXCEPT !.buffer = b]
  <2>4. DOMAIN rec = Fields /\ \A f \in Control : rec[f] = st[r][f]
    BY <2>2 DEF Fields, Control
  <2>5. Went(r) /\ NewPc(r) = "rc1" /\ Fixed(r, {}) /\ Unseen
    BY <2>1, <2>3, <2>4, Quietly, LabelsAre, OnlyTasksIs
  <2>6. st[r].pairCnt < XfersPerTask
    BY <2>1, ReadCheckLoop
  <2>7. Onto(r)
    BY <2>1, <2>5, <2>6, Zenon DEF Onto, RereadOn
  <2> QED
    BY <2>5, <2>7 DEF GoesOn
<1>2. CASE Reread(r)
  <2>1. Leaving(r, "rc1")
    BY <1>2 DEF Reread
  <2>2. Pc(r) = "rc1" /\ ~aborted /\ (Pc(r) \in DOMAIN Kind => MayLeave(r, Pc(r)))
    BY <2>1, LeavesKind
  <2>3. DOMAIN st[r] = Fields
    BY KnownIs
  <2>4. PICK b : Go(r, [st[r] EXCEPT !.checkBuffer = b], "rc2") /\ OnlyTasks
    BY <1>2, Zenon DEF Reread
  <2> DEFINE rec == [st[r] EXCEPT !.checkBuffer = b]
  <2>5. DOMAIN rec = Fields /\ \A f \in Control : rec[f] = st[r][f]
    BY <2>3 DEF Fields, Control
  <2>6. Went(r) /\ NewPc(r) = "rc2" /\ Fixed(r, {}) /\ Unseen
    BY <2>2, <2>4, <2>5, Quietly, LabelsAre, OnlyTasksIs
  <2>7. Onto(r)
    BY <2>2, <2>6 DEF Onto, PlainOn, Plain
  <2> QED
    BY <2>6, <2>7 DEF GoesOn
<1> QED
  BY <1>1, <1>2

LEMMA EndXferMoves ==
    ASSUME NEW r, Known(r), EndXfer(r)
    PROVE  GoesOn(r)
<1>1. Pc(r) = "xfer" /\ ~aborted /\ Pc(r) \notin DOMAIN Kind /\ OnlyTasks
  BY KindIs DEF EndXfer, At, Pc
<1>2. DOMAIN st[r] = Fields
  BY KnownIs
<1> DEFINE label == IF Checks THEN "cntR" ELSE After(Phase(r))
<1>3. Go(r, st[r], label) /\ label \in Labels
  BY FirstIs, LabelsAre DEF EndXfer, Checks
<1>4. Phase(r) = "readcheck" => st[r].pairCnt >= XfersPerTask
  BY <1>1, ReadCheckLoop DEF EndXfer
<1>5. Went(r) /\ NewPc(r) = label /\ Fixed(r, {}) /\ Unseen
  <2> HIDE DEF label
  <2> QED
    BY <1>1, <1>2, <1>3, Quietly, OnlyTasksIs
<1>6. Onto(r)
  BY <1>1, <1>4, <1>5, Zenon DEF Onto, LoopOn
<1> QED
  BY <1>5, <1>6 DEF GoesOn

LEMMA ReduceMoves ==
    ASSUME NEW r, Known(r), ReduceErrors(r)
    PROVE  GoesOn(r) \/ AddsUp(r)
<1>1. Leaving(r, "cntR")
  BY DEF ReduceErrors
<1>2. Pc(r) = "cntR" /\ ~aborted /\ (Pc(r) \in DOMAIN Kind => MayLeave(r, Pc(r)))
  BY <1>1, LeavesKind
<1>3. DOMAIN st[r] = Fields /\ DOMAIN wire = {"stamp", "sum", "seed"}
  BY KnownIs
<1>4. test' = test /\ found' = found /\ Go(r, st[r], "cntB") /\ DOMAIN wire' = DOMAIN wire
  BY <1>3 DEF ReduceErrors
<1>5. CASE r # 0
  <2>1. wire' = wire
    BY <1>5 DEF ReduceErrors
  <2>2. Went(r) /\ NewPc(r) = "cntB" /\ Fixed(r, {}) /\ Unseen
    BY <1>2, <1>3, <1>4, <2>1, Quietly, LabelsAre
  <2>3. Onto(r)
    BY <1>2, <1>5, <2>2, Zenon DEF Onto, ReduceOn
  <2> QED
    BY <2>2, <2>3 DEF GoesOn
<1>6. CASE r = 0
  <2>1. wire'.sum = AllErrors
    BY <1>3, <1>6 DEF ReduceErrors
  <2>2. At(r, Pc(r))
    BY <1>2, Zenon DEF At, Pc
  <2>3. Went(r) /\ NewPc(r) = "cntB" /\ \A f \in Control : st'[r][f] = st[r][f]
    BY <1>2, <1>3, <1>4, <2>2, Gone, LabelsAre
  <2>4. Fixed(r, {})
    BY <2>3 DEF Fixed
  <2> QED
    BY <1>2, <1>4, <1>6, <2>1, <2>3, <2>4, Zenon DEF AddsUp
<1> QED
  BY <1>5, <1>6

LEMMA GotErrorsMoves ==
    ASSUME NEW r, Known(r), GotErrors(r)
    PROVE  Learns(r)
<1>1. Leaving(r, "cntB") /\ OnlyTasks
  BY DEF GotErrors
<1>2. Pc(r) = "cntB" /\ ~aborted /\ (Pc(r) \in DOMAIN Kind => MayLeave(r, Pc(r)))
  BY <1>1, LeavesKind
<1>3. DOMAIN st[r] = Fields
  BY KnownIs
<1> DEFINE rec == [st[r] EXCEPT !.totalErrorCount = AddErrors(r, wire.sum),
                                !.errorFound = @ \/ NotesError(r, wire.sum)]
           label == After(Phase(r))
<1>4. Go(r, rec, label) /\ label \in Labels
  BY FirstIs DEF GotErrors
<1>5. /\ DOMAIN rec = Fields /\ (\A f \in Control \ {"totalErrorCount", "errorFound"} : rec[f] = st[r][f])
      /\ rec.totalErrorCount = st[r].totalErrorCount + wire.sum + wire.sum
      /\ rec.errorFound = (st[r].errorFound \/ wire.sum # 0)
      /\ {"totalErrorCount", "errorFound"} \subseteq Control
  BY <1>3 DEF Fields, Control, AddErrors, NotesError
<1>6. test' = test /\ DOMAIN wire' = DOMAIN wire /\ Unseen
  BY <1>1 DEF OnlyTasks, Unseen
<1>7. At(r, Pc(r))
  BY <1>2, Zenon DEF At, Pc
<1> HIDE DEF rec, label
<1>8. Went(r) /\ NewPc(r) = label /\ \A f \in Control : st'[r][f] = rec[f]
  BY <1>2, <1>4, <1>5, <1>6, <1>7, Gone
<1>9. /\ Fixed(r, {"totalErrorCount", "errorFound"})
      /\ st'[r].totalErrorCount = rec.totalErrorCount /\ st'[r].errorFound = rec.errorFound
  BY <1>5, <1>8 DEF Fixed
<1> QED
  BY <1>2, <1>5, <1>6, <1>8, <1>9, Zenon DEF Learns, label

LEMMA FinishMoves ==
    ASSUME NEW r, Known(r), FinishRep(r) \/ DeleteFile(r)
    PROVE  GoesOn(r)
<1>1. DOMAIN st[r] = Fields
  BY KnownIs
<1>2. CASE FinishRep(r)
  <2>1. Pc(r) = "phase" /\ Phase(r) = "finish" /\ ~aborted /\ Pc(r) \notin DOMAIN Kind /\ OnlyTasks
    BY <1>2, KindIs DEF FinishRep, At, Pc, Phase
  <2> DEFINE label == IF Keeps(r) THEN "repEnd" ELSE "delete"
  <2>2. Go(r, st[r], label) /\ label \in Labels
    BY <1>2, LabelsAre DEF FinishRep
  <2>3. Went(r) /\ NewPc(r) = label /\ Fixed(r, {}) /\ Unseen
    <3> HIDE DEF label
    <3> QED
      BY <1>1, <2>1, <2>2, Quietly, OnlyTasksIs
  <2>4. Onto(r)
    BY <2>1, <2>3, Zenon DEF Onto, FinishOn
  <2> QED
    BY <2>3, <2>4 DEF GoesOn
<1>3. CASE DeleteFile(r)
  <2>1. Leaving(r, "delete")
    BY <1>3 DEF DeleteFile
  <2>2. Pc(r) = "delete" /\ ~aborted /\ (Pc(r) \in DOMAIN Kind => MayLeave(r, Pc(r)))
    BY <2>1, LeavesKind
  <2>3. test' = test /\ wire' = wire /\ found' = found /\ Go(r, st[r], "repEnd")
    BY <1>3 DEF DeleteFile
  <2>4. Went(r) /\ NewPc(r) = "repEnd" /\ Fixed(r, {}) /\ Unseen
    BY <1>1, <2>2, <2>3, Quietly, LabelsAre
  <2>5. Onto(r)
    BY <2>2, <2>4 DEF Onto, PlainOn, Plain
  <2> QED
    BY <2>4, <2>5 DEF GoesOn
<1> QED
  BY <1>2, <1>3

LEMMA EndRepMoves ==
    ASSUME NEW r, Known(r), EndRep(r)
    PROVE  Repeats(r)
<1>1. Leaving(r, "repEnd") /\ OnlyTasks
  BY DEF EndRep
<1>2. Pc(r) = "repEnd" /\ ~aborted /\ (Pc(r) \in DOMAIN Kind => MayLeave(r, Pc(r)))
  BY <1>1, LeavesKind
<1>3. DOMAIN st[r] = Fields
  BY KnownIs
<1> DEFINE rec == [st[r] EXCEPT !.errorFound = FALSE, !.rankOffset = 0, !.rep = @ + 1]
<1>4. Go(r, rec, "rep") /\ "rep" \in Labels
  BY LabelsAre DEF EndRep
<1>5. /\ DOMAIN rec = Fields /\ (\A f \in Control \ {"rep", "errorFound"} : rec[f] = st[r][f])
      /\ rec.rep = Rep(r) + 1 /\ rec.errorFound = FALSE /\ {"rep", "errorFound"} \subseteq Control
  BY <1>3 DEF Fields, Control, Rep
<1>6. test' = test /\ DOMAIN wire' = DOMAIN wire /\ Unseen
  BY <1>1 DEF OnlyTasks, Unseen
<1>7. At(r, Pc(r))
  BY <1>2, Zenon DEF At, Pc
<1> HIDE DEF rec
<1>8. Went(r) /\ NewPc(r) = "rep" /\ \A f \in Control : st'[r][f] = rec[f]
  BY <1>2, <1>4, <1>5, <1>6, <1>7, Gone
<1>9. /\ Fixed(r, {"rep", "errorFound"}) /\ st'[r].rep = Rep(r) + 1 /\ st'[r].errorFound = FALSE
  BY <1>5, <1>8 DEF Fixed
<1> QED
  BY <1>2, <1>6, <1>8, <1>9, Zenon DEF Repeats

\* Every step of a task is one of these moves, or the end of the job.
LEMMA StepMoves ==
    ASSUME NEW r, Known(r), Step(r)
    PROVE  Moves(r) \/ Stops
<1>1. CASE PassOn(r) \/ BeginRep(r) \/ GotStamp(r) \/ SkipPhase(r)
  BY <1>1, PassOnMoves, BeginRepMoves, GotStampMoves, SkipPhaseMoves, Zenon DEF Moves
<1>2. CASE StartWrite(r) \/ StartCheck(r) \/ StartRead(r) \/ LeaveGate(r)
  BY <1>2, StartWriteMoves, StartCheckMoves, StartReadMoves, LeaveGateMoves, Zenon DEF Moves
<1>3. CASE LeaveReady(r) \/ CreateFile(r) \/ LeaveStriped(r) \/ OpenFile(r)
  BY <1>3, LeaveReadyMoves, OpenMoves, LeaveStripedMoves, Zenon DEF Moves
<1>4. CASE GetOffsetArrayRandom(r) \/ SeedRandGen(r) \/ WriteXfer(r) \/ ReadXfer(r) \/ WriteCheckXfer(r)
  BY <1>4, DealMoves, SeedMoves, XferMoves, WriteCheckMoves, Zenon DEF Moves
<1>5. CASE ReadCheckXfer(r) \/ Reread(r) \/ CompareReads(r) \/ EndXfer(r)
  BY <1>5, ReadCheckMoves, CompareMoves, EndXferMoves, Zenon DEF Moves
<1>6. CASE ReduceErrors(r) \/ GotErrors(r) \/ CloseFile(r) \/ StatFile(r)
  BY <1>6, ReduceMoves, GotErrorsMoves, CloseMoves, StatMoves, Zenon DEF Moves
<1>7. CASE LeaveTimes(r) \/ FinishRep(r) \/ DeleteFile(r) \/ EndRep(r)
  BY <1>7, LeaveTimesMoves, FinishMoves, EndRepMoves, Zenon DEF Moves
<1> QED
  BY <1>1, <1>2, <1>3, <1>4, <1>5, <1>6, <1>7, Zenon DEF Step

LEMMA CorruptStops ==
    ASSUME CorruptData PROVE Stops
  BY DEF CorruptData, Stops

-----------------------------------------------------------------------------
(* Where a step leads                                                        *)

LEMMA PlacesAre == \A r : PlaceAt(r, Pc(r), Phase(r), st[r].pairCnt, Keeps(r), Place(r))
<1> SUFFICES ASSUME NEW r PROVE PlaceAt(r, Pc(r), Phase(r), st[r].pairCnt, Keeps(r), Place(r))
  OBVIOUS
<1>1. /\ Pc(r) = "rep" => Place(r) = 0
      /\ Pc(r) \in {"stamp", "commFree", "world", "done"} => Place(r) = 1
      /\ Pc(r) \notin {"rep", "stamp", "commFree", "world", "done"} => Place(r) = Start(Phase(r)) + Within(r)
  BY DEF Place
<1> QED
  BY <1>1 DEF PlaceAt, Within

LEMMA PlacesByPhase ==
    \A r : \A phase \in Phases : Phase(r) = phase =>
        PlaceAt(r, Pc(r), phase, st[r].pairCnt, Keeps(r), Place(r))
  BY PlacesAre

LEMMA Lasting ==
    ASSUME test' = test
    PROVE  /\ N' = N /\ Members' = Members /\ XfersPerTask' = XfersPerTask /\ Checks' = Checks
           /\ Stripes' = Stripes /\ Given' = Given
           /\ \A phase \in Phases :
                  /\ Around(phase)' = Around(phase) /\ Opening(phase)' = Opening(phase)
                  /\ Dealt(phase)' = Dealt(phase) /\ Body(phase)' = Body(phase)
                  /\ Shut(phase)' = Shut(phase) /\ Start(phase)' = Start(phase)
                  /\ Wanted(phase)' = Wanted(phase)
           /\ \A i : Script(i)' = Script(i)
<1>1. N' = N /\ XfersPerTask' = XfersPerTask /\ Checks' = Checks /\ Stripes' = Stripes /\ Given' = Given
  BY DEF N, XfersPerTask, XfersOf, Checks, Stripes, Given, TasksDecideAlike
<1>2. Members' = Members
  BY <1>1 DEF Members
<1>3. \A phase : Around(phase)' = Around(phase)
  BY DEF Around
<1>4. \A phase : Opening(phase)' = Opening(phase)
  BY <1>1, <1>3, Zenon DEF Opening, Bit
<1>5. \A phase : Dealt(phase)' = Dealt(phase)
  BY <1>4 DEF Dealt, Bit
<1>6. \A phase : Body(phase)' = Body(phase)
  BY <1>1, <1>5 DEF Body
<1>7. \A phase : CountEnd(phase)' = CountEnd(phase)
  BY <1>1, <1>6 DEF CountEnd, Bit
<1>8. \A phase : Shut(phase)' = Shut(phase)
  BY <1>3, <1>7 DEF Shut, Bit
<1>9. \A phase \in Phases : Wanted(phase)' = Wanted(phase)
  BY Zenon DEF Wanted
<1>10. \A phase \in Phases : LengthOf(phase)' = LengthOf(phase)
  BY <1>8, <1>9 DEF LengthOf
<1>11. \A phase \in Phases : Start(phase)' = Start(phase)
  BY <1>10 DEF Phases, Start
<1>12. \A phase, j : CallOf(phase, j)' = CallOf(phase, j)
  BY <1>4, <1>5, <1>6, <1>7, <1>8, Zenon DEF CallOf, Bit
<1>13. \A i : Script(i)' = Script(i)
  BY <1>11, <1>12 DEF Phases, Script
<1> QED
  BY <1>1, <1>2, <1>3, <1>4, <1>5, <1>6, <1>8, <1>9, <1>11, <1>13

LEMMA OpeningIs ==
    /\ Opening("write") = 1 + Bit(Stripes) + Bit(Around("write"))
    /\ Opening("read") = 1 + Bit(Around("read"))
    /\ Opening("writecheck") = 1 /\ Opening("readcheck") = 2
    /\ ~Around("writecheck") /\ ~Around("readcheck")
  BY DEF Opening, Around

LEMMA ScriptTable ==
    ASSUME Given, NEW phase \in Phases \ {"finish"}, Wanted(phase)
    PROVE  /\ \A j \in Nat \ {0} :
                  /\ j <= Opening(phase) => Script(Start(phase) + j) = "Barrier"
                  /\ Opening(phase) < j /\ j <= Dealt(phase) => Script(Start(phase) + j) = "Bcast"
                  /\ Dealt(phase) < j /\ j <= Body(phase) => Script(Start(phase) + j) = "Barrier"
                  /\ CountEnd(phase) < j /\ j <= Shut(phase) => Script(Start(phase) + j) = "Barrier"
           /\ Checks => /\ Script(Start(phase) + (Body(phase) + 1)) = "Reduce"
                        /\ Script(Start(phase) + (Body(phase) + 2)) = "Bcast"
           /\ phase = "write" => Script(Start(phase) + (Shut(phase) + 1)) = "Barrier"
           /\ phase \in {"write", "read"} =>
                  /\ Script(Start(phase) + (Shut(phase) + Bit(phase = "write") + 1)) = "Allreduce"
                  /\ Script(Start(phase) + (Shut(phase) + Bit(phase = "write") + 2)) = "Reduce"
<1>1. /\ Opening(phase) \in Nat /\ Dealt(phase) \in Nat /\ Body(phase) \in Nat /\ CountEnd(phase) \in Nat
      /\ Shut(phase) \in Nat /\ Opening(phase) <= Dealt(phase) /\ Dealt(phase) <= Body(phase)
      /\ Body(phase) <= CountEnd(phase) /\ CountEnd(phase) <= Shut(phase)
      /\ Checks => CountEnd(phase) = Body(phase) + 2
  BY StagesAre
<1>2. /\ LengthOf(phase) \in Nat /\ LengthOf(phase) >= Shut(phase)
      /\ phase = "write" => LengthOf(phase) = Shut(phase) + 3
      /\ phase = "read" => LengthOf(phase) = Shut(phase) + 2
  BY LengthIs, <1>1 DEF Rest
<1>3. Bit(phase = "write") \in {0, 1} /\ (phase = "write" => Bit(phase = "write") = 1)
      /\ (phase # "write" => Bit(phase = "write") = 0)
  BY DEF Bit
<1>4. \A j \in 1 .. LengthOf(phase) : Script(Start(phase) + j) = CallOf(phase, j)
  BY ScriptIs
<1>5. \A j \in Nat \ {0} : j <= Shut(phase) => Script(Start(phase) + j) = CallOf(phase, j)
  BY <1>1, <1>2, <1>4
<1>6. ASSUME NEW j \in Nat \ {0}
      PROVE  /\ j <= Opening(phase) => Script(Start(phase) + j) = "Barrier"
             /\ Opening(phase) < j /\ j <= Dealt(phase) => Script(Start(phase) + j) = "Bcast"
             /\ Dealt(phase) < j /\ j <= Body(phase) => Script(Start(phase) + j) = "Barrier"
             /\ CountEnd(phase) < j /\ j <= Shut(phase) => Script(Start(phase) + j) = "Barrier"
  BY <1>1, <1>3, CallIs, <1>5
<1>7. Checks => /\ Script(Start(phase) + (Body(phase) + 1)) = "Reduce"
                /\ Script(Start(phase) + (Body(phase) + 2)) = "Bcast"
  <2> SUFFICES ASSUME Checks PROVE /\ Script(Start(phase) + (Body(phase) + 1)) = "Reduce"
                                   /\ Script(Start(phase) + (Body(phase) + 2)) = "Bcast"
    OBVIOUS
  <2>1. /\ Body(phase) + 1 \in Nat \ {0} /\ Body(phase) + 1 <= Shut(phase)
        /\ Body(phase) + 2 \in Nat \ {0} /\ Body(phase) + 2 <= Shut(phase)
    BY <1>1
  <2>2. CallOf(phase, Body(phase) + 1) = "Reduce" /\ CallOf(phase, Body(phase) + 2) = "Bcast"
    BY <2>1, CallIs
  <2> QED
    BY <1>5, <2>1, <2>2
<1>8. phase = "write" => Script(Start(phase) + (Shut(phase) + 1)) = "Barrier"
  <2> SUFFICES ASSUME phase = "write" PROVE Script(Start(phase) + (Shut(phase) + 1)) = "Barrier"
    OBVIOUS
  <2> DEFINE j == Shut(phase) + 1
  <2>1. j \in Nat /\ j \in 1 .. LengthOf(phase) /\ CountEnd(phase) < j
        /\ j <= Shut(phase) + Bit(phase = "write")
    BY <1>1, <1>2, <1>3
  <2> HIDE DEF j
  <2>2. CallOf(phase, j) = "Barrier"
    BY <2>1, CallIs
  <2>3. Script(Start(phase) + j) = "Barrier"
    BY <1>4, <2>1, <2>2
  <2> QED
    BY <2>3 DEF j
<1>9. phase \in {"write", "read"} =>
          /\ Script(Start(phase) + (Shut(phase) + Bit(phase = "write") + 1)) = "Allreduce"
          /\ Script(Start(phase) + (Shut(phase) + Bit(phase = "write") + 2)) = "Reduce"
  <2> SUFFICES ASSUME phase \in {"write", "read"}
               PROVE  /\ Script(Start(phase) + (Shut(phase) + Bit(phase = "write") + 1)) = "Allreduce"
                      /\ Script(Start(phase) + (Shut(phase) + Bit(phase = "write") + 2)) = "Reduce"
    OBVIOUS
  <2> DEFINE j == Shut(phase) + Bit(phase = "write") + 1
             k == Shut(phase) + Bit(phase = "write") + 2
  <2>1. j \in Nat /\ k \in Nat /\ j \in 1 .. LengthOf(phase) /\ k \in 1 .. LengthOf(phase)
    BY <1>1, <1>2, <1>3
  <2>2. CallOf(phase, j) = "Allreduce" /\ CallOf(phase, k) = "Reduce"
    BY <2>1, CallIs
  <2> HIDE DEF j, k
  <2>3. Script(Start(phase) + j) = "Allreduce" /\ Script(Start(phase) + k) = "Reduce"
    BY <1>4, <2>1, <2>2
  <2> QED
    BY <2>3 DEF j, k
<1> QED
  BY <1>6, <1>7, <1>8, <1>9

\* The new values of what Placed and Place look at.
LEMMA NewIs ==
    ASSUME NEW r, Went(r)
    PROVE  /\ Pc(r)' = NewPc(r) /\ Phase(r)' = st'[r].phase /\ Rep(r)' = st'[r].rep
           /\ test' = test
  BY DEF Pc, Phase, Rep, NewPc, Went

LEMMA FixedIs ==
    ASSUME NEW r, Fixed(r, {})
    PROVE  /\ st'[r].phase = Phase(r) /\ st'[r].rep = Rep(r) /\ st'[r].pairCnt = st[r].pairCnt
           /\ st'[r].errors = st[r].errors /\ st'[r].totalErrorCount = st[r].totalErrorCount
           /\ st'[r].errorFound = st[r].errorFound /\ st'[r].elapsed = st[r].elapsed
  BY DEF Fixed, Control, Phase, Rep

\* The moves that only lead on, one by one.
LEMMA PlainIs ==
    ASSUME NEW r, PlainOn(r)
    PROVE  \/ Pc(r) = "hist" /\ NewPc(r) = "ready"
           \/ Pc(r) = "deal" /\ NewPc(r) = "seed"
           \/ Pc(r) = "seed" /\ NewPc(r) = "xfer"
           \/ Pc(r) = "rc1" /\ NewPc(r) = "rc2"
           \/ Pc(r) = "rc2" /\ NewPc(r) = "rc3"
           \/ Pc(r) = "xfered" /\ NewPc(r) = "close"
           \/ Pc(r) = "closed" /\ NewPc(r) = "stat"
           \/ Pc(r) = "stat" /\ NewPc(r) = "size"
           \/ Pc(r) = "size" /\ NewPc(r) = "times"
           \/ Pc(r) = "delete" /\ NewPc(r) = "repEnd"
           \/ Pc(r) = "commFree" /\ NewPc(r) = "world"
           \/ Pc(r) = "world" /\ NewPc(r) = "done"
  BY DEF PlainOn, Plain

LEMMA GoesOnPlaced ==
    ASSUME NEW r, Given, Placed(r), Typed(r), GoesOn(r)
    PROVE  Placed(r)' /\ Typed(r)' /\ Rep(r)' = Rep(r)
<1>1. /\ Pc(r)' = NewPc(r) /\ Phase(r)' = Phase(r) /\ Rep(r)' = Rep(r) /\ test' = test
      /\ st'[r].pairCnt = st[r].pairCnt /\ st'[r].errors = st[r].errors
      /\ st'[r].totalErrorCount = st[r].totalErrorCount
      /\ st'[r].errorFound = st[r].errorFound /\ st'[r].elapsed = st[r].elapsed
  BY NewIs, FixedIs DEF GoesOn
<1>2. Typed(r)'
  BY <1>1 DEF Typed, Checks
<1>3. Placed(r)'
  <2>1. Keeps(r)' <=> Keeps(r)
    BY <1>1, Zenon DEF Keeps
  <2>2. test.repetitions \in Nat /\ (test.randomOffset => ~test.checkRead)
    BY ParamsAre
  <2>k. XfersPerTask' = XfersPerTask
    BY <1>1, Lasting
  <2> USE <1>1, <2>1, <2>2, <2>k DEF Placed, Wanted, Around, Stripes, Checks,
                   Outside, Ends, Inside, Phases
  <2>3. BeginOn(r) => Placed(r)'
    BY DEF BeginOn
  <2>4. EnterOn(r) => Placed(r)'
    BY DEF EnterOn
  <2>5. GateOn(r) => Placed(r)'
    BY DEF GateOn
  <2>6. ReadyOn(r) => Placed(r)'
    BY DEF ReadyOn
  <2>7. StripedOn(r) => Placed(r)'
    BY DEF StripedOn, First
  <2>8. OpenedOn(r) => Placed(r)'
    BY DEF OpenedOn
  <2>9. RereadOn(r) => Placed(r)'
    BY DEF RereadOn
  <2>10. LoopOn(r) => Placed(r)'
    BY DEF LoopOn, After
  <2>11. ReduceOn(r) => Placed(r)'
    BY DEF ReduceOn
  <2>12. CloseOn(r) => Placed(r)'
    BY DEF CloseOn
  <2>13. FinishOn(r) => Placed(r)'
    BY DEF FinishOn
  <2>14. ASSUME PlainOn(r) PROVE Placed(r)'
    <3>1. Pc(r) = "hist" /\ NewPc(r) = "ready" => Placed(r)'
      OBVIOUS
    <3>2. Pc(r) = "deal" /\ NewPc(r) = "seed" => Placed(r)'
      OBVIOUS
    <3>3. Pc(r) = "seed" /\ NewPc(r) = "xfer" => Placed(r)'
      OBVIOUS
    <3>4. Pc(r) = "rc1" /\ NewPc(r) = "rc2" => Placed(r)'
      OBVIOUS
    <3>5. Pc(r) = "rc2" /\ NewPc(r) = "rc3" => Placed(r)'
      OBVIOUS
    <3>6. Pc(r) = "xfered" /\ NewPc(r) = "close" => Placed(r)'
      OBVIOUS
    <3>7. Pc(r) = "closed" /\ NewPc(r) = "stat" => Placed(r)'
      OBVIOUS
    <3>8. Pc(r) = "stat" /\ NewPc(r) = "size" => Placed(r)'
      OBVIOUS
    <3>9. Pc(r) = "size" /\ NewPc(r) = "times" => Placed(r)'
      OBVIOUS
    <3>10. Pc(r) = "delete" /\ NewPc(r) = "repEnd" => Placed(r)'
      OBVIOUS
    <3>11. Pc(r) = "commFree" /\ NewPc(r) = "world" => Placed(r)'
      OBVIOUS
    <3>12. Pc(r) = "world" /\ NewPc(r) = "done" => Placed(r)'
      OBVIOUS
    <3> QED
      <4> HIDE DEF Placed
      <4> QED
        BY ONLY PlainIs, <2>14, <3>1, <3>2, <3>3, <3>4, <3>5, <3>6, <3>7, <3>8, <3>9, <3>10, <3>11, <3>12
  <2> QED
    BY <2>3, <2>4, <2>5, <2>6, <2>7, <2>8, <2>9, <2>10, <2>11, <2>12, <2>13, <2>14, Zenon DEF GoesOn, Onto
<1> QED
  BY <1>1, <1>2, <1>3

LEMMA NewPlacesByPhase ==
    (\A r : \A phase \in Phases : Phase(r) = phase =>
        PlaceAt(r, Pc(r), phase, st[r].pairCnt, Keeps(r), Place(r)))'
  BY PlacesByPhase, PTL

\* Where a task is after a move.
LEMMA NewPlace ==
    ASSUME NEW r, Went(r), st'[r].phase \in Phases
    PROVE  PlaceAt(r, NewPc(r), st'[r].phase, st'[r].pairCnt, Keeps(r)', Place(r)')
<1>1. /\ Pc(r)' = NewPc(r) /\ Phase(r)' = st'[r].phase /\ Rep(r)' = st'[r].rep /\ test' = test
  BY NewIs
<1>3. \A phase \in Phases : Phase(r)' = phase =>
          PlaceAt(r, Pc(r), phase, st[r].pairCnt, Keeps(r), Place(r))'
  BY NewPlacesByPhase
<1>4. ASSUME NEW phase \in Phases, st'[r].phase = phase
      PROVE  PlaceAt(r, NewPc(r), phase, st'[r].pairCnt, Keeps(r)', Place(r)')
  BY <1>1, <1>3, <1>4, Lasting DEF PlaceAt, Bit
<1> QED
  BY <1>4

LEMMA GoesOnSteps ==
    ASSUME NEW r, Given, Placed(r), GoesOn(r)
    PROVE  Steps(r)
<1> DEFINE phase == Phase(r)
           pairs == IF phase = "readcheck" THEN 3 * st[r].pairCnt ELSE 0
           around == Bit(Around(phase))
           stripes == Bit(Stripes)
           random == Bit(test.randomOffset)
           checks == Bit(Checks)
<1>1. phase \in Phases /\ Went(r) /\ st'[r].phase = phase /\ st'[r].pairCnt = st[r].pairCnt
  BY FixedIs DEF GoesOn, Placed
<1>2. PlaceAt(r, Pc(r), phase, st[r].pairCnt, Keeps(r), Place(r))
  BY PlacesAre
<1>3. Keeps(r)' <=> Keeps(r)
  BY <1>1, FixedIs, NewIs DEF GoesOn, Keeps
<1>4. PlaceAt(r, NewPc(r), phase, st[r].pairCnt, Keeps(r)', Place(r)')
  BY <1>1, NewPlace
<1>5. /\ Opening(phase) \in Nat /\ Opening(phase) >= 1
      /\ Dealt(phase) \in Nat /\ Dealt(phase) = Opening(phase) + random
      /\ Body(phase) \in Nat
      /\ Body(phase) = Dealt(phase) + (IF phase = "readcheck" THEN 3 * XfersPerTask ELSE 0)
      /\ CountEnd(phase) \in Nat /\ CountEnd(phase) = Body(phase) + 2 * checks
      /\ Shut(phase) \in Nat /\ Shut(phase) = CountEnd(phase) + around
      /\ XfersPerTask \in Nat /\ Start(phase) \in Nat
  BY <1>1, StagesAre, StartIs
<1>6. Bit(phase = "write") = IF phase = "write" THEN 1 ELSE 0
  BY DEF Bit
<1>7. /\ phase = "write" => Opening(phase) = 1 + stripes + around
      /\ phase = "read" => Opening(phase) = 1 + around
      /\ phase = "writecheck" => Opening(phase) = 1
      /\ phase = "readcheck" => Opening(phase) = 2
  BY OpeningIs
<1>8. /\ (Stripes => stripes = 1) /\ (~Stripes => stripes = 0)
      /\ (Around(phase) => around = 1) /\ (~Around(phase) => around = 0)
      /\ (Checks => checks = 1) /\ (~Checks => checks = 0)
      /\ (test.randomOffset => random = 1) /\ (~test.randomOffset => random = 0)
  BY DEF Bit
<1> HIDE DEF around, stripes, random, checks
<1>9. Around(phase) => phase \in {"write", "read"}
  BY DEF Around
<1>10. Pc(r) \in Inside \cup {"phase"} /\ phase # "finish" /\ Wanted(phase) =>
           /\ \A j \in Nat \ {0} :
                  /\ j <= Opening(phase) => Script(Start(phase) + j) = "Barrier"
                  /\ Opening(phase) < j /\ j <= Dealt(phase) => Script(Start(phase) + j) = "Bcast"
                  /\ Dealt(phase) < j /\ j <= Body(phase) => Script(Start(phase) + j) = "Barrier"
                  /\ CountEnd(phase) < j /\ j <= Shut(phase) => Script(Start(phase) + j) = "Barrier"
           /\ Checks => /\ Script(Start(phase) + (Body(phase) + 1)) = "Reduce"
                        /\ Script(Start(phase) + (Body(phase) + 2)) = "Bcast"
           /\ phase = "write" => Script(Start(phase) + (Shut(phase) + 1)) = "Barrier"
           /\ phase \in {"write", "read"} =>
                  /\ Script(Start(phase) + (Shut(phase) + Bit(phase = "write") + 1)) = "Allreduce"
                  /\ Script(Start(phase) + (Shut(phase) + Bit(phase = "write") + 2)) = "Reduce"
  BY <1>1, ScriptTable
<1>11. Rep(r) < test.repetitions =>
           \A j \in Nat : Place(r) = Start(phase) + j => Due(r) = Script(Start(phase) + (j + 1))
  BY ParamsAre, <1>5 DEF Placed, Due
<1> DEFINE Goes(place, label, place2) ==
               Place(r) = Start(phase) + place /\ NewPc(r) = label /\ Place(r)' = Start(phase) + place2
<1>12. ASSUME NEW place \in Nat, NEW label \in TestLabels, Goes(place, label, place + 1),
              Rep(r) < test.repetitions, Script(Start(phase) + (place + 1)) = Kind[label]
       PROVE  Steps(r)
  BY <1>5, <1>8, <1>11, <1>12 DEF Steps
<1>13. ASSUME NEW place \in Nat, NEW label, label \notin TestLabels, Goes(place, label, place)
       PROVE  Steps(r)
  BY <1>13 DEF Steps
<1>14. Pc(r) \in Inside \cup Ends => Rep(r) < test.repetitions
  BY DEF Placed, Inside, Ends
<1> HIDE DEF phase, pairs
<1>15. CASE BeginOn(r)
  <2>1. Place(r) = 0 /\ NewPc(r) = (IF Rep(r) < test.repetitions THEN "stamp" ELSE "commFree") /\ Place(r)' = 1
    BY <1>2, <1>4, <1>15 DEF BeginOn, PlaceAt
  <2>2. Rep(r) \in Nat /\ test.repetitions \in Nat /\ Rep(r) <= test.repetitions
    BY ParamsAre DEF Placed
  <2>3. Due(r) = Kind[NewPc(r)]
    BY <2>1, <2>2, ScriptIs, KindIs DEF Due
  <2> QED
    BY <2>1, <2>3, KindIs DEF Steps
<1>16. CASE EnterOn(r)
  <2>1. \/ Goes(0, "hist", 0) \/ Goes(0, "ready", 1) \/ Goes(0, "gate", 1)
    BY <1>2, <1>4, <1>16 DEF EnterOn, PlaceAt, phase
  <2>2. Script(Start(phase) + 1) = "Barrier"
    BY <1>5, <1>8, <1>10, <1>16 DEF EnterOn, phase
  <2>3. Rep(r) < test.repetitions
    BY <1>14, <1>16 DEF EnterOn, Ends
  <2>4. "hist" \notin TestLabels /\ "ready" \in TestLabels /\ "gate" \in TestLabels
        /\ Kind["ready"] = "Barrier" /\ Kind["gate"] = "Barrier"
    BY KindIs
  <2> QED
    BY <2>1, <2>2, <2>3, <2>4, <1>12, <1>13
<1>17. CASE GateOn(r)
  <2>1. (phase = "writecheck" /\ Goes(1, "open", 1)) \/ (phase = "readcheck" /\ Goes(1, "ready", 2))
    BY <1>2, <1>4, <1>17 DEF GateOn, PlaceAt, Placed, phase
  <2>2. phase = "readcheck" => Script(Start(phase) + 2) = "Barrier"
    BY <1>5, <1>8, <1>7, <1>10, <1>17 DEF GateOn, Placed, Inside, phase
  <2>3. Rep(r) < test.repetitions
    BY <1>14, <1>17 DEF GateOn, Inside
  <2>4. "open" \notin TestLabels /\ "ready" \in TestLabels /\ Kind["ready"] = "Barrier"
    BY KindIs
  <2> QED
    BY <2>1, <2>2, <2>3, <2>4, <1>12, <1>13
<1>18. CASE ReadyOn(r)
  <2>1. \/ phase = "write" /\ Stripes /\ Goes(1, "striped", 2)
        \/ Goes(1, "open", 1) \/ Goes(2, "open", 2)
    BY <1>2, <1>4, <1>18 DEF ReadyOn, PlaceAt, Placed, phase
  <2>2. phase = "write" /\ Stripes => Script(Start(phase) + 2) = "Barrier"
    BY <1>5, <1>7, <1>8, <1>10, <1>18 DEF ReadyOn, Placed, Inside, phase
  <2>3. Rep(r) < test.repetitions
    BY <1>14, <1>18 DEF ReadyOn, Inside
  <2>4. "open" \notin TestLabels /\ "striped" \in TestLabels /\ Kind["striped"] = "Barrier"
    BY KindIs
  <2> QED
    BY <2>1, <2>2, <2>3, <2>4, <1>12, <1>13
<1>19. CASE StripedOn(r)
  <2>0. phase = "write" /\ Stripes
    BY <1>19 DEF StripedOn, Placed, phase
  <2>1. \/ Around(phase) /\ Goes(2, "opened", 3)
        \/ Goes(2, "deal", 2) \/ Goes(2, "xfer", 2) \/ Goes(2, "open", 2)
    <3>1. Opening(phase) = 2 + around
      BY <2>0, <1>5, <1>7, <1>8
    <3>2. CASE r # 0
      BY <1>2, <1>4, <1>19, <3>2, <2>0 DEF StripedOn, PlaceAt, phase
    <3>3. CASE r = 0 /\ Around(phase)
      <4>1. Opening(phase) = 3 /\ NewPc(r) = "opened" /\ Pc(r) = "striped"
        BY <1>5, <1>8, <1>19, <3>1, <3>3 DEF StripedOn, First, phase
      <4> QED
        BY <1>2, <1>4, <3>3, <4>1 DEF PlaceAt
    <3>4. CASE r = 0 /\ ~Around(phase)
      BY <1>2, <1>4, <1>5, <1>8, <1>19, <3>1, <3>4, <2>0 DEF StripedOn, PlaceAt, First, phase
    <3> QED
      BY <3>2, <3>3, <3>4
  <2>2. Around(phase) => Script(Start(phase) + 3) = "Barrier"
    BY <2>0, <1>5, <1>7, <1>8, <1>10, <1>19 DEF StripedOn, Placed, Inside, phase
  <2>3. Rep(r) < test.repetitions
    BY <1>14, <1>19 DEF StripedOn, Inside
  <2>4. "open" \notin TestLabels /\ "deal" \notin TestLabels /\ "xfer" \notin TestLabels
        /\ "opened" \in TestLabels /\ Kind["opened"] = "Barrier"
    BY KindIs
  <2> QED
    BY <2>1, <2>2, <2>3, <2>4, <1>12, <1>13
<1>20. CASE OpenedOn(r)
  <2>1. Goes(Opening(phase), "deal", Opening(phase)) \/ Goes(Opening(phase), "xfer", Opening(phase))
    <3>1. phase # "readcheck"
      BY <1>9, <1>20 DEF OpenedOn, Placed, phase
    <3>2. CASE test.randomOffset
      BY <1>2, <1>4, <1>20, <3>2 DEF OpenedOn, PlaceAt
    <3>3. CASE ~test.randomOffset
      BY <1>2, <1>4, <1>5, <1>8, <1>20, <3>1, <3>3 DEF OpenedOn, PlaceAt
    <3> QED
      BY <3>2, <3>3
  <2>2. "deal" \notin TestLabels /\ "xfer" \notin TestLabels
    BY KindIs
  <2> QED
    BY <1>5, <1>8, <2>1, <2>2, <1>13
<1>21. CASE RereadOn(r)
  <2>1. pairs \in Nat /\ pairs + 1 <= 3 * XfersPerTask /\ phase = "readcheck" /\ pairs = 3 * st[r].pairCnt
    BY <1>5, <1>8, <1>21 DEF RereadOn, Placed, phase, pairs
  <2>2. Goes(Dealt(phase) + pairs, "rc1", Dealt(phase) + pairs + 1)
    BY <1>2, <1>4, <1>21, <2>1 DEF RereadOn, PlaceAt
  <2>3. Script(Start(phase) + (Dealt(phase) + pairs + 1)) = "Barrier"
    <3>1. \A j \in Nat \ {0} : Dealt(phase) < j /\ j <= Body(phase) => Script(Start(phase) + j) = "Barrier"
      BY <1>10, <1>21 DEF RereadOn, Placed, Inside, phase
    <3> QED
      BY <1>5, <1>8, <2>1, <3>1
  <2>4. Rep(r) < test.repetitions
    BY <1>14, <1>21 DEF RereadOn, Inside
  <2>5. "rc1" \in TestLabels /\ Kind["rc1"] = "Barrier"
    BY KindIs
  <2> QED
    BY <1>5, <1>8, <2>1, <2>2, <2>3, <2>4, <2>5, <1>12
<1>22. CASE LoopOn(r)
  <2>1. Place(r) = Start(phase) + Body(phase)
    <3>1. Dealt(phase) + pairs = Body(phase)
      BY <1>5, <1>8, <1>22 DEF LoopOn, Placed, phase, pairs
    <3>2. Place(r) = Start(phase) + (Dealt(phase) + pairs)
      BY <1>2, <1>22 DEF LoopOn, PlaceAt, pairs, phase
    <3> QED
      BY <3>1, <3>2
  <2>2. \/ Checks /\ Goes(Body(phase), "cntR", Body(phase) + 1)
        \/ ~Checks /\ Around(phase) /\ Goes(Body(phase), "xfered", Body(phase) + 1)
        \/ Goes(Body(phase), "close", Body(phase))
    <3>1. CASE Checks
      BY <1>4, <1>22, <2>1, <3>1 DEF LoopOn, PlaceAt
    <3>2. CASE ~Checks /\ Around(phase)
      <4>1. Shut(phase) = Body(phase) + 1 /\ NewPc(r) = "xfered"
        BY <1>5, <1>8, <1>22, <3>2 DEF LoopOn, After, phase
      <4> QED
        BY <1>4, <2>1, <3>2, <4>1, <1>5 DEF PlaceAt
    <3>3. CASE ~Checks /\ ~Around(phase)
      BY <1>4, <1>5, <1>8, <1>22, <2>1, <3>3 DEF LoopOn, PlaceAt, After, phase
    <3> QED
      BY <3>1, <3>2, <3>3
  <2>3. /\ Checks => Script(Start(phase) + (Body(phase) + 1)) = "Reduce"
        /\ ~Checks /\ Around(phase) => Script(Start(phase) + (Body(phase) + 1)) = "Barrier"
    BY <1>5, <1>8, <1>10, <1>22 DEF LoopOn, Placed, Inside, phase
  <2>4. Rep(r) < test.repetitions
    BY <1>14, <1>22 DEF LoopOn, Inside
  <2>5. "close" \notin TestLabels /\ "xfered" \in TestLabels /\ "cntR" \in TestLabels
        /\ Kind["xfered"] = "Barrier" /\ Kind["cntR"] = "Reduce"
    BY KindIs
  <2> QED
    BY <1>5, <1>8, <2>2, <2>3, <2>4, <2>5, <1>12, <1>13
<1>23. CASE ReduceOn(r)
  <2>1. Goes(Body(phase) + 1, "cntB", Body(phase) + 2)
    BY <1>2, <1>4, <1>23 DEF ReduceOn, PlaceAt
  <2>2. Script(Start(phase) + (Body(phase) + 2)) = "Bcast"
    BY <1>10, <1>23 DEF ReduceOn, Placed, Inside, phase
  <2>3. Rep(r) < test.repetitions
    BY <1>14, <1>23 DEF ReduceOn, Inside
  <2>4. "cntB" \in TestLabels /\ Kind["cntB"] = "Bcast"
    BY KindIs
  <2>5. Body(phase) + 1 \in Nat /\ (Body(phase) + 1) + 1 = Body(phase) + 2
    BY <1>5
  <2> QED
    BY <2>1, <2>2, <2>3, <2>4, <2>5, <1>12
<1>24. CASE CloseOn(r)
  <2>1. \/ phase = "write" /\ Goes(Shut(phase), "closed", Shut(phase) + 1)
        \/ Goes(Shut(phase), "stat", Shut(phase))
    BY <1>2, <1>4, <1>5, <1>8, <1>6, <1>24 DEF CloseOn, PlaceAt, phase
  <2>2. phase = "write" => Script(Start(phase) + (Shut(phase) + 1)) = "Barrier"
    BY <1>10, <1>24 DEF CloseOn, Placed, Inside, phase
  <2>3. Rep(r) < test.repetitions
    BY <1>14, <1>24 DEF CloseOn, Inside
  <2>4. "stat" \notin TestLabels /\ "closed" \in TestLabels /\ Kind["closed"] = "Barrier"
    BY KindIs
  <2> QED
    BY <1>5, <1>8, <2>1, <2>2, <2>3, <2>4, <1>12, <1>13
<1>25. CASE FinishOn(r)
  <2>1. Goes(0, "repEnd", 1) \/ Goes(0, "delete", 1)
    <3>1. Bit(~Keeps(r)') \in {0, 1} /\ (Keeps(r)' => Bit(~Keeps(r)') = 0)
      BY DEF Bit
    <3>2. CASE Keeps(r)
      BY <1>2, <1>3, <1>4, <1>25, <3>1, <3>2 DEF FinishOn, PlaceAt
    <3>3. CASE ~Keeps(r)
      BY <1>2, <1>4, <1>25, <3>3 DEF FinishOn, PlaceAt
    <3> QED
      BY <3>2, <3>3
  <2>2. Script(Start(phase) + 1) = "Barrier"
    BY <1>5, <1>8, <1>25, ScriptIs DEF FinishOn, phase
  <2>3. Rep(r) < test.repetitions
    BY <1>14, <1>25 DEF FinishOn, Ends
  <2>4. "repEnd" \in TestLabels /\ "delete" \in TestLabels
        /\ Kind["repEnd"] = "Barrier" /\ Kind["delete"] = "Barrier"
    BY KindIs
  <2> QED
    BY <2>1, <2>2, <2>3, <2>4, <1>12
<1>26. CASE PlainOn(r)
  <2> DEFINE rest == Shut(phase) + Bit(phase = "write")
  <2>1. /\ Pc(r) = "hist" /\ NewPc(r) = "ready" => Goes(0, "ready", 1)
        /\ Pc(r) = "deal" /\ NewPc(r) = "seed" => Goes(Opening(phase), "seed", Opening(phase) + 1)
        /\ Pc(r) = "rc1" /\ NewPc(r) = "rc2" =>
               Goes(Dealt(phase) + pairs + 1, "rc2", Dealt(phase) + pairs + 2)
        /\ Pc(r) = "rc2" /\ NewPc(r) = "rc3" =>
               Goes(Dealt(phase) + pairs + 2, "rc3", Dealt(phase) + pairs + 3)
        /\ Pc(r) = "xfered" /\ NewPc(r) = "close" => Goes(Shut(phase), "close", Shut(phase))
        /\ Pc(r) = "closed" /\ NewPc(r) = "stat" => Goes(rest, "stat", rest)
        /\ Pc(r) = "stat" /\ NewPc(r) = "size" => Goes(rest, "size", rest + 1)
        /\ Pc(r) = "size" /\ NewPc(r) = "times" => Goes(rest + 1, "times", rest + 2)
    BY <1>2, <1>4 DEF PlaceAt, Placed, pairs, phase
  <2>2. CASE Pc(r) = "hist" /\ NewPc(r) = "ready"
    <3>1. Script(Start(phase) + 1) = "Barrier"
      BY <1>5, <1>8, <1>10, <2>2 DEF Placed, Inside, phase
    <3>2. Rep(r) < test.repetitions
      BY <1>14, <2>2 DEF Inside
    <3> QED
      BY <2>1, <2>2, <3>1, <3>2, <1>12, KindIs
  <2>3. CASE Pc(r) = "deal" /\ NewPc(r) = "seed"
    <3>1. Script(Start(phase) + (Opening(phase) + 1)) = "Bcast"
      BY <1>5, <1>8, <1>10, <2>3 DEF Placed, Inside, phase
    <3>2. Rep(r) < test.repetitions
      BY <1>14, <2>3 DEF Inside
    <3> QED
      BY <1>5, <1>8, <2>1, <2>3, <3>1, <3>2, <1>12, KindIs
  <2>4. CASE Pc(r) = "seed" /\ NewPc(r) = "xfer"
    <3>1. phase # "readcheck" /\ test.randomOffset
      BY <2>4, ParamsAre DEF Placed, Inside, Wanted, phase
    <3>2. Goes(Opening(phase) + 1, "xfer", Opening(phase) + 1)
      BY <1>2, <1>4, <1>5, <1>8, <2>4, <3>1 DEF PlaceAt
    <3> QED
      BY <1>5, <1>8, <3>2, <1>13, KindIs
  <2>5. Pc(r) \in {"rc1", "rc2", "rc3"} =>
            pairs \in Nat /\ pairs + 3 <= 3 * XfersPerTask /\ phase = "readcheck"
    <3> SUFFICES ASSUME Pc(r) \in {"rc1", "rc2", "rc3"}
                 PROVE  pairs \in Nat /\ pairs + 3 <= 3 * XfersPerTask /\ phase = "readcheck"
      OBVIOUS
    <3>1. phase = "readcheck" /\ st[r].pairCnt \in Nat /\ st[r].pairCnt < XfersPerTask
      BY DEF Placed, phase
    <3> QED
      BY <1>5, <3>1 DEF pairs
  <2>6. CASE Pc(r) = "rc1" /\ NewPc(r) = "rc2"
    <3>1. Script(Start(phase) + (Dealt(phase) + pairs + 2)) = "Barrier"
      BY <1>10, <2>6, <1>5, <2>5 DEF Placed, Inside, phase
    <3>2. Rep(r) < test.repetitions
      BY <1>14, <2>6 DEF Inside
    <3>3. Dealt(phase) + pairs + 1 \in Nat /\ (Dealt(phase) + pairs + 1) + 1 = Dealt(phase) + pairs + 2
      BY <1>5, <2>5, <2>6
    <3> QED
      BY <2>1, <2>6, <3>1, <3>2, <3>3, <1>12, KindIs
  <2>7. CASE Pc(r) = "rc2" /\ NewPc(r) = "rc3"
    <3>1. Script(Start(phase) + (Dealt(phase) + pairs + 3)) = "Barrier"
      BY <1>10, <2>7, <1>5, <2>5 DEF Placed, Inside, phase
    <3>2. Rep(r) < test.repetitions
      BY <1>14, <2>7 DEF Inside
    <3>3. Dealt(phase) + pairs + 2 \in Nat /\ (Dealt(phase) + pairs + 2) + 1 = Dealt(phase) + pairs + 3
      BY <1>5, <2>5, <2>7
    <3> QED
      BY <2>1, <2>7, <3>1, <3>2, <3>3, <1>12, KindIs
  <2>8. CASE Pc(r) = "xfered" /\ NewPc(r) = "close"
    BY <1>5, <1>8, <2>1, <2>8, <1>13, KindIs
  <2>9. CASE Pc(r) = "closed" /\ NewPc(r) = "stat"
    BY <1>5, <1>8, <1>6, <2>1, <2>9, <1>13, KindIs
  <2>10. CASE Pc(r) = "stat" /\ NewPc(r) = "size"
    <3>1. Script(Start(phase) + (rest + 1)) = "Allreduce"
      BY <1>10, <2>10 DEF Placed, Inside, phase
    <3>2. Rep(r) < test.repetitions
      BY <1>14, <2>10 DEF Inside
    <3>3. rest \in Nat
      BY <1>5, <1>6
    <3> HIDE DEF rest
    <3> QED
      BY <2>1, <2>10, <3>1, <3>2, <3>3, <1>12, KindIs
  <2>11. CASE Pc(r) = "size" /\ NewPc(r) = "times"
    <3>1. Script(Start(phase) + (rest + 2)) = "Reduce"
      BY <1>10, <2>11 DEF Placed, Inside, phase
    <3>2. Rep(r) < test.repetitions
      BY <1>14, <2>11 DEF Inside
    <3>3. rest \in Nat
      BY <1>5, <1>6
    <3> HIDE DEF rest
    <3> QED
      BY <2>1, <2>11, <3>1, <3>2, <3>3, <1>12, KindIs
  <2>12. CASE Pc(r) = "delete" /\ NewPc(r) = "repEnd"
    <3>1. Bit(~Keeps(r)') = 1
      BY <1>3, <2>12 DEF Bit, Placed
    <3>2. Goes(1, "repEnd", 2)
      BY <1>2, <1>4, <2>12, <3>1 DEF PlaceAt
    <3>3. Script(Start(phase) + 2) = "Barrier"
      BY <1>5, <2>12, ScriptIs DEF Placed, phase
    <3>4. Rep(r) < test.repetitions
      BY <1>14, <2>12 DEF Ends
    <3> QED
      BY <3>2, <3>3, <3>4, <1>12, KindIs
  <2>13. CASE Pc(r) \in {"commFree", "world"} /\ NewPc(r) \in {"world", "done"}
    BY <1>2, <1>4, <2>13, KindIs DEF PlaceAt, Steps
  <2> QED
    BY <1>26, PlainIs, <2>2, <2>3, <2>4, <2>6, <2>7, <2>8, <2>9, <2>10, <2>11, <2>12, <2>13
<1> QED
  BY <1>15, <1>16, <1>17, <1>18, <1>19, <1>20, <1>21, <1>22, <1>23, <1>24, <1>25, <1>26 DEF GoesOn, Onto

\* What changes when only some fields do.
LEMMA FixedBut ==
    ASSUME NEW r, NEW F, Fixed(r, F)
    PROVE  /\ "phase" \notin F => st'[r].phase = Phase(r)
           /\ "rep" \notin F => st'[r].rep = Rep(r)
           /\ "pairCnt" \notin F => st'[r].pairCnt = st[r].pairCnt
           /\ "errors" \notin F => st'[r].errors = st[r].errors
           /\ "totalErrorCount" \notin F => st'[r].totalErrorCount = st[r].totalErrorCount
           /\ "errorFound" \notin F => st'[r].errorFound = st[r].errorFound
           /\ st'[r].elapsed = st[r].elapsed \/ "elapsed" \in F
  BY DEF Fixed, Control, Phase, Rep

LEMMA TurnsSteps ==
    ASSUME NEW r, Given, Placed(r), Typed(r), Turns(r)
    PROVE  Placed(r)' /\ Typed(r)' /\ Rep(r)' = Rep(r) /\ Steps(r)
<1>1. /\ Went(r) /\ NewPc(r) = "phase" /\ st'[r].rep = Rep(r) /\ st'[r].pairCnt = st[r].pairCnt
      /\ st'[r].errors = st[r].errors /\ st'[r].totalErrorCount = st[r].totalErrorCount
      /\ st'[r].errorFound = st[r].errorFound /\ st'[r].elapsed = st[r].elapsed
  BY FixedBut DEF Turns
<1>2. /\ Pc(r)' = "phase" /\ Phase(r)' = st'[r].phase /\ Rep(r)' = Rep(r) /\ test' = test
  BY <1>1, NewIs
<1>3. Typed(r)'
  BY <1>1, <1>2 DEF Typed, Checks
<1>4. st'[r].phase \in Phases
  BY StartIs DEF Phases, Turns, Placed
<1>5. Placed(r)'
  BY <1>1, <1>2, <1>4 DEF Turns, Placed, Outside, Ends, Inside
<1>6. Place(r)' = Start(st'[r].phase)
  BY <1>1, <1>4, NewPlace, StartIs DEF PlaceAt
<1>7. Place(r)' = Place(r)
  <2> DEFINE phase == Phase(r)
  <2>0. PlaceAt(r, Pc(r), phase, st[r].pairCnt, Keeps(r), Place(r)) /\ phase \in Phases
    BY PlacesAre DEF Placed
  <2>1. CASE Pc(r) = "stamp" /\ st'[r].phase = "write"
    BY <2>0, <2>1, <1>6, StartIs DEF PlaceAt
  <2>2. CASE phase # "finish" /\ st'[r].phase = Following[phase]
    <3>1. /\ Start(Following[phase]) = Start(phase) + LengthOf(phase)
          /\ Start(phase) \in Nat
      BY <2>0, <2>2, StartIs
    <3>2. Place(r) = Start(phase) + LengthOf(phase)
      <4>1. /\ Wanted(phase) => LengthOf(phase) = Shut(phase) + Rest(phase)
            /\ ~Wanted(phase) => LengthOf(phase) = 0
            /\ Shut(phase) \in Nat
        BY <2>0, <2>2, LengthIs, StagesAre
      <4>2. /\ phase = "write" => Rest(phase) = 3 /\ Bit(phase = "write") = 1
            /\ phase = "read" => Rest(phase) = 2 /\ Bit(phase = "write") = 0
            /\ phase \in {"writecheck", "readcheck"} => Rest(phase) = 0
        BY DEF Rest, Bit
      <4>3. CASE Pc(r) = "phase" /\ ~Wanted(phase)
        BY <2>0, <3>1, <4>1, <4>3 DEF PlaceAt
      <4>4. CASE Pc(r) = "close" /\ phase \in {"writecheck", "readcheck"}
        BY <4>4, <2>0, <3>1, <4>1, <4>2 DEF Placed, Inside, PlaceAt
      <4>5. CASE Pc(r) = "times"
        <5>1. Wanted(phase) /\ phase \in {"write", "read"}
          BY <4>5 DEF Placed, Inside
        <5>2. Place(r) = Start(phase) + (Shut(phase) + Bit(phase = "write") + 2)
          BY <2>0, <4>5 DEF PlaceAt
        <5> HIDE DEF phase
        <5> QED
          BY <3>1, <4>1, <4>2, <5>1, <5>2
      <4>6. CASE Pc(r) = "stamp" /\ st'[r].phase = "write"
        BY <2>1, <4>6, <1>6, <3>1, <2>2, <2>0, StartIs DEF PlaceAt
      <4> QED
        BY <4>3, <4>4, <4>5, <4>6 DEF Turns
    <3> QED
      BY <1>6, <2>2, <3>1, <3>2
  <2> QED
    BY <2>1, <2>2 DEF Turns
<1>8. "phase" \notin TestLabels
  BY KindIs
<1> QED
  BY <1>1, <1>2, <1>3, <1>5, <1>7, <1>8 DEF Steps

LEMMA OpensSteps ==
    ASSUME NEW r, Given, Placed(r), Typed(r), Opens(r)
    PROVE  Placed(r)' /\ Typed(r)' /\ Rep(r)' = Rep(r) /\ Steps(r)
<1> DEFINE phase == Phase(r)
           around == Bit(Around(phase))
           stripes == Bit(Stripes)
           random == Bit(test.randomOffset)
<1>1. /\ Went(r) /\ st'[r].phase = phase /\ st'[r].rep = Rep(r)
      /\ st'[r].pairCnt = 0 /\ st'[r].errors = 0 /\ st'[r].totalErrorCount = st[r].totalErrorCount
      /\ st'[r].errorFound = st[r].errorFound /\ st'[r].elapsed = st[r].elapsed
  BY FixedBut DEF Opens
<1>2. /\ Pc(r)' = NewPc(r) /\ Phase(r)' = phase /\ Rep(r)' = Rep(r) /\ test' = test /\ Pc(r) = "open"
  BY <1>1, NewIs DEF Opens
<1>3. Typed(r)'
  BY <1>1, <1>2 DEF Typed, Checks
<1>4. NewPc(r) = IF phase = "write" /\ Stripes /\ r = 0 THEN "striped" ELSE First(phase)
  BY DEF Opens
<1>5. /\ phase \in Phases \ {"finish"} /\ Wanted(phase) /\ Rep(r) < test.repetitions
  BY <1>2 DEF Placed, Inside
<1>6. XfersPerTask' = XfersPerTask /\ XfersPerTask \in Nat
  BY <1>2, Lasting, ParamsAre
<1>7. Placed(r)'
  <2>1. /\ NewPc(r) \in {"striped", "opened", "deal", "xfer"}
        /\ NewPc(r) = "striped" => phase = "write" /\ Stripes
        /\ NewPc(r) = "opened" => Around(phase)
        /\ NewPc(r) = "deal" => test.randomOffset
    BY <1>4 DEF First
  <2>2. /\ Pc(r)' \in {"striped", "opened", "deal", "xfer"}
        /\ Pc(r)' = "striped" => Phase(r)' = "write" /\ Stripes'
        /\ Pc(r)' = "opened" => Around(Phase(r))'
        /\ Pc(r)' = "deal" => test'.randomOffset
        /\ Wanted(Phase(r))'
    BY <1>2, <1>5, <2>1 DEF Stripes, Around, Wanted
  <2> QED
    BY <1>1, <1>2, <1>5, <1>6, <2>2 DEF Placed, Outside, Ends, Inside
<1>8. PlaceAt(r, "open", phase, st[r].pairCnt, Keeps(r), Place(r))
  BY <1>2, PlacesAre
<1>9. PlaceAt(r, NewPc(r), phase, 0, Keeps(r)', Place(r)')
  BY <1>1, <1>5, NewPlace
<1>10. /\ Opening(phase) \in Nat /\ Dealt(phase) \in Nat /\ Dealt(phase) = Opening(phase) + random
       /\ Start(phase) \in Nat
  BY <1>5, StagesAre, StartIs
<1>11. /\ phase = "write" => Opening(phase) = 1 + stripes + around
       /\ phase = "read" => Opening(phase) = 1 + around
       /\ phase = "writecheck" => Opening(phase) = 1
       /\ phase = "readcheck" => Opening(phase) = 2
  BY OpeningIs
<1>12. /\ (Stripes => stripes = 1) /\ (~Stripes => stripes = 0)
       /\ (Around(phase) => around = 1) /\ (~Around(phase) => around = 0)
       /\ (test.randomOffset => random = 1) /\ (~test.randomOffset => random = 0)
  BY DEF Bit
<1>13. Around(phase) => phase \in {"write", "read"}
  BY DEF Around
<1>14. \A j \in Nat \ {0} : j <= Opening(phase) => Script(Start(phase) + j) = "Barrier"
  BY <1>5, ScriptTable
<1> DEFINE from == IF phase = "readcheck" \/ (phase = "write" /\ Stripes /\ r # 0) THEN 2 ELSE 1
<1>15. Place(r) = Start(phase) + from
  BY <1>8 DEF PlaceAt
<1>16. \A j \in Nat : Place(r) = Start(phase) + j => Due(r) = Script(Start(phase) + (j + 1))
  BY ParamsAre, <1>10, <1>5 DEF Placed, Due
<1>17. phase \in {"write", "writecheck", "read", "readcheck"}
  BY <1>5 DEF Phases
<1> HIDE DEF around, stripes, random, phase
<1>18. CASE phase = "write" /\ Stripes /\ r = 0
  <2>1. NewPc(r) = "striped" /\ from = 1 /\ Opening(phase) >= 2
    BY <1>4, <1>10, <1>11, <1>12, <1>18
  <2>2. Place(r)' = Start(phase) + 2 /\ Script(Start(phase) + 2) = "Barrier"
    BY <1>9, <1>10, <1>14, <2>1 DEF PlaceAt
  <2> QED
    BY <1>2, <1>3, <1>7, <1>10, <1>15, <1>16, <2>1, <2>2, KindIs DEF Steps
<1>19. CASE ~(phase = "write" /\ Stripes /\ r = 0) /\ Around(phase)
  <2>1. NewPc(r) = "opened" /\ Opening(phase) = from + 1
    BY <1>4, <1>10, <1>11, <1>12, <1>13, <1>19 DEF First
  <2>2. Place(r)' = Start(phase) + (from + 1) /\ Script(Start(phase) + (from + 1)) = "Barrier"
    BY <1>9, <1>10, <1>14, <2>1 DEF PlaceAt
  <2> QED
    BY <1>2, <1>3, <1>7, <1>10, <1>15, <1>16, <2>1, <2>2, KindIs DEF Steps
<1>20. CASE ~(phase = "write" /\ Stripes /\ r = 0) /\ ~Around(phase)
  <2>1. NewPc(r) = (IF test.randomOffset THEN "deal" ELSE "xfer") /\ Opening(phase) = from
    BY <1>4, <1>10, <1>11, <1>12, <1>17, <1>20 DEF First
  <2>2. Place(r)' = Start(phase) + from
    BY <1>9, <1>10, <1>12, <2>1 DEF PlaceAt
  <2> QED
    BY <1>2, <1>3, <1>7, <1>15, <2>1, <2>2, KindIs DEF Steps
<1> QED
  BY <1>18, <1>19, <1>20

LEMMA TransfersSteps ==
    ASSUME NEW r, Given, Placed(r), Typed(r), Transfers(r)
    PROVE  Placed(r)' /\ Typed(r)' /\ Rep(r)' = Rep(r) /\ Steps(r)
<1> DEFINE phase == Phase(r)
<1>1. /\ Went(r) /\ st'[r].phase = phase /\ st'[r].rep = Rep(r) /\ NewPc(r) = "xfer"
      /\ st'[r].pairCnt = st[r].pairCnt + 1 /\ st'[r].totalErrorCount = st[r].totalErrorCount
      /\ st'[r].errorFound = st[r].errorFound /\ st'[r].elapsed = st[r].elapsed
      /\ Pc(r) = (IF phase = "readcheck" THEN "rc3" ELSE "xfer")
  BY FixedBut DEF Transfers
<1>2. /\ Pc(r)' = "xfer" /\ Phase(r)' = phase /\ Rep(r)' = Rep(r) /\ test' = test
  BY <1>1, NewIs
<1>3. phase \in Phases /\ phase # "finish" /\ Wanted(phase) /\ Rep(r) < test.repetitions
  BY <1>1 DEF Placed, Inside
<1>4. Typed(r)'
  <2>1. phase \in {"writecheck", "readcheck"} => Checks
    BY <1>3 DEF Wanted, Checks
  <2>2. Checks' = Checks
    BY <1>2, Lasting
  <2>3. st'[r].errors \in Nat /\ (~Checks => st'[r].errors = 0)
    BY <2>1 DEF Typed, Transfers
  <2> QED
    BY <1>1, <2>2, <2>3 DEF Typed
<1>5. XfersPerTask' = XfersPerTask /\ XfersPerTask \in Nat
  BY <1>2, Lasting, ParamsAre
<1>6. phase = "readcheck" => /\ st[r].pairCnt \in Nat /\ st[r].pairCnt < XfersPerTask
                             /\ st'[r].pairCnt \in Nat /\ st'[r].pairCnt <= XfersPerTask
  BY <1>1, <1>5 DEF Placed
<1>7. Placed(r)'
  <2>1. Wanted(Phase(r))'
    BY <1>2, <1>3 DEF Wanted
  <2> QED
    BY <1>1, <1>2, <1>3, <1>5, <1>6, <2>1 DEF Placed, Outside, Ends, Inside
<1>8. PlaceAt(r, Pc(r), phase, st[r].pairCnt, Keeps(r), Place(r))
  BY PlacesAre
<1>9. PlaceAt(r, "xfer", phase, st'[r].pairCnt, Keeps(r)', Place(r)')
  BY <1>1, <1>3, NewPlace
<1>10. Dealt(phase) \in Nat /\ Start(phase) \in Nat
  BY <1>3, StagesAre, StartIs
<1>11. CASE phase = "readcheck"
  <2>1. Place(r) = Start(phase) + (Dealt(phase) + 3 * st[r].pairCnt + 3)
    BY <1>1, <1>8, <1>11 DEF PlaceAt
  <2>2. Place(r)' = Start(phase) + (Dealt(phase) + 3 * (st[r].pairCnt + 1))
    BY <1>1, <1>9, <1>11 DEF PlaceAt
  <2> HIDE DEF phase
  <2>3. Place(r)' = Place(r)
    BY <2>1, <2>2, <1>6, <1>10, <1>11
  <2> QED
    BY <1>1, <1>2, <1>4, <1>7, <2>3, KindIs DEF Steps
<1>12. CASE phase # "readcheck"
  <2>1. Place(r) = Place(r)'
    BY <1>1, <1>8, <1>9, <1>12 DEF PlaceAt
  <2> QED
    BY <1>1, <1>2, <1>4, <1>7, <2>1, KindIs DEF Steps
<1> QED
  BY <1>11, <1>12

LEMMA AddsUpSteps ==
    ASSUME NEW r, Given, Placed(r), Typed(r), AddsUp(r)
    PROVE  Placed(r)' /\ Typed(r)' /\ Rep(r)' = Rep(r) /\ Steps(r)
<1> DEFINE phase == Phase(r)
<1>1. /\ Went(r) /\ st'[r].phase = phase /\ st'[r].rep = Rep(r) /\ NewPc(r) = "cntB" /\ Pc(r) = "cntR"
      /\ st'[r].pairCnt = st[r].pairCnt /\ st'[r].totalErrorCount = st[r].totalErrorCount
      /\ st'[r].errors = st[r].errors
      /\ st'[r].errorFound = st[r].errorFound /\ st'[r].elapsed = st[r].elapsed
  BY FixedBut DEF AddsUp
<1>2. /\ Pc(r)' = "cntB" /\ Phase(r)' = phase /\ Rep(r)' = Rep(r) /\ test' = test
  BY <1>1, NewIs
<1>3. phase \in Phases /\ phase # "finish" /\ Wanted(phase) /\ Rep(r) < test.repetitions /\ Checks
  BY <1>1 DEF Placed, Inside
<1>4. Typed(r)'
  BY <1>1, <1>2 DEF Typed, Checks
<1>5. Placed(r)'
  <2>1. Wanted(Phase(r))' /\ Checks'
    BY <1>2, <1>3 DEF Wanted, Checks
  <2> QED
    BY <1>1, <1>2, <1>3, <2>1 DEF Placed, Outside, Ends, Inside
<1>6. Place(r) = Start(phase) + (Body(phase) + 1) /\ Place(r)' = Start(phase) + (Body(phase) + 2)
  BY <1>1, PlacesAre, <1>3, NewPlace DEF PlaceAt
<1>7. Place(r)' = Place(r) + 1 /\ Due(r) = "Bcast"
  <2>1. Start(phase) \in Nat /\ Body(phase) \in Nat
    BY <1>3, StagesAre, StartIs
  <2>2. Script(Start(phase) + (Body(phase) + 2)) = "Bcast"
    BY <1>3, ScriptTable
  <2>3. Place(r)' = Place(r) + 1
    BY <1>6, <2>1
  <2>4. Rep(r) # test.repetitions
    BY <1>3, ParamsAre DEF Placed
  <2> QED
    BY <1>6, <2>2, <2>3, <2>4 DEF Due
<1> QED
  BY <1>1, <1>2, <1>4, <1>5, <1>7, KindIs DEF Steps

LEMMA LearnsSteps ==
    ASSUME NEW r, Given, Placed(r), Typed(r), Learns(r), wire.sum \in Nat
    PROVE  Placed(r)' /\ Typed(r)' /\ Rep(r)' = Rep(r) /\ Steps(r)
<1> DEFINE phase == Phase(r)
           around == Bit(Around(phase))
           checks == Bit(Checks)
<1>1. /\ Went(r) /\ st'[r].phase = phase /\ st'[r].rep = Rep(r) /\ NewPc(r) = After(phase) /\ Pc(r) = "cntB"
      /\ st'[r].pairCnt = st[r].pairCnt /\ st'[r].errors = st[r].errors
      /\ st'[r].elapsed = st[r].elapsed
      /\ st'[r].totalErrorCount = st[r].totalErrorCount + wire.sum + wire.sum
      /\ st'[r].errorFound = (st[r].errorFound \/ wire.sum # 0)
  BY FixedBut DEF Learns
<1>2. /\ Pc(r)' = After(phase) /\ Phase(r)' = phase /\ Rep(r)' = Rep(r) /\ test' = test
  BY <1>1, NewIs
<1>3. phase \in Phases /\ phase # "finish" /\ Wanted(phase) /\ Rep(r) < test.repetitions /\ Checks
  BY <1>1 DEF Placed, Inside
<1>4. Typed(r)'
  <2>1. Checks' = Checks
    BY <1>2, Lasting
  <2>2. st'[r].totalErrorCount \in Nat
    BY <1>1 DEF Typed
  <2>3. st'[r].errorFound \in BOOLEAN
    BY <1>1
  <2> QED
    BY <1>1, <2>1, <2>2, <2>3 DEF Typed
<1>5. Placed(r)'
  <2>1. /\ Wanted(Phase(r))' /\ Checks'
        /\ Pc(r)' \in {"xfered", "close"} /\ (Pc(r)' = "xfered" => Around(Phase(r))')
    BY <1>2, <1>3 DEF Wanted, Checks, After, Around
  <2> QED
    BY <1>1, <1>2, <1>3, <2>1 DEF Placed, Outside, Ends, Inside
<1>6. Place(r) = Start(phase) + (Body(phase) + 2) /\ Place(r)' = Start(phase) + Shut(phase)
  <2>1. PlaceAt(r, "cntB", phase, st[r].pairCnt, Keeps(r), Place(r))
    BY <1>1, PlacesAre
  <2>2. PlaceAt(r, After(phase), phase, st'[r].pairCnt, Keeps(r)', Place(r)')
    BY <1>1, <1>3, NewPlace
  <2>3. After(phase) \in {"xfered", "close"}
    BY DEF After
  <2> QED
    BY <2>1, <2>2, <2>3 DEF PlaceAt
<1>7. /\ Start(phase) \in Nat /\ Body(phase) \in Nat /\ CountEnd(phase) \in Nat
      /\ CountEnd(phase) = Body(phase) + 2 * checks /\ Shut(phase) = CountEnd(phase) + around
  BY <1>3, StagesAre, StartIs
<1>8. checks = 1 /\ (Around(phase) => around = 1) /\ (~Around(phase) => around = 0)
  BY <1>3 DEF Bit
<1>9. Rep(r) # test.repetitions
  BY <1>3, ParamsAre DEF Placed
<1>10. \A j \in Nat \ {0} : CountEnd(phase) < j /\ j <= Shut(phase) => Script(Start(phase) + j) = "Barrier"
  BY <1>3, ScriptTable
<1>11. /\ Around(phase) => After(phase) = "xfered"
       /\ ~Around(phase) => After(phase) = "close"
  BY DEF After
<1> HIDE DEF phase, around, checks
<1>12. CASE Around(phase)
  <2>1. Place(r)' = Place(r) + 1 /\ Script(Start(phase) + Shut(phase)) = "Barrier"
        /\ Place(r) + 1 = Start(phase) + Shut(phase)
    BY <1>6, <1>7, <1>8, <1>10, <1>12
  <2>2. Due(r) = "Barrier"
    BY <1>9, <2>1 DEF Due
  <2> QED
    BY <1>1, <1>2, <1>4, <1>5, <1>11, <1>12, <2>1, <2>2, KindIs DEF Steps
<1>13. CASE ~Around(phase)
  <2>1. Place(r)' = Place(r)
    BY <1>6, <1>7, <1>8, <1>13
  <2> QED
    BY <1>1, <1>2, <1>4, <1>5, <1>11, <1>13, <2>1, KindIs DEF Steps
<1> QED
  BY <1>12, <1>13

LEMMA RepeatsSteps ==
    ASSUME NEW r, Given, Placed(r), Typed(r), Repeats(r)
    PROVE  Placed(r)' /\ Typed(r)' /\ Rep(r)' = Rep(r) + 1 /\ Place(r)' = 0
<1>1. /\ Went(r) /\ st'[r].phase = Phase(r) /\ st'[r].rep = Rep(r) + 1 /\ NewPc(r) = "rep" /\ Pc(r) = "repEnd"
      /\ st'[r].pairCnt = st[r].pairCnt /\ st'[r].errors = st[r].errors
      /\ st'[r].elapsed = st[r].elapsed /\ st'[r].totalErrorCount = st[r].totalErrorCount
      /\ st'[r].errorFound = FALSE
  BY FixedBut DEF Repeats
<1>2. /\ Pc(r)' = "rep" /\ Phase(r)' = Phase(r) /\ Rep(r)' = Rep(r) + 1 /\ test' = test
  BY <1>1, NewIs
<1>3. Phase(r) \in Phases /\ Phase(r) = "finish" /\ Rep(r) < test.repetitions /\ Rep(r) \in Nat
  BY <1>1 DEF Placed
<1>4. Typed(r)'
  BY <1>1, <1>2 DEF Typed, Checks
<1>5. Placed(r)'
  <2>1. test.repetitions \in Nat
    BY ParamsAre
  <2> QED
    BY <1>1, <1>2, <1>3, <2>1 DEF Placed, Outside, Ends, Inside
<1>6. Place(r)' = 0
  BY <1>1, <1>3, NewPlace DEF PlaceAt
<1> QED
  BY <1>2, <1>4, <1>5, <1>6

\* All moves but the one to the next repetition.
LEMMA MovesSteps ==
    ASSUME NEW r, Given, Placed(r), Typed(r), Moves(r), ~Repeats(r), wire.sum \in Nat
    PROVE  Placed(r)' /\ Typed(r)' /\ Rep(r)' = Rep(r) /\ Steps(r) /\ Went(r)
<1>1. Went(r)
  BY Zenon DEF Moves, GoesOn, Turns, Opens, Transfers, AddsUp, Learns
<1>2. Placed(r)' /\ Typed(r)' /\ Rep(r)' = Rep(r) /\ Steps(r)
  BY GoesOnPlaced, GoesOnSteps, TurnsSteps, OpensSteps, TransfersSteps, AddsUpSteps, LearnsSteps, Zenon
     DEF Moves
<1> QED
  BY <1>1, <1>2

-----------------------------------------------------------------------------
(* What a move does to the logs                                              *)

LEMMA LogsGrow ==
    ASSUME Shape, NEW r \in Members, Went(r), Waiting(r)
    PROVE  /\ \A q \in Members : /\ Len(Log(q)) \in Nat /\ Len(Log(q))' \in Nat
                                 /\ Len(Log(q)) <= Len(Log(q))'
                                 /\ \A n \in 1 .. Len(Log(q)) : Log(q)'[n] = Log(q)[n]
           /\ \A q \in Members \ {r} : Log(q)' = Log(q) /\ Left(q)' = Left(q) /\ st'[q] = st[q]
           /\ NewPc(r) \in TestLabels =>
                  Len(Log(r))' = Len(Log(r)) + 1 /\ Log(r)'[Len(Log(r)) + 1] = Kind[NewPc(r)]
           /\ NewPc(r) \notin TestLabels => Log(r)' = Log(r)
           /\ Left(r)' = Len(Log(r))
           /\ Waiting(r)'
<1>0. Members \subseteq World /\ Pc(r)' = NewPc(r)
  BY MembersAre, NewIs DEF Shape
<1>1. /\ calls \in [{"world", "test"} -> [World -> Seq(Kinds)]]
      /\ calls' \in [{"world", "test"} -> [World -> Seq(Kinds)]]
  BY <1>0, LogsAre DEF Shape
<1>2. \A q \in Members : Log(q) \in Seq(Kinds) /\ Log(q)' \in Seq(Kinds)
  BY <1>0, <1>1 DEF Log
<1>3. \A q \in Members : Len(Log(q)) \in Nat /\ Len(Log(q))' \in Nat
  BY <1>2, LenProperties
<1>4. /\ \A q \in Members \ {r} : Log(q)' = Log(q)
      /\ NewPc(r) \in TestLabels => Log(r)' = Append(Log(r), Kind[NewPc(r)])
      /\ NewPc(r) \notin TestLabels => Log(r)' = Log(r)
  BY <1>0, LogsAre DEF TestLabels
<1>5. NewPc(r) \in TestLabels =>
          /\ Len(Log(r))' = Len(Log(r)) + 1 /\ Log(r)'[Len(Log(r)) + 1] = Kind[NewPc(r)]
          /\ \A n \in 1 .. Len(Log(r)) : Log(r)'[n] = Log(r)[n]
  BY KindIs, <1>2, <1>4, AppendProperties
<1>6. \A q \in Members : /\ Len(Log(q)) <= Len(Log(q))'
                         /\ \A n \in 1 .. Len(Log(q)) : Log(q)'[n] = Log(q)[n]
  BY <1>3, <1>4, <1>5
<1>7. \A q \in Members \ {r} : st'[q] = st[q] /\ Left(q)' = Left(q)
  BY <1>0, <1>4 DEF Went, Left, Pc, Bit
<1>8. Left(r)' = Len(Log(r))
  <2>1. CASE NewPc(r) \in TestLabels
    BY <1>0, <2>1, <1>3, <1>5 DEF Left, Bit, TestLabels
  <2>2. CASE NewPc(r) \notin TestLabels
    BY <1>0, <2>2, <1>3, <1>4 DEF Left, Bit, TestLabels
  <2> QED
    BY <2>1, <2>2
<1>9. Waiting(r)'
  <2>1. ASSUME NewPc(r) \in TestLabels
        PROVE  Len(Log(r)') > 0 /\ Log(r)'[Len(Log(r)')] = Kind[NewPc(r)]
    BY <1>3, <1>5, <2>1
  <2> QED
    BY <1>0, <2>1 DEF Waiting, TestLabels, Kind
<1> QED
  BY <1>3, <1>4, <1>5, <1>6, <1>7, <1>8, <1>9

\* A task leaves a call only when those it waits for have made it.
LEMMA LeavesTogether ==
    ASSUME Shape, NEW r \in Members, Went(r), Waiting(r), Pc(r) \in TestLabels,
           NEW s \in Members, Waits(r, s, Kind[Pc(r)])
    PROVE  /\ Len(Log(s)) >= Len(Log(r))
           /\ s # r => Log(s)[Len(Log(r))] = Kind[Pc(r)]
<1>0. Members \subseteq World /\ calls \in [{"world", "test"} -> [World -> Seq(Kinds)]]
  BY MembersAre DEF Shape
<1>1. Len(Log(s)) \in Nat /\ Len(Log(r)) \in Nat
  BY LogsGrow
<1>2. CASE s = r
  BY <1>1, <1>2
<1>3. CASE s # r
  <2>1. Comm(Pc(r)) = "test" /\ Kind[Pc(r)] \in Kinds /\ Pc(r) \in DOMAIN Kind
    BY KindIs DEF TestLabels
  <2>2. MayLeave(r, Pc(r))
    BY <2>1, Zenon DEF Went
  <2>3. Group("test") = Members
    BY DEF Group
  <2> DEFINE kind == Kind[Pc(r)]
  <2>4. /\ kind = "Bcast" => r = 0 \/ Met("test", r, 0)
        /\ kind \in {"Reduce", "Gather"} => r # 0 \/ \A q \in Members : Met("test", r, q)
        /\ kind \notin {"Bcast", "Reduce", "Gather"} => \A q \in Members : Met("test", r, q)
    BY <2>1, <2>2, <2>3 DEF MayLeave
  <2>5. kind # "Gather"
    BY KindIs
  <2>6. /\ kind = "Bcast" => s = 0
        /\ kind = "Reduce" => r = 0
    BY DEF Waits
  <2> HIDE DEF kind
  <2>7. Met("test", r, s)
    BY <1>3, <2>4, <2>5, <2>6
  <2>8. Len(Log(s)) >= Len(Log(r)) /\ Log(s)[Len(Log(r))] = Log(r)[Len(Log(r))]
    BY <2>7, Zenon DEF Met, Log
  <2>9. Log(r)[Len(Log(r))] = Kind[Pc(r)]
    BY DEF Waiting
  <2> QED
    BY <2>8, <2>9
<1> QED
  BY <1>2, <1>3

LEMMA SyncedStays ==
    ASSUME Shape, NEW r \in Members, Went(r), Waiting(r), Synced
    PROVE  Synced'
<1>0. Members' = Members
  BY Lasting DEF Went
<1>1. /\ \A q \in Members : /\ Len(Log(q)) \in Nat /\ Len(Log(q))' \in Nat
                            /\ Len(Log(q)) <= Len(Log(q))'
                            /\ \A n \in 1 .. Len(Log(q)) : Log(q)'[n] = Log(q)[n]
      /\ \A q \in Members \ {r} : Log(q)' = Log(q) /\ Left(q)' = Left(q)
      /\ Left(r)' = Len(Log(r))
  BY LogsGrow
<1>2. ASSUME NEW q \in Members, NEW s \in Members, NEW n \in 1 .. Left(q)', Waits(q, s, Log(q)'[n])
      PROVE  Len(Log(s))' >= n
  <2>0. Left(q) \in Int /\ (Pc(q) \in TestLabels => Left(q) = Len(Log(q)) - 1)
        /\ (Pc(q) \notin TestLabels => Left(q) = Len(Log(q)))
    BY <1>1 DEF Left, Bit
  <2>1. CASE q # r
    BY <1>1, <2>1, <1>2, <2>0 DEF Synced
  <2>2. CASE q = r
    <3>1. n \in 1 .. Len(Log(r)) /\ Log(r)'[n] = Log(r)[n] /\ Waits(r, s, Log(r)[n])
      BY <1>1, <1>2, <2>2
    <3>2. CASE n <= Left(r)
      BY <2>0, <2>2, <3>1, <3>2, <1>1 DEF Synced
    <3>3. CASE ~(n <= Left(r))
      <4>1. Pc(r) \in TestLabels /\ n = Len(Log(r))
        BY <1>1, <2>0, <2>2, <3>1, <3>3
      <4>2. Waits(r, s, Kind[Pc(r)])
        BY <3>1, <4>1 DEF Waiting
      <4>3. Len(Log(s)) >= Len(Log(r))
        BY <4>1, <4>2, LeavesTogether
      <4> QED
        BY <1>1, <4>1, <4>3
    <3> QED
      BY <3>2, <3>3
  <2> QED
    BY <2>1, <2>2
<1> QED
  BY <1>0, <1>2 DEF Synced, Waits

-----------------------------------------------------------------------------
(* Where a task can be after so many calls                                   *)

Early == {"hist", "gate", "ready", "striped", "open", "opened", "deal", "seed", "xfer", "rc1", "rc2", "rc3"}
Late == {"xfered", "close", "closed", "stat", "size", "times"}

LEMMA WhereIs ==
    ASSUME Given, NEW r, Placed(r)
    PROVE  /\ Place(r) \in Nat
           /\ Pc(r) \in Outside => Place(r) <= 1
           /\ Pc(r) = "phase" => Place(r) = Start(Phase(r))
           /\ Pc(r) \in Early => Start(Phase(r)) <= Place(r) /\ Place(r) <= Start(Phase(r)) + Body(Phase(r))
           /\ Pc(r) = "cntR" => Place(r) = Start(Phase(r)) + Body(Phase(r)) + 1
           /\ Pc(r) = "cntB" => Place(r) = Start(Phase(r)) + Body(Phase(r)) + 2
           /\ Pc(r) \in Late /\ Checks => Place(r) >= Start(Phase(r)) + Body(Phase(r)) + 2
           /\ Pc(r) \in Inside => Start(Phase(r)) <= Place(r)
                                  /\ Place(r) <= Start(Phase(r)) + LengthOf(Phase(r))
           /\ Pc(r) \in {"delete", "repEnd"} => Place(r) > Start("finish")
<1> DEFINE phase == Phase(r)
           pc == Pc(r)
           place == Place(r)
           start == Start(phase)
           body == Body(phase)
           around == Bit(Around(phase))
           stripes == Bit(Stripes)
           random == Bit(test.randomOffset)
           checks == Bit(Checks)
           first == Bit(phase = "write")
           pairs == IF phase = "readcheck" THEN 3 * st[r].pairCnt ELSE 0
           all == IF phase = "readcheck" THEN 3 * XfersPerTask ELSE 0
<1>1. phase \in Phases /\ pc \in Outside \cup Ends \cup Inside
  BY DEF Placed
<1>2. PlaceAt(r, pc, phase, st[r].pairCnt, Keeps(r), place)
  BY PlacesAre
<1>3. /\ start \in Nat /\ Opening(phase) \in Nat /\ Opening(phase) >= 1
      /\ Dealt(phase) \in Nat /\ Dealt(phase) = Opening(phase) + random
      /\ body \in Nat /\ body = Dealt(phase) + all
      /\ CountEnd(phase) \in Nat /\ CountEnd(phase) = body + 2 * checks
      /\ Shut(phase) \in Nat /\ Shut(phase) = CountEnd(phase) + around
      /\ XfersPerTask \in Nat
  BY <1>1, StagesAre, StartIs
<1>4. /\ (Stripes => stripes = 1) /\ (~Stripes => stripes = 0)
      /\ around \in {0, 1} /\ (Checks => checks = 1) /\ (~Checks => checks = 0)
      /\ (test.randomOffset => random = 1) /\ (~test.randomOffset => random = 0)
      /\ (phase = "write" => first = 1) /\ (phase # "write" => first = 0)
  BY DEF Bit
<1>5. /\ phase = "write" => Opening(phase) = 1 + stripes + around
      /\ phase = "readcheck" => Opening(phase) = 2
  BY OpeningIs
<1>6. pc \in Inside =>
          /\ phase # "finish" /\ Wanted(phase) /\ LengthOf(phase) = Shut(phase) + Rest(phase)
          /\ LengthOf(phase) \in Nat
  BY <1>1, LengthIs DEF Placed
<1>7. Rest(phase) \in Nat /\ (phase = "write" => Rest(phase) = 3) /\ (phase = "read" => Rest(phase) = 2)
  BY DEF Rest
<1>8. pc \in {"xfer", "rc1", "rc2", "rc3"} /\ phase = "readcheck" =>
          /\ pairs \in Nat /\ pairs <= all /\ (pc # "xfer" => pairs + 3 <= all)
  BY <1>3 DEF Placed
<1>9. pc \in {"xfer", "rc1", "rc2", "rc3"} /\ phase # "readcheck" => pairs = 0 /\ all = 0
  OBVIOUS
<1>10. /\ pc \in {"rc1", "rc2", "rc3"} => phase = "readcheck"
       /\ pc = "striped" => phase = "write" /\ Stripes
       /\ pc \in {"deal", "seed"} => test.randomOffset
       /\ pc \in {"cntR", "cntB"} => Checks
       /\ pc = "closed" => phase = "write"
       /\ pc \in {"stat", "size", "times"} => phase \in {"write", "read"}
       /\ pc \in {"delete", "repEnd"} => phase = "finish"
  BY DEF Placed
<1>11. all \in Nat
  BY <1>3
<1> DEFINE Far(least, most) == start + least <= place /\ place <= start + most
<1> HIDE DEF around, stripes, random, checks, first, pairs, all, start, body
<1>12. CASE pc \in {"hist", "gate", "ready", "striped", "open", "opened", "deal", "seed"}
  <2>1. pc \in {"hist", "gate"} => Far(0, 1)
    BY <1>2, <1>3 DEF PlaceAt, start
  <2>2. pc = "ready" => Far(0, Opening(phase))
    BY <1>2, <1>3, <1>5 DEF PlaceAt, start
  <2>3. pc = "striped" => Far(0, Opening(phase))
    BY <1>2, <1>3, <1>4, <1>5, <1>10 DEF PlaceAt, start
  <2>4. pc = "open" => Far(0, Opening(phase))
    BY <1>2, <1>3, <1>4, <1>5 DEF PlaceAt, start
  <2>5. pc \in {"opened", "deal"} => Far(0, Opening(phase))
    BY <1>2, <1>3 DEF PlaceAt, start
  <2>6. pc = "seed" => Far(0, Dealt(phase))
    BY <1>2, <1>3, <1>4, <1>10 DEF PlaceAt, start
  <2>7. place \in Int
    BY <1>2, <1>3, <1>12 DEF PlaceAt, start
  <2>8. Opening(phase) <= body /\ Dealt(phase) <= body /\ body <= Shut(phase)
    BY <1>3, <1>4, <1>11
  <2>9. Far(0, body)
    BY <1>3, <1>12, <2>1, <2>2, <2>3, <2>4, <2>5, <2>6, <2>7, <2>8
  <2>10. pc \in Inside /\ pc \in Early /\ pc \notin Late \cup Outside
    BY <1>12 DEF Inside, Early, Late, Outside
  <2> QED
    BY <1>3, <1>6, <1>7, <1>12, <2>7, <2>8, <2>9, <2>10 DEF start, body
<1>13. CASE pc \in {"xfer", "rc1", "rc2", "rc3"}
  <2>1. pairs \in Nat /\ pairs <= all /\ (pc # "xfer" => pairs + 3 <= all)
    BY <1>8, <1>9, <1>10, <1>11, <1>13
  <2>2. /\ pc = "xfer" => place = start + (Dealt(phase) + pairs)
        /\ pc = "rc1" => place = start + (Dealt(phase) + pairs + 1)
        /\ pc = "rc2" => place = start + (Dealt(phase) + pairs + 2)
        /\ pc = "rc3" => place = start + (Dealt(phase) + pairs + 3)
    BY <1>2 DEF PlaceAt, start, pairs
  <2>3. Far(0, body) /\ place \in Int /\ body <= Shut(phase)
    BY <1>3, <1>4, <1>11, <1>13, <2>1, <2>2
  <2>4. pc \in Inside /\ pc \in Early /\ pc \notin Late \cup Outside
    BY <1>13 DEF Inside, Early, Late, Outside
  <2> QED
    BY <1>3, <1>6, <1>7, <1>13, <2>3, <2>4 DEF start, body
<1>14. CASE pc \in {"cntR", "cntB"}
  <2>1. (pc = "cntR" => place = start + (body + 1)) /\ (pc = "cntB" => place = start + (body + 2))
    BY <1>2 DEF PlaceAt, start, body
  <2>2. pc \in Inside /\ pc \notin Early \cup Late \cup Outside
    BY <1>14 DEF Inside, Early, Late, Outside
  <2>3. body + 2 <= Shut(phase)
    BY <1>3, <1>4, <1>10, <1>14
  <2> QED
    BY <1>3, <1>6, <1>7, <1>14, <2>1, <2>2, <2>3 DEF start, body
<1>15. CASE pc \in Late
  <2>1. /\ pc \in {"xfered", "close"} => place = start + Shut(phase)
        /\ pc \in {"closed", "stat"} => place = start + (Shut(phase) + first)
        /\ pc = "size" => place = start + (Shut(phase) + first + 1)
        /\ pc = "times" => place = start + (Shut(phase) + first + 2)
    BY <1>2 DEF PlaceAt, start, first
  <2>2. Far(Shut(phase), Shut(phase) + Rest(phase)) /\ place \in Int
    BY <1>3, <1>4, <1>7, <1>10, <1>15, <2>1 DEF Late
  <2>3. pc \in Inside /\ pc \notin Early \cup Outside /\ pc \notin {"cntR", "cntB", "phase", "delete", "repEnd"}
    BY <1>15 DEF Inside, Early, Late, Outside
  <2>4. Checks => body + 2 <= Shut(phase)
    BY <1>3, <1>4
  <2> QED
    BY <1>3, <1>6, <1>7, <2>2, <2>3, <2>4 DEF start, body
<1>16. CASE pc \in Ends
  <2>1. /\ pc = "phase" => place = start
        /\ pc = "delete" => place = start + 1
        /\ pc = "repEnd" => place = start + (1 + Bit(~Keeps(r)))
    BY <1>2, <1>3 DEF PlaceAt, start
  <2>2. Bit(~Keeps(r)) \in {0, 1}
    BY DEF Bit
  <2>3. pc \notin Early \cup Late \cup Outside \cup Inside \cup {"cntR", "cntB"}
    BY <1>16 DEF Inside, Early, Late, Outside, Ends
  <2> HIDE DEF phase
  <2> QED
    BY <1>3, <1>10, <1>16, <2>1, <2>2, <2>3 DEF start, Ends, phase
<1>17. CASE pc \in Outside
  BY <1>2, <1>17 DEF PlaceAt, Outside, Inside, Early, Late, Ends
<1>18. pc \in Inside => pc \in Early \cup Late \cup {"cntR", "cntB"}
  BY DEF Inside, Early, Late
<1> QED
  BY <1>1, <1>12, <1>13, <1>14, <1>15, <1>16, <1>17, <1>18 DEF Early

LEMMA StartsGrow ==
    ASSUME Given
    PROVE  /\ \A phase \in Phases : Start(phase) <= Start("finish")
           /\ \A phase \in Phases \ {"finish"} :
                  LengthOf(phase) \in Nat /\ Start(phase) + LengthOf(phase) <= Start("finish")
           /\ Start("write") <= Start("writecheck") /\ Start("writecheck") <= Start("read")
           /\ Start("read") <= Start("readcheck") /\ Start("readcheck") <= Start("finish")
<1>1. \A phase \in Phases \ {"finish"} : LengthOf(phase) \in Nat
  BY LengthIs
<1>2. /\ LengthOf("write") \in Nat /\ LengthOf("writecheck") \in Nat
      /\ LengthOf("read") \in Nat /\ LengthOf("readcheck") \in Nat
  BY <1>1 DEF Phases
<1>3. /\ Start("write") = 1
      /\ Start("writecheck") = Start("write") + LengthOf("write")
      /\ Start("read") = Start("writecheck") + LengthOf("writecheck")
      /\ Start("readcheck") = Start("read") + LengthOf("read")
      /\ Start("finish") = Start("readcheck") + LengthOf("readcheck")
  BY StartIs
<1>4. /\ Start("write") <= Start("writecheck") /\ Start("writecheck") <= Start("read")
      /\ Start("read") <= Start("readcheck") /\ Start("readcheck") <= Start("finish")
      /\ Start("write") \in Nat /\ Start("writecheck") \in Nat /\ Start("read") \in Nat
      /\ Start("readcheck") \in Nat /\ Start("finish") \in Nat
  BY <1>2, <1>3
<1> QED
  BY <1>1, <1>2, <1>3, <1>4 DEF Phases

\* What the invariant says of each member, with the types of its numbers.
LEMMA MembersKnow ==
    ASSUME IInv
    PROVE  /\ Shape /\ Given /\ Aligned /\ Synced /\ Agree /\ wire.sum \in Nat
           /\ Members \subseteq World /\ 0 \in Members /\ test.repetitions \in Nat
           /\ \A q \in Members :
                  /\ Placed(q) /\ Typed(q) /\ Fresh(q) /\ Waiting(q) /\ Recorded(q) /\ WorldRecorded(q)
                  /\ Phase(q) \in Phases /\ Rep(q) \in Nat /\ Place(q) \in Nat
                  /\ Len(Log(q)) \in Nat /\ Log(q) \in Seq(Kinds)
<1>1. /\ Shape /\ Given /\ Aligned /\ Synced /\ Agree /\ wire.sum \in Nat
      /\ \A q \in Members :
             Placed(q) /\ Typed(q) /\ Fresh(q) /\ Waiting(q) /\ Recorded(q) /\ WorldRecorded(q)
  BY DEF IInv, Shape, Evidence
<1>2. Members \subseteq World /\ 0 \in Members /\ test.repetitions \in Nat
  BY <1>1, MembersAre, ParamsAre
<1>3. \A q \in Members : Phase(q) \in Phases /\ Rep(q) \in Nat
  BY <1>1 DEF Placed
<1>4. \A q \in Members : Place(q) \in Nat
  BY <1>1, WhereIs
<1>5. calls \in [{"world", "test"} -> [World -> Seq(Kinds)]]
  BY <1>1 DEF Shape
<1>6. \A q \in Members : Log(q) \in Seq(Kinds)
  BY <1>2, <1>5 DEF Log
<1>7. \A q \in Members : Len(Log(q)) \in Nat
  BY <1>6, LenProperties
<1> QED
  BY <1>1, <1>2, <1>3, <1>4, <1>6, <1>7

\* The tasks that do not move stay where they are.
LEMMA OthersStay ==
    ASSUME NEW q, test' = test, st'[q] = st[q], Log(q)' = Log(q), WorldLog(q)' = WorldLog(q),
           Phase(q) \in Phases
    PROVE  /\ Pc(q)' = Pc(q) /\ Phase(q)' = Phase(q) /\ Rep(q)' = Rep(q) /\ Place(q)' = Place(q)
           /\ (Keeps(q)' <=> Keeps(q)) /\ Left(q)' = Left(q) /\ Counted(q)' = Counted(q)
           /\ (Placed(q) => Placed(q)') /\ (Typed(q) => Typed(q)') /\ (Fresh(q) => Fresh(q)')
           /\ (Waiting(q) => Waiting(q)') /\ (Recorded(q) => Recorded(q)')
           /\ (WorldRecorded(q) => WorldRecorded(q)')
<1>1. Pc(q)' = Pc(q) /\ Phase(q)' = Phase(q) /\ Rep(q)' = Rep(q)
  BY DEF Pc, Phase, Rep
<1>2. /\ XfersPerTask' = XfersPerTask /\ Checks' = Checks /\ Stripes' = Stripes
      /\ \A phase \in Phases :
             /\ Around(phase)' = Around(phase) /\ Opening(phase)' = Opening(phase)
             /\ Dealt(phase)' = Dealt(phase) /\ Body(phase)' = Body(phase)
             /\ Shut(phase)' = Shut(phase) /\ Start(phase)' = Start(phase)
             /\ Wanted(phase)' = Wanted(phase)
      /\ \A i : Script(i)' = Script(i)
  BY Lasting
<1>3. Keeps(q)' <=> Keeps(q)
  BY Zenon DEF Keeps
<1>4. Place(q)' = Place(q)
  BY <1>1, <1>2, <1>3 DEF Within, Bit, Place
<1>5. Left(q)' = Left(q)
  BY <1>1 DEF Left, Bit, TestLabels, Kind
<1>6. Wanted("write")' = Wanted("write") /\ Wanted("writecheck")' = Wanted("writecheck")
      /\ Wanted("read")' = Wanted("read") /\ Wanted("readcheck")' = Wanted("readcheck")
  BY <1>2 DEF Phases
<1>7. Counted(q)' = Counted(q)
  BY <1>1, <1>2, <1>6 DEF Counted, Bit
<1>8. Placed(q) => Placed(q)'
  BY <1>1, <1>2, <1>3 DEF Placed
<1>9. (Typed(q) => Typed(q)') /\ (Fresh(q) => Fresh(q)')
  BY <1>1, <1>2 DEF Typed, Fresh
<1>10. Waiting(q) => Waiting(q)'
  BY <1>1 DEF Waiting, TestLabels, Kind
<1>11. Recorded(q) => Recorded(q)'
  BY <1>1, <1>2, <1>4 DEF Recorded
<1>12. Gathered(q)' = Gathered(q)
  BY <1>1 DEF Gathered, Histograms, Bit
<1>13. WorldRecorded(q) => WorldRecorded(q)'
  BY <1>1, <1>12 DEF WorldRecorded, Ended, Bit
<1> QED
  BY <1>1, <1>3, <1>4, <1>5, <1>7, <1>8, <1>9, <1>10, <1>11, <1>13

\* Whatever a task does next, it has followed the script.
LEMMA RecordedStays ==
    ASSUME IInv, NEW r \in Members, Went(r), Steps(r), Rep(r)' = Rep(r)
    PROVE  /\ Recorded(r)'
           /\ Place(r)' \in Nat /\ Len(Log(r))' - Place(r)' = Len(Log(r)) - Place(r)
<1>1. /\ Place(r) \in Nat /\ Len(Log(r)) \in Nat /\ Shape /\ Waiting(r) /\ Recorded(r)
  BY MembersKnow
<1>2. test' = test /\ Pc(r)' = NewPc(r)
  BY NewIs
<1>3. \A i : Script(i)' = Script(i)
  BY <1>2, Lasting
<1> DEFINE D == Len(Log(r)) - Place(r)
<1>4. \A n \in 1 .. Len(Log(r)) : Log(r)'[n] = Log(r)[n]
  BY <1>1, LogsGrow
<1>5. /\ D \in Nat /\ D + Place(r) = Len(Log(r))
      /\ \A i \in 1 .. Place(r) :
             Log(r)[D + i] = IF Rep(r) = test.repetitions THEN "CommFree" ELSE Script(i)
  BY <1>1 DEF Recorded
<1>6. CASE NewPc(r) \in TestLabels
  <2>1. /\ Len(Log(r))' = Len(Log(r)) + 1 /\ Log(r)'[Len(Log(r)) + 1] = Kind[NewPc(r)]
        /\ Place(r)' = Place(r) + 1 /\ Kind[NewPc(r)] = Due(r)
    BY <1>1, <1>6, LogsGrow DEF Steps
  <2>2. Len(Log(r))' - Place(r)' = D /\ Place(r)' <= Len(Log(r))' /\ Place(r)' \in Nat
    BY <1>1, <1>5, <2>1
  <2>3. ASSUME NEW i \in 1 .. Place(r)'
        PROVE  Log(r)'[D + i] = IF Rep(r) = test.repetitions THEN "CommFree" ELSE Script(i)
    <3>1. CASE i \in 1 .. Place(r)
      BY <1>1, <1>5, <3>1, <1>4
    <3>2. CASE i \notin 1 .. Place(r)
      BY <1>1, <1>5, <2>1, <3>2 DEF Due
    <3> QED
      BY <3>1, <3>2
  <2> QED
    BY <1>2, <1>3, <2>2, <2>3 DEF Recorded
<1>7. CASE NewPc(r) \notin TestLabels
  BY <1>1, <1>7, LogsGrow, <1>2, <1>3, <1>5 DEF Steps, Recorded
<1> QED
  BY <1>6, <1>7

LEMMA StaysInTheEnd ==
    ASSUME NEW r, Moves(r), ~Repeats(r)
    PROVE  Pc(r) # "repEnd" /\ Went(r)
<1>1. GoesOn(r) => Pc(r) # "repEnd"
  BY PlainIs DEF GoesOn, Onto, BeginOn, EnterOn, GateOn, ReadyOn, StripedOn, OpenedOn, RereadOn, LoopOn,
                 ReduceOn, CloseOn, FinishOn
<1>2. /\ Turns(r) => Pc(r) # "repEnd"
      /\ Opens(r) => Pc(r) # "repEnd"
      /\ Transfers(r) => Pc(r) # "repEnd"
      /\ AddsUp(r) => Pc(r) # "repEnd"
      /\ Learns(r) => Pc(r) # "repEnd"
  BY DEF Turns, Opens, Transfers, AddsUp, Learns
<1> QED
  BY <1>1, <1>2, Zenon DEF Moves, GoesOn, Turns, Opens, Transfers, AddsUp, Learns

\* A task begins the next repetition only when all others have ended this one.
LEMMA RepeatsTogether ==
    ASSUME IInv, NEW r \in Members, Repeats(r), NEW s \in Members
    PROVE  \/ Rep(s) = Rep(r) + 1 /\ Len(Log(s)) - Place(s) = Len(Log(r))
           \/ Rep(s) = Rep(r) /\ Pc(s) = "repEnd" /\ Len(Log(s)) = Len(Log(r)) /\ Counted(s) = Counted(r)
<1>1. /\ Shape /\ Given /\ Aligned /\ Agree /\ Waiting(r)
      /\ Rep(r) \in Nat /\ Rep(s) \in Nat /\ Place(r) \in Nat /\ Place(s) \in Nat
      /\ Len(Log(r)) \in Nat /\ Len(Log(s)) \in Nat /\ Phase(s) \in Phases /\ Placed(s) /\ Placed(r)
      /\ test.repetitions \in Nat
  BY MembersKnow
<1>2. Went(r) /\ Pc(r) = "repEnd"
  BY DEF Repeats
<1>3. Len(Log(s)) >= Len(Log(r))
  BY <1>2, KindIs, <1>1, LeavesTogether DEF Waits
<1>4. Place(r) > Start("finish") /\ Start("finish") \in Nat /\ Start("finish") >= 1
  BY <1>1, StartIs, <1>2, WhereIs DEF Phases
<1>5. Rep(r) <= Rep(s) + 1 /\ Rep(s) <= Rep(r) + 1
  BY <1>1 DEF Aligned
<1>6. CASE Rep(r) = Rep(s) + 1
  BY <1>1, <1>6, <1>3, <1>4 DEF Aligned
<1>7. CASE Rep(s) = Rep(r) + 1
  BY <1>1, <1>7 DEF Aligned
<1>8. CASE Rep(s) = Rep(r)
  <2>1. Len(Log(r)) - Place(r) = Len(Log(s)) - Place(s)
    BY <1>1, <1>8 DEF Aligned
  <2>2. Place(s) >= Place(r) /\ Place(s) > Start("finish")
    BY <1>1, <1>3, <1>4, <2>1
  <2>3. Pc(s) \in {"delete", "repEnd"}
    <3>1. Pc(s) \notin Outside
      BY <1>1, <1>4, <2>2, WhereIs
    <3>2. Pc(s) \notin Inside
      <4> SUFFICES ASSUME Pc(s) \in Inside PROVE FALSE
        OBVIOUS
      <4>1. Phase(s) \in Phases \ {"finish"}
        BY <1>1 DEF Placed
      <4>2. /\ Place(s) <= Start(Phase(s)) + LengthOf(Phase(s))
            /\ LengthOf(Phase(s)) \in Nat /\ Start(Phase(s)) \in Nat
            /\ Start(Phase(s)) + LengthOf(Phase(s)) <= Start("finish")
        BY <1>1, <4>1, WhereIs, StartsGrow, StartIs
      <4> QED
        BY <1>1, <1>4, <2>2, <4>2
    <3>3. Pc(s) # "phase"
      <4> SUFFICES ASSUME Pc(s) = "phase" PROVE FALSE
        OBVIOUS
      <4>1. Place(s) = Start(Phase(s)) /\ Start(Phase(s)) <= Start("finish")
        BY <1>1, WhereIs, StartsGrow
      <4> QED
        BY <1>1, <1>4, <2>2, <4>1
    <3> QED
      BY <1>1, <3>1, <3>2, <3>3 DEF Placed, Ends
  <2>4. Phase(s) = "finish" /\ Phase(r) = "finish"
    BY <1>1, <1>2, <2>3 DEF Placed
  <2>5. Counted(s) = Counted(r)
    BY <1>2, <2>3, <2>4 DEF Counted, Outside
  <2>6. st[s].errorFound = st[r].errorFound
    BY <1>1, <1>8, <2>5 DEF Agree
  <2>7. Keeps(s) <=> Keeps(r)
    BY <2>6, Zenon DEF Keeps
  <2>8. Bit(~Keeps(s)) = Bit(~Keeps(r)) /\ Bit(~Keeps(r)) \in {0, 1}
        /\ (~Keeps(r) => Bit(~Keeps(r)) = 1)
    BY <2>7 DEF Bit
  <2>9. Place(r) = Start("finish") + (1 + Bit(~Keeps(r)))
    BY <1>2, <2>4, PlacesAre DEF PlaceAt
  <2>10. Pc(s) = "repEnd"
    <3> SUFFICES ASSUME Pc(s) = "delete" PROVE FALSE
      BY <2>3
    <3>1. Place(s) = Start("finish") + 1
      BY <2>4, PlacesAre DEF PlaceAt
    <3>2. ~Keeps(s)
      BY <1>1 DEF Placed
    <3> QED
      BY <1>4, <2>2, <2>7, <2>8, <2>9, <3>1, <3>2
  <2>11. Place(s) = Start("finish") + (1 + Bit(~Keeps(s)))
    BY <2>4, <2>10, PlacesAre DEF PlaceAt
  <2>12. Len(Log(s)) = Len(Log(r))
    BY <1>1, <1>4, <2>1, <2>8, <2>9, <2>11
  <2> QED
    BY <1>8, <2>5, <2>10, <2>12
<1> QED
  BY <1>1, <1>5, <1>6, <1>7, <1>8

LEMMA AlignedStays ==
    ASSUME IInv, NEW r \in Members, Moves(r)
    PROVE  Aligned'
<1>1. /\ Shape /\ Given /\ Aligned /\ Placed(r) /\ Typed(r) /\ Waiting(r) /\ wire.sum \in Nat
      /\ \A q \in Members :
             /\ Rep(q) \in Nat /\ Place(q) \in Nat /\ Len(Log(q)) \in Nat /\ Phase(q) \in Phases
  BY MembersKnow
<1>2. Went(r)
  BY StaysInTheEnd DEF Repeats
<1>3. test' = test /\ Pc(r)' = NewPc(r) /\ Members' = Members
  BY <1>2, NewIs, Lasting
<1>4. \A q \in Members \ {r} :
          /\ Rep(q)' = Rep(q) /\ Place(q)' = Place(q) /\ Log(q)' = Log(q) /\ Pc(q)' = Pc(q)
          /\ Len(Log(q))' = Len(Log(q))
  <2> SUFFICES ASSUME NEW q \in Members \ {r}
               PROVE  /\ Rep(q)' = Rep(q) /\ Place(q)' = Place(q) /\ Log(q)' = Log(q) /\ Pc(q)' = Pc(q)
                      /\ Len(Log(q))' = Len(Log(q))
    OBVIOUS
  <2>1. r \in World /\ q \in World
    BY <1>1, MembersAre
  <2>2. Log(q)' = Log(q) /\ WorldLog(q)' = WorldLog(q) /\ st'[q] = st[q]
    BY <1>1, <1>2, <2>1, LogsAre DEF Went
  <2> QED
    BY <1>1, <1>3, <2>2, OthersStay
<1>5. CASE ~Repeats(r)
  <2>1. Rep(r)' = Rep(r) /\ Steps(r) /\ Pc(r) # "repEnd"
    BY <1>1, <1>5, MovesSteps, StaysInTheEnd
  <2>2. Place(r)' \in Nat /\ Len(Log(r))' - Place(r)' = Len(Log(r)) - Place(r)
    BY <1>2, <2>1, RecordedStays
  <2>3. \A q \in Members : Rep(q)' = Rep(q) /\ Len(Log(q))' - Place(q)' = Len(Log(q)) - Place(q)
    BY <1>4, <2>1, <2>2
  <2>4. ASSUME NEW q \in Members, NEW s \in Members
        PROVE  /\ Rep(q)' = Rep(s)' => Len(Log(q))' - Place(q)' = Len(Log(s))' - Place(s)'
               /\ Rep(q)' <= Rep(s)' + 1
               /\ Rep(q)' = Rep(s)' + 1 =>
                      Pc(s)' = "repEnd" /\ Len(Log(q))' - Place(q)' = Len(Log(s))'
    <3>1. /\ Rep(q) = Rep(s) => Len(Log(q)) - Place(q) = Len(Log(s)) - Place(s)
          /\ Rep(q) <= Rep(s) + 1
          /\ Rep(q) = Rep(s) + 1 => Pc(s) = "repEnd" /\ Len(Log(q)) - Place(q) = Len(Log(s))
      BY <1>1 DEF Aligned
    <3>2. Rep(q) = Rep(s) + 1 => s # r /\ Pc(s)' = Pc(s) /\ Len(Log(s))' = Len(Log(s))
      BY <1>4, <2>1, <3>1
    <3> QED
      BY <2>3, <3>1, <3>2
  <2> QED
    BY <1>3, <2>4 DEF Aligned
<1>6. CASE Repeats(r)
  <2>1. Rep(r)' = Rep(r) + 1 /\ Place(r)' = 0 /\ Pc(r)' = "rep"
    BY <1>1, <1>3, <1>6, RepeatsSteps DEF Repeats
  <2>2. Log(r)' = Log(r) /\ Len(Log(r))' = Len(Log(r))
    BY <1>1, <1>2, <1>3, <2>1, LogsGrow, KindIs
  <2>3. \A s \in Members \ {r} :
            \/ Rep(s) = Rep(r) + 1 /\ Len(Log(s)) - Place(s) = Len(Log(r))
            \/ Rep(s) = Rep(r) /\ Pc(s) = "repEnd" /\ Len(Log(s)) = Len(Log(r))
    BY <1>6, RepeatsTogether
  <2>4. ASSUME NEW q \in Members, NEW s \in Members
        PROVE  /\ Rep(q)' = Rep(s)' => Len(Log(q))' - Place(q)' = Len(Log(s))' - Place(s)'
               /\ Rep(q)' <= Rep(s)' + 1
               /\ Rep(q)' = Rep(s)' + 1 =>
                      Pc(s)' = "repEnd" /\ Len(Log(q))' - Place(q)' = Len(Log(s))'
    <3>1. CASE q = r /\ s = r
      BY <1>1, <2>1, <2>2, <3>1
    <3>2. CASE q = r /\ s # r
      BY <1>4, <3>2, <1>1, <2>1, <2>2, <2>3
    <3>3. CASE q # r /\ s = r
      BY <1>4, <3>3, <1>1, <2>1, <2>2, <2>3
    <3>4. CASE q # r /\ s # r
      BY <1>1, <1>4, <3>4 DEF Aligned
    <3> QED
      BY <3>1, <3>2, <3>3, <3>4
  <2> QED
    BY <1>3, <2>4 DEF Aligned
<1> QED
  BY <1>5, <1>6

-----------------------------------------------------------------------------
(* The calls match                                                           *)

TestMatch ==
    \A r, s \in Members : \A n \in 1 .. Len(Log(r)) : n <= Len(Log(s)) => Log(r)[n] = Log(s)[n]
WorldMatch ==
    \A r, s \in World :
        \A n \in 1 .. Len(WorldLog(r)) : n <= Len(WorldLog(s)) => WorldLog(r)[n] = WorldLog(s)[n]

LEMMA MatchIsBoth == CollectivesMatch <=> TestMatch /\ WorldMatch
  BY DEF Group, CollectivesMatch, TestMatch, WorldMatch, Log, WorldLog

LEMMA TestMatchStays ==
    ASSUME IInv, NEW r \in Members, Moves(r)
    PROVE  TestMatch'
<1>1. /\ Shape /\ Given /\ Aligned /\ Placed(r) /\ Typed(r) /\ Waiting(r) /\ wire.sum \in Nat
      /\ \A q \in Members :
             /\ Rep(q) \in Nat /\ Place(q) \in Nat /\ Len(Log(q)) \in Nat /\ Recorded(q)
  BY MembersKnow
<1>2. Went(r)
  BY StaysInTheEnd DEF Repeats
<1>3. Members' = Members
  BY <1>2, Lasting DEF Went
<1>4. TestMatch
  BY MatchIsBoth DEF IInv
<1>5. /\ \A q \in Members \ {r} : Log(q)' = Log(q)
      /\ NewPc(r) \in TestLabels =>
             Len(Log(r))' = Len(Log(r)) + 1 /\ Log(r)'[Len(Log(r)) + 1] = Kind[NewPc(r)]
      /\ NewPc(r) \notin TestLabels => Log(r)' = Log(r)
      /\ \A n \in 1 .. Len(Log(r)) : Log(r)'[n] = Log(r)[n]
  BY <1>1, <1>2, LogsGrow
<1>6. CASE NewPc(r) \notin TestLabels
  BY <1>3, <1>4, <1>5, <1>6 DEF TestMatch
<1>7. CASE NewPc(r) \in TestLabels
  <2>1. ~Repeats(r)
    BY <1>7, KindIs DEF Repeats
  <2>2. Steps(r) /\ Pc(r) # "repEnd"
    BY <1>1, <2>1, MovesSteps, StaysInTheEnd
  <2>3. Kind[NewPc(r)] = Due(r)
    BY <1>7, <2>2 DEF Steps
  <2> DEFINE n == Len(Log(r)) + 1
  <2>4. ASSUME NEW s \in Members \ {r}, Len(Log(s)) >= n
        PROVE  Log(s)[n] = Kind[NewPc(r)]
    <3>1. CASE Rep(s) = Rep(r)
      <4> DEFINE i == Place(r) + 1
      <4>1. Len(Log(s)) - Place(s) = Len(Log(r)) - Place(r)
        BY <1>1, <3>1 DEF Aligned
      <4>2. i \in 1 .. Place(s) /\ Len(Log(s)) - Place(s) + i = n
        BY <1>1, <2>4, <4>1
      <4>3. Log(s)[Len(Log(s)) - Place(s) + i] =
                IF Rep(s) = test.repetitions THEN "CommFree" ELSE Script(i)
        BY <1>1, <4>2 DEF Recorded
      <4> QED
        BY <2>3, <3>1, <4>2, <4>3 DEF Due
    <3>2. CASE Rep(s) = Rep(r) + 1
      BY <1>1, <2>2, <3>2 DEF Aligned
    <3>3. CASE Rep(r) = Rep(s) + 1
      BY <1>1, <3>3, <2>4 DEF Aligned
    <3>4. Rep(s) <= Rep(r) + 1 /\ Rep(r) <= Rep(s) + 1
      BY <1>1 DEF Aligned
    <3> QED
      BY <1>1, <3>1, <3>2, <3>3, <3>4
  <2>5. ASSUME NEW q \in Members, NEW s \in Members, NEW m \in 1 .. Len(Log(q))', m <= Len(Log(s))'
        PROVE  Log(q)'[m] = Log(s)'[m]
    <3>1. CASE q # r /\ s # r
      BY <1>4, <1>5, <2>5, <3>1 DEF TestMatch
    <3>2. CASE q = r /\ s = r
      BY <3>2
    <3>3. CASE q = r /\ s # r
      <4>1. m \in 1 .. n /\ m <= Len(Log(s))
        BY <1>5, <1>7, <2>5, <3>3
      <4>2. CASE m = n
        BY <1>5, <1>7, <2>4, <3>3, <4>1, <4>2
      <4>3. CASE m # n
        BY <1>1, <4>1, <4>3, <1>4, <1>5, <3>3 DEF TestMatch
      <4> QED
        BY <4>2, <4>3
    <3>4. CASE q # r /\ s = r
      <4>1. m \in 1 .. Len(Log(q)) /\ m \in 1 .. n
        BY <1>5, <1>7, <2>5, <3>4
      <4>2. CASE m = n
        BY <1>1, <4>1, <4>2, <1>5, <1>7, <2>4, <3>4
      <4>3. CASE m # n
        BY <1>1, <4>1, <4>3, <1>4, <1>5, <3>4 DEF TestMatch
      <4> QED
        BY <4>2, <4>3
    <3> QED
      BY <3>1, <3>2, <3>3, <3>4
  <2> QED
    BY <1>3, <2>5 DEF TestMatch
<1> QED
  BY <1>6, <1>7

\* What is known of the calls on the world's communicator.
WorldKnown ==
    /\ Shape
    /\ \A r \in Members : Placed(r) /\ WorldRecorded(r)
    /\ \A r \in World \ Members : Bystander(r)

LEMMA GatheredIs ==
    ASSUME Given, NEW r, Placed(r)
    PROVE  /\ Gathered(r) \in Nat /\ Gathered(r) <= test.repetitions
           /\ Ended(r) /\ Histograms => Gathered(r) = test.repetitions
           /\ ~Histograms => Gathered(r) = 0
<1> DEFINE seen == /\ Pc(r) \notin Outside
                   /\ \/ Phase(r) = "read" /\ Pc(r) # "phase"
                      \/ Phase(r) \in {"readcheck", "finish"}
<1>1. Gathered(r) = IF ~Histograms THEN 0 ELSE Rep(r) + Bit(seen)
  BY DEF Gathered
<1>2. Bit(seen) \in {0, 1} /\ (Bit(seen) = 1 => seen)
  BY DEF Bit
<1>3. Rep(r) \in Nat /\ test.repetitions \in Nat /\ Rep(r) <= test.repetitions
  BY ParamsAre DEF Placed
<1>4. seen => Rep(r) < test.repetitions
  BY DEF Placed, Outside
<1>5. Ended(r) => Rep(r) = test.repetitions /\ ~seen
  BY DEF Placed, Ended, Outside
<1> HIDE DEF seen
<1> QED
  BY <1>1, <1>2, <1>3, <1>4, <1>5

LEMMA WorldMatches == WorldKnown => WorldMatch
<1> SUFFICES ASSUME WorldKnown, NEW r \in World, NEW s \in World, NEW n \in 1 .. Len(WorldLog(r)),
                    n <= Len(WorldLog(s))
             PROVE  WorldLog(r)[n] = WorldLog(s)[n]
  BY DEF WorldMatch
<1>1. Given /\ Members \subseteq World /\ \A q \in World : WorldLog(q) \in Seq(Kinds)
  BY MembersAre DEF WorldKnown, Shape, WorldLog
<1>2. Len(WorldLog(r)) \in Nat /\ Len(WorldLog(s)) \in Nat /\ n \in 1 .. Len(WorldLog(s))
  BY <1>1, LenProperties
<1>3. CASE ~Histograms
  <2>1. ASSUME NEW q \in World, NEW m \in 1 .. Len(WorldLog(q)) PROVE WorldLog(q)[m] = "Barrier"
    <3>1. CASE q \in Members
      <4>1. Gathered(q) = 0
        BY <1>3 DEF Gathered
      <4>2. WorldLog(q)[m] = IF m <= Gathered(q) THEN "Gather" ELSE "Barrier"
        BY <2>1, <3>1 DEF WorldKnown, WorldRecorded
      <4>3. ~(m <= 0)
        OBVIOUS
      <4> QED
        BY <4>1, <4>2, <4>3
    <3>2. CASE q \notin Members
      BY <3>2, <2>1 DEF WorldKnown, Bystander
    <3> QED
      BY <3>1, <3>2
  <2> QED
    BY <1>2, <2>1
<1>4. CASE Histograms
  <2>1. Members = World
    BY <1>1, <1>4, MembersAre, ParamsAre DEF Histograms
  <2>2. \A q \in World : /\ Gathered(q) \in Nat /\ Gathered(q) <= test.repetitions
                         /\ Ended(q) => Gathered(q) = test.repetitions
    BY <1>1, <1>4, <2>1, GatheredIs DEF WorldKnown
  <2>3. \A q \in World : /\ Len(WorldLog(q)) = Gathered(q) + Bit(Ended(q))
                         /\ \A m \in 1 .. Len(WorldLog(q)) :
                                WorldLog(q)[m] = IF m <= Gathered(q) THEN "Gather" ELSE "Barrier"
    BY <2>1 DEF WorldKnown, WorldRecorded
  <2>4. \A q \in World : /\ Ended(q) => Len(WorldLog(q)) = test.repetitions + 1
                         /\ ~Ended(q) => Len(WorldLog(q)) = Gathered(q)
    BY <2>2, <2>3 DEF Bit
  <2>5. test.repetitions \in Nat
    BY <1>1, ParamsAre
  <2>6. n <= Gathered(r) <=> n <= Gathered(s)
    BY <1>2, <2>2, <2>4, <2>5
  <2> QED
    BY <1>2, <2>3, <2>6
<1> QED
  BY <1>3, <1>4

LEMMA NewWorldMatches == WorldKnown' => WorldMatch'
  BY WorldMatches, PTL

LEMMA FreshStays ==
    ASSUME NEW r, Fresh(r), Moves(r)
    PROVE  Fresh(r)'
<1>1. Went(r)
  BY StaysInTheEnd DEF Repeats
<1>2. Pc(r)' = NewPc(r)
  BY <1>1, NewIs
<1>3. SUFFICES ASSUME NewPc(r) \in {"opened", "deal", "seed"} \/ (NewPc(r) = "striped" /\ r = 0)
               PROVE  st'[r].errors = 0
  BY <1>2 DEF Fresh
<1>4. CASE GoesOn(r)
  <2>1. st'[r].errors = st[r].errors
    BY <1>4, FixedIs DEF GoesOn
  <2>2. CASE PlainOn(r)
    <3>1. Pc(r) = "deal"
      BY <1>3, <2>2, PlainIs
    <3> QED
      BY <2>1, <3>1 DEF Fresh
  <2>3. CASE StripedOn(r)
    BY <1>3, <2>3, <2>1 DEF StripedOn, Fresh
  <2>4. CASE OpenedOn(r)
    BY <2>1, <2>4 DEF OpenedOn, Fresh
  <2>5. ~BeginOn(r) /\ ~EnterOn(r) /\ ~GateOn(r) /\ ~ReadyOn(r) /\ ~RereadOn(r)
    BY <1>3 DEF BeginOn, EnterOn, GateOn, ReadyOn, RereadOn
  <2>6. ~LoopOn(r) /\ ~ReduceOn(r) /\ ~CloseOn(r) /\ ~FinishOn(r)
    BY <1>3 DEF LoopOn, ReduceOn, CloseOn, FinishOn, After
  <2> QED
    BY <1>4, <2>2, <2>3, <2>4, <2>5, <2>6 DEF GoesOn, Onto
<1>5. CASE Opens(r)
  BY <1>5 DEF Opens
<1>6. ~Turns(r) /\ ~Transfers(r) /\ ~AddsUp(r) /\ ~Learns(r) /\ ~Repeats(r)
  BY <1>3 DEF Turns, Transfers, AddsUp, Learns, Repeats, After
<1> QED
  BY <1>4, <1>5, <1>6 DEF Moves

\* Whether a task has come to the histogram of its repetition.
Seen(pc, phase) ==
    /\ pc \notin Outside
    /\ \/ phase = "read" /\ pc # "phase"
       \/ phase \in {"readcheck", "finish"}

LEMMA GatheredThen ==
    ASSUME NEW r, Went(r)
    PROVE  /\ Gathered(r) = IF ~Histograms THEN 0 ELSE Rep(r) + Bit(Seen(Pc(r), Phase(r)))
           /\ Gathered(r)' = IF ~Histograms THEN 0 ELSE st'[r].rep + Bit(Seen(NewPc(r), st'[r].phase))
           /\ (Ended(r)' <=> NewPc(r) \in {"world", "done"})
  BY NewIs DEF Gathered, Seen, Histograms, Ended, Bit

LEMMA SeenStays ==
    ASSUME NEW r, Given, Placed(r), Moves(r), ~Repeats(r)
    PROVE  /\ NewPc(r) \in {"hist", "world", "done"} \/ ~Histograms
                  \/ (Seen(NewPc(r), st'[r].phase) <=> Seen(Pc(r), Phase(r)))
           /\ NewPc(r) = "hist" => /\ Histograms /\ Phase(r) = "read" /\ Pc(r) = "phase"
                                   /\ st'[r].phase = "read"
           /\ NewPc(r) = "world" => Pc(r) = "commFree"
           /\ NewPc(r) = "done" => Pc(r) = "world"
           /\ NewPc(r) \notin {"world", "done"} => Pc(r) \notin {"world", "done"}
           /\ st'[r].rep = Rep(r)
<1> DEFINE pc == Pc(r)
           phase == Phase(r)
<1>1. CASE Turns(r)
  <2>1. NewPc(r) = "phase" /\ st'[r].rep = Rep(r)
    BY <1>1, FixedBut DEF Turns
  <2>2. CASE pc = "stamp" /\ st'[r].phase = "write"
    BY <2>1, <2>2 DEF Seen, Outside
  <2>3. CASE /\ \/ pc = "phase" /\ ~Wanted(phase)
                \/ pc = "close" /\ phase \in {"writecheck", "readcheck"}
                \/ pc = "times"
             /\ phase # "finish" /\ st'[r].phase = Following[phase]
    <3>1. pc \notin Outside /\ phase \in {"write", "writecheck", "read", "readcheck"}
      BY <2>3 DEF Outside, Placed, Phases
    <3>2. /\ Following["write"] = "writecheck" /\ Following["writecheck"] = "read"
          /\ Following["read"] = "readcheck" /\ Following["readcheck"] = "finish"
      BY DEF Following
    <3>3. phase = "read" /\ pc = "phase" => ~Histograms
      BY ParamsAre, <2>3 DEF Wanted, Histograms
    <3> QED
      BY <2>1, <2>3, <3>1, <3>2, <3>3 DEF Seen, Outside
  <2> QED
    BY <1>1, <2>2, <2>3 DEF Turns
<1>2. CASE GoesOn(r)
  <2>1. st'[r].phase = phase /\ st'[r].rep = Rep(r)
    BY <1>2, FixedIs DEF GoesOn
  <2>2. CASE EnterOn(r)
    <3>1. phase \in {"write", "writecheck", "read", "readcheck"}
      BY <2>2 DEF EnterOn, Placed, Phases
    <3>2. pc = "phase" /\ NewPc(r) \in {"ready", "hist", "gate"} /\ Wanted(phase)
          /\ (phase # "read" => NewPc(r) # "hist")
          /\ (NewPc(r) = "hist" <=> phase = "read" /\ test.reorderTasksRandom /\ test.hitsHistogram)
      BY <2>2 DEF EnterOn
    <3>3. Wanted("read") <=> test.readFile
      BY ParamsAre DEF Wanted
    <3>4. NewPc(r) = "hist" <=> phase = "read" /\ Histograms
      BY <3>2, <3>3 DEF Histograms
    <3> QED
      BY <2>1, <3>1, <3>2, <3>4 DEF Seen, Outside
  <2>3. CASE BeginOn(r)
    BY <2>1, <2>3 DEF BeginOn, Seen, Outside
  <2>4. CASE FinishOn(r)
    BY <2>1, <2>4 DEF FinishOn, Seen, Outside
  <2>5. CASE PlainOn(r)
    BY <2>1, <2>5, PlainIs DEF Seen, Outside
  <2>6. CASE GateOn(r) \/ ReadyOn(r) \/ StripedOn(r) \/ OpenedOn(r) \/ RereadOn(r)
    <3>1. pc \in {"gate", "ready", "striped", "opened", "xfer"}
          /\ NewPc(r) \in {"open", "ready", "striped", "opened", "deal", "xfer", "rc1"}
      BY <2>6 DEF GateOn, ReadyOn, StripedOn, OpenedOn, RereadOn, First
    <3> QED
      BY <2>1, <3>1 DEF Seen, Outside
  <2>7. CASE LoopOn(r) \/ ReduceOn(r) \/ CloseOn(r)
    BY <2>7, <2>1 DEF LoopOn, ReduceOn, CloseOn, After, Seen, Outside
  <2> QED
    BY <1>2, <2>2, <2>3, <2>4, <2>5, <2>6, <2>7 DEF GoesOn, Onto
<1>3. CASE Opens(r) \/ Transfers(r) \/ AddsUp(r) \/ Learns(r)
  <2>1. pc \in {"open", "xfer", "rc3", "cntR", "cntB"} /\ st'[r].phase = phase /\ st'[r].rep = Rep(r)
    BY <1>3, FixedBut DEF Opens, Transfers, AddsUp, Learns
  <2>2. NewPc(r) \in {"striped", "opened", "deal", "xfer", "cntB", "xfered", "close"}
    BY <1>3 DEF Opens, Transfers, AddsUp, Learns, First, After
  <2> QED
    BY <2>1, <2>2 DEF Seen, Outside
<1> QED
  BY <1>1, <1>2, <1>3 DEF Moves

LEMMA WorldRecordedStays ==
    ASSUME IInv, NEW r \in Members, Moves(r)
    PROVE  WorldRecorded(r)'
<1>1. /\ Shape /\ Given /\ Placed(r) /\ WorldRecorded(r) /\ Rep(r) \in Nat /\ test.repetitions \in Nat
      /\ r \in World
  BY MembersKnow
<1>2. Went(r)
  BY StaysInTheEnd DEF Repeats
<1>3. Pc(r)' = NewPc(r) /\ test' = test
  BY <1>2, NewIs
<1> DEFINE log == WorldLog(r)
           log2 == WorldLog(r)'
           g == Gathered(r)
           g2 == Gathered(r)'
           e == Bit(Ended(r))
           e2 == Bit(Ended(r)')
<1>4. log \in Seq(Kinds) /\ Len(log) \in Nat /\ g \in Nat /\ g <= test.repetitions
      /\ (Ended(r) /\ Histograms => g = test.repetitions) /\ (~Histograms => g = 0)
  BY <1>1, LenProperties, GatheredIs DEF Shape, WorldLog
<1>5. /\ NewPc(r) \in {"hist", "world"} => log2 = Append(log, Kind[NewPc(r)])
      /\ NewPc(r) \notin {"hist", "world"} => log2 = log
  BY <1>1, <1>2, LogsAre DEF TestLabels
<1>6. /\ Len(log) = g + e
      /\ \A n \in 1 .. Len(log) : log[n] = IF n <= g THEN "Gather" ELSE "Barrier"
  BY <1>1 DEF WorldRecorded
<1>7. SUFFICES /\ Len(log2) = g2 + e2
               /\ \A n \in 1 .. Len(log2) : log2[n] = IF n <= g2 THEN "Gather" ELSE "Barrier"
  BY DEF WorldRecorded, Bit
<1>8. /\ g = IF ~Histograms THEN 0 ELSE Rep(r) + Bit(Seen(Pc(r), Phase(r)))
      /\ g2 = IF ~Histograms THEN 0 ELSE st'[r].rep + Bit(Seen(NewPc(r), st'[r].phase))
      /\ (Ended(r)' <=> NewPc(r) \in {"world", "done"})
  BY <1>2, GatheredThen
<1>9. e = IF Ended(r) THEN 1 ELSE 0
  BY DEF Bit
<1>10. e2 = IF NewPc(r) \in {"world", "done"} THEN 1 ELSE 0
  BY <1>8 DEF Bit
<1> HIDE DEF log, log2, g, g2, e, e2
<1>11. CASE Repeats(r)
  <2>1. NewPc(r) = "rep" /\ Pc(r) = "repEnd" /\ st'[r].rep = Rep(r) + 1 /\ Phase(r) = "finish"
    BY <1>1, <1>11 DEF Repeats, Placed
  <2>2. Seen(Pc(r), Phase(r)) /\ ~Seen(NewPc(r), st'[r].phase) /\ ~Ended(r)
    BY <2>1 DEF Seen, Ended, Outside
  <2>3. Bit(Seen(Pc(r), Phase(r))) = 1 /\ Bit(Seen(NewPc(r), st'[r].phase)) = 0
    BY <2>2 DEF Bit
  <2>4. g2 = g /\ e2 = e /\ log2 = log
    BY <1>1, <1>5, <1>8, <1>9, <1>10, <2>1, <2>2, <2>3
  <2> QED
    BY <1>6, <2>4
<1>12. CASE ~Repeats(r)
  <2>1. /\ NewPc(r) \in {"hist", "world", "done"} \/ ~Histograms
               \/ (Seen(NewPc(r), st'[r].phase) <=> Seen(Pc(r), Phase(r)))
        /\ NewPc(r) = "hist" => /\ Histograms /\ Phase(r) = "read" /\ Pc(r) = "phase"
                                /\ st'[r].phase = "read"
        /\ NewPc(r) = "world" => Pc(r) = "commFree"
        /\ NewPc(r) = "done" => Pc(r) = "world"
        /\ NewPc(r) \notin {"world", "done"} => Pc(r) \notin {"world", "done"}
        /\ st'[r].rep = Rep(r)
    BY <1>1, <1>12, SeenStays
  <2>2. CASE NewPc(r) = "hist"
    <3>1. ~Seen(Pc(r), Phase(r)) /\ Seen(NewPc(r), st'[r].phase) /\ ~Ended(r) /\ Kind["hist"] = "Gather"
      BY <2>1, <2>2, KindIs DEF Seen, Outside, Ended
    <3>2. Bit(Seen(Pc(r), Phase(r))) = 0 /\ Bit(Seen(NewPc(r), st'[r].phase)) = 1
      BY <3>1 DEF Bit
    <3>3. g2 = g + 1 /\ e2 = 0 /\ e = 0 /\ log2 = Append(log, "Gather")
      BY <1>1, <1>5, <1>8, <1>9, <1>10, <2>1, <2>2, <3>1, <3>2
    <3>4. "Gather" \in Kinds
      BY DEF Kinds
    <3>5. /\ Len(log2) = Len(log) + 1 /\ log2[Len(log) + 1] = "Gather"
          /\ \A n \in 1 .. Len(log) : log2[n] = log[n]
      BY <1>4, <3>3, <3>4, AppendProperties
    <3> QED
      BY <1>4, <1>6, <3>3, <3>5
  <2>3. CASE NewPc(r) = "world"
    <3>1. Pc(r) = "commFree" /\ ~Ended(r) /\ Kind["world"] = "Barrier"
      BY <2>1, <2>3, KindIs DEF Ended
    <3>2. ~Seen(Pc(r), Phase(r)) /\ ~Seen(NewPc(r), st'[r].phase)
      BY <2>3, <3>1 DEF Seen, Outside
    <3>3. Bit(Seen(Pc(r), Phase(r))) = 0 /\ Bit(Seen(NewPc(r), st'[r].phase)) = 0
      BY <3>2 DEF Bit
    <3>4. g2 = g /\ e2 = 1 /\ e = 0 /\ log2 = Append(log, "Barrier")
      BY <1>1, <1>5, <1>8, <1>9, <1>10, <2>1, <2>3, <3>1, <3>3
    <3>5. "Barrier" \in Kinds
      BY DEF Kinds
    <3>6. /\ Len(log2) = Len(log) + 1 /\ log2[Len(log) + 1] = "Barrier"
          /\ \A n \in 1 .. Len(log) : log2[n] = log[n]
      BY <1>4, <3>4, <3>5, AppendProperties
    <3> QED
      BY <1>4, <1>6, <3>4, <3>6
  <2>4. CASE NewPc(r) = "done"
    <3>1. Ended(r) /\ ~Seen(Pc(r), Phase(r)) /\ ~Seen(NewPc(r), st'[r].phase)
      BY <2>1, <2>4 DEF Ended, Seen, Outside
    <3>2. Bit(Seen(Pc(r), Phase(r))) = 0 /\ Bit(Seen(NewPc(r), st'[r].phase)) = 0
      BY <3>1 DEF Bit
    <3>3. g2 = g /\ e2 = e /\ log2 = log
      BY <1>1, <1>5, <1>8, <1>9, <1>10, <2>1, <2>4, <3>1, <3>2
    <3> QED
      BY <1>6, <3>3
  <2>5. CASE NewPc(r) \notin {"hist", "world", "done"}
    <3>1. ~Ended(r) /\ (~Histograms \/ Bit(Seen(NewPc(r), st'[r].phase)) = Bit(Seen(Pc(r), Phase(r))))
      BY <2>1, <2>5 DEF Ended, Bit
    <3>2. g2 = g /\ e2 = e /\ log2 = log
      BY <1>1, <1>5, <1>8, <1>9, <1>10, <2>1, <2>5, <3>1
    <3> QED
      BY <1>6, <3>2
  <2> QED
    BY <2>2, <2>3, <2>4, <2>5
<1> QED
  BY <1>11, <1>12

\* A task outside testComm only waits for the end.
LEMMA BystanderMoves ==
    ASSUME NEW r, Moves(r), Ended(r)
    PROVE  GoesOn(r) /\ Pc(r) = "world" /\ NewPc(r) = "done"
<1>1. Pc(r) \in {"world", "done"}
  BY DEF Ended
<1>2. ~Turns(r) /\ ~Opens(r) /\ ~Transfers(r) /\ ~AddsUp(r) /\ ~Learns(r) /\ ~Repeats(r)
  BY <1>1 DEF Turns, Opens, Transfers, AddsUp, Learns, Repeats
<1>3. GoesOn(r)
  BY <1>2 DEF Moves
<1>4. /\ ~BeginOn(r) /\ ~EnterOn(r) /\ ~GateOn(r) /\ ~ReadyOn(r) /\ ~StripedOn(r) /\ ~OpenedOn(r)
      /\ ~RereadOn(r) /\ ~LoopOn(r) /\ ~ReduceOn(r) /\ ~CloseOn(r) /\ ~FinishOn(r)
  BY <1>1 DEF BeginOn, EnterOn, GateOn, ReadyOn, StripedOn, OpenedOn, RereadOn, LoopOn, ReduceOn,
              CloseOn, FinishOn
<1>5. PlainOn(r)
  BY <1>3, <1>4 DEF GoesOn, Onto
<1> QED
  BY <1>1, <1>3, <1>5, PlainIs

LEMMA AllEndTogether ==
    ASSUME IInv, NEW r \in World, Went(r), Pc(r) = "world"
    PROVE  \A s \in World : Ended(s)
<1>1. Shape /\ Given /\ Members \subseteq World
  BY MembersKnow
<1>2. \A q \in World : WorldLog(q) \in Seq(Kinds) /\ Len(WorldLog(q)) \in Nat
  BY <1>1, LenProperties DEF Shape, WorldLog
<1>3. \A q \in Members :
          /\ Gathered(q) \in Nat /\ Len(WorldLog(q)) = Gathered(q) + Bit(Ended(q))
          /\ \A n \in 1 .. Len(WorldLog(q)) :
                 WorldLog(q)[n] = IF n <= Gathered(q) THEN "Gather" ELSE "Barrier"
  BY <1>1, MembersKnow, GatheredIs DEF WorldRecorded
<1>4. \A q \in World \ Members : Bystander(q)
  BY DEF IInv
<1>5. Ended(r)
  BY DEF Ended
<1> DEFINE n == Len(WorldLog(r))
<1>6. n \in Nat /\ n > 0 /\ WorldLog(r)[n] = "Barrier"
  <2>1. CASE r \in Members
    BY <1>3, <1>5, <2>1 DEF Bit
  <2>2. CASE r \notin Members
    BY <1>4, <2>2 DEF Bystander
  <2> QED
    BY <2>1, <2>2
<1>7. \A s \in World : Met("world", r, s)
  BY KindIs DEF Went, MayLeave, Group
<1>8. ASSUME NEW s \in Members PROVE Ended(s)
  <2>1. Met("world", r, s)
    BY <1>1, <1>7
  <2>2. Len(WorldLog(s)) >= n /\ WorldLog(s)[n] = WorldLog(r)[n]
    BY <2>1, Zenon DEF Met, WorldLog
  <2>3. Len(WorldLog(s)) \in Nat
    BY <1>1, <1>2
  <2>4. n \in 1 .. Len(WorldLog(s)) /\ ~(n <= Gathered(s)) /\ Gathered(s) \in Nat
    BY <1>3, <1>6, <2>2, <2>3
  <2>5. Bit(Ended(s)) # 0
    BY <1>3, <2>2, <2>3, <2>4, <1>6
  <2> QED
    BY <2>5 DEF Bit
<1> QED
  BY <1>4, <1>8 DEF Bystander

LEMMA AllEndStays ==
    ASSUME IInv, NEW r \in World, Moves(r)
    PROVE  AllEnd'
<1>1. Shape /\ Given /\ Members \subseteq World /\ AllEnd /\ (r \in Members => Placed(r))
      /\ (r \notin Members => Ended(r))
  BY MembersKnow DEF IInv, Bystander
<1>2. Went(r)
  BY StaysInTheEnd DEF Repeats
<1>3. Pc(r)' = NewPc(r) /\ \A q \in World \ {r} : Pc(q)' = Pc(q)
  BY <1>2, NewIs DEF Went, Pc
<1>4. \A q \in World \ {r} : Ended(q) => Ended(q)'
  BY <1>3 DEF Ended
<1>5. Ended(r) => NewPc(r) = "done" /\ Pc(r) = "world"
  BY BystanderMoves
<1>6. NewPc(r) = "done" => Pc(r) = "world"
  <2>1. CASE r \notin Members
    BY <1>1, <1>5, <2>1
  <2>2. CASE r \in Members /\ ~Repeats(r)
    BY <1>1, <2>2, SeenStays
  <2>3. CASE Repeats(r)
    BY <2>3 DEF Repeats
  <2> QED
    BY <2>1, <2>2, <2>3
<1>7. SUFFICES ASSUME NEW d \in World, Pc(d)' = "done", NEW s \in World PROVE Ended(s)'
  BY DEF AllEnd
<1>8. \A q \in World : Ended(q)
  <2>1. CASE d = r
    BY <1>2, <1>3, <1>6, <1>7, <2>1, AllEndTogether
  <2>2. CASE d # r
    BY <1>1, <1>3, <1>7, <2>2 DEF AllEnd
  <2> QED
    BY <2>1, <2>2
<1>9. CASE s = r
  BY <1>3, <1>5, <1>8, <1>9 DEF Ended
<1> QED
  BY <1>4, <1>8, <1>9

-----------------------------------------------------------------------------
(* What the tasks know of errors                                             *)

LEMMA BeforeIs ==
    /\ \A phase \in Phases : Before(phase) \in Nat
    /\ \A phase \in Phases \ {"finish"} :
           Before(Following[phase]) = Before(phase) + Bit(Wanted(phase))
    /\ Before("write") = 0
<1> DEFINE w == Bit(Wanted("write"))
           wc == Bit(Wanted("writecheck"))
           rd == Bit(Wanted("read"))
           rc == Bit(Wanted("readcheck"))
<1>1. w \in {0, 1} /\ wc \in {0, 1} /\ rd \in {0, 1} /\ rc \in {0, 1}
  BY DEF Bit
<1>2. Bit(FALSE) = 0
  BY DEF Bit
<1>3. /\ Before("write") = 0 + 0 + 0 + 0 /\ Before("writecheck") = w + 0 + 0 + 0
      /\ Before("read") = w + wc + 0 + 0 /\ Before("readcheck") = w + wc + rd + 0
      /\ Before("finish") = w + wc + rd + rc
  BY DEF Before, Bit
<1> HIDE DEF w, wc, rd, rc
<1>4. /\ Before("write") = 0 /\ Before("writecheck") = Before("write") + w
      /\ Before("read") = Before("writecheck") + wc
      /\ Before("readcheck") = Before("read") + rd
      /\ Before("finish") = Before("readcheck") + rc
      /\ Before("write") \in Nat /\ Before("writecheck") \in Nat /\ Before("read") \in Nat
      /\ Before("readcheck") \in Nat /\ Before("finish") \in Nat
  BY <1>1, <1>3
<1> QED
  BY <1>4 DEF Phases, Following, w, wc, rd, rc

LEMMA CountedIs ==
    ASSUME NEW r
    PROVE  Counted(r) = IF ~Checks \/ Pc(r) \in Outside THEN 0
                        ELSE Before(Phase(r)) + Bit(Pc(r) \in Late)
  BY Zenon DEF Counted, Before, Late

LEMMA CountedThen ==
    ASSUME NEW r, Went(r)
    PROVE  Counted(r)' = IF ~Checks \/ NewPc(r) \in Outside THEN 0
                         ELSE Before(st'[r].phase) + Bit(NewPc(r) \in Late)
<1>1. Pc(r)' = NewPc(r) /\ Phase(r)' = st'[r].phase /\ test' = test
  BY NewIs
<1>2. Checks' = Checks
  BY <1>1, Lasting
<1>3. /\ Wanted("write")' = Wanted("write") /\ Wanted("writecheck")' = Wanted("writecheck")
      /\ Wanted("read")' = Wanted("read") /\ Wanted("readcheck")' = Wanted("readcheck")
  BY <1>1, Lasting DEF Phases
<1>4. (Pc(r) \in Outside)' <=> NewPc(r) \in Outside
  BY <1>1
<1> QED
  BY <1>1, <1>2, <1>3, <1>4, Zenon DEF Counted, Before, Late, Bit

LEMMA QuietIs ==
    ASSUME NEW r, Given, Placed(r), Quiet(r)
    PROVE  /\ Went(r) /\ Counted(r)' = Counted(r) /\ st'[r].rep = Rep(r)
           /\ Pc(r) \in {"cntR", "cntB"} => NewPc(r) = "cntB" /\ Pc(r) = "cntR" /\ r # 0
           /\ st'[r].totalErrorCount = st[r].totalErrorCount
           /\ st'[r].errorFound = st[r].errorFound /\ wire'.sum = wire.sum
<1>1. /\ Went(r) /\ st'[r].rep = Rep(r) /\ st'[r].totalErrorCount = st[r].totalErrorCount
      /\ st'[r].errorFound = st[r].errorFound /\ wire'.sum = wire.sum
  BY FixedBut DEF Quiet, GoesOn, Turns, Opens, Transfers, Unseen
<1>2. Counted(r)' = IF ~Checks \/ NewPc(r) \in Outside THEN 0
                    ELSE Before(st'[r].phase) + Bit(NewPc(r) \in Late)
  BY <1>1, CountedThen
<1>3. Counted(r) = IF ~Checks \/ Pc(r) \in Outside THEN 0
                   ELSE Before(Phase(r)) + Bit(Pc(r) \in Late)
  BY CountedIs
<1> DEFINE pc == Pc(r)
           phase == Phase(r)
<1>4. phase \in Phases
  BY DEF Placed
<1>5. ASSUME st'[r].phase = phase, NewPc(r) \in Outside <=> pc \in Outside,
             Checks => (NewPc(r) \in Late <=> pc \in Late)
      PROVE  Counted(r)' = Counted(r)
  BY <1>2, <1>3, <1>5 DEF Bit
<1>6. CASE GoesOn(r)
  <2>1. st'[r].phase = phase
    BY <1>6, FixedIs DEF GoesOn
  <2>3. CASE BeginOn(r)
    BY <1>1, <1>5, <2>1, <2>3 DEF BeginOn, Outside, Late
  <2>4. CASE EnterOn(r) \/ GateOn(r) \/ ReadyOn(r) \/ StripedOn(r) \/ OpenedOn(r) \/ RereadOn(r) \/ FinishOn(r)
    <3>1. /\ pc \in {"phase", "gate", "ready", "striped", "opened", "xfer"}
          /\ NewPc(r) \in {"ready", "hist", "gate", "open", "striped", "opened", "deal", "xfer", "rc1",
                           "repEnd", "delete"}
      BY <2>4 DEF EnterOn, GateOn, ReadyOn, StripedOn, OpenedOn, RereadOn, FinishOn, First
    <3>2. pc \notin {"cntR", "cntB"}
      BY <3>1
    <3>3. /\ pc \notin Outside /\ NewPc(r) \notin Outside /\ pc \notin Late /\ NewPc(r) \notin Late
      BY <3>1 DEF Outside, Late
    <3> QED
      BY <1>1, <1>5, <2>1, <3>2, <3>3
  <2>5. CASE LoopOn(r)
    BY <2>5, <1>1, <1>5, <2>1 DEF LoopOn, After, Outside, Late
  <2>6. CASE ReduceOn(r)
    BY <1>1, <1>5, <2>1, <2>6 DEF ReduceOn, Outside, Late
  <2>7. CASE CloseOn(r)
    BY <1>1, <1>5, <2>1, <2>7 DEF CloseOn, Outside, Late
  <2>8. CASE PlainOn(r)
    BY <1>1, <1>5, <2>1, <2>8, PlainIs DEF Outside, Late
  <2> QED
    BY <1>1, <1>6, <2>3, <2>4, <2>5, <2>6, <2>7, <2>8 DEF GoesOn, Onto, BeginOn
<1>7. CASE Turns(r)
  <2>1. NewPc(r) = "phase" /\ NewPc(r) \notin Outside /\ NewPc(r) \notin Late
    BY <1>7 DEF Turns, Outside, Late
  <2>2. Counted(r)' = IF ~Checks THEN 0 ELSE Before(st'[r].phase) + 0
    BY <1>2, <2>1 DEF Bit
  <2>3. CASE pc = "stamp" /\ st'[r].phase = "write"
    BY <1>1, <1>3, <2>2, <2>3, BeforeIs DEF Outside
  <2>4. CASE phase # "finish" /\ st'[r].phase = Following[phase] /\ pc # "stamp"
    <3>1. \/ pc = "phase" /\ ~Wanted(phase)
          \/ pc \in {"close", "times"} /\ Wanted(phase)
      BY <1>7, <2>4 DEF Turns, Placed, Inside
    <3>2. Bit(pc \in Late) = Bit(Wanted(phase)) /\ pc \notin Outside /\ Bit(Wanted(phase)) \in {0, 1}
      BY <3>1 DEF Late, Outside, Bit
    <3>3. Before(Following[phase]) = Before(phase) + Bit(Wanted(phase)) /\ Before(phase) \in Nat
      BY <1>4, <2>4, BeforeIs
    <3>4. pc \notin {"cntR", "cntB"}
      BY <3>1
    <3> QED
      BY <1>1, <1>3, <2>2, <2>4, <3>2, <3>3, <3>4
  <2> QED
    BY <1>7, <2>3, <2>4 DEF Turns
<1>8. CASE Opens(r) \/ Transfers(r)
  <2>1. /\ st'[r].phase = phase /\ pc \in {"open", "xfer", "rc3"}
        /\ NewPc(r) \in {"striped", "opened", "deal", "xfer"}
    BY <1>8, FixedBut DEF Opens, Transfers, First
  <2> QED
    BY <1>1, <1>5, <2>1 DEF Outside, Late
<1> QED
  BY <1>6, <1>7, <1>8 DEF Quiet

LEMMA PhasesFollow ==
    ASSUME Given, NEW p \in Phases \ {"finish"}, NEW x \in Phases
    PROVE  \/ x = p
           \/ Start(x) >= Start(p) + LengthOf(p) /\ Before(x) >= Before(p) + Bit(Wanted(p))
           \/ x # "finish" /\ Start(x) + LengthOf(x) <= Start(p)
<1>1. \A y \in Phases \ {"finish"} : LengthOf(y) \in Nat /\ Bit(Wanted(y)) \in {0, 1}
  BY LengthIs DEF Bit
<1>2. /\ LengthOf("write") \in Nat /\ LengthOf("writecheck") \in Nat
      /\ LengthOf("read") \in Nat /\ LengthOf("readcheck") \in Nat
      /\ Bit(Wanted("write")) \in Nat /\ Bit(Wanted("writecheck")) \in Nat
      /\ Bit(Wanted("read")) \in Nat /\ Bit(Wanted("readcheck")) \in Nat
  BY <1>1 DEF Phases
<1>3. /\ Start("write") = 1
      /\ Start("writecheck") = Start("write") + LengthOf("write")
      /\ Start("read") = Start("writecheck") + LengthOf("writecheck")
      /\ Start("readcheck") = Start("read") + LengthOf("read")
      /\ Start("finish") = Start("readcheck") + LengthOf("readcheck")
  BY StartIs
<1>4. /\ Before("write") = 0
      /\ Before("writecheck") = Before("write") + Bit(Wanted("write"))
      /\ Before("read") = Before("writecheck") + Bit(Wanted("writecheck"))
      /\ Before("readcheck") = Before("read") + Bit(Wanted("read"))
      /\ Before("finish") = Before("readcheck") + Bit(Wanted("readcheck"))
  BY BeforeIs DEF Phases, Following
<1>5. CASE p = "write"
  BY <1>2, <1>3, <1>4, <1>5 DEF Phases
<1>6. CASE p = "writecheck"
  BY <1>2, <1>3, <1>4, <1>6 DEF Phases
<1>7. CASE p = "read"
  BY <1>2, <1>3, <1>4, <1>7 DEF Phases
<1>8. CASE p = "readcheck"
  BY <1>2, <1>3, <1>4, <1>8 DEF Phases
<1> QED
  BY <1>5, <1>6, <1>7, <1>8 DEF Phases

\* Whoever waits in a call has made it in its phase.
LEMMA WaitsIn ==
    ASSUME Given, NEW r, Placed(r), Pc(r) \in TestLabels \ Outside
    PROVE  /\ Place(r) >= Start(Phase(r)) + 1
           /\ Pc(r) \in Late /\ Checks => Place(r) >= Start(Phase(r)) + Body(Phase(r)) + 3
<1> DEFINE phase == Phase(r)
           pc == Pc(r)
           place == Place(r)
           start == Start(phase)
           around == Bit(Around(phase))
           random == Bit(test.randomOffset)
           checks == Bit(Checks)
           first == Bit(phase = "write")
           pairs == IF phase = "readcheck" THEN 3 * st[r].pairCnt ELSE 0
<1>1. phase \in Phases
  BY DEF Placed
<1>2. PlaceAt(r, pc, phase, st[r].pairCnt, Keeps(r), place)
  BY PlacesAre
<1>3. /\ start \in Nat /\ Opening(phase) \in Nat /\ Opening(phase) >= 1
      /\ Dealt(phase) \in Nat /\ Body(phase) \in Nat /\ CountEnd(phase) \in Nat /\ Shut(phase) \in Nat
      /\ Dealt(phase) >= 1 /\ Body(phase) >= 1 /\ Shut(phase) >= 1
      /\ CountEnd(phase) = Body(phase) + 2 * checks /\ Shut(phase) = CountEnd(phase) + around
  BY <1>1, StagesAre, StartIs
<1>4. /\ (Around(phase) => around = 1) /\ around \in {0, 1} /\ (Checks => checks = 1)
      /\ (phase = "write" => first = 1) /\ first \in {0, 1}
  BY DEF Bit
<1>5. TestLabels \ Outside = {"gate", "ready", "striped", "opened", "rc1", "rc2", "rc3", "seed", "cntR", "cntB",
                              "xfered", "closed", "size", "times", "delete", "repEnd"}
  BY KindIs DEF Outside
<1>6. /\ pc = "xfered" => Around(phase)
      /\ pc = "closed" => phase = "write"
      /\ pc \in {"rc1", "rc2", "rc3"} => phase = "readcheck" /\ st[r].pairCnt \in Nat
  BY DEF Placed
<1>7. CASE pc \in {"gate", "ready", "striped", "opened", "seed", "cntR", "cntB", "delete"}
  <2>1. /\ pc \in {"gate", "delete"} => place = start + 1
        /\ pc = "ready" => place = start + (IF phase = "readcheck" THEN 2 ELSE 1)
        /\ pc = "striped" => place = start + 2
        /\ pc = "opened" => place = start + Opening(phase)
        /\ pc = "seed" => place = start + (Opening(phase) + 1)
        /\ pc = "cntR" => place = start + (Body(phase) + 1)
        /\ pc = "cntB" => place = start + (Body(phase) + 2)
    BY <1>2 DEF PlaceAt
  <2>2. pc \notin Late
    BY <1>7 DEF Late
  <2> HIDE DEF start, place
  <2>3. place >= start + 1
    BY <1>3, <1>7, <2>1
  <2> QED
    BY <2>2, <2>3 DEF start, place
<1>8. CASE pc \in {"rc1", "rc2", "rc3"}
  <2>1. /\ pc = "rc1" => place = start + (Dealt(phase) + 3 * st[r].pairCnt + 1)
        /\ pc = "rc2" => place = start + (Dealt(phase) + 3 * st[r].pairCnt + 2)
        /\ pc = "rc3" => place = start + (Dealt(phase) + 3 * st[r].pairCnt + 3)
    BY <1>2, <1>6, <1>8 DEF PlaceAt
  <2>2. pc \notin Late
    BY <1>8 DEF Late
  <2> HIDE DEF start, place
  <2>3. place >= start + 1
    BY <1>3, <1>6, <1>8, <2>1
  <2> QED
    BY <2>2, <2>3 DEF start, place
<1>9. CASE pc \in {"xfered", "closed", "size", "times"}
  <2>1. /\ pc = "xfered" => place = start + Shut(phase)
        /\ pc = "closed" => place = start + (Shut(phase) + first)
        /\ pc = "size" => place = start + (Shut(phase) + first + 1)
        /\ pc = "times" => place = start + (Shut(phase) + first + 2)
    BY <1>2 DEF PlaceAt
  <2> HIDE DEF start, place, around, checks, first
  <2>2. place >= start + 1 /\ (Checks => place >= start + Body(phase) + 3)
    BY <1>3, <1>4, <1>6, <1>9, <2>1
  <2> QED
    BY <2>2 DEF start, place
<1>10. CASE pc = "repEnd"
  <2>1. place = start + (1 + Bit(~Keeps(r))) /\ Bit(~Keeps(r)) \in {0, 1}
    BY <1>2, <1>10 DEF PlaceAt, Bit
  <2>2. pc \notin Late
    BY <1>10 DEF Late
  <2> HIDE DEF start, place
  <2>3. place >= start + 1
    BY <1>3, <2>1
  <2> QED
    BY <2>2, <2>3 DEF start, place
<1> QED
  BY <1>5, <1>7, <1>8, <1>9, <1>10

\* Who has come to the count of errors of a phase is in it or past it.
LEMMA AtTheCount ==
    ASSUME Given, Checks, NEW q, Placed(q), NEW p \in Phases \ {"finish"}, Wanted(p),
           Place(q) >= Start(p) + Body(p) + 1
    PROVE  /\ Pc(q) \notin Outside
           /\ \/ Pc(q) \in {"cntR", "cntB"} /\ Phase(q) = p /\ Counted(q) = Before(p)
              \/ /\ Counted(q) >= Before(p) + 1
                 /\ Place(q) - Bit(Pc(q) \in TestLabels) >= Start(p) + Body(p) + 2
<1> DEFINE x == Phase(q)
           pc == Pc(q)
           b == Bit(pc \in TestLabels)
<1>1. x \in Phases /\ (pc \in Inside => x # "finish") /\ (pc \in {"delete", "repEnd"} => x = "finish")
      /\ pc \in Outside \cup Ends \cup Inside
  BY DEF Placed
<1>2. /\ Place(q) \in Nat
      /\ pc \in Outside => Place(q) <= 1
      /\ pc = "phase" => Place(q) = Start(x)
      /\ pc \in Early => Start(x) <= Place(q) /\ Place(q) <= Start(x) + Body(x)
      /\ pc = "cntR" => Place(q) = Start(x) + Body(x) + 1
      /\ pc = "cntB" => Place(q) = Start(x) + Body(x) + 2
      /\ pc \in Late => Place(q) >= Start(x) + Body(x) + 2
      /\ pc \in Inside => Start(x) <= Place(q) /\ Place(q) <= Start(x) + LengthOf(x)
      /\ pc \in {"delete", "repEnd"} => Place(q) > Start("finish")
  BY WhereIs
<1>3. /\ Start(p) \in Nat /\ Start(x) \in Nat /\ Body(p) \in Nat /\ Body(x) \in Nat
      /\ Start(p) >= 1 /\ Body(p) >= 1 /\ Before(p) \in Nat /\ Before(x) \in Nat
      /\ Shut(p) \in Nat /\ Shut(p) >= Body(p) + 2
  <2>1. /\ Start(p) \in Nat /\ Start(x) \in Nat /\ Start(p) >= 1 /\ Before(p) \in Nat /\ Before(x) \in Nat
    BY <1>1, StartIs, BeforeIs
  <2>2. /\ Body(p) \in Nat /\ Body(p) >= 1 /\ Shut(p) \in Nat /\ Shut(p) >= Body(p) + 2
    <3> DEFINE random == Bit(test.randomOffset)
               around == Bit(Around(p))
               checks == Bit(Checks)
    <3>1. /\ Opening(p) \in Nat /\ Opening(p) >= 1 /\ Dealt(p) = Opening(p) + random
          /\ Body(p) = Dealt(p) + (IF p = "readcheck" THEN 3 * XfersPerTask ELSE 0)
          /\ CountEnd(p) = Body(p) + 2 * checks /\ Shut(p) = CountEnd(p) + around
          /\ XfersPerTask \in Nat
      BY StagesAre
    <3>2. random \in {0, 1} /\ around \in {0, 1} /\ checks = 1
      BY DEF Bit
    <3> HIDE DEF random, around, checks
    <3> QED
      BY <3>1, <3>2
  <2>3. Body(x) \in Nat
    BY <1>1, StagesAre
  <2> QED
    BY <2>1, <2>2, <2>3
<1>4. LengthOf(p) \in Nat /\ LengthOf(p) >= Shut(p)
  BY <1>3, LengthIs
<1>5. pc \notin Outside
  BY <1>2, <1>3
<1>6. Counted(q) = Before(x) + Bit(pc \in Late) /\ Bit(pc \in Late) \in {0, 1}
      /\ (pc \in Late => Bit(pc \in Late) = 1) /\ (pc \notin Late => Bit(pc \in Late) = 0)
  BY <1>5, CountedIs DEF Bit
<1>7. b \in {0, 1} /\ (pc \notin TestLabels => b = 0)
  BY DEF Bit
<1>8. pc \in TestLabels => /\ Place(q) >= Start(x) + 1
                           /\ pc \in Late => Place(q) >= Start(x) + Body(x) + 3
  BY <1>5, WaitsIn
<1>9. \/ x = p
      \/ Start(x) >= Start(p) + LengthOf(p) /\ Before(x) >= Before(p) + 1
      \/ x # "finish" /\ Start(x) + LengthOf(x) <= Start(p)
  BY <1>1, PhasesFollow DEF Bit
<1>10. pc \in Early \cup Late \cup {"cntR", "cntB", "phase", "delete", "repEnd"}
       /\ {"cntR", "cntB"} \cap Late = {}
  BY <1>1, <1>5 DEF Outside, Ends, Inside, Early, Late
<1> HIDE DEF x, pc, b
<1>11. CASE x = p
  <2>1. pc \notin Early /\ pc # "phase" /\ pc \notin {"delete", "repEnd"}
    BY <1>1, <1>2, <1>3, <1>11
  <2>2. CASE pc \in {"cntR", "cntB"}
    BY <1>3, <1>6, <1>10, <1>11, <2>2, <1>5 DEF x, pc
  <2>3. CASE pc \in Late
    <3>1. Counted(q) >= Before(p) + 1
      BY <1>3, <1>6, <1>11, <2>3
    <3>2. Place(q) - b >= Start(p) + Body(p) + 2
      BY <1>2, <1>3, <1>7, <1>8, <1>11, <2>3
    <3> QED
      BY <1>5, <3>1, <3>2 DEF b, pc
  <2> QED
    BY <1>10, <2>1, <2>2, <2>3
<1>12. CASE Start(x) >= Start(p) + LengthOf(p) /\ Before(x) >= Before(p) + 1
  <2>1. Counted(q) >= Before(p) + 1
    BY <1>3, <1>6, <1>12
  <2>2. Place(q) >= Start(x)
    BY <1>1, <1>5, <1>2, <1>3 DEF Ends
  <2>3. Place(q) - b >= Start(p) + Body(p) + 2
    BY <1>2, <1>3, <1>4, <1>7, <1>8, <1>12, <2>2
  <2> QED
    BY <1>5, <2>1, <2>3 DEF b, pc
<1>13. CASE x # "finish" /\ Start(x) + LengthOf(x) <= Start(p)
  <2>1. pc \in Inside \/ pc = "phase"
    BY <1>1, <1>5, <1>13 DEF Ends
  <2>2. LengthOf(x) \in Nat
    BY <1>1, <1>13, LengthIs
  <2>3. Place(q) <= Start(p)
    BY <1>2, <1>3, <1>13, <2>1, <2>2
  <2> QED
    BY <1>2, <1>3, <2>3
<1> QED
  BY <1>9, <1>11, <1>12, <1>13

LEMMA SameRepetition ==
    ASSUME IInv, NEW r \in Members, NEW s \in Members, Pc(r) # "repEnd", Place(r) >= 2,
           Len(Log(s)) >= Len(Log(r)) - 1
    PROVE  Rep(s) = Rep(r) /\ Len(Log(s)) - Place(s) = Len(Log(r)) - Place(r)
<1>1. /\ Aligned /\ Rep(r) \in Nat /\ Rep(s) \in Nat /\ Place(r) \in Nat /\ Place(s) \in Nat
      /\ Len(Log(r)) \in Nat /\ Len(Log(s)) \in Nat
  BY MembersKnow
<1>2. Rep(s) # Rep(r) + 1
  BY <1>1 DEF Aligned
<1>3. Rep(r) # Rep(s) + 1
  <2> SUFFICES ASSUME Rep(r) = Rep(s) + 1 PROVE FALSE
    OBVIOUS
  <2>1. Len(Log(r)) - Place(r) = Len(Log(s))
    BY <1>1 DEF Aligned
  <2> QED
    BY <1>1, <2>1
<1>4. Rep(r) <= Rep(s) + 1 /\ Rep(s) <= Rep(r) + 1
  BY <1>1 DEF Aligned
<1>5. Rep(s) = Rep(r)
  BY <1>1, <1>2, <1>3, <1>4
<1> QED
  BY <1>1, <1>5 DEF Aligned

\* A task in the count of errors, and the calls of that count.
LEMMA InTheCount ==
    ASSUME IInv, NEW r \in Members, Pc(r) \in {"cntR", "cntB"}
    PROVE  /\ Given /\ Checks /\ Phase(r) \in Phases \ {"finish"} /\ Wanted(Phase(r))
           /\ Start(Phase(r)) \in Nat /\ Start(Phase(r)) >= 1
           /\ Body(Phase(r)) \in Nat /\ Body(Phase(r)) >= 1 /\ Place(r) >= 2
           /\ Pc(r) = "cntR" => Place(r) = Start(Phase(r)) + Body(Phase(r)) + 1
           /\ Pc(r) = "cntB" => Place(r) = Start(Phase(r)) + Body(Phase(r)) + 2
           /\ Counted(r) = Before(Phase(r)) /\ Before(Phase(r)) \in Nat
           /\ Script(Start(Phase(r)) + (Body(Phase(r)) + 1)) = "Reduce"
           /\ Script(Start(Phase(r)) + (Body(Phase(r)) + 2)) = "Bcast"
<1> DEFINE p == Phase(r)
<1>1. Given /\ Placed(r)
  BY MembersKnow
<1>2. Checks /\ p \in Phases \ {"finish"} /\ Wanted(p)
  BY <1>1 DEF Placed, Inside
<1>3. Start(p) \in Nat /\ Start(p) >= 1 /\ Before(p) \in Nat
  BY <1>1, <1>2, StartIs, BeforeIs
<1>4. Body(p) \in Nat /\ Body(p) >= 1
  <2> DEFINE random == Bit(test.randomOffset)
  <2>1. /\ Opening(p) \in Nat /\ Opening(p) >= 1 /\ Dealt(p) = Opening(p) + random
        /\ Body(p) = Dealt(p) + (IF p = "readcheck" THEN 3 * XfersPerTask ELSE 0)
        /\ XfersPerTask \in Nat
    BY <1>1, <1>2, StagesAre
  <2>2. random \in {0, 1}
    BY DEF Bit
  <2> HIDE DEF random
  <2> QED
    BY <2>1, <2>2
<1>5. /\ Pc(r) = "cntR" => Place(r) = Start(p) + Body(p) + 1
      /\ Pc(r) = "cntB" => Place(r) = Start(p) + Body(p) + 2
  BY <1>1, WhereIs
<1>6. Place(r) >= 2
  BY <1>3, <1>4, <1>5
<1>7. Counted(r) = Before(p)
  BY <1>2, <1>3, CountedIs DEF Outside, Late, Bit
<1>8. /\ Script(Start(p) + (Body(p) + 1)) = "Reduce"
      /\ Script(Start(p) + (Body(p) + 2)) = "Bcast"
  BY <1>1, <1>2, ScriptTable
<1> QED
  BY <1>1, <1>2, <1>3, <1>4, <1>5, <1>6, <1>7, <1>8

\* A call of a task's repetition that it has made.
LEMMA CallMade ==
    ASSUME IInv, NEW s \in Members, Pc(s) \notin Outside, NEW i \in 1 .. Place(s)
    PROVE  Log(s)[Len(Log(s)) - Place(s) + i] = Script(i)
  BY MembersKnow DEF Placed, Outside, Recorded

\* Who shares a count with a task in it, and who is past it.
LEMMA CountsTogether ==
    ASSUME IInv, NEW r \in Members, Pc(r) \in {"cntR", "cntB"}, NEW s \in Members,
           Len(Log(s)) >= Len(Log(r)) - 1, Pc(r) = "cntR" => Len(Log(s)) >= Len(Log(r))
    PROVE  /\ Rep(s) = Rep(r) /\ Pc(s) \notin Outside
           /\ Len(Log(s)) - Place(s) = Len(Log(r)) - Place(r)
           /\ \/ Pc(s) \in {"cntR", "cntB"} /\ Phase(s) = Phase(r) /\ Counted(s) = Counted(r)
              \/ /\ Counted(s) = Counted(r) + 1
                 /\ Place(s) - Bit(Pc(s) \in TestLabels) >= Start(Phase(r)) + Body(Phase(r)) + 2
<1> DEFINE p == Phase(r)
           at == Start(p) + Body(p)
           b == Bit(Pc(s) \in TestLabels)
<1>1. /\ Given /\ Checks /\ p \in Phases \ {"finish"} /\ Wanted(p)
      /\ Start(p) \in Nat /\ Body(p) \in Nat /\ Place(r) >= 2
      /\ Pc(r) = "cntR" => Place(r) = at + 1
      /\ Pc(r) = "cntB" => Place(r) = at + 2
      /\ Counted(r) = Before(p) /\ Before(p) \in Nat
  BY InTheCount
<1>2. /\ Len(Log(s)) \in Nat /\ Len(Log(r)) \in Nat /\ Place(s) \in Nat /\ Place(r) \in Nat
      /\ Placed(s) /\ Placed(r) /\ Agree
  BY MembersKnow
<1>3. Rep(s) = Rep(r) /\ Len(Log(s)) - Place(s) = Len(Log(r)) - Place(r)
  BY <1>1, SameRepetition
<1>4. Place(s) >= Start(p) + Body(p) + 1
  BY <1>1, <1>2, <1>3
<1>5. /\ Pc(s) \notin Outside
      /\ \/ Pc(s) \in {"cntR", "cntB"} /\ Phase(s) = p /\ Counted(s) = Before(p)
         \/ Counted(s) >= Before(p) + 1 /\ Place(s) - b >= at + 2
  BY <1>1, <1>2, <1>4, AtTheCount
<1>6. Counted(s) <= Counted(r) + 1
  BY <1>2, <1>3 DEF Agree
<1>7. Counted(s) \in Int
  BY <1>2, BeforeIs, CountedIs DEF Placed, Bit
<1> HIDE DEF at, b
<1>8. \/ Pc(s) \in {"cntR", "cntB"} /\ Phase(s) = p /\ Counted(s) = Counted(r)
      \/ Counted(s) = Counted(r) + 1 /\ Place(s) - b >= at + 2
  BY <1>1, <1>5, <1>6, <1>7
<1> QED
  BY <1>3, <1>5, <1>8 DEF at, b

\* When the first task adds up, everybody is in the count.
LEMMA AllCount ==
    ASSUME IInv, NEW r \in Members, AddsUp(r), NEW s \in Members
    PROVE  /\ Rep(s) = Rep(r) /\ Counted(s) = Counted(r) /\ Pc(s) \in {"cntR", "cntB"}
           /\ Phase(s) = Phase(r) /\ Len(Log(s)) - Place(s) = Len(Log(r)) - Place(r)
<1> DEFINE p == Phase(r)
           n == Len(Log(r)) + 1
           i == Start(p) + (Body(p) + 2)
<1>1. Went(r) /\ r = 0 /\ Pc(r) = "cntR"
  BY DEF AddsUp
<1>2. /\ Shape /\ Synced /\ Waiting(r) /\ Len(Log(s)) \in Nat /\ Len(Log(r)) \in Nat
      /\ Place(s) \in Nat /\ Place(r) \in Nat
  BY MembersKnow
<1>3. Len(Log(s)) >= Len(Log(r))
  BY <1>1, KindIs, <1>2, LeavesTogether DEF Waits
<1>4. /\ Rep(s) = Rep(r) /\ Pc(s) \notin Outside
      /\ Len(Log(s)) - Place(s) = Len(Log(r)) - Place(r)
      /\ \/ Pc(s) \in {"cntR", "cntB"} /\ Phase(s) = p /\ Counted(s) = Counted(r)
         \/ Place(s) - Bit(Pc(s) \in TestLabels) >= Start(p) + Body(p) + 2
  BY <1>1, <1>2, <1>3, CountsTogether
<1>5. /\ Start(p) \in Nat /\ Body(p) \in Nat /\ Place(r) = Start(p) + Body(p) + 1 /\ Script(i) = "Bcast"
  BY <1>1, InTheCount
<1>6. ~(Place(s) - Bit(Pc(s) \in TestLabels) >= Start(p) + Body(p) + 2)
  <2> SUFFICES ASSUME Place(s) - Bit(Pc(s) \in TestLabels) >= Start(p) + Body(p) + 2 PROVE FALSE
    OBVIOUS
  <2> DEFINE b == Bit(Pc(s) \in TestLabels)
  <2>1. b \in {0, 1}
    BY DEF Bit
  <2>2. Left(s) = Len(Log(s)) - b
    BY DEF Left
  <2>3. i \in 1 .. Place(s) /\ Len(Log(s)) - Place(s) + i = n /\ n \in 1 .. Left(s)
    <3>1. Place(s) - b >= Start(p) + Body(p) + 2 /\ Len(Log(s)) - Place(s) = Len(Log(r)) - Place(r)
      BY <1>4
    <3> DEFINE start == Start(p)
               body == Body(p)
               logs == Len(Log(s))
               logr == Len(Log(r))
    <3>2. /\ start \in Nat /\ body \in Nat /\ logs \in Nat /\ logr \in Nat /\ Place(s) \in Nat
          /\ Place(r) = start + body + 1
      BY <1>2, <1>5
    <3>3. Place(s) - b >= start + body + 2 /\ logs - Place(s) = logr - Place(r) /\ Left(s) = logs - b
      BY <2>2, <3>1
    <3> HIDE DEF start, body, logs, logr, b
    <3>4. start + (body + 2) \in 1 .. Place(s)
      BY <2>1, <3>2, <3>3
    <3>5. logs - Place(s) + (start + (body + 2)) = logr + 1
      BY <2>1, <3>2, <3>3
    <3>6. logr + 1 \in 1 .. Left(s)
      BY <2>1, <3>2, <3>3
    <3> QED
      BY <3>4, <3>5, <3>6 DEF start, body, logs, logr
  <2>4. Log(s)[n] = "Bcast"
    BY <1>4, <1>5, <2>3, CallMade
  <2>5. Waits(s, 0, Log(s)[n])
    BY <2>4 DEF Waits
  <2>6. Len(Log(0)) >= n
    BY <1>1, <1>2, <2>3, <2>5 DEF Synced
  <2> QED
    BY <1>1, <1>2, <2>6
<1> QED
  BY <1>4, <1>6

\* When a task learns the sum, everybody has come to the count.
LEMMA AllHaveCounted ==
    ASSUME IInv, NEW r \in Members, Learns(r)
    PROVE  /\ \A s \in Members : Len(Log(s)) >= Len(Log(r)) - 1
           /\ Len(Log(0)) >= Len(Log(r))
<1> DEFINE p == Phase(r)
           m == Len(Log(r)) - 1
           i == Start(p) + (Body(p) + 1)
<1>1. Went(r) /\ Pc(r) = "cntB"
  BY DEF Learns
<1>2. /\ Shape /\ Synced /\ Waiting(r) /\ 0 \in Members /\ Recorded(r)
      /\ \A q \in Members : Len(Log(q)) \in Nat /\ Place(q) \in Nat
  BY MembersKnow
<1>3. Len(Log(0)) >= Len(Log(r))
  BY <1>1, KindIs, <1>2, LeavesTogether DEF Waits
<1>4. /\ Start(p) \in Nat /\ Body(p) \in Nat /\ Place(r) = Start(p) + Body(p) + 2 /\ Script(i) = "Reduce"
  BY <1>1, InTheCount
<1>5. /\ i \in 1 .. Place(r) /\ Len(Log(r)) - Place(r) + i = m /\ m \in 1 .. Len(Log(r))
  BY <1>2, <1>4 DEF Recorded
<1>6. Log(r)[m] = "Reduce"
  <2>1. Pc(r) \notin Outside
    BY <1>1 DEF Outside
  <2> QED
    BY <1>4, <1>5, <2>1, CallMade
<1>7. m <= Len(Log(0)) /\ m \in 1 .. Left(0)
  BY <1>2, <1>3, <1>5 DEF Left, Bit
<1>8. Log(0)[m] = "Reduce"
  <2>1. TestMatch
    BY MatchIsBoth DEF IInv
  <2> QED
    BY <1>2, <1>5, <1>6, <1>7, <2>1 DEF TestMatch
<1>9. \A s \in Members : Waits(0, s, Log(0)[m])
  BY <1>8 DEF Waits
<1> QED
  BY <1>2, <1>3, <1>7, <1>9 DEF Synced

\* What Agree says of two tasks after a step.
AgreeThen(r, s) ==
    /\ Rep(r)' = Rep(s)' =>
         /\ Counted(s)' <= Counted(r)' + 1
         /\ Counted(s)' = Counted(r)' =>
                /\ st'[s].totalErrorCount = st'[r].totalErrorCount
                /\ st'[s].errorFound = st'[r].errorFound
         /\ Counted(s)' = Counted(r)' + 1 =>
                /\ Pc(r)' \in {"cntR", "cntB"}
                /\ st'[s].totalErrorCount = st'[r].totalErrorCount + 2 * wire'.sum
                /\ st'[s].errorFound = (st'[r].errorFound \/ wire'.sum # 0)
    /\ Rep(r)' = Rep(s)' + 1 => /\ st'[r].totalErrorCount = st'[s].totalErrorCount
                                /\ Counted(r)' = 0 /\ ~st'[r].errorFound

LEMMA AgreesThen ==
    ASSUME Members' = Members, \A q, s \in Members : AgreeThen(q, s)
    PROVE  Agree'
  BY Zenon DEF Agree, AgreeThen

\* The tasks that do not move, and the numbers of all.
LEMMA RestStays ==
    ASSUME IInv, NEW r \in World, Went(r)
    PROVE  /\ Members' = Members /\ test' = test
           /\ \A q \in Members \ {r} :
                  /\ Rep(q)' = Rep(q) /\ Place(q)' = Place(q) /\ Log(q)' = Log(q) /\ Pc(q)' = Pc(q)
                  /\ Phase(q)' = Phase(q) /\ Counted(q)' = Counted(q) /\ Left(q)' = Left(q)
                  /\ Len(Log(q))' = Len(Log(q)) /\ st'[q] = st[q]
                  /\ Placed(q)' /\ Typed(q)' /\ Fresh(q)' /\ Waiting(q)' /\ Recorded(q)' /\ WorldRecorded(q)'
<1>1. Shape /\ Given /\ Members \subseteq World
  BY MembersKnow
<1>2. test' = test /\ Members' = Members
  BY NewIs, Lasting
<1>3. ASSUME NEW q \in Members \ {r}
      PROVE  /\ Rep(q)' = Rep(q) /\ Place(q)' = Place(q) /\ Log(q)' = Log(q) /\ Pc(q)' = Pc(q)
             /\ Phase(q)' = Phase(q) /\ Counted(q)' = Counted(q) /\ Left(q)' = Left(q)
             /\ Len(Log(q))' = Len(Log(q)) /\ st'[q] = st[q]
             /\ Placed(q)' /\ Typed(q)' /\ Fresh(q)' /\ Waiting(q)' /\ Recorded(q)' /\ WorldRecorded(q)'
  BY MembersKnow, <1>1, LogsAre, <1>2, OthersStay DEF Went
<1> QED
  BY <1>2, <1>3

LEMMA CountedNat ==
    ASSUME IInv, NEW q \in Members
    PROVE  Counted(q) \in Nat
  BY MembersKnow, BeforeIs, CountedIs DEF Bit

LEMMA AgreeStays ==
    ASSUME IInv, NEW r \in Members, Moves(r)
    PROVE  Agree'
<1>1. /\ Shape /\ Given /\ Agree /\ wire.sum \in Nat /\ Members \subseteq World
      /\ \A q \in Members : /\ Placed(q) /\ Typed(q) /\ Rep(q) \in Nat /\ Counted(q) \in Nat
                            /\ st[q].totalErrorCount \in Nat /\ st[q].errorFound \in BOOLEAN
  BY MembersKnow, CountedNat DEF Typed
<1>2. Went(r)
  BY StaysInTheEnd DEF Repeats
<1>3. /\ Members' = Members /\ Pc(r)' = NewPc(r) /\ Rep(r)' = st'[r].rep
      /\ \A q \in Members \ {r} : /\ Rep(q)' = Rep(q) /\ Pc(q)' = Pc(q) /\ Counted(q)' = Counted(q)
                                  /\ st'[q] = st[q]
  BY <1>1, <1>2, RestStays, NewIs
<1>4. SUFFICES ASSUME NEW q \in Members, NEW s \in Members PROVE AgreeThen(q, s)
  BY <1>3, AgreesThen
<1>5. /\ Rep(q) = Rep(s) =>
         /\ Counted(s) <= Counted(q) + 1
         /\ Counted(s) = Counted(q) =>
                /\ st[s].totalErrorCount = st[q].totalErrorCount
                /\ st[s].errorFound = st[q].errorFound
         /\ Counted(s) = Counted(q) + 1 =>
                /\ Pc(q) \in {"cntR", "cntB"}
                /\ st[s].totalErrorCount = st[q].totalErrorCount + 2 * wire.sum
                /\ st[s].errorFound = (st[q].errorFound \/ wire.sum # 0)
      /\ Rep(q) = Rep(s) + 1 => /\ st[q].totalErrorCount = st[s].totalErrorCount
                                /\ Counted(q) = 0 /\ ~st[q].errorFound
  BY <1>1 DEF Agree
<1>6. CASE Quiet(r)
  BY <1>1, <1>6, QuietIs, <1>3, <1>5 DEF AgreeThen
<1>7. CASE AddsUp(r)
  <2>1. /\ NewPc(r) = "cntB" /\ st'[r].rep = Rep(r) /\ st'[r].phase = Phase(r) /\ Pc(r) = "cntR"
        /\ st'[r].totalErrorCount = st[r].totalErrorCount
        /\ st'[r].errorFound = st[r].errorFound
    BY <1>7, FixedBut DEF AddsUp
  <2>2. Counted(r)' = Counted(r)
    BY <2>1, <1>2, CountedIs, CountedThen DEF Outside, Late, Bit
  <2>3. \A t \in {q, s} :
            /\ Rep(t)' = Rep(r) /\ Counted(t)' = Counted(r)
            /\ Rep(t) = Rep(r) /\ Counted(t) = Counted(r)
            /\ st'[t].totalErrorCount = st[t].totalErrorCount
            /\ st'[t].errorFound = st[t].errorFound
    BY <1>3, <1>7, <2>1, <2>2, AllCount
  <2>4. Rep(r) \in Nat /\ Counted(r) \in Nat
    BY <1>1
  <2> QED
    BY <1>5, <2>3, <2>4 DEF AgreeThen
<1>8. CASE Learns(r)
  <2>1. /\ NewPc(r) = After(Phase(r)) /\ Pc(r) = "cntB" /\ st'[r].rep = Rep(r) /\ st'[r].phase = Phase(r)
        /\ st'[r].totalErrorCount = st[r].totalErrorCount + wire.sum + wire.sum
        /\ st'[r].errorFound = (st[r].errorFound \/ wire.sum # 0) /\ wire'.sum = wire.sum
    BY <1>8, FixedBut DEF Learns, Unseen
  <2>2. Counted(r)' = Counted(r) + 1
    <3>1. NewPc(r) \in Late /\ NewPc(r) \notin Outside
      BY <2>1 DEF After, Late, Outside
    <3>2. Counted(r) = Before(Phase(r)) /\ Checks
      BY <2>1, InTheCount
    <3>3. Bit(NewPc(r) \in Late) = 1
      BY <3>1 DEF Bit
    <3> QED
      BY <1>2, <2>1, <3>1, <3>2, <3>3, CountedThen
  <2>3. \A t \in Members :
            /\ Rep(t) = Rep(r)
            /\ \/ Pc(t) \in {"cntR", "cntB"} /\ Counted(t) = Counted(r)
               \/ Counted(t) = Counted(r) + 1
    <3> SUFFICES ASSUME NEW t \in Members
                 PROVE  /\ Rep(t) = Rep(r)
                        /\ \/ Pc(t) \in {"cntR", "cntB"} /\ Counted(t) = Counted(r)
                           \/ Counted(t) = Counted(r) + 1
      OBVIOUS
    <3>1. Len(Log(t)) >= Len(Log(r)) - 1
      BY <1>8, AllHaveCounted
    <3> QED
      BY <2>1, <3>1, CountsTogether
  <2>4. \A t \in Members \ {r} :
            /\ Counted(t) = Counted(r) =>
                   /\ st[t].totalErrorCount = st[r].totalErrorCount
                   /\ st[t].errorFound = st[r].errorFound
            /\ Counted(t) = Counted(r) + 1 =>
                   /\ st[t].totalErrorCount = st[r].totalErrorCount + 2 * wire.sum
                   /\ st[t].errorFound = (st[r].errorFound \/ wire.sum # 0)
    BY <1>1, <2>3 DEF Agree
  <2>5. st'[r].totalErrorCount = st[r].totalErrorCount + 2 * wire.sum
    BY <1>1, <2>1
  <2> DEFINE old == st[r].totalErrorCount
             new == st'[r].totalErrorCount
             was == st[r].errorFound
             is == st'[r].errorFound
             some == wire.sum # 0
             c == Counted(r)
  <2>6. /\ \A t \in {q, s} : t = r => Rep(t)' = Rep(r) /\ Counted(t)' = c + 1
        /\ \A t \in {q, s} : t # r => /\ Rep(t)' = Rep(r) /\ Counted(t)' = Counted(t) /\ Pc(t)' = Pc(t)
                                      /\ st'[t].totalErrorCount = st[t].totalErrorCount
                                      /\ st'[t].errorFound = st[t].errorFound
    BY <1>3, <2>1, <2>2, <2>3
  <2>7. CASE q = r /\ s = r
    BY <1>1, <2>6, <2>7 DEF AgreeThen
  <2>8. CASE q # r /\ s # r
    BY <1>5, <2>1, <2>3, <2>6, <2>8, Zenon DEF AgreeThen
  <2>9. CASE q = r /\ s # r
    <3>1. Counted(s) = c \/ Counted(s) = c + 1
      BY <2>3
    <3>2. /\ Counted(s)' <= Counted(q)' + 1 /\ Counted(s)' # Counted(q)' + 1 /\ Rep(q)' # Rep(s)' + 1
          /\ (Counted(s)' = Counted(q)' => Counted(s) = c + 1)
      BY <1>1, <2>6, <2>9, <3>1
    <3>3. Counted(s) = c + 1 =>
              /\ st'[s].totalErrorCount = st'[q].totalErrorCount /\ st'[s].errorFound = st'[q].errorFound
      BY <2>1, <2>4, <2>5, <2>6, <2>9
    <3> QED
      BY <3>2, <3>3, Zenon DEF AgreeThen
  <2>10. CASE q # r /\ s = r
    <3>1. \/ Pc(q) \in {"cntR", "cntB"} /\ Counted(q) = c
          \/ Counted(q) = c + 1
      BY <2>3
    <3>2. /\ Counted(s)' <= Counted(q)' + 1 /\ Rep(q)' # Rep(s)' + 1
          /\ (Counted(s)' = Counted(q)' => Counted(q) = c + 1)
          /\ (Counted(s)' = Counted(q)' + 1 => Counted(q) = c /\ Pc(q)' \in {"cntR", "cntB"})
      BY <1>1, <2>6, <2>10, <3>1
    <3>3. Counted(q) = c + 1 =>
              /\ st'[s].totalErrorCount = st'[q].totalErrorCount /\ st'[s].errorFound = st'[q].errorFound
      BY <2>1, <2>4, <2>5, <2>6, <2>10
    <3>4. Counted(q) = c =>
              /\ st'[s].totalErrorCount = st'[q].totalErrorCount + 2 * wire'.sum
              /\ st'[s].errorFound = (st'[q].errorFound \/ wire'.sum # 0)
      BY <2>1, <2>4, <2>5, <2>6, <2>10
    <3> QED
      BY <3>2, <3>3, <3>4, Zenon DEF AgreeThen
  <2> QED
    BY <2>7, <2>8, <2>9, <2>10
<1>9. CASE Repeats(r)
  <2>1. /\ NewPc(r) = "rep" /\ st'[r].rep = Rep(r) + 1 /\ st'[r].errorFound = FALSE
        /\ st'[r].totalErrorCount = st[r].totalErrorCount /\ wire'.sum = wire.sum
    BY <1>9, FixedBut DEF Repeats, Unseen
  <2>2. Counted(r)' = 0
    BY <1>2, <2>1, CountedThen DEF Outside
  <2>3. \A t \in Members \ {r} :
            \/ Rep(t) = Rep(r) + 1
            \/ Rep(t) = Rep(r) /\ Counted(t) = Counted(r)
    BY <1>9, RepeatsTogether
  <2>4. \A t \in Members \ {r} :
            /\ Rep(t) = Rep(r) + 1 => /\ st[t].totalErrorCount = st[r].totalErrorCount
                                      /\ Counted(t) = 0 /\ ~st[t].errorFound
            /\ Rep(t) = Rep(r) => st[t].totalErrorCount = st[r].totalErrorCount
    BY <1>1, <2>3 DEF Agree
  <2>5. Rep(r)' = Rep(r) + 1 /\ Rep(r) \in Nat
    BY <1>1, <1>3, <2>1
  <2>6. CASE q = r /\ s = r
    BY <2>2, <2>5, <2>6 DEF AgreeThen
  <2>7. CASE q # r /\ s # r
    BY <1>3, <2>7, <1>5, <2>1 DEF AgreeThen
  <2>8. CASE q = r /\ s # r
    <3>1. /\ Rep(s)' = Rep(s) /\ Counted(s)' = Counted(s) /\ st'[s].totalErrorCount = st[s].totalErrorCount
          /\ st'[s].errorFound = st[s].errorFound
      BY <1>3, <2>8
    <3>2. CASE Rep(s) = Rep(r) + 1
      <4>1. /\ Counted(s)' = 0 /\ Counted(q)' = 0 /\ Rep(s)' = Rep(q)' /\ Rep(q)' # Rep(s)' + 1
            /\ st'[s].totalErrorCount = st'[q].totalErrorCount
        BY <2>1, <2>2, <2>4, <2>5, <2>8, <3>1, <3>2
      <4>2. st'[s].errorFound = st'[q].errorFound
        BY <1>1, <2>4, <2>8, <3>2, <2>1, <3>1
      <4> QED
        BY <4>1, <4>2 DEF AgreeThen
    <3>3. CASE Rep(s) = Rep(r)
      BY <2>1, <2>2, <2>4, <2>5, <2>8, <3>1, <3>3 DEF AgreeThen
    <3> QED
      BY <2>3, <2>8, <3>2, <3>3
  <2>9. CASE q # r /\ s = r
    <3>1. /\ Rep(q)' = Rep(q) /\ Counted(q)' = Counted(q) /\ st'[q].totalErrorCount = st[q].totalErrorCount
          /\ st'[q].errorFound = st[q].errorFound
      BY <1>3, <2>9
    <3>2. CASE Rep(q) = Rep(r) + 1
      <4>1. /\ Counted(q)' = 0 /\ Counted(s)' = 0 /\ Rep(q)' = Rep(s)' /\ Rep(q)' # Rep(s)' + 1
            /\ st'[s].totalErrorCount = st'[q].totalErrorCount
        BY <2>1, <2>2, <2>4, <2>5, <2>9, <3>1, <3>2
      <4>2. st'[s].errorFound = st'[q].errorFound
        BY <1>1, <2>4, <2>9, <3>2, <2>1, <3>1
      <4> QED
        BY <4>1, <4>2 DEF AgreeThen
    <3>3. CASE Rep(q) = Rep(r)
      BY <2>5, <2>9, <3>1, <3>3 DEF AgreeThen
    <3> QED
      BY <2>3, <2>9, <3>2, <3>3
  <2> QED
    BY <2>6, <2>7, <2>8, <2>9
<1> QED
  BY <1>6, <1>7, <1>8, <1>9 DEF Moves, Quiet

-----------------------------------------------------------------------------
(* Evidence                                                                  *)

Errors == [s \in Members |-> st[s].errors]
LEMMA AllErrorsAre == AllErrors = SumOn(Errors, Members)
  BY Zenon DEF AllErrors, SumOn, Errors, MapThenSumSet, MapThenFoldSet

\* The sum of the errors shows whether there are any.
LEMMA SumShows ==
    ASSUME Given, \A s \in Members : st[s].errors \in Nat
    PROVE  /\ AllErrors \in Nat
           /\ AllErrors > 0 <=> \E s \in Members : st[s].errors # 0
<1>1. IsFiniteSet(Members) /\ \A s \in Members : Errors[s] = st[s].errors /\ Errors[s] \in Nat
  BY MembersAre DEF Errors
<1>2. \A S \in SUBSET Members : SumOn(Errors, S) \in Nat /\ SumOn(Errors, S) <= SumOn(Errors, Members)
  BY <1>1, SumsGrow
<1>3. AllErrors \in Nat
  BY <1>2, AllErrorsAre
<1>4. ASSUME NEW s \in Members, st[s].errors # 0
      PROVE  AllErrors > 0
  <2>1. SumOn(Errors, Members) = Errors[s] + SumOn(Errors, Members \ {s})
    BY <1>1, SumsAreSums
  <2>2. SumOn(Errors, Members \ {s}) \in Nat
    BY <1>2
  <2> QED
    BY <1>1, <1>4, <2>1, <2>2, AllErrorsAre
<1>5. ASSUME \A s \in Members : st[s].errors = 0
      PROVE  AllErrors = 0
  <2>1. N \in Nat /\ Members = 0 .. N - 1
    BY MembersAre
  <2>2. \A x \in 0 .. N - 1 : Errors[x] = 0
    BY <1>1, <1>5, <2>1
  <2>3. SumOn(Errors, 0 .. N - 1) = N * 0
    BY <2>1, <2>2, SumOfSame
  <2> QED
    BY <2>1, <2>3, AllErrorsAre
<1> QED
  BY <1>3, <1>4, <1>5

\* The number of the call with which s hands over its errors.
CountCall(s) == IF Pc(s) = "cntR" THEN Len(Log(s)) ELSE Len(Log(s)) - 1

LEMMA UncountedIs ==
    ASSUME NEW s
    PROVE  Uncounted(s) <=> /\ st[s].errors # 0
                            /\ \/ Pc(s) \in {"xfer", "rc1", "rc2", "rc3"}
                               \/ Pc(s) \in {"cntR", "cntB"} /\ Left(0) < CountCall(s)
  BY DEF Uncounted, CountCall

\* When the first task is past its own Reduce, having made a call and having left it are
\* the same as far as counts go.
LEMMA RootAway ==
    ASSUME IInv, NEW s \in Members, Pc(s) \in {"cntR", "cntB"}, Pc(0) # "cntR"
    PROVE  Left(0) < CountCall(s) <=> Len(Log(0)) < CountCall(s)
<1> DEFINE n == Len(Log(0))
           b == Bit(Pc(0) \in TestLabels)
           p == Phase(s)
<1>1. /\ 0 \in Members /\ Members \subseteq World
      /\ \A q \in Members : Len(Log(q)) \in Nat /\ Place(q) \in Nat
  BY MembersKnow
<1>2. Left(0) = n - b /\ b \in {0, 1} /\ (Pc(0) \in TestLabels <=> b = 1)
  BY DEF Left, Bit
<1>3. CountCall(s) \in Int
  BY <1>1 DEF CountCall
<1>4. SUFFICES ASSUME n >= CountCall(s) PROVE n - b >= CountCall(s)
  BY <1>1, <1>2, <1>3
<1>5. n >= Len(Log(s)) - 1 /\ (Pc(s) = "cntR" => n >= Len(Log(s)))
  BY <1>1, <1>4 DEF CountCall
<1>6. /\ n - Place(0) = Len(Log(s)) - Place(s)
      /\ \/ Pc(0) = "cntB" /\ Phase(0) = p
         \/ Place(0) - b >= Start(p) + Body(p) + 2
  BY <1>1, <1>5, CountsTogether
<1>7. /\ Start(p) \in Nat /\ Body(p) \in Nat
      /\ Pc(s) = "cntR" => Place(s) = Start(p) + Body(p) + 1
      /\ Pc(s) = "cntB" => Place(s) = Start(p) + Body(p) + 2
  BY InTheCount
<1>8. CountCall(s) = Start(p) + Body(p) + 1 + (n - Place(0))
  BY <1>1, <1>6, <1>7 DEF CountCall
<1>9. CASE Place(0) - b >= Start(p) + Body(p) + 2
  <2> HIDE DEF n, b
  <2> QED
    BY <1>1, <1>2, <1>3, <1>7, <1>8, <1>9 DEF n
<1>10. CASE Pc(0) = "cntB" /\ Phase(0) = p
  <2>1. Place(0) = Start(p) + Body(p) + 2
    BY <1>1, <1>10, InTheCount
  <2> HIDE DEF n, b
  <2> QED
    BY <1>1, <1>2, <1>3, <1>7, <1>8, <2>1, SMTT(30) DEF n
<1> QED
  BY <1>6, <1>9, <1>10

\* What Uncounted says of a task after a step.
LEMMA UncountedThen ==
    ASSUME NEW s
    PROVE  Uncounted(s)' <=>
               /\ st'[s].errors # 0
               /\ \/ Pc(s)' \in {"xfer", "rc1", "rc2", "rc3"}
                  \/ Pc(s)' = "cntR" /\ Left(0)' < Len(Log(s))'
                  \/ Pc(s)' = "cntB" /\ Left(0)' < Len(Log(s))' - 1
  BY DEF Uncounted

\* Whose errors wait to be counted changes only for the task that moves, as long as the
\* first task does not add up.
LEMMA OthersCounted ==
    ASSUME IInv, NEW r \in Members, Went(r), Pc(0) = "cntR" => r # 0, NEW s \in Members \ {r}
    PROVE  Uncounted(s)' <=> Uncounted(s)
<1>1. /\ Shape /\ 0 \in Members /\ Members \subseteq World /\ Waiting(r)
      /\ \A q \in Members : Len(Log(q)) \in Nat
  BY MembersKnow
<1>2. Pc(s)' = Pc(s) /\ st'[s] = st[s] /\ Len(Log(s))' = Len(Log(s))
  BY <1>1, RestStays
<1>3. CASE r # 0
  <2>1. Left(0)' = Left(0)
    BY <1>1, <1>3, RestStays
  <2> QED
    BY <1>2, <2>1, UncountedThen DEF Uncounted
<1>4. CASE r = 0
  <2>1. Left(0)' = Len(Log(0)) /\ Pc(0) # "cntR"
    BY <1>1, <1>4, LogsGrow
  <2>2. Pc(s) \in {"cntR", "cntB"} => (Left(0) < CountCall(s) <=> Len(Log(0)) < CountCall(s))
    BY <2>1, RootAway
  <2>3. Uncounted(s)' <=> /\ st[s].errors # 0
                          /\ \/ Pc(s) \in {"xfer", "rc1", "rc2", "rc3"}
                             \/ Pc(s) \in {"cntR", "cntB"} /\ Len(Log(0)) < CountCall(s)
    BY <1>2, <2>1, UncountedThen DEF CountCall
  <2> QED
    BY <2>2, <2>3, UncountedIs
<1> QED
  BY <1>3, <1>4

\* A task that goes to hand over its errors finds the first task still before that call.
LEMMA RootIsNotPast ==
    ASSUME IInv, NEW r \in Members, Moves(r), NewPc(r) = "cntR"
    PROVE  Left(0)' < Len(Log(r))'
<1>1. Went(r)
  BY StaysInTheEnd DEF Repeats
<1>2. /\ Shape /\ 0 \in Members /\ Members \subseteq World /\ Waiting(r) /\ Synced
      /\ \A q \in Members : Len(Log(q)) \in Nat
  BY MembersKnow
<1> DEFINE m == Len(Log(r)) + 1
<1>3. /\ Len(Log(r))' = m /\ Log(r)'[m] = "Reduce" /\ Left(r)' = Len(Log(r))
  BY <1>1, <1>2, LogsGrow, KindIs
<1>4. CASE r = 0
  BY <1>2, <1>3, <1>4
<1>5. CASE r # 0
  <2>1. Left(0)' = Left(0) /\ Log(0)' = Log(0) /\ Members' = Members
    BY <1>1, <1>2, <1>5, RestStays
  <2>2. Left(0) = Len(Log(0)) - Bit(Pc(0) \in TestLabels) /\ Bit(Pc(0) \in TestLabels) \in {0, 1}
    BY DEF Left, Bit
  <2>3. SUFFICES ASSUME Left(0) >= m PROVE FALSE
    BY <1>2, <1>3, <2>1, <2>2
  <2>4. m \in 1 .. Left(0) /\ m <= Len(Log(0)) /\ m \in 1 .. Len(Log(0))
    BY <1>2, <2>2, <2>3
  <2>5. Log(0)[m] = "Reduce"
    <3>1. TestMatch'
      BY TestMatchStays
    <3>2. \A q, s \in Members : \A n \in 1 .. Len(Log(q))' :
              n <= Len(Log(s))' => Log(q)'[n] = Log(s)'[n]
      BY <2>1, <3>1 DEF TestMatch
    <3>3. m \in 1 .. Len(Log(r))' /\ m <= Len(Log(0))'
      BY <1>2, <1>3, <2>1, <2>4
    <3>4. Log(r)'[m] = Log(0)'[m]
      BY <1>2, <3>2, <3>3
    <3> QED
      BY <1>3, <2>1, <3>4
  <2>6. Waits(0, r, Log(0)[m])
    BY <2>5 DEF Waits
  <2>7. Len(Log(r)) >= m
    BY <1>2, <2>4, <2>6 DEF Synced
  <2> QED
    BY <1>2, <2>7
<1> QED
  BY <1>4, <1>5

Busy == {"xfer", "rc1", "rc2", "rc3", "cntR", "cntB"}

LEMMA MoverCounted ==
    ASSUME IInv, NEW r \in Members, Quiet(r), found' = found
    PROVE  /\ Uncounted(r)' <=> Uncounted(r)
           /\ NewPc(r) = "cntB" => r # 0
<1>1. /\ Shape /\ Given /\ 0 \in Members /\ Members \subseteq World /\ Waiting(r) /\ Placed(r) /\ Typed(r)
      /\ Fresh(r) /\ Moves(r) /\ Len(Log(r)) \in Nat
  BY MembersKnow DEF Quiet, Moves
<1>2. Went(r)
  BY DEF Quiet, GoesOn, Turns, Opens, Transfers
<1>3. Pc(r)' = NewPc(r)
  BY <1>2, NewIs
<1> DEFINE pc == Pc(r)
           new == NewPc(r)
           X == {"xfer", "rc1", "rc2", "rc3"}
<1>4. ASSUME pc \in X, new \in X, st'[r].errors = st[r].errors
      PROVE  (Uncounted(r)' <=> Uncounted(r)) /\ new # "cntB"
  BY <1>3, <1>4, UncountedThen DEF Uncounted
<1>5. ASSUME pc \notin Busy, new \notin Busy
      PROVE  (Uncounted(r)' <=> Uncounted(r)) /\ new # "cntB"
  BY <1>3, <1>5, UncountedThen DEF Uncounted, Busy
<1>6. ASSUME pc \notin Busy, st'[r].errors = 0
      PROVE  Uncounted(r)' <=> Uncounted(r)
  BY <1>3, <1>6, UncountedThen DEF Uncounted, Busy
<1>7. CASE GoesOn(r)
  <2>0. st'[r].errors = st[r].errors
    BY <1>7, FixedIs DEF GoesOn
  <2>1. CASE BeginOn(r) \/ EnterOn(r) \/ GateOn(r) \/ ReadyOn(r) \/ CloseOn(r) \/ FinishOn(r)
    <3>1. /\ pc \in {"rep", "phase", "gate", "ready", "close"}
          /\ new \in {"stamp", "commFree", "ready", "hist", "gate", "open", "striped", "closed", "stat",
                      "repEnd", "delete"}
      BY <2>1 DEF BeginOn, EnterOn, GateOn, ReadyOn, CloseOn, FinishOn
    <3>2. pc \notin Busy /\ new \notin Busy
      BY <3>1 DEF Busy
    <3> QED
      BY <1>5, <3>2
  <2>2. CASE StripedOn(r) \/ OpenedOn(r)
    <3>1. /\ pc \in {"striped", "opened"} /\ new \in {"opened", "deal", "xfer", "open"}
          /\ new \in {"opened", "deal", "xfer"} => pc = "opened" \/ r = 0
      BY <2>2 DEF StripedOn, OpenedOn, First
    <3>2. CASE new = "open"
      BY <1>5, <3>1, <3>2 DEF Busy
    <3>3. CASE new # "open"
      BY <1>1, <3>1, <3>3, <1>6, <2>0 DEF Fresh, Busy
    <3> QED
      BY <3>2, <3>3
  <2>3. CASE RereadOn(r)
    BY <1>4, <2>0, <2>3 DEF RereadOn
  <2>4. CASE LoopOn(r)
    <3>1. pc = "xfer" /\ (Checks => new = "cntR") /\ (~Checks => new \in {"xfered", "close"})
      BY <2>4 DEF LoopOn, After
    <3>2. CASE Checks
      BY <1>1, <1>3, <2>0, <3>1, <3>2, RootIsNotPast, UncountedThen DEF Uncounted
    <3>3. CASE ~Checks
      BY <1>1, <3>1, <3>3, <2>0, UncountedThen DEF Typed, Uncounted
    <3> QED
      BY <3>2, <3>3
  <2>5. CASE ReduceOn(r)
    <3>1. pc = "cntR" /\ new = "cntB" /\ r # 0
      BY <2>5 DEF ReduceOn
    <3>2. Len(Log(r))' = Len(Log(r)) + 1
      BY <1>1, <1>2, <3>1, LogsGrow, KindIs
    <3>3. Left(0)' = Left(0)
      BY <1>1, <1>2, <3>1, RestStays
    <3>4. Len(Log(r))' - 1 = Len(Log(r))
      BY <1>1, <3>2
    <3> QED
      BY <1>3, <2>0, <3>1, <3>3, <3>4, UncountedThen DEF Uncounted
  <2>6. CASE PlainOn(r)
    <3>1. CASE pc \in {"rc1", "rc2"}
      BY <1>4, <2>0, <2>6, <3>1, PlainIs
    <3>2. CASE pc = "seed"
      BY <1>1, <2>6, <3>2, PlainIs, <1>6, <2>0 DEF Fresh, Busy
    <3>3. CASE pc \notin {"rc1", "rc2", "seed"}
      BY <2>6, <3>3, PlainIs, <1>5 DEF Busy
    <3> QED
      BY <3>1, <3>2, <3>3
  <2> QED
    BY <1>7, <2>1, <2>2, <2>3, <2>4, <2>5, <2>6 DEF GoesOn, Onto
<1>8. CASE Turns(r)
  BY <1>8, <1>5 DEF Turns, Busy
<1>9. CASE Opens(r)
  BY <1>9, <1>6 DEF Opens, First, Busy
<1>10. CASE Transfers(r)
  <2>1. pc \in X /\ new = "xfer"
    BY <1>10 DEF Transfers
  <2>2. found \in Nat
    BY DEF IInv, Evidence
  <2>3. st'[r].errors = st[r].errors
    BY <1>10, <2>2 DEF Transfers
  <2> QED
    BY <1>4, <2>1, <2>3
<1> QED
  BY <1>7, <1>8, <1>9, <1>10 DEF Quiet

LEMMA EvidenceThen ==
    ASSUME Members' = Members, found' \in Nat, wire'.sum \in Nat,
           found' > 0 <=> RootTotal' > 0 \/ \E s \in Members : Uncounted(s)'
    PROVE  Evidence'
  BY Zenon DEF Evidence

LEMMA RootTotalThen ==
    RootTotal' = st'[0].totalErrorCount + (IF Pc(0)' = "cntB" THEN 2 * wire'.sum ELSE 0)
  BY DEF RootTotal

\* The first task adds up the errors of all that are not counted yet.
LEMMA AddsAll ==
    ASSUME IInv, NEW r \in Members, AddsUp(r), NEW s \in Members
    PROVE  /\ Uncounted(s) <=> st[s].errors # 0
           /\ ~Uncounted(s)'
<1>1. /\ Shape /\ 0 \in Members /\ Members \subseteq World /\ Waiting(r)
      /\ \A q \in Members : Len(Log(q)) \in Nat /\ Place(q) \in Nat
  BY MembersKnow
<1>2. Went(r) /\ r = 0 /\ Pc(0) = "cntR" /\ NewPc(0) = "cntB"
  BY DEF AddsUp
<1>3. Pc(s) \in {"cntR", "cntB"} /\ Phase(s) = Phase(0) /\ Len(Log(s)) - Place(s) = Len(Log(0)) - Place(0)
  BY <1>2, AllCount
<1> DEFINE p == Phase(0)
<1>4. /\ Start(p) \in Nat /\ Body(p) \in Nat
      /\ Place(0) = Start(p) + Body(p) + 1
      /\ Pc(s) = "cntR" => Place(s) = Start(p) + Body(p) + 1
      /\ Pc(s) = "cntB" => Place(s) = Start(p) + Body(p) + 2
  BY <1>1, <1>2, <1>3, InTheCount
<1>5. CountCall(s) = Len(Log(0))
  BY <1>1, <1>3, <1>4 DEF CountCall
<1>6. Left(0) = Len(Log(0)) - 1
  BY <1>2, KindIs DEF Left, Bit
<1>7. Left(0)' = Len(Log(0)) /\ Len(Log(0))' = Len(Log(0)) + 1 /\ Pc(0)' = "cntB"
  BY <1>1, <1>2, LogsGrow, KindIs, NewIs
<1>8. Uncounted(s) <=> st[s].errors # 0
  BY <1>1, <1>3, <1>5, <1>6, UncountedIs
<1>9. CASE s = 0
  BY <1>1, <1>7, <1>8, <1>9, UncountedThen
<1>10. CASE s # 0
  <2>1. Pc(s)' = Pc(s) /\ Len(Log(s))' = Len(Log(s))
    BY <1>1, <1>2, <1>10, RestStays
  <2>2. /\ Pc(s) = "cntR" => ~(Left(0)' < Len(Log(s)))
        /\ Pc(s) = "cntB" => ~(Left(0)' < Len(Log(s)) - 1)
    BY <1>1, <1>5, <1>7 DEF CountCall
  <2> QED
    BY <1>3, <1>8, <2>1, <2>2, UncountedThen
<1> QED
  BY <1>8, <1>9, <1>10

LEMMA EvidenceStays ==
    ASSUME IInv, NEW r \in Members, Moves(r)
    PROVE  Evidence'
<1>1. /\ Shape /\ Given /\ 0 \in Members /\ Members \subseteq World /\ Waiting(r)
      /\ \A q \in Members : /\ Len(Log(q)) \in Nat /\ st[q].errors \in Nat /\ st[q].totalErrorCount \in Nat
                            /\ Placed(q)
  BY MembersKnow DEF Typed
<1>2. Went(r)
  BY StaysInTheEnd DEF Repeats
<1>3. /\ found \in Nat /\ wire.sum \in Nat
      /\ found > 0 <=> RootTotal > 0 \/ \E s \in Members : Uncounted(s)
  BY DEF IInv, Evidence
<1>4. /\ Members' = Members /\ Pc(r)' = NewPc(r)
      /\ \A q \in Members \ {r} : Pc(q)' = Pc(q) /\ st'[q] = st[q]
  BY <1>1, <1>2, RestStays, NewIs
<1>5. ASSUME r # 0, wire'.sum = wire.sum
      PROVE  RootTotal' = RootTotal
  BY <1>1, <1>4, <1>5, RootTotalThen DEF RootTotal
<1>6. ASSUME Pc(0) = "cntR" => r # 0, found' = found, wire'.sum = wire.sum, RootTotal' = RootTotal,
             Uncounted(r)' <=> Uncounted(r)
      PROVE  Evidence'
  BY <1>2, <1>6, OthersCounted, <1>3, <1>4, EvidenceThen
<1>7. CASE Quiet(r) /\ found' = found
  <2>1. /\ Uncounted(r)' <=> Uncounted(r)
        /\ NewPc(r) = "cntB" => r # 0
    BY <1>7, MoverCounted
  <2>2. /\ Pc(r) \in {"cntR", "cntB"} => r # 0
        /\ st'[r].totalErrorCount = st[r].totalErrorCount /\ wire'.sum = wire.sum
    BY <1>1, <1>7, QuietIs
  <2>3. RootTotal' = RootTotal
    <3>1. CASE r = 0
      BY <1>4, <2>1, <2>2, <3>1, RootTotalThen DEF RootTotal
    <3> QED
      BY <1>5, <2>2, <3>1
  <2> QED
    BY <1>6, <1>7, <2>1, <2>2, <2>3
<1>8. CASE Transfers(r) /\ found' # found
  <2>1. found' = found + 1 /\ st'[r].errors = st[r].errors + 1 /\ NewPc(r) = "xfer" /\ wire'.sum = wire.sum
    BY <1>8 DEF Transfers
  <2>2. st'[r].errors # 0
    BY <1>1, <2>1
  <2>3. Uncounted(r)'
    BY <1>4, <2>1, <2>2, UncountedThen
  <2>4. found' \in Nat /\ found' > 0
    BY <1>3, <2>1
  <2> QED
    BY <1>3, <1>4, <2>1, <2>3, <2>4, EvidenceThen
<1>9. CASE AddsUp(r)
  <2>1. /\ r = 0 /\ Pc(0) = "cntR" /\ NewPc(0) = "cntB" /\ found' = found /\ wire'.sum = AllErrors
        /\ st'[0].totalErrorCount = st[0].totalErrorCount
    BY <1>9, FixedBut DEF AddsUp
  <2>2. AllErrors \in Nat /\ (AllErrors > 0 <=> \E s \in Members : st[s].errors # 0)
    BY <1>1, SumShows
  <2>3. RootTotal = st[0].totalErrorCount + 0 /\ RootTotal' = st[0].totalErrorCount + 2 * AllErrors
    BY <1>4, <2>1, RootTotalThen DEF RootTotal
  <2>4. \A s \in Members : (Uncounted(s) <=> st[s].errors # 0) /\ ~Uncounted(s)'
    BY <1>9, AddsAll
  <2>5. RootTotal' > 0 <=> RootTotal > 0 \/ AllErrors > 0
    BY <1>1, <2>2, <2>3
  <2> QED
    BY <1>3, <1>4, <2>1, <2>2, <2>4, <2>5, EvidenceThen
<1>10. CASE Learns(r)
  <2>1. /\ NewPc(r) = After(Phase(r)) /\ Pc(r) = "cntB" /\ found' = found /\ wire'.sum = wire.sum
        /\ st'[r].totalErrorCount = st[r].totalErrorCount + wire.sum + wire.sum
    BY <1>10 DEF Learns, Unseen
  <2>2. NewPc(r) \in {"xfered", "close"}
    BY <2>1 DEF After
  <2>3. ~Uncounted(r)'
    BY <1>4, <2>2, UncountedThen
  <2>4. ~Uncounted(r)
    <3>1. Len(Log(0)) >= Len(Log(r))
      BY <1>10, AllHaveCounted
    <3>2. Left(0) = Len(Log(0)) - Bit(Pc(0) \in TestLabels) /\ Bit(Pc(0) \in TestLabels) \in {0, 1}
      BY DEF Left, Bit
    <3>3. ~(Left(0) < Len(Log(r)) - 1)
      BY <1>1, <3>1, <3>2
    <3> QED
      BY <2>1, <3>3 DEF Uncounted
  <2>5. RootTotal' = RootTotal
    <3>1. CASE r = 0
      BY <1>1, <1>4, <2>1, <2>2, <3>1, RootTotalThen, <1>3 DEF RootTotal
    <3> QED
      BY <1>5, <2>1, <3>1
  <2> QED
    BY <1>6, <2>1, <2>3, <2>4, <2>5
<1>11. CASE Repeats(r)
  <2>1. /\ Pc(r) = "repEnd" /\ NewPc(r) = "rep" /\ found' = found /\ wire'.sum = wire.sum
        /\ st'[r].totalErrorCount = st[r].totalErrorCount
    BY <1>11, FixedBut DEF Repeats, Unseen
  <2>2. ~Uncounted(r) /\ ~Uncounted(r)'
    BY <1>4, <2>1, UncountedThen DEF Uncounted
  <2>3. RootTotal' = RootTotal
    <3>1. CASE r = 0
      BY <1>4, <2>1, <3>1, RootTotalThen DEF RootTotal
    <3> QED
      BY <1>5, <2>1, <3>1
  <2> QED
    BY <1>6, <2>1, <2>2, <2>3
<1>12. Quiet(r) /\ found' # found => Transfers(r)
  BY DEF Quiet, GoesOn, Turns, Opens, Unseen
<1> QED
  BY <1>7, <1>8, <1>9, <1>10, <1>11, <1>12 DEF Moves, Quiet

-----------------------------------------------------------------------------
(* The invariant is inductive                                                *)

LEMMA ShapeStays ==
    ASSUME Shape, NEW r \in World, Went(r)
    PROVE  Shape'
<1>1. test' = test /\ Given' = Given
  BY NewIs, Lasting
<1>2. calls' \in [{"world", "test"} -> [World -> Seq(Kinds)]]
  BY LogsAre
<1>3. DOMAIN st' = World /\ (\A q \in World : DOMAIN st'[q] = Fields) /\ DOMAIN wire' = {"stamp", "sum", "seed"}
  BY DEF Went, Shape
<1> QED
  BY <1>1, <1>2, <1>3 DEF Shape

LEMMA MoverStays ==
    ASSUME IInv, NEW r \in Members, Moves(r)
    PROVE  Placed(r)' /\ Typed(r)' /\ Fresh(r)' /\ Waiting(r)' /\ Recorded(r)' /\ WorldRecorded(r)'
<1>1. /\ Shape /\ Given /\ Placed(r) /\ Typed(r) /\ Fresh(r) /\ Waiting(r) /\ wire.sum \in Nat
      /\ Members \subseteq World
  BY MembersKnow
<1>2. Went(r)
  BY StaysInTheEnd DEF Repeats
<1>3. Fresh(r)' /\ Waiting(r)' /\ WorldRecorded(r)'
  BY <1>1, <1>2, FreshStays, LogsGrow, WorldRecordedStays
<1>4. CASE Repeats(r)
  <2>1. Placed(r)' /\ Typed(r)' /\ Place(r)' = 0
    BY <1>1, <1>4, RepeatsSteps
  <2>2. Len(Log(r))' \in Nat
    BY <1>1, <1>2, LogsGrow
  <2>3. Recorded(r)'
    BY <2>1, <2>2 DEF Recorded
  <2> QED
    BY <1>3, <2>1, <2>3
<1>5. CASE ~Repeats(r)
  BY <1>1, <1>5, MovesSteps, <1>2, RecordedStays, <1>3
<1> QED
  BY <1>4, <1>5

\* The tasks that are not in the test only wait for its end.
LEMMA BystandersStay ==
    ASSUME IInv, NEW r \in World, Went(r), NEW q \in (World \ Members) \ {r}
    PROVE  Bystander(q)'
  BY LogsAre DEF IInv, Went, Bystander, Ended, Pc

\* What is said of the members alone holds as long as they stay where they are.
LEMMA MembersRest ==
    ASSUME Aligned, Agree, TestMatch, Members' = Members, wire'.sum = wire.sum,
           \A q \in Members :
               /\ Rep(q)' = Rep(q) /\ Place(q)' = Place(q) /\ Log(q)' = Log(q) /\ Pc(q)' = Pc(q)
               /\ Counted(q)' = Counted(q) /\ st'[q] = st[q]
    PROVE  Aligned' /\ Agree' /\ TestMatch'
<1>1. Aligned'
  <2>1. SUFFICES ASSUME NEW q \in Members, NEW s \in Members
                 PROVE  /\ Rep(q)' = Rep(s)' => Len(Log(q)') - Place(q)' = Len(Log(s)') - Place(s)'
                        /\ Rep(q)' <= Rep(s)' + 1
                        /\ Rep(q)' = Rep(s)' + 1 =>
                               Pc(s)' = "repEnd" /\ Len(Log(q)') - Place(q)' = Len(Log(s)')
    BY Zenon DEF Aligned
  <2>2. /\ Rep(q) = Rep(s) => Len(Log(q)) - Place(q) = Len(Log(s)) - Place(s)
        /\ Rep(q) <= Rep(s) + 1
        /\ Rep(q) = Rep(s) + 1 => Pc(s) = "repEnd" /\ Len(Log(q)) - Place(q) = Len(Log(s))
    BY Zenon DEF Aligned
  <2> QED
    BY <2>2
<1>2. Agree'
  <2>1. SUFFICES ASSUME NEW q \in Members, NEW s \in Members PROVE AgreeThen(q, s)
    BY AgreesThen
  <2>2. /\ Rep(q) = Rep(s) =>
           /\ Counted(s) <= Counted(q) + 1
           /\ Counted(s) = Counted(q) =>
                  /\ st[s].totalErrorCount = st[q].totalErrorCount
                  /\ st[s].errorFound = st[q].errorFound
           /\ Counted(s) = Counted(q) + 1 =>
                  /\ Pc(q) \in {"cntR", "cntB"}
                  /\ st[s].totalErrorCount = st[q].totalErrorCount + 2 * wire.sum
                  /\ st[s].errorFound = (st[q].errorFound \/ wire.sum # 0)
        /\ Rep(q) = Rep(s) + 1 => /\ st[q].totalErrorCount = st[s].totalErrorCount
                                  /\ Counted(q) = 0 /\ ~st[q].errorFound
    BY Zenon DEF Agree
  <2> QED
    BY <2>2, Zenon DEF AgreeThen
<1>3. TestMatch'
  <2>1. SUFFICES ASSUME NEW q \in Members, NEW s \in Members, NEW n \in 1 .. Len(Log(q)')
                 PROVE  n <= Len(Log(s)') => Log(q)'[n] = Log(s)'[n]
    BY Zenon DEF TestMatch
  <2>2. n \in 1 .. Len(Log(q)) => (n <= Len(Log(s)) => Log(q)[n] = Log(s)[n])
    BY Zenon DEF TestMatch
  <2> QED
    BY <2>2
<1> QED
  BY <1>1, <1>2, <1>3

LEMMA InvThen ==
    ASSUME Shape', Members' = Members, World' = World,
           \A q \in Members : /\ Placed(q)' /\ Typed(q)' /\ Fresh(q)' /\ Waiting(q)'
                              /\ Recorded(q)' /\ WorldRecorded(q)',
           \A q \in World \ Members : Bystander(q)',
           Aligned', Synced', TestMatch', Agree', Evidence', AllEnd'
    PROVE  IInv'
<1>1. WorldKnown'
  BY Zenon DEF WorldKnown
<1>2. WorldMatch'
  BY <1>1, NewWorldMatches
<1>3. CollectivesMatch'
  BY <1>2, MatchIsBoth, PTL
<1> QED
  BY <1>3, Zenon DEF IInv

LEMMA MembersMove ==
    ASSUME IInv, NEW r \in Members, Moves(r)
    PROVE  IInv'
<1>1. Shape /\ Members \subseteq World
  BY MembersKnow
<1>2. Went(r)
  BY StaysInTheEnd DEF Repeats
<1>3. Shape' /\ Members' = Members /\ World' = World
  BY <1>1, <1>2, ShapeStays, RestStays DEF World
<1>4. \A q \in Members : /\ Placed(q)' /\ Typed(q)' /\ Fresh(q)' /\ Waiting(q)'
                         /\ Recorded(q)' /\ WorldRecorded(q)'
  BY <1>1, <1>2, RestStays, MoverStays
<1>5. \A q \in World \ Members : Bystander(q)'
  BY <1>1, <1>2, BystandersStay
<1>6. Waiting(r) /\ Synced
  BY MembersKnow
<1>7. Aligned' /\ Synced' /\ TestMatch' /\ Agree' /\ Evidence' /\ AllEnd'
  BY <1>1, <1>2, <1>6, AlignedStays, SyncedStays, TestMatchStays, AgreeStays, EvidenceStays, AllEndStays
<1> QED
  BY <1>3, <1>4, <1>5, <1>7, InvThen

LEMMA OthersMove ==
    ASSUME IInv, NEW r \in World \ Members, Moves(r)
    PROVE  IInv'
<1>1. Shape /\ Bystander(r) /\ 0 \in Members /\ Aligned /\ Synced /\ Agree /\ Evidence
  BY MembersKnow DEF IInv
<1>2. GoesOn(r) /\ Pc(r) = "world" /\ NewPc(r) = "done" /\ Went(r)
  BY <1>1, BystanderMoves DEF Bystander, GoesOn
<1>3. Shape' /\ Members' = Members /\ World' = World
  BY <1>1, <1>2, ShapeStays, RestStays DEF World
<1>4. \A q \in Members :
          /\ Rep(q)' = Rep(q) /\ Place(q)' = Place(q) /\ Log(q)' = Log(q) /\ Pc(q)' = Pc(q)
          /\ Counted(q)' = Counted(q) /\ Left(q)' = Left(q) /\ Len(Log(q))' = Len(Log(q)) /\ st'[q] = st[q]
          /\ Placed(q)' /\ Typed(q)' /\ Fresh(q)' /\ Waiting(q)' /\ Recorded(q)' /\ WorldRecorded(q)'
  BY <1>2, RestStays
<1>5. Bystander(r)'
  BY <1>1, <1>2, LogsAre, KindIs, NewIs DEF Bystander, Ended
<1>6. \A q \in World \ Members : Bystander(q)'
  BY <1>2, <1>5, BystandersStay
<1>7. wire'.sum = wire.sum /\ found' = found
  BY <1>2 DEF GoesOn, Unseen
<1>8. TestMatch
  BY MatchIsBoth DEF IInv
<1>9. Synced'
  BY <1>1, <1>3, <1>4, Zenon DEF Synced
<1>10. Aligned' /\ Agree' /\ TestMatch'
  BY <1>1, <1>3, <1>4, <1>7, <1>8, MembersRest
<1>11. Evidence'
  <2>1. \A s \in Members : Uncounted(s)' <=> Uncounted(s)
    BY <1>1, <1>4, Zenon DEF Uncounted
  <2>2. RootTotal' = RootTotal
    BY <1>1, <1>4, <1>7, RootTotalThen, Zenon DEF RootTotal
  <2> QED
    BY <1>1, <1>3, <1>7, <2>1, <2>2, EvidenceThen DEF Evidence
<1>12. AllEnd'
  BY AllEndStays
<1> QED
  BY <1>3, <1>4, <1>6, <1>9, <1>10, <1>11, <1>12, InvThen

\* A step that touches none of what the invariant is about.
LEMMA InvRests ==
    ASSUME IInv, Stops
    PROVE  IInv'
<1>1. test' = test /\ st' = st /\ calls' = calls /\ wire' = wire /\ found' = found
  BY DEF Stops
<1>2. Shape' /\ Members' = Members /\ World' = World
  BY <1>1, Lasting DEF Shape, World, IInv
<1>3. \A q : Log(q)' = Log(q) /\ WorldLog(q)' = WorldLog(q) /\ Pc(q)' = Pc(q)
  BY <1>1 DEF Log, WorldLog, Pc
<1>4. \A q \in Members :
          /\ Rep(q)' = Rep(q) /\ Place(q)' = Place(q) /\ Counted(q)' = Counted(q) /\ Left(q)' = Left(q)
          /\ Placed(q)' /\ Typed(q)' /\ Fresh(q)' /\ Waiting(q)' /\ Recorded(q)' /\ WorldRecorded(q)'
  <2> SUFFICES ASSUME NEW q \in Members
               PROVE  /\ Rep(q)' = Rep(q) /\ Place(q)' = Place(q) /\ Counted(q)' = Counted(q)
                      /\ Left(q)' = Left(q)
                      /\ Placed(q)' /\ Typed(q)' /\ Fresh(q)' /\ Waiting(q)' /\ Recorded(q)' /\ WorldRecorded(q)'
    OBVIOUS
  <2>1. Phase(q) \in Phases /\ Placed(q) /\ Typed(q) /\ Fresh(q) /\ Waiting(q) /\ Recorded(q) /\ WorldRecorded(q)
    BY MembersKnow
  <2> QED
    BY <1>1, <1>3, <2>1, OthersStay
<1>5. \A q \in World \ Members : Bystander(q)'
  BY <1>3 DEF IInv, Bystander, Ended
<1>6. 0 \in Members /\ Aligned /\ Synced /\ Agree /\ Evidence /\ TestMatch /\ AllEnd
  BY MembersKnow, MatchIsBoth DEF IInv
<1>7. Synced'
  BY <1>2, <1>3, <1>4, <1>6, Zenon DEF Synced
<1>8. Aligned' /\ Agree' /\ TestMatch'
  BY <1>1, <1>2, <1>3, <1>4, <1>6, MembersRest
<1>9. Evidence'
  <2>1. \A s \in Members : Uncounted(s)' <=> Uncounted(s)
    BY <1>1, <1>3, <1>4, <1>6, Zenon DEF Uncounted
  <2>2. RootTotal' = RootTotal
    BY <1>1, <1>3, RootTotalThen, Zenon DEF RootTotal
  <2> QED
    BY <1>1, <1>2, <1>6, <2>1, <2>2, EvidenceThen DEF Evidence
<1>10. AllEnd'
  BY <1>2, <1>3, <1>6, Zenon DEF AllEnd, Ended
<1> QED
  BY <1>2, <1>4, <1>5, <1>7, <1>8, <1>9, <1>10, InvThen

LEMMA InvStays ==
    ASSUME IInv, [Next]_vars
    PROVE  IInv'
<1>1. CASE UNCHANGED vars
  BY <1>1, InvRests DEF vars, Stops
<1>2. CASE CorruptData
  BY <1>2, InvRests, CorruptStops
<1>3. ASSUME NEW r \in World, Step(r) PROVE IInv'
  BY <1>3, StepMoves, InvRests, MembersMove, OthersMove DEF IInv, Known, Bystander
<1> QED
  BY <1>1, <1>2, <1>3 DEF Next

LEMMA StartsWith ==
    ASSUME Init
    PROVE  /\ DOMAIN st = World /\ (\A r \in World : DOMAIN st[r] = Fields)
           /\ \A r \in World :
                  /\ st[r].pc = (IF r \in Members THEN "rep" ELSE "world")
                  /\ st[r].phase = "write" /\ st[r].rep = 0 /\ st[r].errors = 0
                  /\ st[r].totalErrorCount = 0 /\ st[r].errorFound = FALSE /\ st[r].elapsed = FALSE
<1>1. PICK first, later : st = [r \in World |-> Task0(r, Seeded(first, later)[r])]
  BY Zenon DEF Init
<1>2. SUFFICES ASSUME NEW r \in World
               PROVE  /\ DOMAIN st[r] = Fields
                      /\ st[r].pc = (IF r \in Members THEN "rep" ELSE "world")
                      /\ st[r].phase = "write" /\ st[r].rep = 0 /\ st[r].errors = 0
                      /\ st[r].totalErrorCount = 0 /\ st[r].errorFound = FALSE /\ st[r].elapsed = FALSE
  BY <1>1
<1> DEFINE rng == Seeded(first, later)[r]
<1>3. st[r] = Task0(r, rng)
  BY <1>1
<1> HIDE DEF rng
<1> QED
  BY <1>3 DEF Task0, Fields

LEMMA FirstCalls ==
    ASSUME Init
    PROVE  /\ calls \in [{"world", "test"} -> [World -> Seq(Kinds)]]
           /\ \A r \in World : /\ Log(r) = <<>>
                               /\ r \in Members => WorldLog(r) = <<>>
                               /\ r \notin Members => WorldLog(r) = <<"Barrier">>
<1>1. calls = [c \in {"world", "test"} |->
                  [r \in World |-> IF c = "world" /\ r \notin Members THEN <<Kind["world"]>> ELSE <<>>]]
  BY Zenon DEF Init
<1>2. Kind["world"] = "Barrier" /\ <<"Barrier">> \in Seq(Kinds) /\ <<>> \in Seq(Kinds)
  BY KindIs DEF Kinds
<1> QED
  BY <1>1, <1>2 DEF Log, WorldLog

LEMMA InvAtFirst ==
    ASSUME Init, TasksDecideAlike
    PROVE  IInv
<1>1. Given
  BY Zenon DEF Init, Given
<1>2. Members \subseteq World /\ 0 \in Members /\ test.repetitions \in Nat \ {0}
  BY <1>1, MembersAre, ParamsAre
<1>3. /\ wire = [stamp |-> 0, sum |-> 0, seed |-> <<>>] /\ found = 0
  BY Zenon DEF Init
<1>4. DOMAIN wire = {"stamp", "sum", "seed"} /\ wire.sum = 0
  BY <1>3
<1>5. Shape
  BY <1>1, <1>4, StartsWith, FirstCalls DEF Shape
<1>6. \A r \in Members :
          /\ Pc(r) = "rep" /\ Phase(r) = "write" /\ Rep(r) = 0 /\ st[r].errors = 0
          /\ st[r].totalErrorCount = 0 /\ st[r].errorFound = FALSE /\ st[r].elapsed = FALSE
          /\ Log(r) = <<>> /\ WorldLog(r) = <<>>
  BY <1>2, StartsWith, FirstCalls DEF Pc, Phase, Rep
<1>7. \A r \in Members : /\ Place(r) = 0 /\ Counted(r) = 0 /\ Gathered(r) = 0 /\ ~Ended(r)
                         /\ Len(Log(r)) = 0 /\ Len(WorldLog(r)) = 0 /\ Left(r) = 0 /\ ~Uncounted(r)
  <2> SUFFICES ASSUME NEW r \in Members
               PROVE  /\ Place(r) = 0 /\ Counted(r) = 0 /\ Gathered(r) = 0 /\ ~Ended(r)
                      /\ Len(Log(r)) = 0 /\ Len(WorldLog(r)) = 0 /\ Left(r) = 0 /\ ~Uncounted(r)
    OBVIOUS
  <2>1. Place(r) = 0 /\ ~Ended(r) /\ ~Uncounted(r)
    BY <1>6 DEF Place, Ended, Uncounted
  <2>2. Counted(r) = 0 /\ Gathered(r) = 0
    BY <1>6 DEF Counted, Gathered, Outside, Bit
  <2>3. Len(Log(r)) = 0 /\ Len(WorldLog(r)) = 0
    BY <1>6
  <2>4. Left(r) = 0
    <3>1. Pc(r) \notin TestLabels
      BY <1>6, KindIs
    <3>2. Bit(Pc(r) \in TestLabels) = 0
      BY <3>1 DEF Bit
    <3> QED
      BY <2>3, <3>2 DEF Left
  <2> QED
    BY <2>1, <2>2, <2>3, <2>4
<1>8. ASSUME NEW r \in Members
      PROVE  Placed(r) /\ Typed(r) /\ Fresh(r) /\ Waiting(r) /\ Recorded(r) /\ WorldRecorded(r)
  <2>1. Placed(r)
    BY <1>2, <1>6 DEF Placed, Outside, Phases, Inside
  <2>2. Typed(r) /\ Fresh(r)
    <3>0. 0 \in Nat /\ FALSE \in BOOLEAN
      OBVIOUS
    <3>1. Typed(r)
      BY <1>6, <3>0, Zenon DEF Typed
    <3>2. Fresh(r)
      BY <1>6 DEF Fresh
    <3> QED
      BY <3>1, <3>2
  <2>3. Waiting(r)
    BY <1>6, KindIs DEF Waiting
  <2>4. Recorded(r)
    BY <1>7 DEF Recorded
  <2>5. WorldRecorded(r)
    <3>1. Bit(Ended(r)) = 0
      BY <1>7 DEF Bit
    <3> QED
      BY <1>7, <3>1 DEF WorldRecorded
  <2> QED
    BY <2>1, <2>2, <2>3, <2>4, <2>5
<1>9. \A r \in World \ Members : Bystander(r) /\ Pc(r) = "world"
  BY StartsWith, FirstCalls DEF Bystander, Ended, Pc
<1>10. Aligned /\ Synced /\ TestMatch
  BY <1>6, <1>7 DEF Aligned, Synced, TestMatch
<1>11. Agree
  <2> SUFFICES ASSUME NEW r \in Members, NEW s \in Members
               PROVE  /\ Rep(r) = 0 /\ Rep(s) = 0 /\ Counted(r) = 0 /\ Counted(s) = 0
                      /\ st[s].totalErrorCount = st[r].totalErrorCount
                      /\ st[s].errorFound = st[r].errorFound
    BY DEF Agree
  <2> QED
    BY <1>6, <1>7
<1>12. Evidence
  <2>1. RootTotal = 0
    BY <1>2, <1>6 DEF RootTotal
  <2> QED
    BY <1>3, <1>4, <1>7, <2>1 DEF Evidence
<1>13. AllEnd
  BY <1>6, <1>9 DEF AllEnd
<1>14. CollectivesMatch
  <2>1. WorldKnown
    BY <1>5, <1>8, <1>9 DEF WorldKnown
  <2> QED
    BY <1>10, <2>1, WorldMatches, MatchIsBoth
<1> QED
  BY <1>5, <1>8, <1>9, <1>10, <1>11, <1>12, <1>13, <1>14 DEF IInv

(* As long as tasks do not have to read their own clocks, and the histogram *)
(* is not gathered over a world with more tasks than the test, the tasks    *)
(* are always where IInv says.                                              *)
THEOREM TestInvariant == Spec /\ TasksDecideAlike => []IInv
<1>1. Init /\ TasksDecideAlike => IInv
  BY InvAtFirst
<1>2. IInv /\ [Next]_vars => IInv'
  BY InvStays
<1> QED
  BY <1>1, <1>2, PTL DEF Spec

(* No collective call of TestIoSys, WriteOrRead, ReadCheck or CountErrors   *)
(* is ever matched with a different one, on testComm or on MPI_COMM_WORLD.  *)
THEOREM CallsMatch == Spec /\ TasksDecideAlike => []CollectivesMatch
<1>1. IInv => CollectivesMatch
  BY DEF IInv
<1> QED
  BY <1>1, TestInvariant, PTL

LEMMA AllKnowInTheEnd == IInv => ErrorsReachAll
<1> SUFFICES ASSUME IInv, NEW r \in Members, st[r].pc = "done"
             PROVE  st[r].totalErrorCount > 0 <=> found > 0
  BY DEF ErrorsReachAll
<1>1. /\ Members \subseteq World /\ 0 \in Members /\ Agree /\ Evidence /\ AllEnd
      /\ \A s \in Members : Placed(s) /\ Rep(s) \in Nat
  BY MembersKnow DEF IInv
<1>2. \A s \in Members : Pc(s) \in {"world", "done"}
  BY <1>1 DEF AllEnd, Ended, Pc
<1>3. \A s \in Members : Rep(s) = test.repetitions /\ Counted(s) = 0 /\ ~Uncounted(s)
  <2> SUFFICES ASSUME NEW s \in Members
               PROVE  Rep(s) = test.repetitions /\ Counted(s) = 0 /\ ~Uncounted(s)
    OBVIOUS
  <2>1. Pc(s) = "world" \/ Pc(s) = "done"
    BY <1>2
  <2> QED
    BY <1>1, <2>1 DEF Placed, Counted, Outside, Uncounted
<1>4. st[0].totalErrorCount = st[r].totalErrorCount
  BY <1>1, <1>3 DEF Agree
<1>5. RootTotal = st[0].totalErrorCount + 0
  BY <1>1, <1>2 DEF RootTotal
<1>6. found > 0 <=> st[0].totalErrorCount + 0 > 0
  BY <1>1, <1>3, <1>5 DEF Evidence
<1>7. st[0].totalErrorCount \in Nat
  BY <1>1, MembersKnow DEF Typed
<1> QED
  BY <1>4, <1>6, <1>7

(* A mismatch that any task has come across, in any check of any            *)
(* repetition, is in every task's totalErrorCount when the test is over.    *)
THEOREM ErrorsAreKnown == Spec /\ TasksDecideAlike => []ErrorsReachAll
  BY AllKnowInTheEnd, TestInvariant, PTL

-----------------------------------------------------------------------------
(* Which task writes a place of a file                                       *)

LEMMA TestStrides ==
    ASSUME Given
    PROVE  /\ Strided(test) /\ N \in Nat \ {0}
           /\ XfersPerTask = XfersOf(test) /\ XfersPerTask \in Nat
           /\ FileXfers = FileLength(test, N) /\ FileXfers \in Nat
<1>1. /\ test.filePerProc \in BOOLEAN /\ test.xfersPerBlock \in Nat \ {0} /\ test.segmentCount \in Nat
  <2>1. ParamsTyped(test) /\ ValidateTests(test)
    BY TestsAssumption DEF Given
  <2>2. test.xfersPerBlock \in Int /\ test.segmentCount \in Int /\ test.filePerProc \in BOOLEAN
    BY <2>1 DEF ParamsTyped, IntParams, ParamNames
  <2>3. test.segmentCount >= 0 /\ test.xfersPerBlock >= 1
    BY <2>1, Zenon DEF ValidateTests
  <2> QED
    BY <2>2, <2>3
<1>2. N \in Nat \ {0} /\ XfersPerTask \in Nat
  BY MembersAre, ParamsAre
<1>3. XfersPerTask = test.xfersPerBlock * test.segmentCount
  BY DEF XfersPerTask, XfersOf
<1>4. CASE test.filePerProc
  <2>1. FileXfers = test.xfersPerBlock * test.segmentCount
    BY <1>3, <1>4 DEF FileXfers
  <2>2. FileLength(test, N) = test.segmentCount * (1 * test.xfersPerBlock)
    BY <1>4 DEF FileLength, SegmentSize, BlocksPerSegment
  <2> QED
    BY <1>1, <1>2, <2>1, <2>2 DEF Strided, XfersPerTask
<1>5. CASE ~test.filePerProc
  <2>1. FileXfers = N * (test.xfersPerBlock * test.segmentCount)
    BY <1>3, <1>5 DEF FileXfers
  <2>2. FileLength(test, N) = test.segmentCount * (N * test.xfersPerBlock)
    BY <1>5 DEF FileLength, SegmentSize, BlocksPerSegment
  <2>3. FileXfers = FileLength(test, N) /\ FileXfers \in Nat
    BY <1>1, <1>2, <2>1, <2>2
  <2> QED
    BY <1>1, <1>2, <2>3 DEF Strided, XfersPerTask
<1> QED
  BY <1>4, <1>5

LEMMA OffsetsAre ==
    ASSUME Given, NEW r \in Members, NEW k \in 0 .. XfersPerTask - 1
    PROVE  /\ OffsetOf(r, k) \in FileOffsets
           /\ test.filePerProc => OffsetOf(r, k) = k
           /\ ~test.filePerProc => (OffsetOf(r, k) \div test.xfersPerBlock) % N = r
<1> DEFINE x == test.xfersPerBlock
           q == k \div x
           m == k % x
<1>1. /\ Strided(test) /\ N \in Nat \ {0} /\ r \in 0 .. N - 1 /\ k \in 0 .. XfersOf(test) - 1
      /\ XfersPerTask \in Nat /\ FileXfers = FileLength(test, N)
  BY TestStrides DEF Members
<1>2. OffsetOf(r, k) = OffsetIn(test, N, r, k)
  BY DEF OffsetOf
<1>3. OffsetOf(r, k) \in FileOffsets
  BY <1>1, <1>2, OffsetsInFile DEF FileOffsets
<1>4. x \in Nat \ {0} /\ k \in Nat
  BY <1>1 DEF Strided
<1>5. q \in Nat /\ m \in 0 .. x - 1 /\ k = q * x + m
  <2> HIDE DEF x
  <2> QED
    BY <1>4, QuotientIs
<1>6. CASE test.filePerProc
  BY <1>6, <1>2, <1>3, <1>5 DEF OffsetIn
<1>7. CASE ~test.filePerProc
  <2>1. OffsetOf(r, k) = (q * N + r) * x + m
    BY <1>1, <1>2, <1>7, SharedPlace
  <2> HIDE DEF x, q, m
  <2>2. q * N + r \in Nat /\ (q * N + r) % N = r
    <3> DEFINE n == N
    <3>1. n \in Nat \ {0} /\ r \in 0 .. n - 1 /\ q \in Nat
      BY <1>1, <1>5
    <3> HIDE DEF n
    <3>2. (q * n + r) % n = r
      BY <3>1, BackFromTable
    <3>3. q * n + r \in Nat
      BY <3>1
    <3> QED
      BY <3>2, <3>3 DEF n
  <2>3. ((q * N + r) * x + m) \div x = q * N + r
    BY <1>4, <1>5, <2>2, BackFromTable
  <2> QED
    BY <1>3, <1>7, <2>1, <2>2, <2>3 DEF x
<1> QED
  BY <1>6, <1>7

LEMMA OffsetsReach ==
    ASSUME Given, NEW o \in FileOffsets
    PROVE  /\ test.filePerProc => \A t \in Members : \E k \in 0 .. XfersPerTask - 1 : OffsetOf(t, k) = o
           /\ ~test.filePerProc => \E t \in Members, k \in 0 .. XfersPerTask - 1 : OffsetOf(t, k) = o
<1> DEFINE x == test.xfersPerBlock
           seg == test.segmentCount
           X == XfersPerTask
<1>1. /\ Strided(test) /\ N \in Nat \ {0} /\ X = XfersOf(test) /\ X \in Nat
      /\ x \in Nat \ {0} /\ seg \in Nat /\ X = x * seg
      /\ FileXfers = FileLength(test, N)
  BY TestStrides DEF Strided, XfersOf
<1>2. CASE test.filePerProc
  <2>1. o \in 0 .. X - 1
    BY <1>2 DEF FileOffsets, FileXfers
  <2> QED
    BY <1>2, <2>1, OffsetsAre
<1>3. CASE ~test.filePerProc
  <2>1. o \in 0 .. (seg * N) * x - 1
    BY <1>1, <1>3 DEF FileXfers, FileOffsets
  <2> DEFINE row == o \div x
             b == o % x
             q == row \div N
             t == row % N
             k == q * x + b
  <2> HIDE DEF x, seg, X
  <2>2. row \in 0 .. seg * N - 1 /\ b \in 0 .. x - 1 /\ o = row * x + b
    <3> DEFINE rows == seg * N
    <3>1. rows \in Nat /\ x \in Nat \ {0} /\ o \in 0 .. rows * x - 1
      BY <1>1, <2>1
    <3> HIDE DEF rows
    <3>2. o \div x \in 0 .. rows - 1 /\ o % x \in 0 .. x - 1 /\ o = (o \div x) * x + (o % x)
      BY <3>1, FromTable
    <3> QED
      BY <3>2 DEF rows
  <2> HIDE DEF row, b
  <2>3. q \in 0 .. seg - 1 /\ t \in 0 .. N - 1 /\ row = q * N + t
    BY <1>1, <2>2, FromTable
  <2> HIDE DEF q, t
  <2>4. k \in 0 .. seg * x - 1 /\ k \div x = q /\ k % x = b
    BY <1>1, <2>2, <2>3, InTable, BackFromTable
  <2>5. k \in 0 .. X - 1 /\ t \in Members
    BY <1>1, <2>3, <2>4 DEF Members
  <2> HIDE DEF k
  <2>6. OffsetOf(t, k) = (q * N + t) * x + b
    BY <1>1, <1>3, <2>3, <2>4, <2>5, SharedPlace, ZenonT(40) DEF OffsetOf, x, X
  <2>7. OffsetOf(t, k) = o
    BY <2>2, <2>3, <2>6
  <2> QED
    BY <1>3, <2>5, <2>7 DEF X
<1> QED
  BY <1>2, <1>3

-----------------------------------------------------------------------------
(* Where the others are when a task is at a step                             *)

LEMMA LeftIs ==
    ASSUME Given, NEW s, Placed(s)
    PROVE  /\ Place(s) \in Nat /\ LeftIn(s) \in Int /\ LeftIn(s) <= Place(s)
           /\ Pc(s) \notin Outside => LeftIn(s) >= Start(Phase(s))
           /\ Pc(s) \in Past => LeftIn(s) >= Start(Phase(s)) + 1
           /\ Pc(s) \in {"stat", "size", "times"} /\ Phase(s) = "write" => LeftIn(s) >= AllClosed
           /\ Pc(s) = "times" =>
                  LeftIn(s) = Start(Phase(s)) + (Shut(Phase(s)) + Bit(Phase(s) = "write") + 1)
           /\ BeforeSize(Pc(s)) => Place(s) <= Start(Phase(s)) + (Shut(Phase(s)) + Bit(Phase(s) = "write"))
           /\ Pc(s) \in Inside \ {"closed", "stat", "size", "times"} =>
                  Place(s) <= Start(Phase(s)) + Shut(Phase(s))
           /\ Pc(s) \in {"gate", "ready"} /\ Phase(s) # "readcheck" => Place(s) = Start(Phase(s)) + 1
<1> DEFINE phase == Phase(s)
           pc == Pc(s)
           place == Place(s)
           start == Start(phase)
           open == Opening(phase)
           deal == Dealt(phase)
           body == Body(phase)
           shut == Shut(phase)
           around == Bit(Around(phase))
           stripes == Bit(Stripes)
           random == Bit(test.randomOffset)
           checks == Bit(Checks)
           first == Bit(phase = "write")
           label == Bit(pc \in TestLabels)
           pairs == IF phase = "readcheck" THEN 3 * st[s].pairCnt ELSE 0
           all == IF phase = "readcheck" THEN 3 * XfersPerTask ELSE 0
<1>1. phase \in Phases /\ pc \in Outside \cup Ends \cup Inside /\ place \in Nat
  BY WhereIs DEF Placed
<1>2. PlaceAt(s, pc, phase, st[s].pairCnt, Keeps(s), place)
  BY PlacesAre
<1>3. /\ start \in Nat /\ start >= 1 /\ open \in Nat /\ open >= 1
      /\ deal = open + random /\ body = deal + all
      /\ CountEnd(phase) = body + 2 * checks
      /\ shut = CountEnd(phase) + around /\ XfersPerTask \in Nat
  BY <1>1, StagesAre, StartIs
<1>4. /\ stripes \in {0, 1} /\ (Stripes => stripes = 1) /\ (~Stripes => stripes = 0)
      /\ around \in {0, 1} /\ checks \in {0, 1} /\ (Checks => checks = 1)
      /\ random \in {0, 1} /\ (test.randomOffset => random = 1)
      /\ (phase = "write" => first = 1) /\ (phase # "write" => first = 0)
      /\ (pc \in TestLabels => label = 1) /\ (pc \notin TestLabels => label = 0)
  BY DEF Bit
<1>5. /\ phase = "write" => open = 1 + stripes + around
      /\ phase = "readcheck" => open = 2
  BY OpeningIs
<1>6. all \in Nat /\ (phase # "readcheck" => all = 0)
  BY <1>3
<1>7. pc \in {"xfer", "rc1", "rc2", "rc3"} =>
          pairs \in Nat /\ pairs <= all /\ (pc # "xfer" => pairs + 3 <= all)
  BY <1>3 DEF Placed
<1>8. /\ pc \in {"rc1", "rc2", "rc3"} => phase = "readcheck"
      /\ pc = "striped" => phase = "write" /\ Stripes
      /\ pc \in {"opened", "xfered"} => Around(phase)
      /\ pc \in {"deal", "seed"} => test.randomOffset
      /\ pc \in {"cntR", "cntB"} => Checks
      /\ pc = "closed" => phase = "write"
      /\ pc = "gate" => phase \in {"writecheck", "readcheck"}
      /\ pc \in {"delete", "repEnd"} => phase = "finish"
      /\ pc = "ready" => phase # "writecheck"
  BY DEF Placed
<1>9. Around(phase) => around = 1
  BY DEF Bit
<1>10. TestLabels = {"stamp", "gate", "ready", "striped", "opened", "rc1", "rc2", "rc3", "seed",
                     "cntR", "cntB", "xfered", "closed", "size", "times", "delete", "repEnd", "commFree"}
  BY KindIs
<1>11. /\ phase = "write" => AllClosed = start + (shut + 1)
       /\ LeftIn(s) = place - label
  BY DEF AllClosed, LeftIn
<1>12. /\ Outside = {"rep", "stamp", "commFree", "world", "done"}
       /\ Ends = {"phase", "delete", "repEnd"}
       /\ Inside = {"hist", "gate", "ready", "striped", "open", "opened", "deal", "seed", "xfer", "rc1", "rc2",
                    "rc3", "cntR", "cntB", "xfered", "close", "closed", "stat", "size", "times"}
       /\ Past = Inside \ {"hist", "gate", "ready"}
  BY DEF Outside, Ends, Inside, Past
<1> DEFINE Claim ==
             /\ LeftIn(s) \in Int /\ LeftIn(s) <= place
             /\ pc \notin Outside => LeftIn(s) >= start
             /\ pc \in Past => LeftIn(s) >= start + 1
             /\ pc \in {"stat", "size", "times"} /\ phase = "write" => LeftIn(s) >= AllClosed
             /\ pc = "times" => LeftIn(s) = start + (shut + first + 1)
             /\ BeforeSize(pc) => place <= start + (shut + first)
             /\ pc \in Inside \ {"closed", "stat", "size", "times"} => place <= start + shut
             /\ pc \in {"gate", "ready"} /\ phase # "readcheck" => place = start + 1
<1> HIDE DEF around, stripes, random, checks, first, pairs, all, start, open, deal, body, shut, label
<1>13. ASSUME pc \in Outside PROVE Claim
  BY <1>12, <1>13, <1>1, <1>4, <1>11 DEF BeforeSize
<1>14. ASSUME pc \in {"hist", "gate", "ready", "striped", "open", "opened", "deal", "seed"} PROVE Claim
  <2>1. /\ pc = "hist" => place = start + 0
        /\ pc = "gate" => place = start + 1
        /\ pc = "ready" => place = start + (IF phase = "readcheck" THEN 2 ELSE 1)
        /\ pc = "striped" => place = start + 2
        /\ pc = "open" => place = start +
                 (IF phase = "readcheck" \/ (phase = "write" /\ Stripes /\ s # 0) THEN 2 ELSE 1)
        /\ pc \in {"opened", "deal"} => place = start + open
        /\ pc = "seed" => place = start + (open + 1)
    BY <1>2 DEF PlaceAt, start, open
  <2>2. pc \in Inside /\ pc \notin Outside /\ pc \notin {"closed", "stat", "size", "times"}
    BY <1>12, <1>14
  <2>3. /\ pc \in {"gate", "ready", "striped", "opened", "seed"} => label = 1
        /\ pc \in {"hist", "open", "deal"} => label = 0
        /\ (pc \in Past <=> pc \notin {"hist", "gate", "ready"})
    BY <1>4, <1>10, <2>2 DEF Past
  <2>4. pc = "opened" => open >= 2
    BY <1>8, OpeningIs, <1>4, <1>5, <1>9 DEF Around, open, around
  <2>5. pc = "seed" => random = 1
    BY <1>4, <1>8
  <2>6. shut >= deal /\ deal >= open /\ shut >= 1
    BY <1>3, <1>4, <1>6
  <2>7. (phase = "readcheck" => shut >= 2) /\ (phase = "write" /\ Stripes => shut >= 2)
    BY <1>3, <1>4, <1>5, <2>6
  <2>8. place <= start + shut /\ place >= start
    BY <1>1, <1>3, <1>4, <1>5, <1>8, <1>14, <2>1, <2>5, <2>6, <2>7
  <2>9. LeftIn(s) >= start /\ (pc \in Past => LeftIn(s) >= start + 1)
    BY <1>1, <1>3, <1>8, <1>11, <1>14, <2>1, <2>3, <2>4
  <2>10. first \in {0, 1} /\ label \in {0, 1} /\ shut \in Nat
    BY <1>3, <1>4, <1>6
  <2>11. pc \in {"gate", "ready"} /\ phase # "readcheck" => place = start + 1
    BY <2>1
  <2> QED
    BY <1>1, <1>3, <1>11, <1>14, <2>2, <2>3, <2>8, <2>9, <2>10, <2>11 DEF BeforeSize
<1>15. ASSUME pc \in {"xfer", "rc1", "rc2", "rc3"} PROVE Claim
  <2>1. /\ pc = "xfer" => place = start + (deal + pairs)
        /\ pc = "rc1" => place = start + (deal + pairs + 1)
        /\ pc = "rc2" => place = start + (deal + pairs + 2)
        /\ pc = "rc3" => place = start + (deal + pairs + 3)
    BY <1>2 DEF PlaceAt, start, deal, pairs
  <2>2. pc \in Inside /\ pc \in Past /\ pc \notin Outside /\ pc \notin {"closed", "stat", "size", "times", "gate", "ready"}
    BY <1>12, <1>15
  <2>3. (pc # "xfer" => label = 1) /\ (pc = "xfer" => label = 0)
    BY <1>4, <1>10, <1>15
  <2>4. place <= start + shut /\ place - label >= start + 1
    BY <1>1, <1>3, <1>4, <1>6, <1>7, <1>15, <2>1, <2>3
  <2>5. first \in {0, 1} /\ label \in {0, 1} /\ shut \in Nat
    BY <1>3, <1>4, <1>6
  <2> QED
    BY <1>1, <1>3, <1>11, <1>15, <2>2, <2>4, <2>5 DEF BeforeSize
<1>16. ASSUME pc \in {"cntR", "cntB"} PROVE Claim
  <2>1. (pc = "cntR" => place = start + (body + 1)) /\ (pc = "cntB" => place = start + (body + 2))
    BY <1>2 DEF PlaceAt, start, body
  <2>2. pc \in Inside /\ pc \in Past /\ pc \notin Outside /\ pc \notin {"closed", "stat", "size", "times", "gate", "ready"}
    BY <1>12, <1>16
  <2>3. label = 1
    BY <1>4, <1>10, <1>16
  <2>4. place <= start + shut /\ place - label >= start + 1
    BY <1>1, <1>3, <1>4, <1>6, <1>8, <1>16, <2>1, <2>3
  <2>5. first \in {0, 1} /\ shut \in Nat
    BY <1>3, <1>4, <1>6
  <2> QED
    BY <1>1, <1>3, <1>11, <1>16, <2>2, <2>3, <2>4, <2>5 DEF BeforeSize
<1>17. ASSUME pc \in {"xfered", "close", "closed", "stat"} PROVE Claim
  <2>1. /\ pc \in {"xfered", "close"} => place = start + shut
        /\ pc \in {"closed", "stat"} => place = start + (shut + first)
    BY <1>2 DEF PlaceAt, start, shut, first
  <2>2. pc \in Inside /\ pc \in Past /\ pc \notin Outside /\ pc \notin {"size", "times", "gate", "ready"}
    BY <1>12, <1>17
  <2>3. (pc \in {"xfered", "closed"} => label = 1) /\ (pc \in {"close", "stat"} => label = 0)
    BY <1>4, <1>10
  <2>4. shut \in Nat /\ shut >= 1 /\ first \in {0, 1} /\ (pc = "xfered" => shut >= 2) /\ (pc = "closed" => first = 1)
    BY <1>3, <1>4, <1>6, <1>8, <1>9
  <2>5. pc = "stat" /\ phase = "write" => AllClosed = start + (shut + 1) /\ first = 1
    BY <1>4, <1>11
  <2>6. place - label >= start + 1 /\ place <= start + (shut + first) /\ (pc \in {"xfered", "close"} => place <= start + shut)
    BY <1>1, <1>3, <1>17, <2>1, <2>3, <2>4
  <2>7. pc = "stat" /\ phase = "write" => place - label >= AllClosed
    BY <1>1, <1>3, <2>1, <2>3, <2>4, <2>5
  <2> QED
    BY <1>1, <1>3, <1>11, <1>17, <2>2, <2>3, <2>4, <2>6, <2>7 DEF BeforeSize
<1>18. ASSUME pc \in {"size", "times"} PROVE Claim
  <2>1. /\ pc = "size" => place = start + (shut + first + 1)
        /\ pc = "times" => place = start + (shut + first + 2)
    BY <1>2 DEF PlaceAt, start, shut, first
  <2>2. pc \in Inside /\ pc \in Past /\ pc \notin Outside /\ ~BeforeSize(pc) /\ pc \notin {"stat", "gate", "ready"}
    BY <1>12, <1>18 DEF BeforeSize
  <2>3. label = 1
    BY <1>4, <1>10, <1>18
  <2>4. shut \in Nat /\ shut >= 1 /\ first \in {0, 1}
    BY <1>3, <1>4, <1>6
  <2>5. phase = "write" => AllClosed = start + (shut + 1) /\ first = 1
    BY <1>4, <1>11
  <2> QED
    BY <1>1, <1>3, <1>11, <1>18, <2>1, <2>2, <2>3, <2>4, <2>5
<1>19. ASSUME pc \in Ends PROVE Claim
  <2>1. /\ pc = "phase" => place = start + 0
        /\ pc = "delete" => place = start + 1
        /\ pc = "repEnd" => place = start + (1 + Bit(~Keeps(s)))
    BY <1>2 DEF PlaceAt, start
  <2>2. Bit(~Keeps(s)) \in {0, 1}
    BY DEF Bit
  <2>3. pc \notin Inside /\ pc \notin Past /\ pc \notin Outside
    BY <1>12, <1>19
  <2>4. (pc = "phase" => label = 0) /\ (pc \in {"delete", "repEnd"} => label = 1)
    BY <1>4, <1>10
  <2>5. pc \in {"phase", "delete", "repEnd"}
    BY <1>12, <1>19
  <2>6. LeftIn(s) \in Int /\ LeftIn(s) <= place /\ LeftIn(s) >= start
    BY <1>1, <1>3, <1>11, <2>1, <2>2, <2>4, <2>5
  <2> QED
    BY <1>12, <2>3, <2>5, <2>6 DEF BeforeSize
<1>20. pc \in Outside \cup Ends \cup {"hist", "gate", "ready", "striped", "open", "opened", "deal", "seed"}
               \cup {"xfer", "rc1", "rc2", "rc3"} \cup {"cntR", "cntB"} \cup {"xfered", "close", "closed", "stat"}
               \cup {"size", "times"}
  BY <1>1, <1>12
<1>21. Claim
  BY <1>13, <1>14, <1>15, <1>16, <1>17, <1>18, <1>19, <1>20
<1> QED
  BY <1>1, <1>21 DEF start, shut, first

\* Everybody has made a call that a task has left, if it is one that waits for all.
LEMMA Behind ==
    ASSUME IInv, NEW s \in Members, NEW r \in Members, Pc(s) \notin Outside,
           NEW i \in Nat \ {0}, i <= LeftIn(s), Script(i) \in {"Barrier", "Allreduce"}
    PROVE  \/ Rep(r) = Rep(s) /\ Place(r) >= i
           \/ Pc(s) = "repEnd" /\ Rep(r) = Rep(s) + 1
<1> DEFINE n == Len(Log(s)) - Place(s) + i
<1>1. /\ Given /\ Aligned /\ Synced /\ Placed(s) /\ Recorded(s)
      /\ Rep(r) \in Nat /\ Rep(s) \in Nat /\ Place(r) \in Nat /\ Place(s) \in Nat
      /\ Len(Log(r)) \in Nat /\ Len(Log(s)) \in Nat
  BY MembersKnow
<1>2. LeftIn(s) <= Place(s) /\ LeftIn(s) \in Int /\ Place(s) <= Len(Log(s))
  BY <1>1, LeftIs DEF Recorded
<1>3. n \in 1 .. Left(s)
  BY <1>1, <1>2 DEF Left, LeftIn, Bit
<1>4. Log(s)[n] = Script(i)
  BY <1>1, <1>2, CallMade
<1>5. Waits(s, r, Log(s)[n])
  BY <1>4 DEF Waits
<1>6. Len(Log(r)) >= n
  BY <1>1, <1>3, <1>5 DEF Synced
<1>7. Rep(r) <= Rep(s) + 1 /\ Rep(s) <= Rep(r) + 1
  BY <1>1 DEF Aligned
<1>8. CASE Rep(r) = Rep(s)
  BY <1>1, <1>8, <1>6 DEF Aligned
<1>9. CASE Rep(r) = Rep(s) + 1
  BY <1>1, <1>9 DEF Aligned
<1>10. CASE Rep(s) = Rep(r) + 1
  BY <1>1, <1>10, <1>6 DEF Aligned
<1> QED
  BY <1>1, <1>7, <1>8, <1>9, <1>10

\* The calls that keep the tasks of a phase together.
LEMMA BarriersAre ==
    ASSUME Given
    PROVE  /\ Start("write") = 1 /\ Start("finish") \in Nat
           /\ \A p \in Phases : /\ Start(p) \in Nat /\ Start(p) >= 1 /\ Start(p) <= Start("finish")
                                /\ Start(p) + 1 \in Nat \ {0}
           /\ \A p \in Phases \ {"finish"} : Wanted(p) => Script(Start(p) + 1) = "Barrier"
           /\ Script(Start("finish") + 1) = "Barrier"
           /\ Wanted("write") =>
                  /\ Script(AllClosed) = "Barrier" /\ AllClosed \in Nat \ {0} /\ Shut("write") \in Nat
                  /\ AllClosed = Start("write") + Shut("write") + 1
                  /\ \A p \in Phases \ {"write"} : AllClosed <= Start(p)
<1>1. /\ \A p \in Phases : /\ Start(p) \in Nat /\ Start(p) >= 1 /\ Start(p) <= Start("finish")
      /\ Start("write") = 1
      /\ Start("write") <= Start("writecheck") /\ Start("writecheck") <= Start("read")
      /\ Start("read") <= Start("readcheck") /\ Start("readcheck") <= Start("finish")
      /\ Start("writecheck") = Start("write") + LengthOf("write")
  BY StartIs, StartsGrow
<1>2. "write" \in Phases \ {"finish"} /\ "finish" \in Phases
  BY DEF Phases
<1>3. \A p \in Phases \ {"finish"} : Wanted(p) => Script(Start(p) + 1) = "Barrier"
  <2> SUFFICES ASSUME NEW p \in Phases \ {"finish"}, Wanted(p) PROVE Script(Start(p) + 1) = "Barrier"
    OBVIOUS
  <2>1. Opening(p) \in Nat /\ Opening(p) >= 1
    BY StagesAre
  <2>2. 1 \in Nat \ {0} /\ 1 <= Opening(p)
    BY <2>1
  <2> QED
    BY <2>2, ScriptTable
<1>4. Script(Start("finish") + 1) = "Barrier"
  BY <1>1, <1>2, ScriptIs
<1>5. Wanted("write") =>
          /\ Script(AllClosed) = "Barrier" /\ AllClosed \in Nat \ {0} /\ Shut("write") \in Nat
          /\ AllClosed = Start("write") + Shut("write") + 1
          /\ \A p \in Phases \ {"write"} : AllClosed <= Start(p)
  <2> SUFFICES ASSUME Wanted("write")
               PROVE  /\ Script(AllClosed) = "Barrier" /\ AllClosed \in Nat \ {0} /\ Shut("write") \in Nat
                      /\ AllClosed = Start("write") + Shut("write") + 1
                      /\ \A p \in Phases \ {"write"} : AllClosed <= Start(p)
    OBVIOUS
  <2>1. Shut("write") \in Nat
    BY <1>2, StagesAre
  <2>2. LengthOf("write") = Shut("write") + 3
    BY <1>2, LengthIs DEF Rest
  <2>3. AllClosed = Start("write") + Shut("write") + 1 /\ AllClosed \in Nat \ {0}
    BY <1>1, <1>2, <2>1 DEF AllClosed
  <2>4. AllClosed <= Start("writecheck")
    BY <1>1, <1>2, <2>1, <2>2, <2>3
  <2>5. Script(AllClosed) = "Barrier"
    BY <1>2, ScriptTable DEF AllClosed
  <2>6. \A p \in Phases \ {"write"} : AllClosed <= Start(p)
    <3> SUFFICES ASSUME NEW p \in Phases \ {"write"} PROVE AllClosed <= Start(p)
      OBVIOUS
    <3>1. p \in {"writecheck", "read", "readcheck", "finish"}
      BY DEF Phases
    <3>2. /\ Start("writecheck") \in Nat /\ Start("read") \in Nat /\ Start("readcheck") \in Nat
          /\ Start("finish") \in Nat
      BY <1>1 DEF Phases
    <3> QED
      BY <1>1, <2>3, <2>4, <3>1, <3>2
  <2> QED
    BY <2>1, <2>3, <2>5, <2>6
<1> QED
  BY <1>1, <1>2, <1>3, <1>4, <1>5

\* Before a task removes the file of its repetition, nobody is past the barrier that follows.
LEMMA StartsAlone ==
    ASSUME IInv, NEW r \in Members, Pc(r) = "phase", Phase(r) = "write", Wanted("write"), NEW s \in Members
    PROVE  \/ Pc(s) \in Outside \cup {"repEnd"}
           \/ Phase(s) = "write" /\ Pc(s) \in {"phase", "ready"}
<1> SUFFICES ASSUME Pc(s) \notin Outside, Pc(s) # "repEnd"
             PROVE  Phase(s) = "write" /\ Pc(s) \in {"phase", "ready"}
  OBVIOUS
<1>1. Given /\ Placed(r) /\ Placed(s) /\ Phase(s) \in Phases
  BY MembersKnow
<1>2. /\ Start("write") = 1 /\ Script(Start("write") + 1) = "Barrier" /\ AllClosed \in Nat \ {0}
      /\ \A p \in Phases : Start(p) \in Nat /\ Start(p) >= 1
      /\ \A p \in Phases \ {"write"} : AllClosed <= Start(p)
      /\ AllClosed = Start("write") + Shut("write") + 1 /\ Shut("write") \in Nat
  BY <1>1, BarriersAre DEF Phases
<1>3. Place(r) = 1
  BY <1>1, <1>2, WhereIs
<1>4. LeftIn(s) < 2
  <2>1. Script(2) = "Barrier" /\ 2 \in Nat \ {0}
    BY <1>2
  <2>2. LeftIn(s) \in Int
    BY <1>1, LeftIs
  <2>3. SUFFICES ASSUME 2 <= LeftIn(s) PROVE FALSE
    BY <2>2
  <2>4. Place(r) >= 2
    BY <2>1, <2>3, Behind
  <2> QED
    BY <1>3, <2>4
<1>5. Shut("write") >= 1
  BY <1>1, StagesAre DEF Phases
<1>6. LeftIn(s) >= Start(Phase(s)) /\ (Pc(s) \in Past => LeftIn(s) >= Start(Phase(s)) + 1) /\ LeftIn(s) \in Int
  BY <1>1, LeftIs
<1>7. Phase(s) = "write"
  <2> SUFFICES ASSUME Phase(s) # "write" PROVE FALSE
    OBVIOUS
  <2>1. AllClosed <= Start(Phase(s))
    BY <1>1, <1>2
  <2> QED
    BY <1>1, <1>2, <1>4, <1>5, <1>6, <2>1
<1>8. Pc(s) \notin Past
  BY <1>2, <1>4, <1>6, <1>7
<1>9. Pc(s) \in Ends \cup Inside
  BY <1>1 DEF Placed
<1>10. Pc(s) \in {"phase", "delete", "hist", "gate", "ready"}
  BY <1>8, <1>9 DEF Past, Ends
<1> QED
  BY <1>1, <1>7, <1>10 DEF Placed

\* While one task may create the file or writes, nobody is in another phase.
LEMMA WritesTogether ==
    ASSUME IInv, NEW r \in Members, Phase(r) = "write", Pc(r) \in {"striped", "open", "opened", "xfer"},
           NEW s \in Members
    PROVE  /\ Rep(s) = Rep(r) /\ Phase(s) = "write" /\ Wanted("write")
           /\ Pc(s) \in Writing \cup {"deal", "seed", "cntR", "cntB", "xfered", "close", "closed"}
<1>1. Given /\ Placed(r) /\ Placed(s) /\ Phase(s) \in Phases /\ Place(s) \in Nat /\ Place(r) \in Nat
      /\ Rep(r) \in Nat /\ Rep(s) \in Nat
  BY MembersKnow
<1>2. /\ Pc(r) \notin Outside /\ Pc(r) \in Inside /\ Pc(r) \in Past /\ Pc(r) # "repEnd"
      /\ Pc(r) \notin {"closed", "stat", "size", "times"}
  BY DEF Outside, Inside, Past
<1>3. Wanted("write")
  BY <1>1, <1>2 DEF Placed
<1>4. /\ Start("write") = 1 /\ Script(Start("write") + 1) = "Barrier" /\ AllClosed \in Nat \ {0}
      /\ \A p \in Phases : Start(p) \in Nat /\ Start(p) >= 1
      /\ \A p \in Phases \ {"write"} : AllClosed <= Start(p)
      /\ AllClosed = Start("write") + Shut("write") + 1 /\ Shut("write") \in Nat
      /\ Script(AllClosed) = "Barrier"
  BY <1>1, <1>3, BarriersAre DEF Phases
<1>5. LeftIn(r) >= 2 /\ LeftIn(r) \in Int /\ Place(r) <= 1 + Shut("write")
  BY <1>1, <1>2, <1>4, LeftIs
<1>6. Rep(s) = Rep(r) /\ Place(s) >= 2
  BY <1>4, <1>5, <1>2, Behind
<1>7. Pc(s) \notin Outside
  BY <1>1, <1>6, WhereIs
<1>8. LeftIn(s) \in Int /\ ~(LeftIn(s) >= AllClosed)
  <2>1. LeftIn(s) \in Int
    BY <1>1, LeftIs
  <2>2. SUFFICES ASSUME AllClosed <= LeftIn(s) PROVE FALSE
    BY <1>4, <2>1
  <2>3. Place(r) >= AllClosed
    BY <1>1, <1>4, <1>6, <1>7, <2>2, Behind
  <2> QED
    BY <1>1, <1>4, <1>5, <2>3
<1>9. Phase(s) = "write" /\ Pc(s) \notin {"stat", "size", "times"}
  BY <1>1, <1>7, LeftIs, <1>4, <1>8
<1>10. Pc(s) # "phase"
  BY <1>1, <1>4, <1>6, <1>9, WhereIs
<1>11. Pc(s) \in Ends \cup Inside
  BY <1>1, <1>7 DEF Placed
<1> QED
  BY <1>1, <1>3, <1>6, <1>9, <1>10, <1>11 DEF Placed, Ends, Inside, Writing

LEMMA NobodyWrites ==
    ASSUME IInv, NEW r \in Members, AfterWriting(r), NEW s \in Members
    PROVE  ~(Phase(s) = "write" /\ Pc(s) \in Writing)
<1> SUFFICES ASSUME Phase(s) = "write", Pc(s) \in Writing PROVE FALSE
  OBVIOUS
<1>1. Given /\ Placed(r) /\ Placed(s) /\ Phase(r) \in Phases /\ Place(s) \in Nat /\ Place(r) \in Nat
  BY MembersKnow
<1>2. Pc(s) \in Inside /\ Pc(s) \notin {"closed", "stat", "size", "times"} /\ Wanted("write")
  BY <1>1 DEF Placed, Writing, Inside
<1>3. Pc(r) \in Inside /\ Pc(r) \notin Outside /\ Pc(r) # "repEnd"
  BY DEF AfterWriting, Inside, Outside
<1>4. /\ Start("write") = 1 /\ AllClosed \in Nat \ {0}
      /\ \A p \in Phases : Start(p) \in Nat
      /\ \A p \in Phases \ {"write"} : AllClosed <= Start(p)
      /\ AllClosed = Start("write") + Shut("write") + 1 /\ Shut("write") \in Nat
      /\ Script(AllClosed) = "Barrier"
  BY <1>1, <1>2, BarriersAre
<1>5. LeftIn(r) >= AllClosed
  <2>1. /\ LeftIn(r) >= Start(Phase(r)) /\ LeftIn(r) \in Int
        /\ Pc(r) \in {"stat", "size", "times"} /\ Phase(r) = "write" => LeftIn(r) >= AllClosed
    BY <1>1, <1>3, LeftIs
  <2>2. Phase(r) # "write" => AllClosed <= Start(Phase(r)) /\ Start(Phase(r)) \in Nat
    BY <1>1, <1>4
  <2>3. Phase(r) = "write" => Pc(r) \in {"stat", "size", "times"}
    BY DEF AfterWriting
  <2> QED
    BY <1>4, <2>1, <2>2, <2>3
<1>6. Place(s) >= AllClosed
  BY <1>1, <1>4, <1>5, LeftIs, <1>3, Behind
<1>7. Place(s) <= 1 + Shut("write")
  BY <1>1, <1>2, <1>4, LeftIs
<1> QED
  BY <1>1, <1>4, <1>6, <1>7

\* A task goes on to delete its file when all the others have come to the end.
LEMMA DeletesTogether ==
    ASSUME IInv, NEW r \in Members, Went(r), Pc(r) = "delete", NEW s \in Members
    PROVE  Pc(s) \in {"delete", "repEnd"} /\ Rep(s) = Rep(r)
<1>1. /\ Shape /\ Given /\ Waiting(r) /\ Placed(r) /\ Placed(s) /\ Phase(s) \in Phases
      /\ Place(r) \in Nat /\ Place(s) \in Nat /\ Len(Log(r)) \in Nat /\ Len(Log(s)) \in Nat
  BY MembersKnow
<1>2. Len(Log(s)) >= Len(Log(r))
  BY KindIs, <1>1, LeavesTogether DEF Waits
<1>3. Start("finish") \in Nat /\ Start("finish") >= 1 /\ "finish" \in Phases
  BY <1>1, StartIs DEF Phases
<1>4. Place(r) > Start("finish") /\ Place(r) >= 2
  BY <1>1, <1>3, WhereIs
<1>5. Rep(s) = Rep(r) /\ Place(s) > Start("finish")
  BY <1>1, <1>2, <1>4, SameRepetition, <1>3
<1>6. /\ Pc(s) \in Outside => Place(s) <= 1
      /\ Pc(s) = "phase" => Place(s) = Start(Phase(s))
      /\ Pc(s) \in Inside => Place(s) <= Start(Phase(s)) + LengthOf(Phase(s))
  BY <1>1, WhereIs
<1>7. Pc(s) \notin Outside
  BY <1>1, <1>3, <1>5, <1>6
<1>8. Start(Phase(s)) <= Start("finish") /\ Start(Phase(s)) \in Nat
  BY <1>1, StartsGrow, StartIs
<1>9. Pc(s) # "phase"
  BY <1>3, <1>5, <1>6, <1>8
<1>10. Pc(s) \notin Inside
  <2> SUFFICES ASSUME Pc(s) \in Inside PROVE FALSE
    OBVIOUS
  <2>1. Phase(s) \in Phases \ {"finish"}
    BY <1>1 DEF Placed
  <2>2. LengthOf(Phase(s)) \in Nat /\ Start(Phase(s)) + LengthOf(Phase(s)) <= Start("finish")
    BY <1>1, <2>1, StartsGrow
  <2> QED
    BY <1>1, <1>3, <1>5, <1>6, <1>8, <2>2
<1> QED
  BY <1>1, <1>5, <1>7, <1>9, <1>10 DEF Placed, Ends

LEMMA SizesTogether ==
    ASSUME IInv, NEW r \in Members, Pc(r) = "times", NEW s \in Members
    PROVE  Pc(s) \in {"size", "times"} \/ (Pc(s) \in Idle /\ Before(Phase(s)) > 0)
<1> DEFINE p == Phase(r)
           x == Phase(s)
           i == Start(p) + (Shut(p) + Bit(p = "write") + 1)
<1>1. /\ Given /\ Placed(r) /\ Placed(s) /\ p \in Phases /\ x \in Phases /\ Place(s) \in Nat /\ Place(r) \in Nat
  BY MembersKnow
<1>2. /\ p \in {"write", "read"} /\ p \in Phases \ {"finish"} /\ Wanted(p)
      /\ Pc(r) \notin Outside /\ Pc(r) # "repEnd" /\ Pc(r) \in Inside
  BY <1>1 DEF Placed, Inside, Outside, Phases
<1>3. /\ Start(p) \in Nat /\ Start(p) >= 1 /\ Shut(p) \in Nat /\ Bit(p = "write") \in {0, 1}
  BY <1>1, StartIs, StagesAre DEF Bit
<1>4. i \in Nat \ {0} /\ Script(i) = "Allreduce"
  BY <1>1, <1>2, <1>3, ScriptTable
<1>5. LeftIn(r) = i
  BY <1>1, LeftIs
<1>6. Place(s) >= i
  BY <1>2, <1>4, <1>5, Behind
<1>7. Pc(s) \notin Outside
  <2>1. i > 1
    BY <1>3
  <2> QED
    BY <1>1, <1>4, <1>6, <2>1, WhereIs
<1>8. Pc(s) \in Ends \cup Inside
  BY <1>1, <1>7 DEF Placed
<1>9. CASE x = p
  <2>1. Pc(s) # "phase" /\ Pc(s) \notin {"delete", "repEnd"}
    BY <1>1, <1>9, WhereIs, <1>2, <1>3, <1>6 DEF Placed
  <2>2. ~BeforeSize(Pc(s))
    BY <1>1, <1>9, LeftIs, <1>3, <1>6
  <2> QED
    BY <1>8, <2>1, <2>2 DEF BeforeSize, Ends
<1>10. CASE x # "finish" /\ Start(x) + LengthOf(x) <= Start(p)
  <2>1. LengthOf(x) \in Nat /\ Start(x) \in Nat
    BY <1>1, <1>10, StartsGrow, StartIs
  <2>2. Place(s) <= Start(x) + LengthOf(x)
    BY <1>1, <1>10, <1>8, <2>1, WhereIs DEF Placed, Ends
  <2> QED
    BY <1>1, <1>3, <1>6, <1>10, <2>1, <2>2
<1>11. CASE Start(x) >= Start(p) + LengthOf(p) /\ Before(x) >= Before(p) + Bit(Wanted(p))
  <2>1. Before(x) > 0
    BY <1>1, <1>2, BeforeIs, <1>11 DEF Bit
  <2>2. Place(r) = i + 1 /\ LengthOf(p) = Shut(p) + Bit(p = "write") + 2
    <3>1. PlaceAt(r, Pc(r), p, st[r].pairCnt, Keeps(r), Place(r))
      BY PlacesAre
    <3>2. Place(r) = Start(p) + (Shut(p) + Bit(p = "write") + 2)
      BY <3>1 DEF PlaceAt
    <3>3. LengthOf(p) = Shut(p) + Rest(p)
      BY <1>1, <1>2, LengthIs
    <3>4. Rest(p) = Bit(p = "write") + 2
      BY <1>2 DEF Rest, Bit
    <3> QED
      BY <1>3, <3>2, <3>3, <3>4
  <2>3. Pc(s) \notin Past
    <3> SUFFICES ASSUME Pc(s) \in Past PROVE FALSE
      OBVIOUS
    <3>1. Pc(s) \in Inside /\ Pc(s) # "repEnd"
      BY DEF Past, Inside
    <3>2. x # "finish" /\ Wanted(x)
      BY <1>1, <3>1 DEF Placed
    <3>3. Script(Start(x) + 1) = "Barrier" /\ Start(x) + 1 \in Nat \ {0} /\ Start(x) \in Nat
      BY <1>1, <3>2, BarriersAre
    <3>4. LeftIn(s) >= Start(x) + 1
      BY <1>1, LeftIs
    <3>5. Place(r) >= Start(x) + 1
      BY <1>1, <3>3, <3>4, LeftIs, <1>7, <3>1, Behind
    <3> QED
      BY <1>1, <1>3, <1>11, <2>2, <3>3, <3>5
  <2> QED
    BY <1>8, <2>1, <2>3 DEF Past, Ends, Idle
<1> QED
  BY <1>1, <1>2, <1>9, <1>10, <1>11, PhasesFollow

-----------------------------------------------------------------------------
(* What the files hold                                                       *)

\* What depends on the test alone.
LEMMA FilesLast ==
    ASSUME test' = test
    PROVE  /\ N' = N /\ Members' = Members /\ XfersPerTask' = XfersPerTask
           /\ FileXfers' = FileXfers /\ FileOffsets' = FileOffsets
           /\ Sequential' = Sequential /\ Reorders' = Reorders /\ SignsItsOwn' = SignsItsOwn
           /\ \A p : Before(p)' = Before(p)
           /\ \A t, k : OffsetOf(t, k)' = OffsetOf(t, k)
           /\ \A t, o, k : FileName(t, o, k)' = FileName(t, o, k)
           /\ \A n, o : OwnerIn(n, o)' = OwnerIn(n, o)
<1>1. N' = N /\ Members' = Members /\ XfersPerTask' = XfersPerTask
  BY Lasting
<1>2. FileXfers' = FileXfers /\ FileOffsets' = FileOffsets
  BY <1>1 DEF FileXfers, FileOffsets
<1>3. Sequential' = Sequential /\ Reorders' = Reorders /\ SignsItsOwn' = SignsItsOwn
  BY DEF Sequential, Reorders, SignsItsOwn
<1>4. \A p : Before(p)' = Before(p)
  BY DEF Wanted, Before
<1>5. \A t, k : OffsetOf(t, k)' = OffsetOf(t, k)
  BY <1>1, Zenon DEF OffsetOf
<1>6. \A t, o, k : FileName(t, o, k)' = FileName(t, o, k)
  BY <1>1, Zenon DEF FileName, PretendRank
<1>7. \A n, o : OwnerIn(n, o)' = OwnerIn(n, o)
  BY <1>1, Zenon DEF OwnerIn
<1> QED
  BY <1>1, <1>2, <1>3, <1>4, <1>5, <1>6, <1>7

\* A task that does not move.
LEMMA FilesOfRest ==
    ASSUME NEW q, test' = test, st'[q] = st[q]
    PROVE  /\ Pc(q)' = Pc(q) /\ Holds(q)' = Holds(q)
           /\ Names(q)' = Names(q) /\ Buffers(q)' = Buffers(q) /\ Counts(q)' = Counts(q)
           /\ \A n, o : Owes(q, n, o)' = Owes(q, n, o)
<1>1. Pc(q)' = Pc(q) /\ Phase(q)' = Phase(q) /\ Rep(q)' = Rep(q)
  BY DEF Pc, Phase, Rep
<1>2. Holds(q)' = Holds(q)
  BY <1>1, Zenon DEF Holds
<1>3. Names(q)' = Names(q)
  BY FilesLast, <1>1 DEF Names, FileName, PretendRank
<1>4. Buffers(q)' = Buffers(q)
  <2>1. Signs(q)' = Signs(q)
    BY FilesLast, <1>1 DEF Signs
  <2> QED
    BY <2>1, Zenon DEF Buffers
<1>5. Counts(q)' = Counts(q)
  BY <1>1, <1>2, FilesLast, Zenon DEF Counts
<1>6. \A n, o : Owes(q, n, o)' = Owes(q, n, o)
  BY <1>1, <1>2, FilesLast, Zenon DEF Owes
<1> QED
  BY <1>1, <1>2, <1>3, <1>4, <1>5, <1>6

LEMMA FilesThen ==
    ASSUME FInv, NEW r, test' = test, \A q \in Members \ {r} : st'[q] = st[q] /\ HasFile(q)',
           r \in Members => HasFile(r)' /\ Names(r)' /\ Buffers(r)' /\ Counts(r)',
           Directory', Whole', Signed', wire'.stamp \in Int, ~test.faultyStorage => faults' = 0
    PROVE  FInv'
<1>1. Members' = Members
  BY FilesLast
<1>2. \A t \in Members : HasFile(t)' /\ Names(t)' /\ Buffers(t)' /\ Counts(t)'
  <2> SUFFICES ASSUME NEW t \in Members PROVE HasFile(t)' /\ Names(t)' /\ Buffers(t)' /\ Counts(t)'
    OBVIOUS
  <2>1. CASE t = r
    BY <2>1
  <2>2. CASE t # r
    BY <2>2, FilesOfRest DEF FInv
  <2> QED
    BY <2>1, <2>2
<1> QED
  BY <1>1, <1>2, Zenon DEF FInv

-----------------------------------------------------------------------------
(* Steps that carry a task's file on                                         *)

LEMMA FilesRest ==
    ASSUME FInv, test' = test, Fewer,
           \A t \in Members : \A n \in DOMAIN dir' : \A o \in FileOffsets : Owes(t, n, o) => Owes(t, n, o)'
    PROVE  Directory' /\ Whole' /\ Signed'
<1>1. Directory /\ Whole /\ Signed
  BY DEF FInv
<1>2. FileOffsets' = FileOffsets /\ Members' = Members /\ (SignsItsOwn' <=> SignsItsOwn)
      /\ \A n, o : OwnerIn(n, o)' = OwnerIn(n, o)
  BY FilesLast
<1>3. Directory'
  BY <1>1, <1>2 DEF Directory, Fewer, Cells
<1>4. Whole'
  <2> SUFFICES ASSUME NEW n \in DOMAIN dir', NEW o \in FileOffsets
               PROVE  disk'[dir'[n]][o] # Hole \/ \E t \in Members : Owes(t, n, o)'
    BY <1>2, Zenon DEF Whole, Hole
  <2>1. n \in DOMAIN dir /\ dir'[n] = dir[n] /\ disk' = disk
    BY DEF Fewer
  <2>2. disk[dir[n]][o] # Hole \/ \E t \in Members : Owes(t, n, o)
    BY <1>1, <2>1 DEF Whole
  <2> QED
    BY <2>1, <2>2
<1>5. Signed'
  <2> SUFFICES ASSUME SignsItsOwn, ~test.faultyStorage, NEW n \in DOMAIN dir', NEW o \in FileOffsets,
                      disk'[dir'[n]][o] # Hole
               PROVE  disk'[dir'[n]][o].task = OwnerIn(n, o)
    BY <1>2, Zenon DEF Signed, Hole
  <2>1. n \in DOMAIN dir /\ dir'[n] = dir[n] /\ disk' = disk
    BY DEF Fewer
  <2> QED
    BY <1>1, <2>1 DEF Signed
<1> QED
  BY <1>3, <1>4, <1>5

LEMMA NamesGoOn ==
    ASSUME Given, NEW r \in Members, test' = test, Leads(r), Carries(r), Names(r)
    PROVE  Names(r)'
<1>1. Members' = Members /\ N' = N /\ (Reorders' <=> Reorders) /\ 0 \in Members
  BY FilesLast, MembersAre
<1>2. st'[r].rankOffset \in Members
  BY <1>1 DEF Carries, Names
<1>3. Phase(r)' = "write" \/ Pc(r)' \in Outside \/ ~Reorders => st'[r].rankOffset = 0
  BY Zenon DEF Leads, Carries, Names
<1>4. Pc(r)' \in Inside \ {"gate"} =>
          /\ st'[r].name = FileName(r, st[r].rankOffset, Rep(r))
          /\ st'[r].rankOffset = st[r].rankOffset /\ Rep(r)' = Rep(r)
  BY DEF Leads, Carries, Names
<1>5. Pc(r)' \in Inside \ {"gate"} => st'[r].name = FileName(r, st[r].rankOffset, Rep(r))'
  BY <1>1, <1>4 DEF FileName, PretendRank
<1>6. Pc(r)' \in {"rep", "stamp"} /\ Rep(r)' = 0 => Phase(r)' = "write"
  BY Zenon DEF Leads
<1> QED
  BY <1>1, <1>2, <1>3, <1>5, <1>6 DEF Names

LEMMA BuffersGoOn ==
    ASSUME NEW r, test' = test, Buffers(r), st'[r].buffer = st[r].buffer, st'[r].stamp \in Int,
           test.repetitions = 1 /\ Phase(r)' = "write" => Phase(r) = "write"
    PROVE  Buffers(r)'
  BY FilesLast DEF Signs, Buffers, Cells, Hole

LEMMA CountsGoOn ==
    ASSUME Given, NEW r, test' = test, Leads(r), Carries(r), Counts(r)
    PROVE  Counts(r)'
<1>1. XfersPerTask' = XfersPerTask /\ XfersPerTask \in Nat /\ Before(st'[r].phase) = Before(Phase(r))'
  <2>1. XfersPerTask' = XfersPerTask /\ XfersPerTask \in Nat
    BY FilesLast, ParamsAre
  <2>2. PICK p : p = st'[r].phase
    OBVIOUS
  <2>3. Before(p)' = Before(p) /\ Phase(r)' = p
    BY <2>2, FilesLast DEF Phase
  <2>4. Before(p)' = Before(Phase(r))'
    BY <2>3, Zenon DEF Before, Bit, Wanted
  <2> QED
    BY <2>1, <2>2, <2>3, <2>4
<1>2. Holds(r)' => st'[r].moved = st'[r].pairCnt /\ st'[r].pairCnt \in 0 .. XfersPerTask
  BY Zenon DEF Leads, Carries, Counts
<1>3. Finished(r) => st[r].moved = XfersPerTask
  BY <1>1 DEF Finished, Counts
<1>4. Pc(r)' \in MovedOut \/ (Pc(r)' \in Idle /\ Before(st'[r].phase) > 0) => st'[r].moved = XfersPerTask
  BY <1>3, Zenon DEF Leads, Carries, Counts
<1>5. Pc(r)' # "size"
  BY Zenon DEF Leads
<1> QED
  BY <1>1, <1>2, <1>4, <1>5, Zenon DEF Counts

LEMMA OwesGoOn ==
    ASSUME Given, NEW r, test' = test, Leads(r), Carries(r), Counts(r), NEW n, NEW o, Owes(r, n, o)
    PROVE  Owes(r, n, o)'
<1>1. XfersPerTask' = XfersPerTask /\ XfersPerTask \in Nat /\ \A t, k : OffsetOf(t, k)' = OffsetOf(t, k)
  BY FilesLast, ParamsAre
<1> DEFINE from == IF Holds(r) THEN st[r].pairCnt ELSE 0
<1>2. PICK k \in from .. XfersPerTask - 1 : OffsetOf(r, k) = o
  BY DEF Owes
<1>3. Holds(r) => st[r].pairCnt \in Nat
  BY DEF Counts
<1>4. ~Finished(r)
  BY <1>1, <1>2, <1>3 DEF Finished
<1>5. Phase(r)' = "write" /\ Pc(r)' \in Writing /\ st'[r].name = n
  BY <1>4, Zenon DEF Leads, Carries, Owes
<1>6. k \in (IF Holds(r)' THEN st'[r].pairCnt ELSE 0) .. XfersPerTask - 1
  BY <1>1, <1>2, <1>3 DEF Leads
<1>7. \E j \in (IF Holds(r)' THEN st'[r].pairCnt ELSE 0) .. XfersPerTask - 1 : OffsetOf(r, j)' = o
  BY <1>1, <1>2, <1>6
<1> QED
  BY <1>1, <1>5, <1>7, Zenon DEF Owes

LEMMA FilesGoOn ==
    ASSUME FInv, Given, NEW r \in Members, Went(r), \A q \in Members \ {r} : st'[q] = st[q],
           Leads(r), Carries(r), Fewer, wire'.stamp \in Int, faults' = faults,
           \A t \in Members : Holds(t) \/ Pc(t) \in MovedOut => st[t].name \in DOMAIN dir'
    PROVE  FInv'
<1>1. test' = test /\ HasFile(r) /\ Names(r) /\ Buffers(r) /\ Counts(r)
  BY DEF FInv, Went
<1>2. HasFile(r)'
  <2>1. Holds(r)' \/ Pc(r)' \in MovedOut => Holds(r) \/ Pc(r) \in MovedOut
    BY Zenon DEF Leads, Finished
  <2>2. Holds(r)' => Holds(r) /\ st'[r].fd = st[r].fd /\ st'[r].name = st[r].name
    BY Zenon DEF Leads, Carries
  <2>3. st'[r].name = st[r].name
    BY Zenon DEF Carries
  <2> QED
    BY <1>1, <2>1, <2>2, <2>3 DEF HasFile, Fewer
<1>3. Names(r)' /\ Buffers(r)' /\ Counts(r)'
  BY <1>1, NamesGoOn, BuffersGoOn, CountsGoOn DEF Leads, Carries
<1>4. \A q \in Members \ {r} : st'[q] = st[q] /\ HasFile(q)'
  <2> SUFFICES ASSUME NEW q \in Members \ {r} PROVE HasFile(q)'
    OBVIOUS
  <2>1. Holds(q)' = Holds(q) /\ Pc(q)' = Pc(q) /\ st'[q] = st[q]
    BY <1>1, FilesOfRest
  <2>2. HasFile(q)
    BY DEF FInv
  <2> QED
    BY <2>1, <2>2 DEF HasFile, Fewer
<1>5. \A t \in Members : \A n \in DOMAIN dir' : \A o \in FileOffsets : Owes(t, n, o) => Owes(t, n, o)'
  <2> SUFFICES ASSUME NEW t \in Members, NEW n \in DOMAIN dir', NEW o \in FileOffsets, Owes(t, n, o)
               PROVE  Owes(t, n, o)'
    OBVIOUS
  <2>1. CASE t = r
    BY <1>1, <2>1, OwesGoOn
  <2>2. CASE t # r
    BY <1>1, <2>2, FilesOfRest
  <2> QED
    BY <2>1, <2>2
<1>6. Directory' /\ Whole' /\ Signed'
  BY <1>1, <1>5, FilesRest
<1> QED
  BY <1>1, <1>2, <1>3, <1>4, <1>6, FilesThen DEF FInv

\* r makes a step that does not lead to a new file, or from one task's file to another's.
LEMMA GoesOnLeads ==
    ASSUME Given, NEW r, Placed(r), GoesOn(r), ~test.randomOffset, Names(r),
           LoopOn(r) => Finished(r), ~GateOn(r), Pc(r) # "stat",
           Pc(r) = "phase" => Phase(r) \notin {"write", "read"}
    PROVE  Leads(r)
<1>1. /\ Pc(r)' = NewPc(r) /\ Phase(r)' = Phase(r) /\ Rep(r)' = Rep(r) /\ test' = test
      /\ st'[r].pairCnt = st[r].pairCnt /\ st'[r].phase = Phase(r)
  BY NewIs, FixedIs DEF GoesOn
<1>2. Onto(r)
  BY DEF GoesOn
<1>3. Pc(r) \notin {"deal", "seed"}
  BY DEF Placed
<1>4. \A p : First(p) \in {"opened", "xfer"} /\ After(p) \in {"xfered", "close"}
  BY DEF First, After
<1>5. Pc(r) \in {"rep", "stamp"} /\ Rep(r) = 0 => Phase(r) = "write"
  BY Zenon DEF Names
<1> DEFINE pc == Pc(r)
           to == NewPc(r)
\* To another step from one where the file is treated alike.
<1>6. ASSUME \/ pc = "rep" /\ to \in {"stamp", "commFree"}
             \/ pc = "commFree" /\ to = "world"
             \/ pc = "world" /\ to = "done"
      PROVE  Leads(r)
  BY <1>1, <1>5, <1>6 DEF Leads, Holds, Moving, MovedOut, Outside, Inside, Idle, Writing
<1>7. ASSUME pc \in Idle /\ to \in Idle, pc \notin {"hist", "ready", "gate"}, to \notin {"hist", "ready"}
      PROVE  Leads(r)
  BY <1>1, <1>7 DEF Leads, Holds, Moving, MovedOut, Outside, Inside, Idle, Writing
<1>8. ASSUME pc = "hist" /\ to = "ready" PROVE Leads(r)
  BY <1>1, <1>8 DEF Leads, Holds, Moving, MovedOut, Outside, Inside, Idle, Writing
<1>9. ASSUME pc = "ready" /\ (to = "open" \/ (to = "striped" /\ r # 0)) PROVE Leads(r)
  BY <1>1, <1>9 DEF Leads, Holds, Moving, MovedOut, Outside, Inside, Idle, Writing
<1>10. ASSUME pc = "striped" /\ (IF r = 0 THEN to \in {"opened", "xfer"} ELSE to = "open") PROVE Leads(r)
  BY <1>1, <1>10 DEF Leads, Holds, Moving, MovedOut, Outside, Inside, Idle, Writing
<1>11. ASSUME pc \in Moving, to \in Moving, Phase(r) = "write" => to \in Writing PROVE Leads(r)
  BY <1>1, <1>11 DEF Leads, Holds, Moving, MovedOut, Outside, Inside, Idle, Writing
<1>12. ASSUME pc = "xfer", to \in MovedOut, to # "size", Finished(r) PROVE Leads(r)
  BY <1>1, <1>12 DEF Leads, Holds, Moving, MovedOut, Outside, Inside, Idle, Writing
<1>13. ASSUME pc \in MovedOut, to \in MovedOut, to # "size" PROVE Leads(r)
  BY <1>1, <1>13 DEF Leads, Holds, Moving, MovedOut, Outside, Inside, Idle, Writing
<1>14. CASE BeginOn(r)
  BY <1>6, <1>14 DEF BeginOn
<1>15. CASE EnterOn(r)
  BY <1>7, <1>15 DEF EnterOn, Idle
<1>16. CASE ReadyOn(r)
  BY <1>9, <1>16 DEF ReadyOn
<1>17. CASE StripedOn(r)
  BY <1>4, <1>10, <1>17 DEF StripedOn
<1>18. CASE OpenedOn(r)
  BY <1>11, <1>18 DEF OpenedOn, Moving, Writing
<1>19. CASE RereadOn(r)
  BY <1>11, <1>19 DEF RereadOn, Moving
<1>20. CASE LoopOn(r)
  BY <1>4, <1>12, <1>20 DEF LoopOn, MovedOut
<1>21. CASE ReduceOn(r)
  BY <1>13, <1>21 DEF ReduceOn, MovedOut
<1>22. CASE CloseOn(r)
  BY <1>13, <1>22 DEF CloseOn, MovedOut
<1>23. CASE FinishOn(r)
  BY <1>7, <1>23 DEF FinishOn, Idle
<1>24. CASE PlainOn(r)
  <2>1. \/ pc = "hist" /\ to = "ready"
        \/ pc = "rc1" /\ to = "rc2"
        \/ pc = "rc2" /\ to = "rc3"
        \/ pc = "xfered" /\ to = "close"
        \/ pc = "closed" /\ to = "stat"
        \/ pc = "size" /\ to = "times"
        \/ pc = "delete" /\ to = "repEnd"
        \/ pc = "commFree" /\ to = "world"
        \/ pc = "world" /\ to = "done"
    BY <1>3, <1>24, PlainIs
  <2>2. pc \in {"rc1", "rc2"} => Phase(r) = "readcheck"
    BY DEF Placed
  <2> QED
    BY <2>1, <2>2, <1>6, <1>7, <1>8, <1>11, <1>13 DEF Idle, Moving, MovedOut
<1> QED
  BY <1>2, <1>14, <1>15, <1>16, <1>17, <1>18, <1>19, <1>20, <1>21, <1>22, <1>23, <1>24 DEF Onto

LEMMA TurnsLeads ==
    ASSUME Given, NEW r, Placed(r), Turns(r), Names(r)
    PROVE  Leads(r)
<1>1. /\ Pc(r)' = "phase" /\ Phase(r)' = st'[r].phase /\ test' = test /\ Phase(r) \in Phases
  BY NewIs DEF Turns, Placed
<1>2. CASE Pc(r) = "stamp" /\ st'[r].phase = "write"
  <2>1. Before(st'[r].phase) = 0
    BY <1>2, BeforeIs
  <2>2. test.repetitions = 1 => Phase(r) = "write"
    BY <1>2 DEF Placed, Names
  <2> QED
    BY <1>1, <1>2, <2>1, <2>2 DEF Leads, Holds, Moving, MovedOut, Outside, Inside, Idle, Writing
<1>3. CASE /\ \/ Pc(r) = "phase" /\ ~Wanted(Phase(r))
              \/ Pc(r) = "close" /\ Phase(r) \in {"writecheck", "readcheck"}
              \/ Pc(r) = "times"
           /\ Phase(r) # "finish" /\ st'[r].phase = Following[Phase(r)]
  <2>1. st'[r].phase # "write"
    BY <1>1, <1>3 DEF Phases, Following
  <2>2. Pc(r) = "phase" => Before(st'[r].phase) = Before(Phase(r)) + 0 /\ Before(Phase(r)) \in Nat
    BY <1>1, <1>3, BeforeIs DEF Bit
  <2> QED
    BY <1>1, <1>3, <2>1, <2>2 DEF Leads, Holds, Moving, MovedOut, Outside, Inside, Idle, Writing
<1> QED
  BY <1>2, <1>3 DEF Turns

LEMMA CountLeads ==
    ASSUME NEW r, AddsUp(r) \/ Learns(r) \/ Repeats(r), Placed(r)
    PROVE  Leads(r)
<1>1. Pc(r)' = NewPc(r) /\ Phase(r)' = st'[r].phase /\ Rep(r)' = st'[r].rep
  BY NewIs DEF AddsUp, Learns, Repeats
<1>2. st'[r].phase = Phase(r)
  BY DEF AddsUp, Learns, Repeats, Fixed, Control, Phase
<1>3. CASE AddsUp(r)
  <2>1. st'[r].rep = Rep(r)
    BY <1>3 DEF AddsUp, Fixed, Control, Rep
  <2> QED
    BY <1>1, <1>2, <1>3, <2>1 DEF AddsUp, Leads, Holds, Moving, MovedOut, Outside, Inside, Idle, Writing
<1>4. CASE Learns(r)
  <2>1. st'[r].rep = Rep(r) /\ NewPc(r) \in {"xfered", "close"}
    BY <1>4 DEF Learns, Fixed, Control, Rep, After
  <2> QED
    BY <1>1, <1>2, <1>4, <2>1 DEF Learns, Leads, Holds, Moving, MovedOut, Outside, Inside, Idle, Writing
<1>5. CASE Repeats(r)
  <2>1. Rep(r)' # 0 /\ Phase(r) = "finish"
    BY <1>1, <1>5 DEF Repeats, Placed
  <2> QED
    BY <1>1, <1>2, <1>5, <2>1 DEF Repeats, Leads, Holds, Moving, MovedOut, Outside, Inside, Idle, Writing
<1> QED
  BY <1>3, <1>4, <1>5

-----------------------------------------------------------------------------
(* The steps that leave the files as they are                                *)

LEMMA FKnows ==
    ASSUME IInv, FInv, Sequential, NEW r \in Members
    PROVE  FKnown(r)
  BY MembersKnow DEF Known, FKnown, FInv, Sequential

LEMMA DataIs ==
    ASSUME NEW r, Known(r), NEW rec, NEW label, Go(r, rec, label), DOMAIN rec = Fields
    PROVE  \A f \in Fields \ {"pc"} : st'[r][f] = rec[f]
<1>1. st' = [st EXCEPT ![r] = [rec EXCEPT !.pc = label]]
  BY Zenon DEF Go
<1>2. r \in DOMAIN st
  BY DEF Known, Shape
<1>3. st'[r] = [rec EXCEPT !.pc = label]
  BY <1>1, <1>2
<1> QED
  BY <1>3

\* A step that only looks at the control fields.
LEMMA QuietKeeps ==
    ASSUME FInv, NEW r, FKnown(r), NEW rec, NEW label, Go(r, rec, label), DOMAIN rec = Fields,
           \A f \in Data : rec[f] = st[r][f], Pc(r) # "repEnd", Went(r), Leads(r),
           dir' = dir, disk' = disk, wire'.stamp \in Int, faults' = faults
    PROVE  FInv'
<1>1. Data \subseteq Fields \ {"pc"}
  BY DEF Data, Fields
<1>2. \A f \in Data : st'[r][f] = st[r][f]
  BY DataIs, <1>1 DEF FKnown
<1>3. Carries(r)
  BY <1>2 DEF Carries, FKnown, Buffers, Data
<1>4. Fewer
  BY Zenon DEF Fewer
<1>5. \A q \in Members \ {r} : st'[q] = st[q]
  <2>1. Members \subseteq World
    BY MembersAre DEF FKnown
  <2> QED
    BY <2>1 DEF Went
<1>6. \A t \in Members : Holds(t) \/ Pc(t) \in MovedOut => st[t].name \in DOMAIN dir'
  BY DEF FInv, HasFile
<1> QED
  BY <1>3, <1>4, <1>5, <1>6, FilesGoOn DEF FKnown

LEMMA FilesOnly ==
    ASSUME OnlyTasks, FInv
    PROVE  dir' = dir /\ disk' = disk /\ wire'.stamp \in Int /\ faults' = faults
  BY DEF OnlyTasks, FInv

LEMMA QuietIsData ==
    ASSUME NEW r, FKnown(r)
    PROVE  DOMAIN st[r] = Fields /\ \A f \in Data : st[r][f] = st[r][f]
  BY DEF FKnown, Known, Shape

LEMMA PassOnFiles ==
    ASSUME FInv, NEW r, FKnown(r), PassOn(r)
    PROVE  FInv'
<1>1. GoesOn(r) /\ Went(r)
  BY PassOnMoves DEF FKnown, GoesOn
<1>2. PICK label \in DOMAIN Onward : Leaving(r, label) /\ Go(r, st[r], Onward[label]) /\ OnlyTasks
  BY Zenon DEF PassOn
<1>3. Pc(r) = label /\ label \in {"hist", "opened", "rc2", "xfered", "closed", "size", "commFree", "world"}
  BY <1>2, LeavesKind DEF Onward
<1>4. Leads(r)
  BY <1>3, <1>1, GoesOnLeads DEF LoopOn, GateOn, FKnown
<1>5. Pc(r) # "repEnd"
  BY <1>3
<1> QED
  BY <1>1, <1>2, <1>4, <1>5, QuietKeeps, QuietIsData, FilesOnly

LEMMA BeginRepFiles ==
    ASSUME FInv, NEW r, FKnown(r), BeginRep(r)
    PROVE  FInv'
<1>1. GoesOn(r) /\ Went(r)
  BY BeginRepMoves DEF FKnown, GoesOn
<1>2. Pc(r) = "rep"
  BY DEF BeginRep, At, Pc
<1>3. Leads(r)
  BY <1>2, <1>1, GoesOnLeads DEF LoopOn, GateOn, FKnown
<1>4. wire'.stamp \in Int
  <2>1. DOMAIN wire = {"stamp", "sum", "seed"} /\ wire.stamp \in Int /\ st[r].rep \in Nat
    BY KnownIs DEF FInv, FKnown, Placed, Rep
  <2>2. test.setTimeStampSignature \in Int
    BY TestsAssumption DEF FKnown, Given, ParamsTyped, IntParams
  <2>3. StampOf(st[r].rep) \in Int
    BY <2>1, <2>2 DEF StampOf
  <2> QED
    BY <2>1, <2>3 DEF BeginRep
<1>5. dir' = dir /\ disk' = disk /\ faults' = faults
  BY DEF BeginRep
<1>6. \E label : Go(r, st[r], label)
  BY Zenon DEF BeginRep
<1>7. Pc(r) # "repEnd"
  BY <1>2
<1> QED
  BY <1>1, <1>3, <1>4, <1>5, <1>6, <1>7, QuietKeeps, QuietIsData

LEMMA SkipPhaseFiles ==
    ASSUME FInv, NEW r, FKnown(r), SkipPhase(r)
    PROVE  FInv'
<1>1. Turns(r) /\ Went(r)
  BY SkipPhaseMoves DEF FKnown, Turns
<1>2. Leads(r) /\ Pc(r) # "repEnd"
  BY <1>1, TurnsLeads DEF FKnown, SkipPhase, At, Pc
<1>3. DOMAIN st[r] = Fields
  BY QuietIsData
<1>4. PICK rec : Go(r, rec, "phase") /\ DOMAIN rec = Fields /\ \A f \in Data : rec[f] = st[r][f]
  <2>1. CASE Go(r, NextPhase(st[r]), "phase")
    BY <1>3, <2>1 DEF NextPhase, Data, Fields
  <2>2. CASE Go(r, NextPhase([st[r] EXCEPT !.elapsed = TRUE]), "phase")
    <3> DEFINE rec == NextPhase([st[r] EXCEPT !.elapsed = TRUE])
    <3>1. DOMAIN rec = Fields /\ \A f \in Data : rec[f] = st[r][f]
      BY <1>3 DEF NextPhase, Data, Fields
    <3> QED
      BY <2>2, <3>1
  <2> QED
    BY <2>1, <2>2, Zenon DEF SkipPhase
<1>5. OnlyTasks
  BY DEF SkipPhase
<1> QED
  BY <1>1, <1>2, <1>4, <1>5, QuietKeeps, FilesOnly

LEMMA StartCheckFiles ==
    ASSUME FInv, NEW r, FKnown(r), StartCheck(r)
    PROVE  FInv'
<1>1. GoesOn(r) /\ Went(r)
  BY StartCheckMoves DEF FKnown, GoesOn
<1>2. Pc(r) = "phase" /\ Phase(r) \in {"writecheck", "readcheck"}
  BY DEF StartCheck, Starting, At, Pc, Phase
<1>3. Leads(r)
  BY <1>2, <1>1, GoesOnLeads DEF LoopOn, GateOn, FKnown
<1>4. Go(r, st[r], "gate") /\ OnlyTasks /\ Pc(r) # "repEnd"
  BY <1>2 DEF StartCheck
<1> QED
  BY <1>1, <1>3, <1>4, QuietKeeps, QuietIsData, FilesOnly

LEMMA ReadyFiles ==
    ASSUME FInv, NEW r, FKnown(r), LeaveReady(r) \/ LeaveStriped(r)
    PROVE  FInv'
<1>1. GoesOn(r) /\ Went(r)
  BY LeaveReadyMoves, LeaveStripedMoves DEF FKnown, GoesOn
<1>2. Pc(r) \in {"ready", "striped"}
  BY DEF LeaveReady, LeaveStriped, Leaving, At, Pc
<1>3. Leads(r)
  BY <1>2, <1>1, GoesOnLeads DEF LoopOn, GateOn, FKnown
<1>4. OnlyTasks /\ \E label : Go(r, st[r], label)
  BY Zenon DEF LeaveReady, LeaveStriped
<1>5. Pc(r) # "repEnd"
  BY <1>2
<1> QED
  BY <1>1, <1>3, <1>4, <1>5, QuietKeeps, QuietIsData, FilesOnly

\* The job's end leaves everything where it is.
LEMMA FilesStill ==
    ASSUME FInv, UNCHANGED <<test, st, dir, disk, wire, faults>>
    PROVE  FInv'
<1>1. test' = test /\ st' = st /\ dir' = dir /\ disk' = disk /\ wire' = wire /\ faults' = faults
  OBVIOUS
<1>2. \A t \in Members : st'[t] = st[t] /\ HasFile(t)' /\ \A n, o : Owes(t, n, o) => Owes(t, n, o)'
  <2> SUFFICES ASSUME NEW t \in Members PROVE HasFile(t)' /\ \A n, o : Owes(t, n, o) => Owes(t, n, o)'
    BY <1>1
  <2>1. /\ Holds(t)' = Holds(t) /\ Pc(t)' = Pc(t) /\ st'[t] = st[t]
        /\ \A n, o : Owes(t, n, o)' = Owes(t, n, o)
    BY <1>1, FilesOfRest
  <2>2. HasFile(t)
    BY DEF FInv
  <2> QED
    BY <1>1, <2>1, <2>2 DEF HasFile
<1>3. Fewer
  BY <1>1, Zenon DEF Fewer
<1>4. Directory' /\ Whole' /\ Signed'
  BY <1>1, <1>2, <1>3, FilesRest
<1>5. PICK r : r \notin Members
  <2>1. PICK r : r \notin Members
    BY NoSetContainsEverything
  <2> QED
    BY <2>1
<1>6. \A q \in Members \ {r} : st'[q] = st[q] /\ HasFile(q)'
  BY <1>2
<1> QED
  BY <1>1, <1>4, <1>5, <1>6, FilesThen DEF FInv

LEMMA RereadFiles ==
    ASSUME FInv, NEW r, FKnown(r), Reread(r)
    PROVE  FInv'
<1> DEFINE inode == IF test.filePerProc THEN st[r].fdCheck ELSE st[r].fd
           off == RereadOffset(Offset(r))
           rec == [st[r] EXCEPT !.checkBuffer = disk[inode][off]]
<1>1. CASE Abort
  BY <1>1, FilesStill DEF Abort
<1>2. CASE Go(r, rec, "rc2") /\ OnlyTasks /\ ~Abort
  <2>1. Pc(r) = "rc1"
    BY DEF Reread, Leaving, At, Pc
  <2>2. GoesOn(r) /\ Went(r)
    <3>1. (GoesOn(r) \/ Stops)
      BY ReadCheckMoves DEF FKnown
    <3>2. ~Stops
      <4>1. Known(r) /\ DOMAIN st[r] = Fields /\ st' = [st EXCEPT ![r] = [rec EXCEPT !.pc = "rc2"]]
        BY <1>2, QuietIsData DEF FKnown, Go
      <4>2. r \in DOMAIN st /\ "pc" \in DOMAIN st[r]
        BY <4>1 DEF Known, Shape, Fields
      <4>3. st'[r].pc = "rc2"
        BY <4>1, <4>2
      <4> QED
        BY <2>1, <4>3 DEF Stops, Pc
    <3> QED
      BY <3>1, <3>2 DEF GoesOn
  <2>3. Leads(r)
    BY <2>1, <2>2, GoesOnLeads DEF LoopOn, GateOn, FKnown
  <2>4. DOMAIN rec = Fields /\ \A f \in Data : rec[f] = st[r][f]
    BY QuietIsData DEF Fields, Data
  <2>5. Pc(r) # "repEnd"
    BY <2>1
  <2> HIDE DEF rec
  <2> QED
    BY <1>2, <2>2, <2>3, <2>4, <2>5, QuietKeeps, FilesOnly
<1> QED
  BY <1>1, <1>2 DEF Reread

LEMMA EndXferFiles ==
    ASSUME FInv, NEW r, FKnown(r), EndXfer(r)
    PROVE  FInv'
<1>1. GoesOn(r) /\ Went(r)
  BY EndXferMoves DEF FKnown, GoesOn
<1>2. Pc(r) = "xfer" /\ OnlyTasks /\ \E label : Go(r, st[r], label)
  BY Zenon DEF EndXfer, At, Pc
<1>3. Finished(r)
  <2>1. ~MoreXfers(r)
    BY Zenon DEF EndXfer, FKnown
  <2>2. ~(st[r].pairCnt < XfersPerTask)
    BY <2>1 DEF MoreXfers, Offsets, FKnown
  <2>3. Holds(r) /\ st[r].pairCnt \in Nat /\ XfersPerTask \in Nat
    BY <1>2, ParamsAre DEF Holds, Moving, FKnown, Counts
  <2> QED
    BY <2>2, <2>3 DEF Finished
<1>4. Leads(r)
  BY <1>2, <1>1, <1>3, GoesOnLeads DEF GateOn, FKnown
<1>5. Pc(r) # "repEnd"
  BY <1>2
<1> QED
  BY <1>1, <1>2, <1>4, <1>5, QuietKeeps, QuietIsData, FilesOnly

LEMMA ReduceFiles ==
    ASSUME FInv, NEW r, FKnown(r), ReduceErrors(r)
    PROVE  FInv'
<1>1. (GoesOn(r) \/ AddsUp(r)) /\ Went(r)
  BY ReduceMoves DEF FKnown, GoesOn, AddsUp
<1>2. Pc(r) = "cntR" /\ Pc(r) # "repEnd" /\ dir' = dir /\ disk' = disk /\ faults' = faults /\ Go(r, st[r], "cntB")
  BY DEF ReduceErrors, Leaving, At, Pc
<1>3. Leads(r)
  BY <1>2, <1>1, GoesOnLeads, CountLeads DEF LoopOn, GateOn, FKnown
<1>4. wire'.stamp \in Int
  BY KnownIs DEF FInv, FKnown, ReduceErrors
<1> QED
  BY <1>1, <1>2, <1>3, <1>4, QuietKeeps, QuietIsData

LEMMA GotErrorsFiles ==
    ASSUME FInv, NEW r, FKnown(r), GotErrors(r)
    PROVE  FInv'
<1>1. Learns(r) /\ Went(r)
  BY GotErrorsMoves DEF FKnown, Learns
<1>2. Pc(r) # "repEnd" /\ OnlyTasks
  BY DEF GotErrors, Leaving, At, Pc
<1>3. Leads(r)
  BY <1>1, CountLeads DEF FKnown
<1> DEFINE rec == [st[r] EXCEPT !.totalErrorCount = AddErrors(r, wire.sum),
                                !.errorFound = @ \/ NotesError(r, wire.sum)]
<1>4. Go(r, rec, AfterCount(r))
  BY DEF GotErrors
<1>5. DOMAIN rec = Fields /\ \A f \in Data : rec[f] = st[r][f]
  BY QuietIsData DEF Fields, Data
<1> HIDE DEF rec
<1> QED
  BY <1>1, <1>2, <1>3, <1>4, <1>5, QuietKeeps, FilesOnly

LEMMA LeaveTimesFiles ==
    ASSUME FInv, NEW r, FKnown(r), LeaveTimes(r)
    PROVE  FInv'
<1>1. Turns(r) /\ Went(r)
  BY LeaveTimesMoves DEF FKnown, Turns
<1>2. Leads(r) /\ Pc(r) # "repEnd" /\ OnlyTasks
  BY <1>1, TurnsLeads DEF FKnown, LeaveTimes, Leaving, At, Pc
<1> DEFINE rec == NextPhase(st[r])
<1>3. Go(r, rec, "phase")
  BY DEF LeaveTimes
<1>4. DOMAIN rec = Fields /\ \A f \in Data : rec[f] = st[r][f]
  BY QuietIsData DEF NextPhase, Fields, Data
<1> HIDE DEF rec
<1> QED
  BY <1>1, <1>2, <1>3, <1>4, QuietKeeps, FilesOnly

LEMMA FinishFiles ==
    ASSUME FInv, NEW r, FKnown(r), FinishRep(r)
    PROVE  FInv'
<1>1. GoesOn(r) /\ Went(r)
  BY FinishMoves DEF FKnown, GoesOn
<1>2. Pc(r) = "phase" /\ Phase(r) = "finish"
  BY DEF FinishRep, At, Pc, Phase
<1>3. Leads(r)
  BY <1>2, <1>1, GoesOnLeads DEF LoopOn, GateOn, FKnown
<1>4. OnlyTasks /\ (\E label : Go(r, st[r], label)) /\ Pc(r) # "repEnd"
  BY <1>2, Zenon DEF FinishRep
<1> QED
  BY <1>1, <1>3, <1>4, QuietKeeps, QuietIsData, FilesOnly

\* A file is removed when everybody has come to the end of the repetition.
LEMMA DeleteFiles ==
    ASSUME IInv, FInv, NEW r, FKnown(r), DeleteFile(r)
    PROVE  FInv'
<1>1. GoesOn(r) /\ Went(r)
  BY FinishMoves DEF FKnown, GoesOn
<1>2. Pc(r) = "delete" /\ Go(r, st[r], "repEnd") /\ disk' = disk /\ wire' = wire /\ faults' = faults
  BY DEF DeleteFile, Leaving, At, Pc
<1>3. Leads(r)
  BY <1>2, <1>1, GoesOnLeads DEF LoopOn, GateOn, FKnown
<1>4. Carries(r)
  <2>1. \A f \in Fields \ {"pc"} : st'[r][f] = st[r][f]
    BY <1>2, DataIs, QuietIsData DEF FKnown
  <2>2. \A f \in Data : st'[r][f] = st[r][f]
    BY <2>1 DEF Data, Fields
  <2>3. Pc(r) # "repEnd"
    BY <1>2
  <2> QED
    BY <2>2, <2>3 DEF Carries, FKnown, Buffers, Data
<1>5. Fewer
  BY <1>2 DEF DeleteFile, RemoveFile, Fewer
<1>6. \A t \in Members : ~Holds(t) /\ Pc(t) \notin MovedOut
  <2> SUFFICES ASSUME NEW t \in Members PROVE ~Holds(t) /\ Pc(t) \notin MovedOut
    OBVIOUS
  <2>1. Pc(t) \in {"delete", "repEnd"}
    BY <1>1, <1>2, DeletesTogether DEF FKnown
  <2> QED
    BY <2>1 DEF Holds, Moving, MovedOut
<1>7. \A q \in Members \ {r} : st'[q] = st[q]
  BY <1>1, MembersAre DEF Went, FKnown
<1>8. wire'.stamp \in Int
  BY <1>2 DEF FInv
<1> QED
  BY <1>1, <1>2, <1>3, <1>4, <1>5, <1>6, <1>7, <1>8, FilesGoOn DEF FKnown

\* Steps that change a field of their own, and leave the files as they are.
LEMMA OwnKeeps ==
    ASSUME FInv, NEW r, FKnown(r), Went(r), Leads(r), Carries(r), OnlyTasks
    PROVE  FInv'
<1>1. Fewer
  BY Zenon DEF Fewer, OnlyTasks
<1>2. \A q \in Members \ {r} : st'[q] = st[q]
  <2>1. Members \subseteq World
    BY MembersAre DEF FKnown
  <2> QED
    BY <2>1 DEF Went
<1>3. \A t \in Members : Holds(t) \/ Pc(t) \in MovedOut => st[t].name \in DOMAIN dir'
  BY FilesOnly DEF FInv, HasFile
<1> QED
  BY <1>1, <1>2, <1>3, FilesOnly, FilesGoOn DEF FKnown

LEMMA GotStampFiles ==
    ASSUME FInv, NEW r, FKnown(r), GotStamp(r)
    PROVE  FInv'
<1>1. Turns(r) /\ Went(r) /\ NewPc(r) = "phase"
  BY GotStampMoves DEF FKnown, Turns
<1>2. Leads(r) /\ Pc(r) # "repEnd" /\ OnlyTasks
  BY <1>1, TurnsLeads DEF FKnown, GotStamp, Leaving, At, Pc
<1> DEFINE rec == [st[r] EXCEPT !.stamp = wire.stamp, !.phase = "write"]
<1>3. Go(r, rec, "phase")
  BY DEF GotStamp
<1>4. DOMAIN rec = Fields /\ rec.stamp = wire.stamp /\ \A f \in Data \ {"stamp"} : rec[f] = st[r][f]
  BY QuietIsData DEF Fields, Data
<1> HIDE DEF rec
<1>5. /\ \A f \in Data \ {"stamp"} : st'[r][f] = st[r][f]
      /\ st'[r].stamp = wire.stamp
  BY <1>3, <1>4, DataIs DEF FKnown, Data, Fields
<1>6. Carries(r)
  BY <1>2, <1>5 DEF Carries, FInv, Data
<1> QED
  BY <1>1, <1>2, <1>6, OwnKeeps

LEMMA CloseFiles ==
    ASSUME FInv, NEW r, FKnown(r), CloseFile(r)
    PROVE  FInv'
<1>1. (GoesOn(r) \/ Turns(r)) /\ Went(r)
  BY CloseMoves DEF FKnown, GoesOn, Turns
<1>2. Pc(r) = "close" /\ OnlyTasks /\ Phase(r) \in {"write", "writecheck", "read", "readcheck"}
  BY DEF CloseFile, At, Pc, FKnown, Placed, Inside, Phases
<1>3. Leads(r)
  BY <1>2, <1>1, GoesOnLeads, TurnsLeads DEF LoopOn, GateOn, FKnown
<1> DEFINE shut == [st[r] EXCEPT !.fd = 0, !.fdCheck = 0]
           rec == IF Phase(r) = "writecheck" THEN NextPhase([shut EXCEPT !.rankOffset = 0])
                  ELSE IF Phase(r) = "readcheck" THEN NextPhase(shut) ELSE shut
           label == AfterClose[Phase(r)]
<1>4. DOMAIN st[r] = Fields /\ shut.phase = Phase(r)
  BY QuietIsData DEF Fields, Phase
<1>5. Go(r, rec, label)
  BY <1>2, <1>4 DEF CloseFile
<1>6. /\ DOMAIN rec = Fields
      /\ \A f \in Data \ {"fd", "rankOffset"} : rec[f] = st[r][f]
      /\ rec.rankOffset = IF Phase(r) = "writecheck" THEN 0 ELSE st[r].rankOffset
  BY <1>2, <1>4 DEF NextPhase, Fields, Data
<1>7. label \in {"closed", "stat", "phase"} /\ (Phase(r) = "writecheck" => label = "phase")
  BY <1>2 DEF AfterClose
<1>8. Pc(r)' = label
  <2>1. st' = [st EXCEPT ![r] = [rec EXCEPT !.pc = label]]
    BY <1>5, Zenon DEF Go
  <2>2. r \in DOMAIN st /\ "pc" \in DOMAIN rec
    BY <1>6 DEF FKnown, Known, Shape, Fields
  <2> HIDE DEF rec, label
  <2> QED
    BY <2>1, <2>2 DEF Pc
<1> HIDE DEF rec, label
<1>9. /\ \A f \in Data \ {"fd", "rankOffset"} : st'[r][f] = st[r][f]
      /\ st'[r].rankOffset = IF Phase(r) = "writecheck" THEN 0 ELSE st[r].rankOffset
  BY <1>5, <1>6, DataIs DEF FKnown, Data, Fields
<1>10. ~Holds(r)' /\ (Phase(r) = "writecheck" => Pc(r)' \notin Inside)
  BY <1>7, <1>8 DEF Holds, Moving, Inside
<1>11. Carries(r)
  BY <1>2, <1>9, <1>10 DEF FKnown, Buffers, Data, Carries
<1> QED
  BY <1>1, <1>2, <1>3, <1>11, OwnKeeps

LEMMA EndRepFiles ==
    ASSUME FInv, NEW r, FKnown(r), EndRep(r)
    PROVE  FInv'
<1>1. Repeats(r) /\ Went(r) /\ NewPc(r) = "rep"
  BY EndRepMoves DEF FKnown, Repeats
<1>2. Leads(r) /\ OnlyTasks
  BY <1>1, CountLeads DEF FKnown, EndRep
<1> DEFINE rec == [st[r] EXCEPT !.errorFound = FALSE, !.rankOffset = 0, !.rep = @ + 1]
<1>3. Go(r, rec, "rep")
  BY DEF EndRep
<1>4. DOMAIN rec = Fields /\ rec.rankOffset = 0 /\ \A f \in Data \ {"rankOffset"} : rec[f] = st[r][f]
  BY QuietIsData DEF Fields, Data
<1> HIDE DEF rec
<1>5. /\ \A f \in Data \ {"rankOffset"} : st'[r][f] = st[r][f]
      /\ st'[r].rankOffset = 0
  BY <1>3, <1>4, DataIs DEF FKnown, Data, Fields
<1>6. Pc(r)' \notin Inside /\ ~Holds(r)'
  BY <1>1, NewIs DEF Inside, Holds, Moving
<1>7. Carries(r)
  BY <1>5, <1>6 DEF FKnown, Buffers, Data, Carries
<1> QED
  BY <1>1, <1>2, <1>7, OwnKeeps

-----------------------------------------------------------------------------
(* The steps that name the file of a phase                                   *)

LEMMA NamedKeeps ==
    ASSUME FInv, NEW r, FKnown(r), Went(r), Fixed(r, {}),
           Pc(r) \in {"phase", "gate"}, NewPc(r) \in {"hist", "ready", "open"},
           NEW o \in Members, NewName(r, o), Phase(r) = "write" \/ ~Reorders => o = 0,
           Fewer, wire' = wire, faults' = faults,
           \A t \in Members : Holds(t) \/ Pc(t) \in MovedOut => st[t].name \in DOMAIN dir'
    PROVE  FInv'
<1>1. /\ Pc(r)' = NewPc(r) /\ Phase(r)' = Phase(r) /\ Rep(r)' = Rep(r) /\ test' = test
      /\ st'[r].phase = Phase(r)
  BY NewIs, FixedIs
<1>2. ~Holds(r)' /\ Pc(r)' \notin MovedOut /\ Pc(r)' \notin Outside /\ Pc(r)' \notin {"size", "rep", "stamp"}
  BY <1>1 DEF Holds, Moving, MovedOut, Outside
<1>3. HasFile(r)'
  BY <1>2, Zenon DEF HasFile
<1>4. Members' = Members /\ N' = N /\ (Reorders' <=> Reorders) /\ XfersPerTask' = XfersPerTask
      /\ \A p : Before(p)' = Before(p)
  BY <1>1, FilesLast
<1>5. Names(r)'
  <2>1. st'[r].name = FileName(r, st'[r].rankOffset, Rep(r))
    BY DEF NewName
  <2>2. st'[r].name = FileName(r, st[r].rankOffset, Rep(r))'
    BY <1>1, <1>4, <2>1 DEF FileName, PretendRank
  <2>3. st'[r].rankOffset = o
    BY DEF NewName
  <2> QED
    BY <1>1, <1>2, <1>4, <2>2, <2>3 DEF Names
<1>6. Buffers(r)'
  BY <1>1, BuffersGoOn DEF FKnown, Buffers, NewName
<1>7. Counts(r)'
  <2>1. Before(Phase(r))' = Before(Phase(r))
    <3>1. PICK p : p = Phase(r)
      OBVIOUS
    <3>2. Before(p)' = Before(p) /\ Phase(r)' = p
      BY <1>1, <1>4, <3>1
    <3>3. Before(Phase(r))' = Before(p)'
      BY <3>2, Zenon DEF Before, Bit, Wanted
    <3> QED
      BY <3>1, <3>2, <3>3
  <2>2. st'[r].moved = st[r].moved /\ Counts(r) /\ Pc(r) \in Idle
    BY DEF NewName, FKnown, Idle
  <2> QED
    BY <1>2, <1>4, <2>1, <2>2, Zenon DEF Counts
<1>8. \A q \in Members \ {r} : st'[q] = st[q] /\ HasFile(q)'
  <2> SUFFICES ASSUME NEW q \in Members \ {r} PROVE st'[q] = st[q] /\ HasFile(q)'
    OBVIOUS
  <2>1. st'[q] = st[q]
    BY MembersAre DEF Went, FKnown
  <2>2. Holds(q)' = Holds(q) /\ Pc(q)' = Pc(q)
    BY <1>1, <2>1, FilesOfRest
  <2>3. HasFile(q)
    BY DEF FInv
  <2> QED
    BY <2>1, <2>2, <2>3 DEF HasFile, Fewer
<1>9. \A t \in Members : \A n \in DOMAIN dir' : \A p \in FileOffsets : Owes(t, n, p) => Owes(t, n, p)'
  <2> SUFFICES ASSUME NEW t \in Members, NEW n \in DOMAIN dir', NEW p \in FileOffsets, Owes(t, n, p)
               PROVE  Owes(t, n, p)'
    OBVIOUS
  <2>1. t # r
    BY DEF Writing, Owes
  <2> QED
    BY <1>1, <1>8, <2>1, FilesOfRest
<1>10. Directory' /\ Whole' /\ Signed'
  BY <1>1, <1>9, FilesRest
<1>11. wire'.stamp \in Int /\ (~test.faultyStorage => faults' = 0)
  BY DEF FInv
<1> QED
  BY <1>1, <1>3, <1>5, <1>6, <1>7, <1>8, <1>10, <1>11, FilesThen

LEMMA NamedIs ==
    ASSUME NEW r, FKnown(r), NEW rec, NEW label, Go(r, Named(r, rec), label), DOMAIN rec = Fields,
           rec.rep = Rep(r), \A f \in {"buffer", "moved", "stamp"} : rec[f] = st[r][f]
    PROVE  NewName(r, rec.rankOffset)
<1> DEFINE to == Named(r, rec)
<1>1. /\ DOMAIN to = Fields /\ to.rankOffset = rec.rankOffset
      /\ to.name = FileName(r, rec.rankOffset, Rep(r))
      /\ \A f \in {"buffer", "moved", "stamp"} : to[f] = st[r][f]
  BY DEF Named, Fields
<1> HIDE DEF to
<1>2. Go(r, to, label)
  BY DEF to
<1>3. \A f \in Fields \ {"pc"} : st'[r][f] = to[f]
  BY <1>1, <1>2, DataIs DEF FKnown
<1> QED
  BY <1>1, <1>3 DEF NewName, Fields

\* The step at the end of the phase's preparations.
LEMMA NamedLeads ==
    ASSUME NEW r, GoesOn(r), Pc(r) \in {"phase", "gate"}, Phase(r) # "finish",
           Pc(r) = "phase" => Phase(r) \in {"write", "read"}
    PROVE  Went(r) /\ Fixed(r, {}) /\ NewPc(r) \in {"hist", "ready", "open"}
<1>1. EnterOn(r) \/ GateOn(r)
  BY DEF GoesOn, Onto, BeginOn, ReadyOn, StripedOn, OpenedOn, RereadOn, LoopOn, ReduceOn, CloseOn, FinishOn,
         PlainOn, Plain
<1>2. NewPc(r) \in {"hist", "ready", "open"}
  BY <1>1 DEF EnterOn, GateOn
<1> QED
  BY <1>2 DEF GoesOn

LEMMA StartWriteFiles ==
    ASSUME IInv, FInv, NEW r, FKnown(r), StartWrite(r)
    PROVE  FInv'
<1>1. Pc(r) = "phase" /\ Phase(r) = "write" /\ Wanted("write")
  BY DEF StartWrite, Starting, At, Pc, Phase
<1>2. Went(r) /\ Fixed(r, {}) /\ NewPc(r) \in {"hist", "ready", "open"}
  <2>1. GoesOn(r)
    BY StartWriteMoves DEF FKnown
  <2> QED
    BY <1>1, <2>1, NamedLeads
<1>3. disk' = disk /\ wire' = wire /\ faults' = faults /\ Go(r, Named(r, st[r]), "ready")
  BY DEF StartWrite
<1>4. st[r].rankOffset = 0 /\ 0 \in Members
  BY <1>1, MembersAre DEF FKnown, Names
<1>5. NewName(r, 0)
  BY <1>3, <1>4, NamedIs, QuietIsData DEF Rep
<1>6. Fewer
  BY <1>3 DEF StartWrite, Fewer, RemoveFile
<1>7. \A t \in Members : ~Holds(t) /\ Pc(t) \notin MovedOut
  <2> SUFFICES ASSUME NEW t \in Members PROVE ~Holds(t) /\ Pc(t) \notin MovedOut
    OBVIOUS
  <2>1. Pc(t) \in Outside \cup {"repEnd", "phase", "ready"}
    BY <1>1, StartsAlone DEF FKnown
  <2> QED
    BY <2>1 DEF Holds, Moving, MovedOut, Outside
<1> QED
  BY <1>1, <1>2, <1>3, <1>4, <1>5, <1>6, <1>7, NamedKeeps

\* The ranks a task may pretend to be are those of the test.
LEMMA Wraps ==
    ASSUME Given, NEW a \in Int
    PROVE  a % N \in Members
<1>1. N \in Nat \ {0} /\ Members = 0 .. N - 1
  BY MembersAre
<1> DEFINE n == N
<1>2. n \in Nat \ {0}
  BY <1>1
<1> HIDE DEF n
<1>3. a % n \in 0 .. n - 1
  BY <1>2
<1> QED
  BY <1>1, <1>3 DEF n

LEMMA NodesAre ==
    ASSUME Given
    PROVE  /\ test.taskPerNodeOffset * test.tasksPerNode \in Int /\ test.tasksPerNode \in Int
           /\ \A d \in {2, 3, 4} : d * test.tasksPerNode \in Int
  BY TestsAssumption DEF Given, ParamsTyped, IntParams

LEMMA StartReadFiles ==
    ASSUME IInv, FInv, NEW r, FKnown(r), StartRead(r)
    PROVE  FInv'
<1>1. Pc(r) = "phase" /\ Phase(r) = "read"
  BY DEF StartRead, Starting, At, Pc, Phase
<1>2. Went(r) /\ Fixed(r, {}) /\ NewPc(r) \in {"hist", "ready", "open"}
  <2>1. GoesOn(r)
    BY StartReadMoves DEF FKnown
  <2> QED
    BY <1>1, <2>1, NamedLeads
<1> DEFINE label == IF test.reorderTasksRandom /\ test.hitsHistogram THEN "hist" ELSE "ready"
<1>3. PICK o \in ReadOffsets(r) : Go(r, Named(r, [st[r] EXCEPT !.rankOffset = o]), label)
  BY Zenon DEF StartRead
<1>4. OnlyTasks
  BY DEF StartRead
<1>5. Names(r) /\ Given
  BY DEF FKnown
<1>6. o \in Members /\ (~Reorders => o = 0)
  <2>1. CASE test.reorderTasks
    <3>1. o = (test.taskPerNodeOffset * test.tasksPerNode) % N \/ o = st[r].rankOffset \/ o \in RandomOffsets
      BY <2>1 DEF ReadOffsets
    <3>2. Reorders
      BY <2>1 DEF Reorders
    <3> QED
      BY <1>5, <3>1, <3>2, Wraps, NodesAre DEF RandomOffsets, Members, Names
  <2>2. CASE ~test.reorderTasks /\ test.reorderTasksRandom
    BY <2>2 DEF ReadOffsets, RandomOffsets, Members, Reorders
  <2>3. CASE ~test.reorderTasks /\ ~test.reorderTasksRandom
    BY <2>3, <1>5 DEF ReadOffsets, Names, Reorders
  <2> QED
    BY <2>1, <2>2, <2>3
<1>7. NewName(r, o)
  <2> DEFINE rec == [st[r] EXCEPT !.rankOffset = o]
  <2>1. /\ DOMAIN rec = Fields /\ rec.rankOffset = o /\ rec.rep = Rep(r)
        /\ \A f \in {"buffer", "moved", "stamp"} : rec[f] = st[r][f]
    BY QuietIsData DEF Fields, Rep
  <2>2. Go(r, Named(r, rec), label)
    BY <1>3
  <2> HIDE DEF rec, label
  <2> QED
    BY <2>1, <2>2, NamedIs
<1>8. Fewer /\ wire' = wire /\ faults' = faults
  BY <1>4, Zenon DEF Fewer, OnlyTasks
<1>9. \A t \in Members : Holds(t) \/ Pc(t) \in MovedOut => st[t].name \in DOMAIN dir'
  BY <1>4, FilesOnly DEF FInv, HasFile
<1>10. Phase(r) = "write" \/ ~Reorders => o = 0
  BY <1>1, <1>6
<1> QED
  BY <1>1, <1>2, <1>6, <1>7, <1>8, <1>9, <1>10, NamedKeeps

LEMMA LeaveGateFiles ==
    ASSUME IInv, FInv, NEW r, FKnown(r), LeaveGate(r)
    PROVE  FInv'
<1>1. Pc(r) = "gate" /\ Phase(r) \in {"writecheck", "readcheck"}
  BY DEF LeaveGate, Leaving, At, Pc, FKnown, Placed
<1>2. Went(r) /\ Fixed(r, {}) /\ NewPc(r) \in {"hist", "ready", "open"}
  <2>1. GoesOn(r)
    BY LeaveGateMoves DEF FKnown
  <2> QED
    BY <1>1, <2>1, NamedLeads
<1> DEFINE d == CheckDistance[Phase(r)]
           o == IF test.reorderTasks THEN (d * test.tasksPerNode) % N ELSE st[r].rankOffset
           rec == [st[r] EXCEPT !.rankOffset = o]
           label == IF Phase(r) = "writecheck" THEN "open" ELSE "ready"
<1>3. Go(r, Named(r, rec), label)
  BY DEF LeaveGate, Phase
<1>4. OnlyTasks
  BY DEF LeaveGate
<1>5. Names(r) /\ Given
  BY DEF FKnown
<1>6. o \in Members /\ (~Reorders => o = 0)
  <2>1. CASE test.reorderTasks
    <3>1. d \in {2, 3, 4}
      BY <1>1 DEF CheckDistance
    <3> HIDE DEF d
    <3>2. d * test.tasksPerNode \in Int
      BY <1>5, <3>1, NodesAre
    <3>3. o = (d * test.tasksPerNode) % N /\ Reorders
      BY <2>1 DEF Reorders
    <3> QED
      BY <1>5, <3>2, <3>3, Wraps
  <2>2. CASE ~test.reorderTasks
    BY <1>5, <2>2 DEF Names
  <2> QED
    BY <2>1, <2>2
<1>7. NewName(r, o)
  <2>1. /\ DOMAIN rec = Fields /\ rec.rankOffset = o /\ rec.rep = Rep(r)
        /\ \A f \in {"buffer", "moved", "stamp"} : rec[f] = st[r][f]
    BY QuietIsData DEF Fields, Rep
  <2> HIDE DEF rec, label, o
  <2> QED
    BY <1>3, <2>1, NamedIs
<1>8. Fewer /\ wire' = wire /\ faults' = faults
  BY <1>4, Zenon DEF Fewer, OnlyTasks
<1>9. \A t \in Members : Holds(t) \/ Pc(t) \in MovedOut => st[t].name \in DOMAIN dir'
  BY <1>4, FilesOnly DEF FInv, HasFile
<1>10. Phase(r) = "write" \/ ~Reorders => o = 0
  BY <1>1, <1>6
<1> HIDE DEF o
<1> QED
  BY <1>1, <1>2, <1>6, <1>7, <1>8, <1>9, <1>10, NamedKeeps

-----------------------------------------------------------------------------
(* The steps that open a file                                                *)

\* The task holds the file then, and has all its transfers to make.
LEMMA OpenedIs ==
    ASSUME FInv, NEW r, FKnown(r), Opens(r), NEW inode, NEW check, NEW label,
           Go(r, Opened(r, inode, check), label), st[r].name \in DOMAIN dir', inode = dir'[st[r].name]
    PROVE  /\ HasFile(r)' /\ Names(r)' /\ Buffers(r)' /\ Counts(r)'
           /\ \A n, o : Owes(r, n, o) => Owes(r, n, o)'
           /\ \A n, o : (Phase(r) = "write" /\ st[r].name = n /\ \E k \in 0 .. XfersPerTask - 1 : OffsetOf(r, k) = o)
                         => Owes(r, n, o)'
<1> DEFINE rec == Opened(r, inode, check)
<1>1. /\ DOMAIN rec = Fields /\ rec.fd = inode /\ rec.pairCnt = 0 /\ rec.moved = 0
      /\ \A f \in {"rankOffset", "name", "buffer", "stamp"} : rec[f] = st[r][f]
  BY QuietIsData DEF Opened, Fields
<1> HIDE DEF rec
<1>2. /\ st'[r].fd = inode /\ st'[r].pairCnt = 0 /\ st'[r].moved = 0
      /\ \A f \in {"rankOffset", "name", "buffer", "stamp"} : st'[r][f] = st[r][f]
  <2>1. \A f \in Fields \ {"pc"} : st'[r][f] = rec[f]
    BY <1>1, DataIs DEF rec, FKnown
  <2> QED
    BY <1>1, <2>1 DEF Fields
<1>3. test' = test /\ Phase(r)' = Phase(r) /\ Rep(r)' = Rep(r) /\ Pc(r)' = NewPc(r) /\ Pc(r) = "open"
  BY DEF Opens, Went, Fixed, Control, Phase, Rep, Pc, NewPc
<1>4. (NewPc(r) = "striped" /\ r = 0) \/ NewPc(r) \in {"opened", "xfer"}
  BY DEF FKnown, Placed, First, Opens
<1>5. Holds(r)' /\ Pc(r)' \in Writing \cap (Inside \ {"gate"}) /\ Pc(r)' \notin Outside /\ Pc(r)' \notin MovedOut
      /\ Pc(r)' \notin Idle /\ Pc(r)' # "size"
  BY <1>3, <1>4 DEF Holds, Moving, Writing, Inside, Outside, MovedOut, Idle
<1>6. /\ Members' = Members /\ N' = N /\ (Reorders' <=> Reorders) /\ XfersPerTask' = XfersPerTask
      /\ XfersPerTask \in Nat /\ \A t, k : OffsetOf(t, k)' = OffsetOf(t, k)
  BY <1>3, FilesLast, ParamsAre DEF FKnown
<1>7. HasFile(r)'
  BY <1>2 DEF HasFile
<1>8. Names(r)'
  <2>1. Names(r) /\ Pc(r) \in Inside \ {"gate"} /\ Pc(r) \notin Outside
    BY <1>3 DEF FKnown, Inside, Outside
  <2>2. st'[r].rankOffset = st[r].rankOffset /\ st'[r].name = FileName(r, st'[r].rankOffset, Rep(r))
    BY <1>2, <2>1 DEF Names
  <2>3. st'[r].name = FileName(r, st[r].rankOffset, Rep(r))'
    BY <1>3, <1>6, <2>2 DEF FileName, PretendRank
  <2>4. Pc(r)' \notin {"rep", "stamp"}
    BY <1>3, <1>4
  <2>5. st'[r].rankOffset \in Members /\ (Phase(r) = "write" \/ ~Reorders => st'[r].rankOffset = 0)
    BY <2>1, <2>2 DEF Names
  <2> QED
    BY <1>3, <1>5, <1>6, <2>3, <2>4, <2>5 DEF Names
<1>9. Buffers(r)'
  <2>1. Buffers(r)
    BY DEF FKnown
  <2> QED
    BY <1>2, <1>3, <2>1, BuffersGoOn DEF Buffers
<1>10. Counts(r)'
  BY <1>2, <1>5, <1>6 DEF Counts
<1>11. \A n, o : (Phase(r) = "write" /\ st[r].name = n /\ \E k \in 0 .. XfersPerTask - 1 : OffsetOf(r, k) = o)
                     => Owes(r, n, o)'
  <2> SUFFICES ASSUME NEW n, NEW o, Phase(r) = "write", st[r].name = n,
                      NEW k \in 0 .. XfersPerTask - 1, OffsetOf(r, k) = o
               PROVE  Owes(r, n, o)'
    OBVIOUS
  <2>1. \E j \in (IF Holds(r)' THEN st'[r].pairCnt ELSE 0) .. XfersPerTask' - 1 : OffsetOf(r, j)' = o
    BY <1>2, <1>6
  <2>2. st'[r].name = n
    BY <1>2
  <2> QED
    BY <1>3, <1>5, <2>1, <2>2, Zenon DEF Owes
<1>12. \A n, o : Owes(r, n, o) => Owes(r, n, o)'
  <2>1. ~Holds(r)
    BY <1>3 DEF Holds, Moving
  <2> QED
    BY <1>11, <2>1 DEF Owes
<1> QED
  BY <1>7, <1>8, <1>9, <1>10, <1>11, <1>12

LEMMA OpenFileFiles ==
    ASSUME FInv, NEW r, FKnown(r), OpenFile(r)
    PROVE  FInv'
<1>1. CASE Abort
  BY <1>1, FilesStill DEF Abort
<1>2. CASE ~Abort
  <2>1. PICK check : Go(r, Opened(r, dir[st[r].name], check), BeginXfer(r)) /\ OnlyTasks /\ st[r].name \in DOMAIN dir
    BY <1>2, Zenon DEF OpenFile
  <2>2. dir' = dir /\ disk' = disk /\ wire'.stamp \in Int /\ faults' = faults /\ test' = test
    BY <2>1, FilesOnly DEF OnlyTasks
  <2>3. Opens(r)
    <3>1. Pc(r) = "open"
      BY DEF OpenFile, At, Pc
    <3>2. ~Stops
      <4>1. BeginXfer(r) # "open"
        BY DEF BeginXfer, WriteOrRead
      <4>2. NewPc(r) = BeginXfer(r)
        <5> DEFINE rec == Opened(r, dir[st[r].name], check)
        <5>1. DOMAIN rec = Fields
          BY QuietIsData DEF Opened
        <5>2. st' = [st EXCEPT ![r] = [rec EXCEPT !.pc = BeginXfer(r)]] /\ r \in DOMAIN st
          BY <2>1 DEF Go, FKnown, Known, Shape
        <5> HIDE DEF rec
        <5> QED
          BY <5>1, <5>2 DEF NewPc, Fields
      <4> QED
        BY <3>1, <4>1, <4>2 DEF Stops, Pc, NewPc
    <3> QED
      BY <3>2, OpenMoves DEF FKnown
  <2>4. /\ HasFile(r)' /\ Names(r)' /\ Buffers(r)' /\ Counts(r)'
        /\ \A n, o : Owes(r, n, o) => Owes(r, n, o)'
    BY <2>1, <2>2, <2>3, OpenedIs
  <2>5. \A q \in Members \ {r} : st'[q] = st[q] /\ HasFile(q)' /\ \A n, o : Owes(q, n, o) => Owes(q, n, o)'
    <3> SUFFICES ASSUME NEW q \in Members \ {r}
                 PROVE  st'[q] = st[q] /\ HasFile(q)' /\ \A n, o : Owes(q, n, o) => Owes(q, n, o)'
      OBVIOUS
    <3>1. st'[q] = st[q]
      BY <2>3, MembersAre DEF Opens, Went, FKnown
    <3>2. Holds(q)' = Holds(q) /\ Pc(q)' = Pc(q) /\ \A n, o : Owes(q, n, o)' = Owes(q, n, o)
      BY <2>2, <3>1, FilesOfRest
    <3>3. HasFile(q)
      BY DEF FInv
    <3> QED
      BY <2>2, <3>1, <3>2, <3>3 DEF HasFile
  <2>6. Fewer
    BY <2>2, Zenon DEF Fewer
  <2>7. Directory' /\ Whole' /\ Signed'
    BY <2>2, <2>4, <2>5, <2>6, FilesRest
  <2> QED
    BY <2>2, <2>4, <2>5, <2>7, FilesThen DEF FInv
<1> QED
  BY <1>1, <1>2

\* While a task is about to create a file that is not there, whoever writes to a file of
\* that name has yet to open it.
LEMMA NotThereYet ==
    ASSUME IInv, FInv, Sequential, NEW r \in Members, Phase(r) = "write", Pc(r) = "open",
           st[r].name \notin DOMAIN dir, ~test.filePerProc, NEW t \in Members
    PROVE  Phase(t) = "write" /\ Pc(t) \in Writing /\ ~Holds(t) /\ st[t].name = st[r].name
<1>1. FKnown(r) /\ FKnown(t)
  BY FKnows
<1>2. /\ Rep(t) = Rep(r) /\ Phase(t) = "write"
      /\ Pc(t) \in Writing \cup {"deal", "seed", "cntR", "cntB", "xfered", "close", "closed"}
  BY WritesTogether
<1>3. Pc(t) \notin {"deal", "seed"}
  BY <1>1 DEF FKnown, Placed
<1>4. Pc(t) \in Inside \ {"gate"} /\ Pc(r) \in Inside \ {"gate"}
  BY <1>2 DEF Writing, Inside
<1>5. st[t].rankOffset = 0 /\ st[r].rankOffset = 0
  BY <1>1, <1>2 DEF FKnown, Names
<1>6. st[t].name = FileName(t, 0, Rep(r)) /\ st[r].name = FileName(r, 0, Rep(r))
  BY <1>1, <1>2, <1>4, <1>5 DEF FKnown, Names
<1>7. st[t].name = st[r].name
  BY <1>6 DEF FileName
<1>8. ~Holds(t) /\ Pc(t) \notin MovedOut
  BY <1>1, <1>7 DEF FKnown, HasFile
<1> QED
  BY <1>2, <1>3, <1>7, <1>8 DEF MovedOut

LEMMA CreateFileFiles ==
    ASSUME IInv, FInv, Sequential, NEW r \in Members, CreateFile(r)
    PROVE  FInv'
<1> DEFINE name == st[r].name
           there == name \in DOMAIN dir
           inode == IF there THEN dir[name] ELSE Len(disk) + 1
<1>1. FKnown(r) /\ Phase(r) = "write" /\ Pc(r) = "open"
  BY FKnows DEF CreateFile, At, Pc, Phase
<1>2. CASE Abort
  BY <1>2, FilesStill DEF Abort
<1>3. CASE ~Abort
  <2>1. /\ dir' = [n \in DOMAIN dir \cup {name} |-> IF n = name THEN inode ELSE dir[n]]
        /\ disk' = IF there THEN disk ELSE Append(disk, EmptyFile)
        /\ Go(r, Opened(r, inode, 0), AfterCreate(r))
        /\ test' = test /\ wire' = wire /\ faults' = faults
    BY <1>3, Zenon DEF CreateFile
  <2>2. DOMAIN dir' = DOMAIN dir \cup {name} /\ dir'[name] = inode
        /\ \A n \in DOMAIN dir \ {name} : dir'[n] = dir[n]
    BY <2>1
  <2>3. Opens(r)
    <3>1. ~Stops
      <4>1. AfterCreate(r) # "open"
        BY DEF AfterCreate, BeginXfer, WriteOrRead
      <4>2. NewPc(r) = AfterCreate(r)
        <5> DEFINE rec == Opened(r, inode, 0)
        <5>1. DOMAIN rec = Fields
          BY <1>1, QuietIsData DEF Opened
        <5>2. st' = [st EXCEPT ![r] = [rec EXCEPT !.pc = AfterCreate(r)]] /\ r \in DOMAIN st
          BY <1>1, <2>1 DEF Go, FKnown, Known, Shape
        <5> HIDE DEF rec
        <5> QED
          BY <5>1, <5>2 DEF NewPc, Fields
      <4> QED
        BY <1>1, <4>1, <4>2 DEF Stops, Pc, NewPc
    <3> QED
      BY <1>1, <3>1, OpenMoves DEF FKnown
  <2>4. /\ HasFile(r)' /\ Names(r)' /\ Buffers(r)' /\ Counts(r)'
        /\ \A n, o : Owes(r, n, o) => Owes(r, n, o)'
        /\ \A n, o : (Phase(r) = "write" /\ st[r].name = n /\ \E k \in 0 .. XfersPerTask - 1 : OffsetOf(r, k) = o)
                         => Owes(r, n, o)'
    <3> HIDE DEF inode
    <3>1. st[r].name \in DOMAIN dir' /\ inode = dir'[st[r].name]
      BY <2>2
    <3>2. PICK i : i = inode
      OBVIOUS
    <3>3. Go(r, Opened(r, i, 0), AfterCreate(r)) /\ i = dir'[st[r].name]
      BY <2>1, <3>1, <3>2
    <3> QED
      BY <1>1, <2>3, <3>1, <3>3, OpenedIs
  <2>5. \A q \in Members \ {r} : /\ st'[q] = st[q] /\ Holds(q)' = Holds(q) /\ Pc(q)' = Pc(q)
                                 /\ \A n, o : Owes(q, n, o)' = Owes(q, n, o)
    <3> SUFFICES ASSUME NEW q \in Members \ {r}
                 PROVE  /\ st'[q] = st[q] /\ Holds(q)' = Holds(q) /\ Pc(q)' = Pc(q)
                        /\ \A n, o : Owes(q, n, o)' = Owes(q, n, o)
      OBVIOUS
    <3>1. st'[q] = st[q]
      BY <1>1, <2>3, MembersAre DEF Opens, Went, FKnown
    <3> QED
      BY <2>1, <3>1, FilesOfRest
  <2>6. \A n \in DOMAIN dir : n \in DOMAIN dir' /\ dir'[n] = dir[n]
    BY <2>2
  <2>7. \A q \in Members \ {r} : st'[q] = st[q] /\ HasFile(q)'
    <3> SUFFICES ASSUME NEW q \in Members \ {r} PROVE HasFile(q)'
      BY <2>5
    <3>1. HasFile(q)
      BY DEF FInv
    <3> QED
      BY <2>5, <2>6, <3>1 DEF HasFile
  <2>8. /\ FileOffsets' = FileOffsets /\ Members' = Members /\ (SignsItsOwn' <=> SignsItsOwn)
        /\ \A n, o : OwnerIn(n, o)' = OwnerIn(n, o)
    BY <2>1, FilesLast
  <2>9. Directory /\ Whole /\ Signed
    BY DEF FInv
  <2>10. \A t \in Members : \A n, o : Owes(t, n, o) => Owes(t, n, o)'
    <3> SUFFICES ASSUME NEW t \in Members, NEW n, NEW o, Owes(t, n, o) PROVE Owes(t, n, o)'
      OBVIOUS
    <3> QED
      BY <2>4, <2>5
  <2>11. CASE there
    <3>1. disk' = disk /\ \A n \in DOMAIN dir' : n \in DOMAIN dir /\ dir'[n] = dir[n]
      BY <2>1, <2>2, <2>11
    <3>2. Fewer
      BY <3>1 DEF Fewer
    <3>3. Directory' /\ Whole' /\ Signed'
      BY <2>1, <2>10, <3>2, FilesRest
    <3> QED
      BY <2>1, <2>4, <2>7, <3>3, FilesThen DEF FInv
  <2>12. CASE ~there
    <3> DEFINE new == Len(disk) + 1
    <3>1. /\ disk' = Append(disk, EmptyFile) /\ dir'[name] = new
          /\ disk \in Seq([FileOffsets -> Cells]) /\ EmptyFile \in [FileOffsets -> Cells]
      BY <2>1, <2>2, <2>9, <2>12 DEF Hole, Cells, Directory, EmptyFile
    <3> HIDE DEF there, inode
    <3>2. /\ disk' \in Seq([FileOffsets -> Cells]) /\ Len(disk') = Len(disk) + 1 /\ Len(disk) \in Nat
          /\ disk'[new] = EmptyFile /\ \A i \in 1 .. Len(disk) : disk'[i] = disk[i]
      <4> DEFINE F == [FileOffsets -> Cells]
      <4>1. disk \in Seq(F) /\ EmptyFile \in F
        BY <3>1
      <4> HIDE DEF F
      <4>2. /\ Append(disk, EmptyFile) \in Seq(F) /\ Len(Append(disk, EmptyFile)) = Len(disk) + 1 /\ Len(disk) \in Nat
            /\ Append(disk, EmptyFile)[Len(disk) + 1] = EmptyFile
            /\ \A i \in 1 .. Len(disk) : Append(disk, EmptyFile)[i] = disk[i]
        BY <4>1
      <4> QED
        BY <3>1, <4>2 DEF F
    <3>3. /\ \A n \in DOMAIN dir : dir[n] \in 1 .. Len(disk)
          /\ \A m, n \in DOMAIN dir : dir[m] = dir[n] => m = n
      BY <2>9 DEF Directory
    <3>4. Directory'
      <4>1. \A n \in DOMAIN dir' : dir'[n] \in 1 .. Len(disk')
        BY <2>2, <2>6, <3>1, <3>2, <3>3
      <4>2. \A m, n \in DOMAIN dir' : dir'[m] = dir'[n] => m = n
        BY <2>2, <2>6, <3>1, <3>2, <3>3
      <4>3. disk' \in Seq([FileOffsets' -> Cells])
        BY <2>8, <3>2
      <4> QED
        BY <4>1, <4>2, <4>3 DEF Directory, Cells
    <3>5. Whole'
      <4> SUFFICES ASSUME NEW n \in DOMAIN dir', NEW o \in FileOffsets
                   PROVE  disk'[dir'[n]][o] # Hole \/ \E t \in Members : Owes(t, n, o)'
        BY <2>8, Zenon DEF Whole, Hole
      <4>1. CASE n = name
        <5>1. CASE test.filePerProc
          BY <1>1, <5>1, OffsetsReach, <2>4, <4>1 DEF FKnown
        <5>2. CASE ~test.filePerProc
          <6>1. PICK t \in Members, k \in 0 .. XfersPerTask - 1 : OffsetOf(t, k) = o
            BY <1>1, <5>2, OffsetsReach DEF FKnown
          <6>2. CASE t = r
            BY <1>1, <2>4, <4>1, <6>1, <6>2
          <6>3. CASE t # r
            <7>1. Phase(t) = "write" /\ Pc(t) \in Writing /\ ~Holds(t) /\ st[t].name = name
              BY <1>1, <2>12, <5>2, NotThereYet DEF there
            <7>2. Owes(t, n, o)
              BY <4>1, <6>1, <7>1 DEF Owes
            <7> QED
              BY <2>5, <6>3, <7>2
          <6> QED
            BY <6>2, <6>3
        <5> QED
          BY <5>1, <5>2
      <4>2. CASE n # name
        BY <2>2, <2>6, <3>2, <3>3, <4>2, <2>9, <2>10 DEF Whole
      <4> QED
        BY <4>1, <4>2
    <3>6. Signed'
      <4> SUFFICES ASSUME SignsItsOwn, ~test.faultyStorage, NEW n \in DOMAIN dir', NEW o \in FileOffsets,
                          disk'[dir'[n]][o] # Hole
                   PROVE  disk'[dir'[n]][o].task = OwnerIn(n, o)
        BY <2>1, <2>8, Zenon DEF Signed, Hole
      <4>1. n # name
        BY <3>1, <3>2 DEF EmptyFile
      <4>2. n \in DOMAIN dir /\ dir'[n] = dir[n] /\ disk'[dir'[n]] = disk[dir[n]]
        BY <2>2, <2>6, <3>2, <3>3, <4>1
      <4> QED
        BY <2>9, <4>2 DEF Signed
    <3> QED
      BY <2>1, <2>4, <2>7, <3>4, <3>5, <3>6, FilesThen DEF FInv
  <2> QED
    BY <2>11, <2>12
<1> QED
  BY <1>2, <1>3

-----------------------------------------------------------------------------
(* The steps of the loop                                                     *)

LEMMA LoopKeeps ==
    ASSUME FInv, NEW r, FKnown(r), Loops(r), Fits(r, st'[r].buffer), dir' = dir
    PROVE  /\ HasFile(r)' /\ Names(r)' /\ Buffers(r)' /\ Counts(r)' /\ Holds(r)'
           /\ \A q \in Members \ {r} : /\ st'[q] = st[q] /\ HasFile(q)'
                                       /\ \A n, o : Owes(q, n, o)' = Owes(q, n, o)
<1>1. /\ HasFile(r) /\ Names(r) /\ Buffers(r) /\ Counts(r) /\ Given /\ test' = test
  BY DEF FKnown, Loops
<1>2. /\ Pc(r) \in Inside \ {"gate"} /\ Holds(r) /\ Holds(r)' /\ Pc(r)' \in Inside \ {"gate"}
      /\ Pc(r)' \notin Outside /\ Pc(r)' \notin MovedOut /\ Pc(r)' \notin Idle /\ Pc(r)' # "size"
      /\ Pc(r)' \notin {"rep", "stamp"} /\ Pc(r) \notin Outside
  BY DEF Loops, Inside, Outside, Holds, Moving, MovedOut, Idle
<1>3. /\ Members' = Members /\ N' = N /\ (Reorders' <=> Reorders) /\ XfersPerTask' = XfersPerTask
  BY <1>1, FilesLast
<1>4. HasFile(r)'
  BY <1>1, <1>2 DEF HasFile, Loops
<1>5. Names(r)'
  <2>1. st'[r].rankOffset = st[r].rankOffset /\ st'[r].name = FileName(r, st[r].rankOffset, Rep(r))
    BY <1>1, <1>2 DEF Names, Loops
  <2>2. st'[r].name = FileName(r, st[r].rankOffset, Rep(r))'
    BY <1>3, <2>1 DEF FileName, PretendRank, Loops
  <2>3. Phase(r)' = Phase(r)
    BY DEF Loops
  <2>4. st'[r].rankOffset \in Members /\ (Phase(r) = "write" \/ ~Reorders => st'[r].rankOffset = 0)
    BY <1>1, <2>1 DEF Names
  <2> QED
    BY <1>2, <1>3, <2>2, <2>3, <2>4 DEF Names
<1>6. Buffers(r)'
  BY <1>1, <1>3 DEF Signs, Loops, Buffers, Fits, Cells, Hole
<1>7. Counts(r)'
  BY <1>2, <1>3 DEF Counts, Loops
<1>8. \A q \in Members \ {r} : /\ st'[q] = st[q] /\ HasFile(q)'
                               /\ \A n, o : Owes(q, n, o)' = Owes(q, n, o)
  <2> SUFFICES ASSUME NEW q \in Members \ {r}
               PROVE  st'[q] = st[q] /\ HasFile(q)' /\ \A n, o : Owes(q, n, o)' = Owes(q, n, o)
    OBVIOUS
  <2>1. st'[q] = st[q]
    BY <1>1, MembersAre DEF Loops
  <2>2. Holds(q)' = Holds(q) /\ Pc(q)' = Pc(q) /\ \A n, o : Owes(q, n, o)' = Owes(q, n, o)
    BY <1>1, <2>1, FilesOfRest
  <2>3. HasFile(q)
    BY DEF FInv
  <2> QED
    BY <2>1, <2>2, <2>3 DEF HasFile
<1> QED
  BY <1>2, <1>4, <1>5, <1>6, <1>7, <1>8

\* A step of the loop that only reads.
LEMMA ReadKeeps ==
    ASSUME FInv, NEW r, FKnown(r), Loops(r), Fits(r, st'[r].buffer), dir' = dir, disk' = disk,
           wire' = wire, faults' = faults, Phase(r) # "write"
    PROVE  FInv'
<1>1. /\ HasFile(r)' /\ Names(r)' /\ Buffers(r)' /\ Counts(r)'
      /\ \A q \in Members \ {r} : /\ st'[q] = st[q] /\ HasFile(q)'
                                  /\ \A n, o : Owes(q, n, o)' = Owes(q, n, o)
  BY LoopKeeps
<1>2. test' = test
  BY DEF Loops
<1>3. \A t \in Members : \A n \in DOMAIN dir' : \A o \in FileOffsets : Owes(t, n, o) => Owes(t, n, o)'
  <2> SUFFICES ASSUME NEW t \in Members, NEW n, NEW o, Owes(t, n, o) PROVE Owes(t, n, o)'
    OBVIOUS
  <2>1. t # r
    BY DEF Owes
  <2> QED
    BY <1>1, <2>1
<1>4. Fewer
  BY DEF Fewer
<1>5. Directory' /\ Whole' /\ Signed'
  BY <1>2, <1>3, <1>4, FilesRest
<1> QED
  BY <1>1, <1>2, <1>5, FilesThen DEF FInv

\* The end of a transfer.
LEMMA MovedFiles ==
    ASSUME NEW r, FKnown(r), NEW rec, NEW off, Go(r, Moved(rec, off), "xfer"), DOMAIN rec = Fields,
           \A f \in (Control \cup Data) \ {"errors", "buffer"} : rec[f] = st[r][f],
           Pc(r) \in {"xfer", "rc3"}, ~aborted, Pc(r) \in DOMAIN Kind => MayLeave(r, Pc(r)),
           test' = test, wire' = wire, st[r].pairCnt < XfersPerTask
    PROVE  Loops(r) /\ st'[r].buffer = rec.buffer /\ st'[r].pairCnt = st[r].pairCnt + 1 /\ Pc(r)' = "xfer"
<1>1. /\ Went(r) /\ NewPc(r) = "xfer" /\ Fixed(r, {"pairCnt", "errors"})
      /\ st'[r].pairCnt = st[r].pairCnt + 1
  BY MovedOn DEF Control, FKnown
<1> DEFINE to == Moved(rec, off)
<1>2. /\ DOMAIN to = Fields /\ to.moved = rec.moved + 1
      /\ \A f \in {"rankOffset", "name", "fd", "stamp", "buffer"} : to[f] = rec[f]
  BY DEF Moved, Fields
<1> HIDE DEF to
<1>3. \A f \in Fields \ {"pc"} : st'[r][f] = to[f]
  <2>1. Go(r, to, "xfer")
    BY DEF to
  <2> QED
    BY <1>2, <2>1, DataIs DEF FKnown
<1>4. /\ st'[r].moved = rec.moved + 1
      /\ \A f \in {"rankOffset", "name", "fd", "stamp", "buffer"} : st'[r][f] = rec[f]
  BY <1>2, <1>3 DEF Fields
<1>5. rec.moved = st[r].moved /\ \A f \in {"rankOffset", "name", "fd", "stamp"} : rec[f] = st[r][f]
  BY DEF Data
<1>6. Holds(r)
  BY DEF Holds, Moving
<1>7. st[r].moved = st[r].pairCnt /\ st[r].pairCnt \in 0 .. XfersPerTask /\ XfersPerTask \in Nat
  BY <1>6, ParamsAre DEF FKnown, Counts
<1>8. Phase(r)' = Phase(r) /\ Rep(r)' = Rep(r) /\ Pc(r)' = "xfer"
  BY <1>1 DEF Fixed, Control, Phase, Rep, Pc, NewPc
<1>9. /\ st'[r].moved = st'[r].pairCnt /\ st'[r].pairCnt \in 0 .. XfersPerTask
  BY <1>1, <1>4, <1>5, <1>7
<1>10. \A q \in World \ {r} : st'[q] = st[q]
  BY <1>1 DEF Went
<1> QED
  BY <1>1, <1>4, <1>5, <1>8, <1>9, <1>10 DEF Loops

\* The next transfer of a task in its loop.
LEMMA NextIs ==
    ASSUME NEW r, FKnown(r), Pc(r) = "xfer"
    PROVE  /\ Offsets(r) = IF st[r].pairCnt < XfersPerTask THEN {Offset(r)} ELSE {}
           /\ st[r].pairCnt \in 0 .. XfersPerTask /\ XfersPerTask \in Nat
           /\ Pretend(r) \in Members /\ Offset(r) = OffsetOf(Pretend(r), st[r].pairCnt)
           /\ st[r].rankOffset = 0 => Pretend(r) = r
           /\ st[r].pairCnt < XfersPerTask =>
                  /\ Offset(r) \in FileOffsets
                  /\ test.filePerProc => st[r].name[1] = Pretend(r)
                  /\ OwnerIn(st[r].name, Offset(r)) = Pretend(r)
<1>1. Offsets(r) = IF st[r].pairCnt < XfersPerTask THEN {Offset(r)} ELSE {}
  BY DEF Offsets, FKnown
<1>2. Holds(r) /\ Pc(r) \in Inside \ {"gate"}
  BY DEF Holds, Moving, Inside
<1>3. st[r].pairCnt \in 0 .. XfersPerTask /\ XfersPerTask \in Nat
  BY <1>2, ParamsAre DEF FKnown, Counts
<1>4. Given /\ r \in Members /\ st[r].rankOffset \in Members /\ N \in Nat \ {0} /\ Members = 0 .. N - 1
      /\ st[r].name = FileName(r, st[r].rankOffset, Rep(r))
  BY <1>2, MembersAre DEF FKnown, Names
<1>5. Pretend(r) \in Members
  <2>1. r + st[r].rankOffset \in Int
    BY <1>4
  <2> QED
    BY <1>4, <2>1, Wraps DEF Pretend, PretendRank
<1>6. st[r].rankOffset = 0 => Pretend(r) = r
  <2> DEFINE n == N
  <2>1. n \in Nat \ {0} /\ r \in 0 .. n - 1
    BY <1>4
  <2> HIDE DEF n
  <2>2. (r + 0) % n = r
    BY <2>1
  <2> QED
    BY <2>2 DEF n, Pretend, PretendRank
<1>7. ASSUME st[r].pairCnt < XfersPerTask
      PROVE  /\ Offset(r) \in FileOffsets
             /\ test.filePerProc => st[r].name[1] = Pretend(r)
             /\ OwnerIn(st[r].name, Offset(r)) = Pretend(r)
  <2>1. st[r].pairCnt \in 0 .. XfersPerTask - 1
    BY <1>3, <1>7
  <2>2. /\ Offset(r) \in FileOffsets
        /\ ~test.filePerProc => (Offset(r) \div test.xfersPerBlock) % N = Pretend(r)
    BY <1>4, <1>5, <2>1, OffsetsAre DEF Offset
  <2>3. test.filePerProc => st[r].name[1] = Pretend(r)
    BY <1>4 DEF FileName, Pretend
  <2> QED
    BY <2>2, <2>3 DEF OwnerIn
<1> QED
  BY <1>1, <1>3, <1>5, <1>6, <1>7 DEF Offset

\* The buffer as it is filled to be written or to be compared with.
LEMMA FilledIs ==
    ASSUME NEW r, FKnown(r), Pc(r) = "xfer", st[r].pairCnt < XfersPerTask
    PROVE  /\ Fits(r, Filled(r)) /\ Filled(r) # Hole
           /\ SignsItsOwn /\ ~test.faultyStorage /\ Phase(r) = "write" => Filled(r).task = r
<1>1. Pretend(r) \in Members /\ Offset(r) \in FileOffsets /\ Buffers(r) /\ Names(r) /\ Members \subseteq Nat
      /\ (st[r].rankOffset = 0 => Pretend(r) = r)
  BY NextIs, MembersAre DEF FKnown
<1>2. CASE test.storeFileOffset
  <2>1. Filled(r) = [task |-> Pretend(r), stamp |-> st[r].stamp, off |-> Offset(r)]
    BY <1>2 DEF Filled, Fill
  <2>2. Offset(r) \in Int
    BY <1>1 DEF FileOffsets
  <2>3. Filled(r) \in Cells /\ Filled(r) # Hole /\ Filled(r).task = Pretend(r)
    <3>1. Filled(r).task = Pretend(r) /\ Hole.task = -1
      BY <2>1 DEF Hole
    <3>2. Pretend(r) \in Nat
      BY <1>1
    <3>3. Filled(r) # Hole
      BY <3>1, <3>2
    <3>4. st[r].stamp \in Int /\ Pretend(r) \in Int
      BY <1>1, <3>2 DEF Buffers
    <3>5. Filled(r) \in Cells
      BY <2>1, <2>2, <3>4 DEF Cells
    <3> QED
      BY <3>1, <3>3, <3>5
  <2>4. Phase(r) = "write" => st[r].rankOffset = 0
    BY <1>1 DEF Names
  <2> QED
    BY <1>1, <1>2, <2>3, <2>4 DEF Fits, Signs
<1>3. CASE ~test.storeFileOffset
  BY <1>3, <1>1 DEF Filled, SignsItsOwn, Signs, Fits, Buffers
<1> QED
  BY <1>2, <1>3

\* What a task reads is there.
LEMMA ReadsIts ==
    ASSUME IInv, FInv, Sequential, NEW r \in Members, Phase(r) \in {"read", "readcheck"}, Pc(r) = "xfer",
           st[r].pairCnt < XfersPerTask
    PROVE  Fits(r, disk[st[r].fd][Offset(r)])
<1> DEFINE n == st[r].name
           o == Offset(r)
<1>1. FKnown(r) /\ Directory /\ Whole /\ Signed
  BY FKnows DEF FInv
<1>2. /\ o \in FileOffsets /\ OwnerIn(n, o) = Pretend(r) /\ (st[r].rankOffset = 0 => Pretend(r) = r)
  BY <1>1, NextIs
<1>3. n \in DOMAIN dir /\ st[r].fd = dir[n]
  BY <1>1 DEF FKnown, HasFile, Holds, Moving
<1> HIDE DEF n, o
<1>4. disk[dir[n]] \in [FileOffsets -> Cells]
  BY <1>1, <1>3 DEF Directory
<1>5. disk[dir[n]][o] # Hole
  BY NobodyWrites, <1>1, <1>2, <1>3 DEF AfterWriting, Inside, Owes, Whole
<1>6. Signs(r) => disk[dir[n]][o].task = r
  <2> SUFFICES ASSUME Signs(r) PROVE disk[dir[n]][o].task = r
    OBVIOUS
  <2>1. ~Reorders /\ ~test.faultyStorage /\ SignsItsOwn
    BY DEF Signs, SignsItsOwn
  <2>2. st[r].rankOffset = 0
    BY <1>1, <2>1 DEF FKnown, Names
  <2>3. disk[dir[n]][o].task = OwnerIn(n, o)
    BY <1>1, <1>2, <1>3, <1>5, <2>1 DEF Signed
  <2> QED
    BY <1>2, <2>2, <2>3
<1>7. disk[dir[n]][o] \in Cells
  BY <1>2, <1>4
<1> QED
  BY <1>3, <1>5, <1>6, <1>7 DEF Fits, o

LEMMA WriteXferFiles ==
    ASSUME IInv, FInv, Sequential, NEW r \in Members, WriteXfer(r)
    PROVE  FInv'
<1> DEFINE n == st[r].name
           o == Offset(r)
           k == st[r].pairCnt
           v == Filled(r)
           rec == [st[r] EXCEPT !.buffer = v]
<1>1. FKnown(r) /\ Pc(r) = "xfer" /\ Phase(r) = "write" /\ ~aborted
  BY FKnows DEF WriteXfer, At, Pc, Phase
<1>2. PICK off \in Offsets(r) : /\ disk' = [disk EXCEPT ![st[r].fd][off] = v]
                               /\ Go(r, Moved(rec, off), "xfer")
  BY Zenon DEF WriteXfer
<1>3. k < XfersPerTask /\ off = o
  <2>1. Offsets(r) = IF k < XfersPerTask THEN {o} ELSE {}
    BY <1>1, NextIs
  <2> HIDE DEF k, o
  <2> QED
    BY <2>1
<1>4. test' = test /\ dir' = dir /\ wire' = wire /\ faults' = faults
  BY DEF WriteXfer
<1>5. /\ Fits(r, v) /\ v # Hole
      /\ SignsItsOwn /\ ~test.faultyStorage => v.task = r
  BY <1>1, <1>3, FilledIs
<1>6. /\ k \in 0 .. XfersPerTask /\ XfersPerTask \in Nat /\ o \in FileOffsets
      /\ OwnerIn(n, o) = r /\ o = OffsetOf(r, k)
  BY <1>1, NextIs, <1>3 DEF FKnown, Names
<1>7. n \in DOMAIN dir /\ st[r].fd = dir[n] /\ Holds(r)
  BY <1>1 DEF FKnown, HasFile, Holds, Moving
<1>8. Directory /\ Whole /\ Signed
  BY DEF FInv
<1> HIDE DEF v, n, o
<1>9. Loops(r) /\ st'[r].buffer = v /\ st'[r].pairCnt = k + 1 /\ Pc(r)' = "xfer"
  <2>1. DOMAIN rec = Fields /\ rec.buffer = v /\ \A f \in (Control \cup Data) \ {"errors", "buffer"} : rec[f] = st[r][f]
    BY <1>1, QuietIsData DEF Fields, Control, Data
  <2>2. Pc(r) \notin DOMAIN Kind
    BY <1>1, KindIs
  <2> HIDE DEF rec
  <2> QED
    BY <1>1, <1>2, <1>3, <1>4, <2>1, <2>2, MovedFiles
<1>10. /\ HasFile(r)' /\ Names(r)' /\ Buffers(r)' /\ Counts(r)' /\ Holds(r)'
       /\ \A q \in Members \ {r} : /\ st'[q] = st[q] /\ HasFile(q)'
                                   /\ \A m, p : Owes(q, m, p)' = Owes(q, m, p)
  BY <1>1, <1>4, <1>5, <1>9, LoopKeeps
<1>11. /\ v \in Cells /\ dir[n] \in 1 .. Len(disk) /\ disk \in Seq([FileOffsets -> Cells])
       /\ \A m \in DOMAIN dir : dir[m] \in 1 .. Len(disk)
       /\ \A l, m \in DOMAIN dir : dir[l] = dir[m] => l = m
  BY <1>5, <1>7, <1>8 DEF Fits, Directory
<1>12. /\ disk' \in Seq([FileOffsets -> Cells]) /\ Len(disk') = Len(disk) /\ disk'[dir[n]][o] = v
       /\ \A j \in 1 .. Len(disk) : \A q \in FileOffsets :
              (j # dir[n] \/ q # o) => disk'[j][q] = disk[j][q]
  <2> DEFINE i == dir[n]
             F == FileOffsets
             V == Cells
  <2>1. disk' = [disk EXCEPT ![i][o] = v] /\ disk \in Seq([F -> V]) /\ i \in 1 .. Len(disk) /\ o \in F /\ v \in V
    BY <1>2, <1>3, <1>6, <1>7, <1>11
  <2> HIDE DEF i, F, V
  <2>2. /\ disk' \in Seq([F -> V]) /\ Len(disk') = Len(disk) /\ disk'[i][o] = v
        /\ \A j \in 1 .. Len(disk) : \A q \in F : (j # i \/ q # o) => disk'[j][q] = disk[j][q]
    BY <2>1, OneCell
  <2> QED
    BY <2>2 DEF i, F, V
<1>13. \A m \in DOMAIN dir : \A q \in FileOffsets :
           (m # n \/ q # o) => disk'[dir[m]][q] = disk[dir[m]][q]
  BY <1>7, <1>11, <1>12
<1>14. /\ FileOffsets' = FileOffsets /\ Members' = Members /\ (SignsItsOwn' <=> SignsItsOwn)
       /\ XfersPerTask' = XfersPerTask
       /\ (\A m, q : OwnerIn(m, q)' = OwnerIn(m, q)) /\ \A t, j : OffsetOf(t, j)' = OffsetOf(t, j)
  BY <1>4, FilesLast
<1>15. Directory'
  BY <1>4, <1>11, <1>12, <1>14 DEF Directory, Cells
<1>16. Whole'
  <2> SUFFICES ASSUME NEW m \in DOMAIN dir, NEW q \in FileOffsets
               PROVE  disk'[dir[m]][q] # Hole \/ \E t \in Members : Owes(t, m, q)'
    BY <1>4, <1>14, Zenon DEF Whole, Hole
  <2>1. CASE m = n /\ q = o
    BY <1>5, <1>12, <2>1
  <2>2. CASE m # n \/ q # o
    <3>1. disk'[dir[m]][q] = disk[dir[m]][q]
      BY <1>13, <2>2
    <3>2. CASE disk[dir[m]][q] # Hole
      BY <3>1, <3>2
    <3>3. CASE disk[dir[m]][q] = Hole
      <4>1. PICK t \in Members : Owes(t, m, q)
        BY <1>8, <3>3 DEF Whole
      <4>2. CASE t # r
        BY <1>10, <4>1, <4>2
      <4>3. CASE t = r
        <5>1. m = n
          BY <4>1, <4>3 DEF Owes, n
        <5>2. PICK j \in k .. XfersPerTask - 1 : OffsetOf(r, j) = q
          BY <1>7, <4>1, <4>3 DEF Owes
        <5>3. j # k
          BY <1>6, <2>2, <5>1, <5>2
        <5>4. j \in k + 1 .. XfersPerTask - 1
          BY <1>6, <5>2, <5>3
        <5>5. \E i \in (IF Holds(r)' THEN st'[r].pairCnt ELSE 0) .. XfersPerTask' - 1 : OffsetOf(r, i)' = q
          BY <1>9, <1>10, <1>14, <5>2, <5>4
        <5>6. Phase(r)' = "write" /\ Pc(r)' \in Writing /\ st'[r].name = m
          BY <1>1, <1>9, <5>1 DEF Loops, Writing, n
        <5> QED
          BY <4>3, <5>5, <5>6, Zenon DEF Owes
      <4> QED
        BY <4>2, <4>3
    <3> QED
      BY <3>2, <3>3
  <2> QED
    BY <2>1, <2>2
<1>17. Signed'
  <2> SUFFICES ASSUME SignsItsOwn, ~test.faultyStorage, NEW m \in DOMAIN dir, NEW q \in FileOffsets,
                      disk'[dir[m]][q] # Hole
               PROVE  disk'[dir[m]][q].task = OwnerIn(m, q)
    BY <1>4, <1>14, Zenon DEF Signed, Hole
  <2>1. CASE m = n /\ q = o
    BY <1>5, <1>6, <1>12, <2>1
  <2>2. CASE m # n \/ q # o
    BY <1>13, <2>2, <1>8 DEF Signed
  <2> QED
    BY <2>1, <2>2
<1> QED
  BY <1>4, <1>10, <1>15, <1>16, <1>17, FilesThen DEF FInv

LEMMA ReadXferFiles ==
    ASSUME IInv, FInv, Sequential, NEW r \in Members, ReadXfer(r)
    PROVE  FInv'
<1>1. FKnown(r) /\ Pc(r) = "xfer" /\ Phase(r) = "read" /\ ~aborted /\ Pc(r) \notin DOMAIN Kind
  BY FKnows, KindIs DEF ReadXfer, At, Pc, Phase
<1>2. CASE Abort
  BY <1>2, FilesStill DEF Abort
<1>3. CASE ~Abort
  <2>1. PICK off \in Offsets(r) :
            Go(r, Moved([st[r] EXCEPT !.buffer = disk[st[r].fd][off]], off), "xfer") /\ OnlyTasks
    BY <1>3, Zenon DEF ReadXfer
  <2>2. st[r].pairCnt < XfersPerTask /\ off = Offset(r)
    BY <1>1, NextIs
  <2> DEFINE v == disk[st[r].fd][off]
             rec == [st[r] EXCEPT !.buffer = v]
  <2>3. Fits(r, v)
    BY <1>1, <2>2, ReadsIts
  <2>4. test' = test /\ dir' = dir /\ disk' = disk /\ wire' = wire /\ faults' = faults
    BY <2>1 DEF OnlyTasks
  <2> HIDE DEF v
  <2>5. Loops(r) /\ st'[r].buffer = v
    <3>1. DOMAIN rec = Fields /\ rec.buffer = v /\ \A f \in (Control \cup Data) \ {"errors", "buffer"} : rec[f] = st[r][f]
      BY <1>1, QuietIsData DEF Fields, Control, Data
    <3>2. Go(r, Moved(rec, off), "xfer")
      BY <2>1 DEF v
    <3> HIDE DEF rec
    <3> QED
      BY <1>1, <2>2, <2>4, <3>1, <3>2, MovedFiles
  <2> QED
    BY <1>1, <2>3, <2>4, <2>5, ReadKeeps
<1> QED
  BY <1>2, <1>3

\* A comparison leaves the files as they are, whatever it finds.
LEMMA ComparedFiles ==
    ASSUME FInv, NEW r, FKnown(r), NEW rec, NEW off, NEW a, NEW b, Compared(r, rec, off, a, b),
           DOMAIN rec = Fields, \A f \in (Control \cup Data) \ {"buffer"} : rec[f] = st[r][f],
           Pc(r) \in {"xfer", "rc3"}, ~aborted, Pc(r) \in DOMAIN Kind => MayLeave(r, Pc(r)),
           st[r].pairCnt < XfersPerTask, Fits(r, rec.buffer), Phase(r) # "write",
           test' = test, dir' = dir, disk' = disk, wire' = wire, faults' = faults
    PROVE  FInv'
<1>1. Loops(r) /\ st'[r].buffer = rec.buffer
  <2>1. CASE Go(r, Moved(rec, off), "xfer")
    BY <2>1, MovedFiles
  <2>2. CASE Go(r, Moved([rec EXCEPT !.errors = @ + 1], off), "xfer")
    <3> DEFINE bad == [rec EXCEPT !.errors = @ + 1]
    <3>1. /\ DOMAIN bad = Fields /\ bad.buffer = rec.buffer
          /\ \A f \in (Control \cup Data) \ {"errors", "buffer"} : bad[f] = st[r][f]
      BY DEF Fields, Control, Data
    <3>2. Go(r, Moved(bad, off), "xfer")
      BY <2>2
    <3> HIDE DEF bad
    <3> QED
      BY <3>1, <3>2, MovedFiles
  <2> QED
    BY <2>1, <2>2, Zenon DEF Compared
<1> QED
  BY <1>1, ReadKeeps

LEMMA WriteCheckFiles ==
    ASSUME FInv, NEW r, FKnown(r), WriteCheckXfer(r)
    PROVE  FInv'
<1>1. Pc(r) = "xfer" /\ Phase(r) = "writecheck" /\ ~aborted /\ Pc(r) \notin DOMAIN Kind
  BY KindIs DEF WriteCheckXfer, At, Pc, Phase
<1>2. CASE Abort
  BY <1>2, FilesStill DEF Abort
<1>3. CASE ~Abort
  <2>1. PICK off \in Offsets(r) :
            LET rec == [st[r] EXCEPT !.buffer = Filled(r), !.checkBuffer = disk[st[r].fd][off]]
            IN  /\ Compared(r, rec, off, rec.buffer, rec.checkBuffer)
                /\ UNCHANGED <<test, dir, disk, wire, faults>>
    BY <1>3, Zenon DEF WriteCheckXfer
  <2>2. st[r].pairCnt < XfersPerTask
    BY <1>1, NextIs
  <2> DEFINE v == Filled(r)
             rec == [st[r] EXCEPT !.buffer = v, !.checkBuffer = disk[st[r].fd][off]]
  <2>3. Fits(r, v)
    BY <1>1, <2>2, FilledIs
  <2>4. /\ Compared(r, rec, off, rec.buffer, rec.checkBuffer)
        /\ test' = test /\ dir' = dir /\ disk' = disk /\ wire' = wire /\ faults' = faults
    BY <2>1
  <2> HIDE DEF v
  <2>5. DOMAIN rec = Fields /\ rec.buffer = v /\ \A f \in (Control \cup Data) \ {"buffer"} : rec[f] = st[r][f]
    BY QuietIsData DEF Fields, Control, Data
  <2> HIDE DEF rec
  <2>6. Fits(r, rec.buffer)
    BY <2>3, <2>5
  <2> QED
    BY <1>1, <2>2, <2>4, <2>5, <2>6, ComparedFiles
<1> QED
  BY <1>2, <1>3

LEMMA CompareFiles ==
    ASSUME FInv, NEW r, FKnown(r), CompareReads(r)
    PROVE  FInv'
<1>1. Leaving(r, "rc3")
  BY DEF CompareReads
<1>2. Pc(r) = "rc3" /\ ~aborted /\ (Pc(r) \in DOMAIN Kind => MayLeave(r, Pc(r)))
  BY <1>1, LeavesKind
<1>3. Phase(r) = "readcheck" /\ st[r].pairCnt < XfersPerTask
  BY <1>2 DEF FKnown, Placed
<1>4. DOMAIN st[r] = Fields /\ Fits(r, st[r].buffer)
  BY QuietIsData DEF FKnown, Buffers, Fits
<1>5. /\ Compared(r, st[r], Offset(r), st[r].buffer, st[ReadCheckFrom(r)].checkBuffer)
      /\ test' = test /\ dir' = dir /\ disk' = disk /\ wire' = wire /\ faults' = faults
  BY DEF CompareReads
<1> QED
  BY <1>2, <1>3, <1>4, <1>5, ComparedFiles

LEMMA ReadCheckFiles ==
    ASSUME IInv, FInv, Sequential, NEW r \in Members, ReadCheckXfer(r)
    PROVE  FInv'
<1>1. FKnown(r) /\ Pc(r) = "xfer" /\ Phase(r) = "readcheck" /\ ~aborted /\ Pc(r) \notin DOMAIN Kind
  BY FKnows, KindIs DEF ReadCheckXfer, At, Pc, Phase
<1>2. CASE Abort
  BY <1>2, FilesStill DEF Abort
<1>3. CASE ~Abort
  <2> DEFINE v == disk[st[r].fd][Offset(r)]
             rec == [st[r] EXCEPT !.buffer = v]
  <2>1. Go(r, rec, "rc1") /\ OnlyTasks
    BY <1>3, Zenon DEF ReadCheckXfer
  <2>2. st[r].pairCnt < XfersPerTask
    BY <1>1, ReadCheckLoop DEF ReadCheckXfer, FKnown
  <2>3. Fits(r, v)
    BY <1>1, <2>2, ReadsIts
  <2>4. test' = test /\ dir' = dir /\ disk' = disk /\ wire' = wire /\ faults' = faults
    BY <2>1 DEF OnlyTasks
  <2> HIDE DEF v
  <2>5. DOMAIN rec = Fields /\ rec.buffer = v /\ \A f \in (Control \cup Data) \ {"buffer"} : rec[f] = st[r][f]
    BY <1>1, QuietIsData DEF Fields, Control, Data
  <2> HIDE DEF rec
  <2>6. /\ Went(r) /\ NewPc(r) = "rc1" /\ \A f \in Fields \ {"pc"} : st'[r][f] = rec[f]
    <3>1. "rc1" \in Labels /\ At(r, Pc(r)) /\ DOMAIN wire' = DOMAIN wire
      BY <1>1, <2>4, LabelsAre DEF At, Pc
    <3> QED
      BY <1>1, <2>1, <2>4, <2>5, <3>1, Gone DEF FKnown
  <2>7. st[r].moved = st[r].pairCnt /\ st[r].pairCnt \in 0 .. XfersPerTask
    BY <1>1 DEF FKnown, Counts, Holds, Moving
  <2>8. \A f \in {"rankOffset", "name", "fd", "stamp", "moved", "pairCnt", "phase", "rep"} : st'[r][f] = st[r][f]
    BY <2>5, <2>6 DEF Fields, Control, Data
  <2>9. st'[r].buffer = v
    BY <2>5, <2>6 DEF Fields
  <2>10. \A q \in World \ {r} : st'[q] = st[q]
    BY <2>6 DEF Went
  <2>11. Loops(r)
    BY <1>1, <2>4, <2>6, <2>7, <2>8, <2>10 DEF Loops, Pc, NewPc, Phase, Rep
  <2> QED
    BY <1>1, <2>3, <2>4, <2>9, <2>11, ReadKeeps
<1> QED
  BY <1>2, <1>3

-----------------------------------------------------------------------------
(* The size of a file, and the steps that are nobody's                       *)

\* When nobody owes anything, a file is as long as all its transfers.
LEMMA SizeIs ==
    ASSUME Given, NEW n \in DOMAIN dir, Whole, \A t \in Members : \A o \in FileOffsets : ~Owes(t, n, o)
    PROVE  FileSize(dir[n]) = FileXfers
<1>1. FileXfers \in Nat
  BY TestStrides
<1> DEFINE written == {o \in FileOffsets : disk[dir[n]][o] # Hole}
<1>2. written = FileOffsets
  BY DEF Whole
<1>3. FileOffsets = 0 .. FileXfers - 1
  BY DEF FileOffsets
<1>4. FileSize(dir[n]) = IF written = {} THEN 0 ELSE 1 + CHOOSE o \in written : \A q \in written : q <= o
  BY DEF FileSize
<1> HIDE DEF written
<1>5. CASE FileXfers = 0
  BY <1>1, <1>2, <1>3, <1>4, <1>5
<1>6. CASE FileXfers # 0
  <2>1. FileXfers - 1 \in written /\ \A q \in written : q <= FileXfers - 1
    BY <1>1, <1>2, <1>3, <1>6
  <2>2. PICK max : max = CHOOSE o \in written : \A q \in written : q <= o
    OBVIOUS
  <2>3. max \in written /\ \A q \in written : q <= max
    BY <2>1, <2>2
  <2>4. max = FileXfers - 1
    BY <1>1, <1>2, <1>3, <2>1, <2>3
  <2>5. FileSize(dir[n]) = 1 + max
    BY <1>4, <2>1, <2>2
  <2> QED
    BY <1>1, <2>4, <2>5
<1> QED
  BY <1>5, <1>6

LEMMA StatFiles ==
    ASSUME IInv, FInv, Sequential, NEW r \in Members, StatFile(r)
    PROVE  FInv'
<1>1. FKnown(r) /\ Pc(r) = "stat" /\ ~aborted /\ Pc(r) \notin DOMAIN Kind
  BY FKnows, KindIs DEF StatFile, At, Pc
<1>2. CASE Abort
  BY <1>2, FilesStill DEF Abort
<1>3. CASE ~Abort
  <2> DEFINE n == st[r].name
             v == FileSize(dir[n])
             rec == [st[r] EXCEPT !.statSize = v]
  <2>1. n \in DOMAIN dir /\ Go(r, rec, "size") /\ OnlyTasks
    BY <1>3, Zenon DEF StatFile
  <2>2. test' = test /\ dir' = dir /\ disk' = disk /\ wire' = wire /\ faults' = faults
    BY <2>1 DEF OnlyTasks
  <2>3. Given /\ Phase(r) \in {"write", "read"} /\ Names(r) /\ Buffers(r) /\ Counts(r) /\ HasFile(r)
    BY <1>1 DEF FKnown, Placed
  <2>4. v = FileXfers
    <3>1. AfterWriting(r)
      BY <1>1, <2>3 DEF AfterWriting, Inside
    <3>2. \A t \in Members : \A o \in FileOffsets : ~Owes(t, n, o)
      BY <3>1, NobodyWrites DEF Owes
    <3> QED
      BY <2>1, <2>3, <3>2, SizeIs DEF FInv
  <2> HIDE DEF v
  <2>5. /\ DOMAIN rec = Fields /\ rec.statSize = v
        /\ \A f \in {"rankOffset", "name", "fd", "stamp", "buffer", "moved", "phase", "rep"} : rec[f] = st[r][f]
    BY <1>1, QuietIsData DEF Fields
  <2> HIDE DEF rec
  <2>6. /\ Went(r) /\ NewPc(r) = "size" /\ \A f \in Fields \ {"pc"} : st'[r][f] = rec[f]
    <3>1. "size" \in Labels /\ At(r, Pc(r)) /\ DOMAIN wire' = DOMAIN wire
      BY <1>1, <2>2, LabelsAre DEF At, Pc
    <3> QED
      BY <1>1, <2>1, <2>2, <2>5, <3>1, Gone DEF FKnown
  <2>7. /\ st'[r].statSize = v /\ Pc(r)' = "size" /\ Phase(r)' = Phase(r) /\ Rep(r)' = Rep(r)
        /\ \A f \in {"rankOffset", "name", "fd", "stamp", "buffer", "moved"} : st'[r][f] = st[r][f]
    BY <2>5, <2>6 DEF Fields, Pc, NewPc, Phase, Rep
  <2>8. /\ Members' = Members /\ N' = N /\ (Reorders' <=> Reorders) /\ XfersPerTask' = XfersPerTask
        /\ FileXfers' = FileXfers
    BY <2>2, FilesLast
  <2>9. /\ ~Holds(r)' /\ Pc(r)' \in MovedOut /\ Pc(r)' \in Inside \ {"gate"} /\ Pc(r)' \notin Outside
        /\ Pc(r) \in MovedOut /\ Pc(r) \in Inside \ {"gate"} /\ Pc(r) \notin Outside
    BY <1>1, <2>7 DEF Holds, Moving, MovedOut, Inside, Outside
  <2>10. HasFile(r)'
    BY <2>1, <2>2, <2>7, <2>9 DEF HasFile
  <2>11. Names(r)'
    <3>1. st'[r].rankOffset = st[r].rankOffset /\ st'[r].name = FileName(r, st[r].rankOffset, Rep(r))
      BY <2>3, <2>7, <2>9 DEF Names
    <3>2. st'[r].name = FileName(r, st[r].rankOffset, Rep(r))'
      BY <2>2, <2>7, <2>8, <3>1 DEF FileName, PretendRank
    <3>3. st'[r].rankOffset \in Members /\ (Phase(r) = "write" \/ ~Reorders => st'[r].rankOffset = 0)
      BY <2>3, <3>1 DEF Names
    <3> QED
      BY <2>7, <2>8, <2>9, <3>2, <3>3 DEF Names
  <2>12. Buffers(r)'
    BY <2>3, <2>7, <2>2, BuffersGoOn DEF Buffers
  <2>13. Counts(r)'
    BY <2>3, <2>4, <2>7, <2>8, <2>9 DEF Counts
  <2>14. \A q \in Members \ {r} : st'[q] = st[q] /\ HasFile(q)' /\ \A m, o : Owes(q, m, o)' = Owes(q, m, o)
    <3> SUFFICES ASSUME NEW q \in Members \ {r}
                 PROVE  st'[q] = st[q] /\ HasFile(q)' /\ \A m, o : Owes(q, m, o)' = Owes(q, m, o)
      OBVIOUS
    <3>1. st'[q] = st[q]
      BY <2>3, <2>6, MembersAre DEF Went
    <3>2. Holds(q)' = Holds(q) /\ Pc(q)' = Pc(q) /\ \A m, o : Owes(q, m, o)' = Owes(q, m, o)
      BY <2>2, <3>1, FilesOfRest
    <3>3. HasFile(q)
      BY DEF FInv
    <3> QED
      BY <2>2, <3>1, <3>2, <3>3 DEF HasFile
  <2>15. \A t \in Members : \A m \in DOMAIN dir' : \A o \in FileOffsets : Owes(t, m, o) => Owes(t, m, o)'
    <3> SUFFICES ASSUME NEW t \in Members, NEW m, NEW o, Owes(t, m, o) PROVE Owes(t, m, o)'
      OBVIOUS
    <3>1. t # r
      BY <1>1 DEF Owes, Writing
    <3> QED
      BY <2>14, <3>1
  <2>16. Fewer
    BY <2>2, Zenon DEF Fewer
  <2>17. Directory' /\ Whole' /\ Signed'
    BY <2>2, <2>15, <2>16, FilesRest
  <2> QED
    BY <2>2, <2>10, <2>11, <2>12, <2>13, <2>14, <2>17, FilesThen DEF FInv
<1> QED
  BY <1>2, <1>3

\* Storage that may spoil a transfer promises nothing about whose it is.
LEMMA CorruptFiles ==
    ASSUME Given, FInv, CorruptData
    PROVE  FInv'
<1>1. PICK n \in DOMAIN dir, o \in FileOffsets : disk' = [disk EXCEPT ![dir[n]][o] = Corrupt]
  BY DEF CorruptData
<1>2. test' = test /\ st' = st /\ dir' = dir /\ wire' = wire /\ faults' = faults - 1
  BY DEF CorruptData
<1>3. test.faultyStorage
  BY DEF CorruptData, FInv
<1>4. Directory /\ Whole
  BY DEF FInv
<1>5. Corrupt \in Cells /\ Corrupt # Hole
  BY DEF Corrupt, Hole, Cells
<1>6. /\ disk' \in Seq([FileOffsets -> Cells]) /\ Len(disk') = Len(disk)
      /\ \A j \in 1 .. Len(disk) : \A q \in FileOffsets : disk[j][q] # Hole => disk'[j][q] # Hole
  <2> DEFINE i == dir[n]
             F == FileOffsets
             V == Cells
             v == Corrupt
  <2>1. disk' = [disk EXCEPT ![i][o] = v] /\ disk \in Seq([F -> V]) /\ i \in 1 .. Len(disk) /\ o \in F /\ v \in V
    BY <1>1, <1>4, <1>5 DEF Directory
  <2> HIDE DEF i, F, V, v
  <2>2. /\ disk' \in Seq([F -> V]) /\ Len(disk') = Len(disk) /\ disk'[i][o] = v
        /\ \A j \in 1 .. Len(disk) : \A q \in F : (j # i \/ q # o) => disk'[j][q] = disk[j][q]
    BY <2>1, OneCell
  <2>3. \A j \in 1 .. Len(disk) : \A q \in F : disk[j][q] # Hole => disk'[j][q] # Hole
    BY <1>5, <2>2 DEF v
  <2> QED
    BY <2>2, <2>3 DEF F, V
<1>7. FileOffsets' = FileOffsets /\ Members' = Members
  BY <1>2, FilesLast
<1>8. \A t \in Members : st'[t] = st[t] /\ HasFile(t)' /\ \A m, p : Owes(t, m, p)' = Owes(t, m, p)
  <2> SUFFICES ASSUME NEW t \in Members
               PROVE  st'[t] = st[t] /\ HasFile(t)' /\ \A m, p : Owes(t, m, p)' = Owes(t, m, p)
    OBVIOUS
  <2>1. st'[t] = st[t]
    BY <1>2
  <2>2. Holds(t)' = Holds(t) /\ Pc(t)' = Pc(t) /\ \A m, p : Owes(t, m, p)' = Owes(t, m, p)
    BY <1>2, <2>1, FilesOfRest
  <2>3. HasFile(t)
    BY DEF FInv
  <2> QED
    BY <1>2, <2>1, <2>2, <2>3 DEF HasFile
<1>9. Directory'
  BY <1>2, <1>4, <1>6, <1>7 DEF Directory, Cells
<1>10. Whole'
  <2> SUFFICES ASSUME NEW m \in DOMAIN dir, NEW q \in FileOffsets
               PROVE  disk'[dir[m]][q] # Hole \/ \E t \in Members : Owes(t, m, q)'
    BY <1>2, <1>7, Zenon DEF Whole, Hole
  <2>1. dir[m] \in 1 .. Len(disk)
    BY <1>4 DEF Directory
  <2>2. disk[dir[m]][q] # Hole \/ \E t \in Members : Owes(t, m, q)
    BY <1>4 DEF Whole
  <2> QED
    BY <1>6, <1>8, <2>1, <2>2
<1>11. Signed'
  BY <1>2, <1>3, Zenon DEF Signed
<1>12. PICK r : r \notin Members
  BY NoSetContainsEverything
<1> QED
  BY <1>2, <1>3, <1>8, <1>9, <1>10, <1>11, <1>12, FilesThen DEF FInv

\* A task outside the test only leaves the last barrier.
LEMMA BystanderFiles ==
    ASSUME IInv, FInv, NEW r \in World \ Members, Step(r)
    PROVE  FInv'
<1>1. Pc(r) \in {"world", "done"} /\ Known(r) /\ Members \subseteq World
  BY MembersAre DEF IInv, Known, Bystander, Ended, Shape
<1>2. st[r].pc \notin Ends \cup Inside \cup {"rep", "stamp", "commFree"}
  BY <1>1 DEF Pc, Ends, Inside
<1>3. PassOn(r)
  <2>1. ~BeginRep(r) /\ ~GotStamp(r) /\ ~SkipPhase(r) /\ ~StartWrite(r) /\ ~StartCheck(r) /\ ~StartRead(r)
    BY <1>2 DEF BeginRep, GotStamp, SkipPhase, StartWrite, StartCheck, StartRead, Starting, Leaving, At, Ends
  <2>2. /\ ~LeaveGate(r) /\ ~LeaveReady(r) /\ ~CreateFile(r) /\ ~LeaveStriped(r) /\ ~OpenFile(r)
        /\ ~GetOffsetArrayRandom(r) /\ ~SeedRandGen(r)
    BY <1>2 DEF LeaveGate, LeaveReady, CreateFile, LeaveStriped, OpenFile, GetOffsetArrayRandom, SeedRandGen,
                Leaving, At, Inside
  <2>3. ~WriteXfer(r) /\ ~ReadXfer(r) /\ ~WriteCheckXfer(r) /\ ~ReadCheckXfer(r) /\ ~Reread(r) /\ ~CompareReads(r)
    BY <1>2 DEF WriteXfer, ReadXfer, WriteCheckXfer, ReadCheckXfer, Reread, CompareReads, Leaving, At, Inside
  <2>4. /\ ~EndXfer(r) /\ ~ReduceErrors(r) /\ ~GotErrors(r) /\ ~CloseFile(r) /\ ~StatFile(r) /\ ~LeaveTimes(r)
        /\ ~FinishRep(r) /\ ~DeleteFile(r) /\ ~EndRep(r)
    BY <1>2 DEF EndXfer, ReduceErrors, GotErrors, CloseFile, StatFile, LeaveTimes, FinishRep, DeleteFile, EndRep,
                Leaving, At, Inside, Ends
  <2> QED
    BY <2>1, <2>2, <2>3, <2>4, Zenon DEF Step
<1>4. Went(r) /\ test' = test
  BY <1>1, <1>3, PassOnMoves DEF GoesOn, Went
<1>5. dir' = dir /\ disk' = disk /\ wire'.stamp \in Int /\ faults' = faults
  <2>1. OnlyTasks
    BY <1>3, Zenon DEF PassOn
  <2> QED
    BY <2>1, FilesOnly
<1>6. \A t \in Members : st'[t] = st[t] /\ HasFile(t)' /\ \A m, p : Owes(t, m, p)' = Owes(t, m, p)
  <2> SUFFICES ASSUME NEW t \in Members
               PROVE  st'[t] = st[t] /\ HasFile(t)' /\ \A m, p : Owes(t, m, p)' = Owes(t, m, p)
    OBVIOUS
  <2>1. st'[t] = st[t]
    BY <1>1, <1>4 DEF Went
  <2>2. Holds(t)' = Holds(t) /\ Pc(t)' = Pc(t) /\ \A m, p : Owes(t, m, p)' = Owes(t, m, p)
    BY <1>4, <2>1, FilesOfRest
  <2>3. HasFile(t)
    BY DEF FInv
  <2> QED
    BY <1>5, <2>1, <2>2, <2>3 DEF HasFile
<1>7. Fewer
  BY <1>5, Zenon DEF Fewer
<1>8. Directory' /\ Whole' /\ Signed'
  BY <1>4, <1>6, <1>7, FilesRest
<1> QED
  BY <1>4, <1>5, <1>6, <1>8, FilesThen DEF FInv

LEMMA MemberFiles ==
    ASSUME IInv, FInv, Sequential, NEW r \in Members, Step(r)
    PROVE  FInv'
<1>1. FKnown(r)
  BY FKnows
<1>2. ~GetOffsetArrayRandom(r) /\ ~SeedRandGen(r)
  BY <1>1 DEF FKnown, Placed, Pc, GetOffsetArrayRandom, SeedRandGen, Leaving, At
<1>3. CASE PassOn(r) \/ BeginRep(r) \/ GotStamp(r) \/ SkipPhase(r)
  BY <1>1, <1>3, PassOnFiles, BeginRepFiles, GotStampFiles, SkipPhaseFiles
<1>4. CASE StartWrite(r) \/ StartCheck(r) \/ StartRead(r) \/ LeaveGate(r)
  BY <1>1, <1>4, StartWriteFiles, StartCheckFiles, StartReadFiles, LeaveGateFiles
<1>5. CASE LeaveReady(r) \/ CreateFile(r) \/ LeaveStriped(r) \/ OpenFile(r)
  BY <1>1, <1>5, ReadyFiles, CreateFileFiles, OpenFileFiles
<1>6. CASE WriteXfer(r) \/ ReadXfer(r) \/ WriteCheckXfer(r)
  BY <1>1, <1>6, WriteXferFiles, ReadXferFiles, WriteCheckFiles
<1>7. CASE ReadCheckXfer(r) \/ Reread(r) \/ CompareReads(r) \/ EndXfer(r)
  BY <1>1, <1>7, ReadCheckFiles, RereadFiles, CompareFiles, EndXferFiles
<1>8. CASE ReduceErrors(r) \/ GotErrors(r) \/ CloseFile(r) \/ StatFile(r)
  BY <1>1, <1>8, ReduceFiles, GotErrorsFiles, CloseFiles, StatFiles
<1>9. CASE LeaveTimes(r) \/ FinishRep(r) \/ DeleteFile(r) \/ EndRep(r)
  BY <1>1, <1>9, LeaveTimesFiles, FinishFiles, DeleteFiles, EndRepFiles
<1> QED
  BY <1>2, <1>3, <1>4, <1>5, <1>6, <1>7, <1>8, <1>9, Zenon DEF Step

LEMMA FilesStay ==
    ASSUME IInv, FInv, Sequential, [Next]_vars
    PROVE  FInv' /\ test' = test
<1>1. CASE UNCHANGED vars
  BY <1>1, FilesStill DEF vars
<1>2. CASE CorruptData
  BY <1>2, CorruptFiles DEF CorruptData, IInv, Shape
<1>3. ASSUME NEW r \in World, Step(r) PROVE FInv' /\ test' = test
  <2>1. Known(r)
    BY DEF IInv, Known, Bystander
  <2>2. Moves(r) \/ Stops
    BY <1>3, <2>1, StepMoves
  <2>3. test' = test
    BY <2>2 DEF Moves, Stops, GoesOn, Turns, Opens, Transfers, AddsUp, Learns, Repeats, Went
  <2> QED
    BY <1>3, <2>3, MemberFiles, BystanderFiles
<1> QED
  BY <1>1, <1>2, <1>3 DEF Next

-----------------------------------------------------------------------------
(* The files there are when the test begins                                  *)

LEMMA OldNamesAre ==
    ASSUME Given
    PROVE  /\ IsFiniteSet(OldNames)
           /\ \A n \in OldNames : test.filePerProc => n[1] \in Members
<1>1. N \in Nat \ {0} /\ Members = 0 .. N - 1 /\ IsFiniteSet(Members) /\ test.repetitions \in Nat
  BY MembersAre, ParamsAre
<1>2. \A r \in Members : PretendRank(r, 0) \in Members
  <2> SUFFICES ASSUME NEW r \in Members PROVE PretendRank(r, 0) \in Members
    OBVIOUS
  <2>1. r + 0 \in Int
    BY <1>1
  <2> QED
    BY <2>1, Wraps DEF PretendRank
<1> DEFINE A == Members \cup {-1}
           B == (0 .. test.repetitions - 1) \cup {-1}
<1>3. IsFiniteSet(A) /\ IsFiniteSet(B)
  <2>1. IsFiniteSet(0 .. test.repetitions - 1)
    BY <1>1, FS_Interval, SMTT(30)
  <2> QED
    BY <1>1, <2>1, FS_AddElement
<1>4. OldNames \subseteq A \X B
  BY <1>2 DEF OldNames, FileName
<1>5. IsFiniteSet(OldNames)
  <2> HIDE DEF A, B
  <2>1. IsFiniteSet(A \X B)
    BY <1>3, FS_Product
  <2> QED
    BY <1>4, <2>1, FS_Subset
<1>6. \A n \in OldNames : test.filePerProc => n[1] \in Members
  BY <1>2 DEF OldNames, FileName
<1> QED
  BY <1>5, <1>6

LEMMA FillIs ==
    ASSUME NEW t \in Nat, NEW s \in Int, NEW o \in Int
    PROVE  Fill(t, s, o) \in Cells /\ Fill(t, s, o) # Hole /\ Fill(t, s, o).task = t
<1>1. Fill(t, s, o).task = t /\ Hole.task = -1
  BY DEF Fill, Hole
<1>2. Fill(t, s, o) # Hole
  BY <1>1
<1>3. Fill(t, s, o) \in Cells
  BY DEF Fill, Cells
<1> QED
  BY <1>1, <1>2, <1>3

LEMMA OldFileIs ==
    ASSUME Given, NEW n, test.filePerProc => n[1] \in Members
    PROVE  /\ OldFile(n) \in [FileOffsets -> Cells]
           /\ \A o \in FileOffsets : OldFile(n)[o] # Hole /\ OldFile(n)[o].task = OwnerIn(n, o)
<1>1. Members \subseteq Nat /\ test.xfersPerBlock \in Nat \ {0}
  BY MembersAre, TestStrides DEF Strided
<1>2. \A o \in FileOffsets : OwnerIn(n, o) \in Nat /\ o \in Int
  <2> SUFFICES ASSUME NEW o \in FileOffsets PROVE OwnerIn(n, o) \in Nat /\ o \in Int
    OBVIOUS
  <2>1. o \in Int
    BY DEF FileOffsets
  <2>2. CASE test.filePerProc
    BY <1>1, <2>1, <2>2 DEF OwnerIn
  <2>3. CASE ~test.filePerProc
    <3>1. o \div test.xfersPerBlock \in Int
      BY <1>1, <2>1
    <3>2. (o \div test.xfersPerBlock) % N \in Members
      BY <3>1, Wraps
    <3> QED
      BY <1>1, <2>1, <2>3, <3>2 DEF OwnerIn
  <2> QED
    BY <2>2, <2>3
<1>3. OldFile(n) = [o \in FileOffsets |-> Fill(OwnerIn(n, o), -1, o)]
  BY DEF OldFile, OwnerIn
<1>4. \A o \in FileOffsets : /\ Fill(OwnerIn(n, o), -1, o) \in Cells /\ Fill(OwnerIn(n, o), -1, o) # Hole
                             /\ Fill(OwnerIn(n, o), -1, o).task = OwnerIn(n, o)
  <2> SUFFICES ASSUME NEW o \in FileOffsets
               PROVE  /\ Fill(OwnerIn(n, o), -1, o) \in Cells /\ Fill(OwnerIn(n, o), -1, o) # Hole
                      /\ Fill(OwnerIn(n, o), -1, o).task = OwnerIn(n, o)
    OBVIOUS
  <2>1. PICK w \in Nat, s \in Int : w = OwnerIn(n, o) /\ s = -1 /\ o \in Int
    BY <1>2
  <2>2. Fill(w, s, o) \in Cells /\ Fill(w, s, o) # Hole /\ Fill(w, s, o).task = w
    BY <2>1, FillIs
  <2> QED
    BY <2>1, <2>2
<1> QED
  BY <1>3, <1>4

LEMMA FilesAtFirst ==
    ASSUME Init, Given
    PROVE  FInv
<1>1. wire.stamp \in Int /\ (~test.faultyStorage => faults = 0)
  BY DEF Init
<1>2. \A t \in Members : HasFile(t) /\ Names(t) /\ Buffers(t) /\ Counts(t) /\ \A n, o : ~Owes(t, n, o)
  <2> SUFFICES ASSUME NEW t \in Members
               PROVE  HasFile(t) /\ Names(t) /\ Buffers(t) /\ Counts(t) /\ \A n, o : ~Owes(t, n, o)
    OBVIOUS
  <2>1. t \in World /\ t \in Nat /\ 0 \in Members
    BY MembersAre
  <2>2. Pc(t) = "rep" /\ Phase(t) = "write"
    BY <2>1, StartsWith DEF Pc, Phase
  <2>3. st[t].rankOffset = 0 /\ st[t].buffer = Fill(t, 0, 0) /\ st[t].stamp = 0
    <3>1. PICK first, later : st = [r \in World |-> Task0(r, Seeded(first, later)[r])]
      BY Zenon DEF Init
    <3> DEFINE rng == Seeded(first, later)[t]
    <3>2. st[t] = Task0(t, rng)
      BY <2>1, <3>1
    <3> HIDE DEF rng
    <3> QED
      BY <3>2 DEF Task0
  <2>4. ~Holds(t) /\ Pc(t) \notin MovedOut \cup Idle \cup Inside \cup Writing /\ Pc(t) # "size"
    BY <2>2 DEF Holds, Moving, MovedOut, Idle, Inside, Writing
  <2>5. HasFile(t) /\ Counts(t) /\ \A n, o : ~Owes(t, n, o)
    BY <2>4 DEF HasFile, Counts, Owes
  <2>6. Names(t)
    BY <2>1, <2>2, <2>3, <2>4 DEF Names
  <2>7. Buffers(t)
    BY <2>1, <2>3, FillIs DEF Buffers
  <2> QED
    BY <2>5, <2>6, <2>7
<1> DEFINE names == IF HasOldFiles THEN OldNames ELSE {}
           c == Cardinality(names)
<1>3. /\ dir = CHOOSE f \in [names -> 1 .. c] : \A m, n \in names : m # n => f[m] # f[n]
      /\ disk = [i \in 1 .. c |-> OldFile(CHOOSE n \in names : dir[n] = i)]
  BY DEF Init
<1>4. IsFiniteSet(names) /\ \A n \in names : test.filePerProc => n[1] \in Members
  BY OldNamesAre, FS_EmptySet
<1> HIDE DEF names
<1>5. /\ c \in Nat /\ dir \in [names -> 1 .. c] /\ (\A m, n \in names : m # n => dir[m] # dir[n])
      /\ \A i \in 1 .. c : \E n \in names : dir[n] = i
  <2>1. IsFiniteSet(names)
    BY <1>4
  <2>2. c \in Nat /\ \E g \in [names -> 1 .. c] : \A m, n \in names : m # n => g[m] # g[n]
    BY <2>1, Numbered
  <2>3. dir \in [names -> 1 .. c] /\ \A m, n \in names : m # n => dir[m] # dir[n]
    <3> HIDE DEF c
    <3> QED
      BY <1>3, <2>2
  <2>4. \A i \in 1 .. c : \E n \in names : dir[n] = i
    BY <2>1, <2>3, AllNumbers
  <2> QED
    BY <2>2, <2>3, <2>4
<1> HIDE DEF c
<1>6. \A i \in 1 .. c : disk[i] \in [FileOffsets -> Cells]
  <2> SUFFICES ASSUME NEW i \in 1 .. c PROVE disk[i] \in [FileOffsets -> Cells]
    OBVIOUS
  <2>1. PICK n : n = CHOOSE m \in names : dir[m] = i
    OBVIOUS
  <2>2. n \in names /\ disk[i] = OldFile(n)
    BY <1>3, <1>5, <2>1
  <2> QED
    BY <1>4, <2>2, OldFileIs
<1>7. \A n \in names : disk[dir[n]] = OldFile(n)
  <2> SUFFICES ASSUME NEW n \in names PROVE disk[dir[n]] = OldFile(n)
    OBVIOUS
  <2>1. PICK m : m = CHOOSE l \in names : dir[l] = dir[n]
    OBVIOUS
  <2>2. m \in names /\ dir[m] = dir[n]
    BY <2>1
  <2>3. m = n
    BY <1>5, <2>2
  <2>4. disk[dir[n]] = OldFile(m)
    BY <1>3, <1>5, <2>1
  <2> QED
    BY <2>3, <2>4
<1>8. Directory
  <2>1. disk \in Seq([FileOffsets -> Cells]) /\ Len(disk) = c
    <3> DEFINE F == [FileOffsets -> Cells]
    <3>1. \A i \in 1 .. c : disk[i] \in F
      BY <1>6
    <3> HIDE DEF F
    <3>2. disk \in [1 .. c -> F]
      BY <1>3, <3>1, Zenon
    <3>3. disk \in Seq(F) /\ Len(disk) = c
      BY <1>5, <3>2
    <3> QED
      BY <3>3 DEF F
  <2> QED
    BY <1>5, <2>1 DEF Directory
<1>9. Whole /\ Signed
  <2>1. \A n \in DOMAIN dir : \A o \in FileOffsets :
            disk[dir[n]][o] # Hole /\ disk[dir[n]][o].task = OwnerIn(n, o)
    <3> SUFFICES ASSUME NEW n \in DOMAIN dir, NEW o \in FileOffsets
                 PROVE  disk[dir[n]][o] # Hole /\ disk[dir[n]][o].task = OwnerIn(n, o)
      OBVIOUS
    <3>1. n \in names /\ (test.filePerProc => n[1] \in Members) /\ disk[dir[n]] = OldFile(n)
      BY <1>4, <1>5, <1>7
    <3> QED
      BY <3>1, OldFileIs
  <2> QED
    BY <2>1 DEF Whole, Signed
<1> QED
  BY <1>1, <1>2, <1>8, <1>9 DEF FInv

-----------------------------------------------------------------------------
(* What is written is what the tests expect                                  *)

MovedBy == [s \in Members |-> st[s].moved]
LEMMA MovedInAll == MapThenSumSet(LAMBDA s : st[s].moved, Members) = SumOn(MovedBy, Members)
  BY Zenon DEF SumOn, MovedBy, MapThenSumSet, MapThenFoldSet

\* Once a task has the sizes of the others, all of them have moved all their transfers.
LEMMA AllHaveMoved ==
    ASSUME IInv, FInv, NEW r \in Members, Pc(r) = "times"
    PROVE  MapThenSumSet(LAMBDA s : st[s].moved, Members) = N * XfersPerTask
<1>1. Given
  BY MembersKnow
<1>2. N \in Nat /\ Members = 0 .. N - 1 /\ XfersPerTask \in Nat
  BY <1>1, MembersAre, ParamsAre
<1>3. \A s \in Members : MovedBy[s] = XfersPerTask
  <2> SUFFICES ASSUME NEW s \in Members PROVE st[s].moved = XfersPerTask
    BY DEF MovedBy
  <2>1. Counts(s)
    BY DEF FInv
  <2>2. Pc(s) \in {"size", "times"} \/ (Pc(s) \in Idle /\ Before(Phase(s)) > 0)
    BY SizesTogether
  <2> QED
    BY <2>1, <2>2 DEF Counts, MovedOut
<1> DEFINE n == N
           x == XfersPerTask
           f == MovedBy
<1>4. n \in Nat /\ x \in Int /\ (\A s \in 0 .. n - 1 : f[s] = x) /\ Members = 0 .. n - 1
  BY <1>2, <1>3
<1>5. SumOn(f, Members) = n * x
  <2> HIDE DEF n, x, f
  <2> QED
    BY <1>4, SumOfSame
<1> QED
  BY <1>5, MovedInAll, Zenon

\* When a task comes to look at the file it has written, all of it is there.
LEMMA AllIsThere ==
    ASSUME IInv, FInv, Sequential, SignsItsOwn, ~test.faultyStorage, NEW r \in Members,
           Phase(r) = "write", Pc(r) \in {"stat", "size"}, NEW o \in FileOffsets
    PROVE  disk[dir[st[r].name]][o] # Hole /\ disk[dir[st[r].name]][o].task = Owner(r, o)
<1> DEFINE n == st[r].name
<1>1. n \in DOMAIN dir
  BY DEF FInv, HasFile, MovedOut
<1>2. \A t \in Members : ~Owes(t, n, o)
  <2>1. AfterWriting(r)
    BY DEF AfterWriting
  <2> QED
    BY <2>1, NobodyWrites DEF Owes
<1>3. disk[dir[n]][o] # Hole
  BY <1>1, <1>2 DEF FInv, Whole
<1>4. disk[dir[n]][o].task = OwnerIn(n, o)
  BY <1>1, <1>3 DEF FInv, Signed
<1>5. Owner(r, o) = OwnerIn(n, o)
  BY DEF Owner, OwnerIn, Sequential
<1> QED
  BY <1>3, <1>4, <1>5

LEMMA OwnersHaveWritten ==
    ASSUME IInv, ~test.randomOffset, SignsItsOwn, Sequential => FInv
    PROVE  WrittenByOwner
<1> SUFFICES ASSUME ~test.deadlineForStonewalling, NEW r \in Members
             PROVE  /\ ~aborted /\ st[r].pc = "size" => st[r].statSize = FileXfers
                    /\ ~aborted /\ st[r].pc = "times" =>
                          MapThenSumSet(LAMBDA s : st[s].moved, Members) = N * XfersPerTask
                    /\ ~test.faultyStorage /\ st[r].phase = "write" /\ st[r].pc \in {"stat", "size"} =>
                          \A o \in FileOffsets :
                              LET cell == disk[dir[st[r].name]][o]
                              IN  cell # Hole /\ ((test.randomOffset /\ st[r].rep > 0) \/ cell.task = Owner(r, o))
  BY Zenon DEF WrittenByOwner
<1>1. Sequential /\ FInv
  BY DEF Sequential
<1>2. Pc(r) = "size" => st[r].statSize = FileXfers
  BY <1>1 DEF FInv, Counts
<1>3. Pc(r) = "times" => MapThenSumSet(LAMBDA s : st[s].moved, Members) = N * XfersPerTask
  BY <1>1, AllHaveMoved, Zenon
<1>4. ASSUME ~test.faultyStorage, Phase(r) = "write", Pc(r) \in {"stat", "size"}, NEW o \in FileOffsets
      PROVE  disk[dir[st[r].name]][o] # Hole /\ disk[dir[st[r].name]][o].task = Owner(r, o)
  BY <1>1, <1>4, AllIsThere
<1> QED
  BY <1>2, <1>3, <1>4, Zenon DEF Pc, Phase

LEMMA SameTest ==
    ASSUME IInv, [Next]_vars
    PROVE  test' = test
<1>1. CASE UNCHANGED vars
  BY <1>1 DEF vars
<1>2. CASE CorruptData
  BY <1>2 DEF CorruptData
<1>3. ASSUME NEW r \in World, Step(r) PROVE test' = test
  <2>1. Known(r)
    BY DEF IInv, Known, Bystander
  <2>2. Moves(r) \/ Stops
    BY <1>3, <2>1, StepMoves
  <2> QED
    BY <2>2 DEF Moves, Stops, GoesOn, Turns, Opens, Transfers, AddsUp, Learns, Repeats, Went
<1> QED
  BY <1>1, <1>2, <1>3 DEF Next

(* Every test whose tasks make their transfers in order finds, behind the   *)
(* write phase, a file in which each place carries the signature of the     *)
(* task it belongs to, a size that every task agrees on, and as many        *)
(* transfers moved as the size says (WriteOrRead and CheckFileSize, ior.c): *)
(* whatever the number of tasks, the layout and the reordering.  With       *)
(* reordered reads the offsets must be stored in the signatures or the test *)
(* have one repetition, for the buffer that a second one writes is the one  *)
(* that the reads of the first have filled with another task's data.        *)
THEOREM FilesAreTheirOwners ==
    Spec /\ TasksDecideAlike => [](~test.randomOffset /\ SignsItsOwn => WrittenByOwner)
<1> DEFINE Kept == IInv /\ (Sequential => FInv)
<1>1. Init /\ TasksDecideAlike => Kept
  <2> SUFFICES ASSUME Init, TasksDecideAlike PROVE IInv /\ FInv
    OBVIOUS
  <2>1. Given
    BY Zenon DEF Init, Given
  <2> QED
    BY <2>1, InvAtFirst, FilesAtFirst
<1>2. Kept /\ [Next]_vars => Kept'
  <2> SUFFICES ASSUME IInv, Sequential => FInv, [Next]_vars
               PROVE  IInv' /\ (Sequential' => FInv')
    OBVIOUS
  <2>1. IInv' /\ test' = test
    BY InvStays, SameTest
  <2>2. Sequential' = Sequential
    BY <2>1 DEF Sequential
  <2>3. Sequential => FInv'
    BY FilesStay
  <2> QED
    BY <2>1, <2>2, <2>3
<1>3. Kept => (~test.randomOffset /\ SignsItsOwn => WrittenByOwner)
  BY OwnersHaveWritten
<1> QED
  BY <1>1, <1>2, <1>3, PTL DEF Spec

-----------------------------------------------------------------------------
(* What is removed                                                           *)

\* Only opening and closing change what a task has open.
LEMMA StepsSame ==
    ASSUME NEW r, Known(r), Step(r), Pc(r) # "close", ~Opens(r), st' # st
    PROVE  SameFds(r)
<1>1. ~Abort /\ ~CloseFile(r) /\ ~CreateFile(r) /\ ~OpenFile(r)
  BY OpenMoves, Zenon DEF Stops, Abort, CloseFile, At, Pc
<1>2. SUFFICES \E rec, label : Alike(r, rec) /\ Go(r, rec, label)
  BY DataIs DEF Fields, Alike, SameFds
<1>3. Alike(r, st[r])
  BY KnownIs DEF Alike
<1>4. ASSUME NEW rec, Alike(r, rec)
      PROVE  \A a, b, c :
                 /\ Alike(r, [rec EXCEPT !.stamp = a, !.phase = b]) /\ Alike(r, NextPhase(rec))
                 /\ Alike(r, [rec EXCEPT !.elapsed = a]) /\ Alike(r, [rec EXCEPT !.rankOffset = a])
                 /\ Alike(r, Named(r, rec)) /\ Alike(r, [rec EXCEPT !.randomSeed = a, !.todo = b])
                 /\ Alike(r, [rec EXCEPT !.rng = a]) /\ Alike(r, Moved(rec, a))
                 /\ Alike(r, [rec EXCEPT !.buffer = a]) /\ Alike(r, [rec EXCEPT !.checkBuffer = a])
                 /\ Alike(r, [rec EXCEPT !.buffer = a, !.checkBuffer = b])
                 /\ Alike(r, [rec EXCEPT !.errors = @ + 1]) /\ Alike(r, [rec EXCEPT !.statSize = a])
                 /\ Alike(r, [rec EXCEPT !.totalErrorCount = a, !.errorFound = b])
                 /\ Alike(r, [rec EXCEPT !.errorFound = a, !.rankOffset = b, !.rep = c])
  BY <1>4 DEF Alike, NextPhase, Named, Moved
<1>5. CASE PassOn(r) \/ BeginRep(r) \/ StartCheck(r) \/ LeaveReady(r) \/ LeaveStriped(r) \/ EndXfer(r)
           \/ ReduceErrors(r) \/ FinishRep(r) \/ DeleteFile(r)
  BY <1>3, <1>5, Zenon DEF PassOn, BeginRep, StartCheck, LeaveReady, LeaveStriped, EndXfer, ReduceErrors,
                           FinishRep, DeleteFile
<1>6. CASE GotStamp(r) \/ SkipPhase(r) \/ LeaveTimes(r) \/ StartWrite(r) \/ StartRead(r) \/ LeaveGate(r)
  BY <1>3, <1>4, <1>6, Zenon DEF GotStamp, SkipPhase, LeaveTimes, StartWrite, StartRead, LeaveGate
<1>7. CASE GetOffsetArrayRandom(r) \/ SeedRandGen(r) \/ GotErrors(r) \/ StatFile(r) \/ EndRep(r)
  BY <1>1, <1>3, <1>4, <1>7, Zenon DEF GetOffsetArrayRandom, SeedRandGen, GotErrors, StatFile, EndRep
<1>8. CASE WriteXfer(r) \/ ReadXfer(r) \/ ReadCheckXfer(r) \/ Reread(r)
  BY <1>1, <1>3, <1>4, <1>8, Zenon DEF WriteXfer, ReadXfer, ReadCheckXfer, Reread
<1>9. CASE WriteCheckXfer(r) \/ CompareReads(r)
  BY <1>1, <1>3, <1>4, <1>9, ZenonT(40) DEF WriteCheckXfer, CompareReads, Compared
<1> QED
  BY <1>1, <1>5, <1>6, <1>7, <1>8, <1>9, Zenon DEF Step

\* Only these handlers touch a file or its name.
LEMMA FilesUntouched ==
    ASSUME NEW r, Step(r), ~StartWrite(r), ~DeleteFile(r), ~CreateFile(r), ~WriteXfer(r)
    PROVE  UNCHANGED <<dir, disk>>
<1>1. CASE PassOn(r) \/ BeginRep(r) \/ GotStamp(r) \/ SkipPhase(r) \/ StartCheck(r) \/ StartRead(r)
           \/ LeaveGate(r) \/ LeaveReady(r) \/ LeaveStriped(r) \/ OpenFile(r)
  BY <1>1 DEF PassOn, BeginRep, GotStamp, SkipPhase, StartCheck, StartRead, LeaveGate, LeaveReady,
              LeaveStriped, OpenFile, OnlyTasks, Abort
<1>2. CASE GetOffsetArrayRandom(r) \/ SeedRandGen(r) \/ ReadXfer(r) \/ WriteCheckXfer(r) \/ ReadCheckXfer(r)
           \/ Reread(r) \/ CompareReads(r) \/ EndXfer(r)
  BY <1>2 DEF GetOffsetArrayRandom, SeedRandGen, ReadXfer, WriteCheckXfer, ReadCheckXfer, Reread,
              CompareReads, EndXfer, OnlyTasks, Abort
<1>3. CASE ReduceErrors(r) \/ GotErrors(r) \/ CloseFile(r) \/ StatFile(r) \/ LeaveTimes(r) \/ FinishRep(r)
           \/ EndRep(r)
  BY <1>3 DEF ReduceErrors, GotErrors, CloseFile, StatFile, LeaveTimes, FinishRep, EndRep, OnlyTasks, Abort
<1> QED
  BY <1>1, <1>2, <1>3, Zenon DEF Step

LEMMA InodesStay ==
    ASSUME Inodes, [Next]_vars
    PROVE  Inodes'
<1>1. PICK S : disk \in Seq(S)
  BY DEF Inodes
<1>2. \A n \in DOMAIN dir : dir[n] \in 1 .. Len(disk)
  BY DEF Inodes
<1>3. CASE Fewer
  BY <1>1, <1>2, <1>3 DEF Fewer, Inodes
<1>4. ASSUME dir' = dir, NEW i, NEW v, disk' = [disk EXCEPT ![i] = v] PROVE Inodes'
  <2>1. disk' \in Seq(S \cup {v}) /\ Len(disk') = Len(disk)
    BY <1>1, <1>4, CellWritten
  <2> QED
    BY <1>2, <1>4, <2>1 DEF Inodes
<1>5. CASE UNCHANGED <<dir, disk>>
  BY <1>3, <1>5, Zenon DEF Fewer
<1>6. CASE CorruptData \/ \E r \in World : WriteXfer(r)
  BY <1>4, <1>6 DEF CorruptData, WriteXfer
<1>7. ASSUME NEW r \in World, StartWrite(r) \/ DeleteFile(r) PROVE Fewer
  BY <1>7 DEF StartWrite, DeleteFile, RemoveFile, Fewer
<1>8. ASSUME NEW r \in World, CreateFile(r), ~Abort PROVE Inodes'
  <2> DEFINE n == st[r].name
             there == n \in DOMAIN dir
             inode == IF there THEN dir[n] ELSE Len(disk) + 1
  <2>1. /\ dir' = [m \in DOMAIN dir \cup {n} |-> IF m = n THEN inode ELSE dir[m]]
        /\ disk' = IF there THEN disk ELSE Append(disk, EmptyFile)
    BY <1>8, Zenon DEF CreateFile
  <2>2. disk' \in Seq(S \cup {EmptyFile}) /\ Len(disk') >= Len(disk) /\ inode \in 1 .. Len(disk')
        /\ Len(disk) \in Nat /\ Len(disk') \in Nat
    BY <1>1, <1>2, <2>1
  <2> HIDE DEF inode, there, n
  <2>3. \A m \in DOMAIN dir' : dir'[m] \in 1 .. Len(disk')
    BY <1>2, <2>1, <2>2
  <2> QED
    BY <2>2, <2>3 DEF Inodes
<1>9. ASSUME NEW r \in World, Step(r), ~StartWrite(r), ~DeleteFile(r), ~CreateFile(r), ~WriteXfer(r)
      PROVE  UNCHANGED <<dir, disk>>
  BY <1>9, FilesUntouched
<1>10. CASE UNCHANGED vars \/ Abort
  BY <1>5, <1>10 DEF vars, Abort
<1> QED
  BY <1>3, <1>5, <1>6, <1>7, <1>8, <1>9, <1>10, Zenon DEF Next

LEMMA ShutsStay ==
    ASSUME IInv, NEW r \in Members, Step(r), Shuts(r)
    PROVE  Shuts(r)'
<1>1. Known(r)
  BY MembersKnow DEF Known
<1>2. Moves(r) \/ Stops
  BY <1>1, StepMoves
<1>3. CASE st' = st
  BY <1>3 DEF Shuts, HasOpen, Pc
<1>4. ASSUME Moves(r), Opens(r) PROVE Shuts(r)'
  BY <1>4, NewIs DEF Opens, First, OpenSteps, HasOpen, Shuts
<1>5. ASSUME Moves(r), ~Opens(r), Pc(r) # "close", st' # st PROVE Shuts(r)'
  <2>1. SameFds(r)
    BY <1>1, <1>5, StepsSame
  <2>2. HasOpen(r) => HasOpen(r)'
    <3>1. Pc(r)' = NewPc(r)
      BY <1>5, NewIs DEF Moves, GoesOn, Turns, Transfers, AddsUp, Learns, Repeats
    <3>2. HasOpen(r) => NewPc(r) \in OpenSteps
      <4>1. CASE GoesOn(r)
        BY <1>5, <4>1 DEF GoesOn, Onto, BeginOn, EnterOn, GateOn, ReadyOn, StripedOn, OpenedOn, RereadOn,
                          LoopOn, ReduceOn, CloseOn, FinishOn, PlainOn, Plain, First, After, HasOpen, OpenSteps
      <4>2. CASE Turns(r)
        BY <1>5, <4>2 DEF Turns, HasOpen, OpenSteps
      <4>3. CASE Transfers(r) \/ AddsUp(r) \/ Learns(r) \/ Repeats(r)
        BY <4>3 DEF Transfers, AddsUp, Learns, Repeats, After, HasOpen, OpenSteps
      <4> QED
        BY <1>5, <4>1, <4>2, <4>3 DEF Moves
    <3> QED
      BY <3>1, <3>2 DEF HasOpen
  <2> QED
    BY <2>1, <2>2 DEF SameFds, Shuts
<1>6. ASSUME Moves(r), Pc(r) = "close" PROVE Shuts(r)'
  <2>1. CloseFile(r)
    BY <1>6 DEF Step, PassOn, Onward, BeginRep, GotStamp, SkipPhase, StartWrite, StartCheck, StartRead, LeaveGate,
                LeaveReady, CreateFile, LeaveStriped, OpenFile, GetOffsetArrayRandom, SeedRandGen, WriteXfer,
                ReadXfer, WriteCheckXfer, ReadCheckXfer, Reread, CompareReads, EndXfer, ReduceErrors, GotErrors,
                StatFile, LeaveTimes, FinishRep, DeleteFile, EndRep, Leaving, Starting, At, Pc
  <2>2. DOMAIN st[r] = Fields
    BY <1>1, KnownIs
  <2>3. PICK rec, label : Go(r, rec, label) /\ DOMAIN rec = Fields /\ rec.fd = 0 /\ rec.fdCheck = 0
    <3> DEFINE shut == [st[r] EXCEPT !.fd = 0, !.fdCheck = 0]
               next == CASE shut.phase = "writecheck" -> NextPhase([shut EXCEPT !.rankOffset = 0])
                         [] shut.phase = "readcheck"  -> NextPhase(shut)
                         [] OTHER -> shut
    <3>1. DOMAIN shut = Fields /\ shut.fd = 0 /\ shut.fdCheck = 0
      BY <2>2 DEF Fields
    <3> HIDE DEF shut
    <3>2. DOMAIN next = Fields /\ next.fd = 0 /\ next.fdCheck = 0
      BY <3>1 DEF NextPhase
    <3>3. Go(r, next, AfterClose[shut.phase])
      BY <2>1, Zenon DEF CloseFile, shut
    <3> QED
      BY <3>2, <3>3
  <2>4. st'[r].fd = 0 /\ st'[r].fdCheck = 0
    BY <1>1, <2>3, DataIs DEF Fields
  <2> QED
    BY <2>4 DEF Shuts
<1> QED
  BY <1>2, <1>3, <1>4, <1>5, <1>6, Zenon DEF Stops

LEMMA NotedStays ==
    ASSUME IInv, NEW r \in Members, Moves(r), Noted(r)
    PROVE  Noted(r)'
<1>1. /\ Given /\ Placed(r) /\ wire.sum \in Nat /\ st[r].totalErrorCount \in Nat
      /\ Rep(r) \in Nat /\ Phase(r) \in Phases
  BY MembersKnow DEF Typed
<1>2. Went(r) /\ Rep(r)' = st'[r].rep
  BY NewIs DEF Moves, GoesOn, Turns, Opens, Transfers, AddsUp, Learns, Repeats
<1>3. CASE Quiet(r)
  BY <1>1, <1>2, <1>3, QuietIs DEF Noted, Rep
<1>4. CASE AddsUp(r)
  <2>1. /\ st'[r].phase = Phase(r) /\ st'[r].rep = Rep(r) /\ st'[r].errorFound = st[r].errorFound
        /\ st'[r].totalErrorCount = st[r].totalErrorCount
    BY <1>4, FixedIs DEF AddsUp
  <2>2. Counted(r)' = Counted(r)
    BY <1>2, <1>4, <2>1, CountedIs, CountedThen DEF AddsUp, Outside, Late
  <2> QED
    BY <1>2, <2>1, <2>2 DEF Noted
<1>5. CASE Learns(r)
  <2>1. st'[r].phase = Phase(r) /\ st'[r].rep = Rep(r)
    BY <1>5, FixedBut DEF Learns
  <2>2. Counted(r)' # 0
    <3>1. Checks /\ Phase(r) # "finish" /\ NewPc(r) \in Late \ Outside
      BY <1>1, <1>5 DEF Learns, Placed, Inside, After, Late, Outside
    <3>2. Before(Phase(r)) \in Nat /\ Bit(NewPc(r) \in Late) = 1
      BY <1>1, <3>1, BeforeIs DEF Bit
    <3> QED
      BY <1>2, <2>1, <3>1, <3>2, CountedThen
  <2>3. Rep(r) = 0 => (st'[r].errorFound <=> st'[r].totalErrorCount # 0)
    <3>1. st'[r].totalErrorCount # 0 <=> st[r].totalErrorCount # 0 \/ wire.sum # 0
      BY <1>1, <1>5 DEF Learns
    <3>2. st'[r].errorFound <=> st[r].errorFound \/ wire.sum # 0
      BY <1>5, Zenon DEF Learns
    <3> QED
      BY <3>1, <3>2, Zenon DEF Noted
  <2> QED
    BY <1>2, <2>1, <2>2, <2>3 DEF Noted
<1>6. CASE Repeats(r)
  BY <1>1, <1>2, <1>6 DEF Repeats, Noted
<1> QED
  BY <1>3, <1>4, <1>5, <1>6 DEF Moves, Quiet

LEMMA RemovalsStay ==
    ASSUME IInv, RInv, [Next]_vars
    PROVE  RInv'
<1>1. Inodes' /\ test' = test
  BY InodesStay, SameTest DEF RInv
<1>2. Members' = Members /\ Members \subseteq World
  BY <1>1, MembersKnow, Lasting
<1>3. ASSUME NEW t \in Members, st'[t] = st[t] PROVE Shuts(t)' /\ Noted(t)'
  <2>1. Shuts(t) /\ Noted(t)
    BY DEF RInv
  <2>2. Counted(t)' = Counted(t)
    BY <1>1, <1>3, Lasting DEF Pc, Phase, Phases, Counted, Bit
  <2> QED
    BY <1>3, <2>1, <2>2 DEF Shuts, HasOpen, Noted, Rep, Pc
<1>4. ASSUME NEW r \in World, Step(r), NEW t \in Members PROVE Shuts(t)' /\ Noted(t)'
  <2>1. Known(r)
    BY DEF IInv, Known, Bystander
  <2>2. CASE Stops
    BY <1>3, <2>2 DEF Stops
  <2>3. CASE Moves(r) /\ t # r
    BY <1>2, <1>3, <2>3 DEF Moves, GoesOn, Turns, Opens, Transfers, AddsUp, Learns, Repeats, Went
  <2>4. CASE Moves(r) /\ t = r
    BY <1>4, <2>4, ShutsStay, NotedStays DEF RInv
  <2> QED
    BY <1>4, <2>1, <2>2, <2>3, <2>4, StepMoves
<1>5. CASE CorruptData \/ UNCHANGED vars
  BY <1>1, <1>2, <1>3, <1>5 DEF CorruptData, vars, RInv
<1> QED
  BY <1>1, <1>2, <1>4, <1>5, Zenon DEF Next, RInv

LEMMA RemovalsAtFirst ==
    ASSUME Init, Given
    PROVE  RInv
<1>1. Inodes
  BY FilesAtFirst DEF FInv, Directory, Inodes
<1>2. SUFFICES ASSUME NEW t \in Members PROVE Shuts(t) /\ Noted(t)
  BY <1>1 DEF RInv
<1>3. t \in World
  BY MembersAre
<1>4. PICK first, later : st = [r \in World |-> Task0(r, Seeded(first, later)[r])]
  BY Zenon DEF Init
<1> DEFINE rng == Seeded(first, later)[t]
<1>5. st[t] = Task0(t, rng)
  BY <1>3, <1>4
<1> HIDE DEF rng
<1> QED
  BY <1>5 DEF Task0, Shuts, Noted

\* Where nobody has a file open, no file there is is open.
LEMMA NoneOpen ==
    ASSUME RInv, \A s \in Members : ~HasOpen(s), NEW n \in DOMAIN dir, NEW r \in Members
    PROVE  dir[n] \notin {st[r].fd, st[r].fdCheck}
  BY DEF RInv, Inodes, Shuts

\* A file is removed at the start of a write phase or at the end of a repetition.
LEMMA OnlyTheseRemove ==
    ASSUME IInv, [Next]_vars, NEW n \in DOMAIN dir \ DOMAIN dir'
    PROVE  \E r \in Members : StartWrite(r) \/ DeleteFile(r)
<1>1. dir' # dir
  OBVIOUS
<1>2. PICK r \in World : Step(r)
  BY <1>1 DEF Next, vars, CorruptData
<1>3. ~CreateFile(r) /\ ~WriteXfer(r)
  BY <1>1 DEF CreateFile, WriteXfer, Abort
<1>4. StartWrite(r) \/ DeleteFile(r)
  BY <1>1, <1>2, <1>3, FilesUntouched
<1>5. r \in Members
  <2>1. Known(r)
    BY DEF IInv, Known, Bystander
  <2>2. Pc(r) \in {"phase", "delete"}
    BY <1>4 DEF StartWrite, Starting, DeleteFile, Leaving, At, Pc
  <2> QED
    BY <2>1, <2>2, KnownIs
<1> QED
  BY <1>4, <1>5

LEMMA Removing ==
    ASSUME IInv, NEW r \in Members
    PROVE  /\ StartWrite(r) => Pc(r) = "phase" /\ Phase(r) = "write" /\ Wanted("write")
           /\ DeleteFile(r) => Pc(r) = "delete" /\ Went(r)
<1>1. Known(r)
  BY MembersKnow DEF Known
<1> QED
  BY <1>1, FinishMoves DEF GoesOn, StartWrite, Starting, DeleteFile, Leaving, At, Pc, Phase

\* When files are removed nobody has one open.
LEMMA NoOpen ==
    ASSUME IInv, NEW r \in Members, StartWrite(r) \/ DeleteFile(r), NEW s \in Members
    PROVE  ~HasOpen(s)
<1>1. CASE StartWrite(r)
  BY <1>1, Removing, StartsAlone DEF HasOpen, OpenSteps, Outside
<1>2. CASE DeleteFile(r)
  BY <1>2, Removing, DeletesTogether DEF HasOpen, OpenSteps
<1> QED
  BY <1>1, <1>2

LEMMA NothingFound ==
    ASSUME IInv, \A s \in Members : Pc(s) \notin {"xfer", "rc1", "rc2", "rc3", "cntR", "cntB"},
           st[0].totalErrorCount = 0
    PROVE  found = 0
  BY MembersKnow DEF RootTotal, Uncounted, IInv, Evidence

\* In a test that keeps files with errors and has one repetition.
LEMMA RemovesGood ==
    ASSUME IInv, RInv, NEW r \in Members, StartWrite(r) \/ DeleteFile(r),
           test.keepFileWithError, test.repetitions = 1
    PROVE  found = 0
<1>1. /\ 0 \in Members /\ Placed(r) /\ Placed(0) /\ Agree /\ Aligned /\ Rep(r) \in Nat /\ Rep(0) \in Nat
      /\ Given /\ Phase(r) \in Phases /\ Phase(0) \in Phases
      /\ st[r].totalErrorCount \in Nat /\ st[0].totalErrorCount \in Nat
  BY MembersKnow DEF Typed
<1>2. Noted(r) /\ Noted(0)
  BY <1>1 DEF RInv
<1>3. CASE StartWrite(r)
  <2>1. Pc(r) = "phase" /\ Phase(r) = "write" /\ Wanted("write")
    BY <1>3, Removing
  <2>2. Rep(r) = 0 /\ Rep(0) = 0
    BY <1>1, <2>1 DEF Placed, Aligned
  <2>3. Counted(0) = 0
    <3>1. Counted(r) = 0
      BY <2>1, BeforeIs, CountedIs DEF Late, Bit
    <3>2. Counted(0) \in Nat /\ Counted(0) <= Counted(r) + 1 /\ Counted(0) # Counted(r) + 1
      BY <1>1, <2>1, <2>2, CountedNat DEF Agree
    <3> QED
      BY <3>1, <3>2
  <2>4. \A s \in Members : Pc(s) \notin {"xfer", "rc1", "rc2", "rc3", "cntR", "cntB"}
    BY <2>1, StartsAlone DEF Outside
  <2> QED
    BY <1>2, <2>2, <2>3, <2>4, NothingFound DEF Noted
<1>4. CASE DeleteFile(r)
  <2>1. Pc(r) = "delete" /\ Went(r)
    BY <1>4, Removing
  <2>2. \A s \in Members : Pc(s) \in {"delete", "repEnd"} /\ Rep(s) = Rep(r)
    BY <2>1, DeletesTogether
  <2>3. Rep(r) = 0 /\ ~st[r].errorFound /\ Phase(r) = "finish" /\ Phase(0) = "finish"
    BY <1>1, <2>1, <2>2 DEF Placed, Keeps
  <2>4. Counted(r) = Counted(0)
    BY <1>1, <2>2, <2>3, CountedIs DEF Late, Outside
  <2> QED
    BY <1>1, <1>2, <2>2, <2>3, <2>4, NothingFound DEF Agree, Noted
<1> QED
  BY <1>3, <1>4

(* No handler unlinks a file that a task has open, neither before a write   *)
(* phase nor at the end of a repetition; and in a test of one repetition    *)
(* with keepFileWithError none unlinks a file after an error was found      *)
(* (RemoveFile, ior.c:1571-1604, and its calls in TestIoSys).  With more    *)
(* repetitions the next one's write phase removes what was kept.            *)
THEOREM RemovalsKeepWhatIsNeeded ==
    Spec /\ TasksDecideAlike /\ (test.keepFileWithError => test.repetitions = 1) => RemovalsAreSafe
<1> DEFINE Once == test.keepFileWithError => test.repetitions = 1
           Kept == IInv /\ RInv /\ Once
<1>1. Init /\ TasksDecideAlike /\ Once => Kept
  <2> SUFFICES ASSUME Init, TasksDecideAlike, Once PROVE IInv /\ RInv
    OBVIOUS
  <2>1. Given
    BY Zenon DEF Init, Given
  <2> QED
    BY <2>1, InvAtFirst, RemovalsAtFirst
<1>2. Kept /\ [Next]_vars => Kept'
  <2> SUFFICES ASSUME IInv, RInv, Once, [Next]_vars PROVE IInv' /\ RInv' /\ Once'
    OBVIOUS
  <2> QED
    BY InvStays, RemovalsStay, SameTest
<1>3. Kept /\ [Next]_vars =>
          [\A n \in DOMAIN dir \ DOMAIN dir' :
              /\ \A r \in Members : dir[n] \notin {st[r].fd, st[r].fdCheck}
              /\ test.keepFileWithError =>
                    \A o \in FileOffsets : disk[dir[n]][o] # Corrupt \/ found = 0]_vars
  <2> SUFFICES ASSUME IInv, RInv, Once, [Next]_vars, NEW n \in DOMAIN dir \ DOMAIN dir'
               PROVE  /\ \A r \in Members : dir[n] \notin {st[r].fd, st[r].fdCheck}
                      /\ test.keepFileWithError => found = 0
    OBVIOUS
  <2>1. PICK r \in Members : StartWrite(r) \/ DeleteFile(r)
    BY OnlyTheseRemove
  <2>2. \A s \in Members : ~HasOpen(s)
    BY <2>1, NoOpen
  <2> QED
    BY <2>1, <2>2, NoneOpen, RemovesGood
<1> QED
  BY <1>1, <1>2, <1>3, PTL DEF Spec, RemovalsAreSafe

-----------------------------------------------------------------------------
(* What a step needs to find                                                 *)

\* Everybody has written when a task goes on to look at what has been.
LEMMA ClosedTogether ==
    ASSUME IInv, NEW r \in Members, Went(r), Pc(r) = "closed", NEW s \in Members
    PROVE  Rep(s) = Rep(r) /\ Phase(s) = "write" /\ Pc(s) \in {"closed", "stat", "size"}
<1>1. /\ Shape /\ Given /\ Waiting(r) /\ Placed(r) /\ Placed(s) /\ Phase(s) \in Phases
      /\ Place(r) \in Nat /\ Place(s) \in Nat /\ Len(Log(r)) \in Nat /\ Len(Log(s)) \in Nat
  BY MembersKnow
<1>2. Phase(r) = "write" /\ Wanted("write")
  BY <1>1 DEF Placed, Inside
<1>3. Len(Log(s)) >= Len(Log(r))
  <2>1. Pc(r) \in TestLabels /\ Waits(r, s, Kind[Pc(r)])
    BY KindIs DEF Waits
  <2> QED
    BY <1>1, <2>1, LeavesTogether
<1>4. /\ Start("write") = 1 /\ Shut("write") \in Nat /\ AllClosed = 1 + Shut("write") + 1
      /\ \A p \in Phases \ {"write"} : AllClosed <= Start(p) /\ Start(p) \in Nat
      /\ Script(AllClosed) = "Barrier"
  BY <1>1, <1>2, BarriersAre
<1>5. Place(r) = AllClosed
  <2>1. Pc(r) \notin {"rep", "stamp", "commFree", "world", "done"}
    BY <1>1
  <2>2. Place(r) = Start("write") + (Shut("write") + Bit(TRUE))
    BY <1>2 DEF Place, Within, Bit
  <2> QED
    BY <1>4, <2>2 DEF Bit
<1>6. Rep(s) = Rep(r) /\ Place(s) >= AllClosed
  BY <1>1, <1>3, <1>4, <1>5, SameRepetition
<1>7. Pc(s) \notin Outside
  BY <1>1, <1>4, <1>6, WhereIs
<1>8. LeftIn(s) \in Int /\ ~(LeftIn(s) >= AllClosed + 1)
  <2>1. LeftIn(s) \in Int /\ AllClosed + 1 \in Nat \ {0} /\ Pc(r) # "repEnd"
    BY <1>1, <1>4, LeftIs
  <2>2. Script(AllClosed + 1) = "Allreduce"
    <3>1. Script(Start("write") + (Shut("write") + Bit("write" = "write") + 1)) = "Allreduce"
      BY <1>1, <1>2, ScriptTable DEF Phases
    <3> QED
      BY <1>4, <3>1 DEF Bit
  <2>3. SUFFICES ASSUME AllClosed + 1 <= LeftIn(s) PROVE FALSE
    BY <1>4, <2>1
  <2>4. Place(r) >= AllClosed + 1
    <3>1. Rep(r) \in Nat /\ Rep(r) # Rep(s) + 1
      BY <1>6, MembersKnow
    <3> QED
      BY <1>7, <2>1, <2>2, <2>3, <3>1, Behind
  <2> QED
    BY <1>4, <1>5, <2>4
<1>9. Phase(s) = "write"
  <2>1. Start("writecheck") = 1 + (Shut("write") + 3)
    BY <1>1, <1>2, <1>4, StartIs, LengthIs DEF Phases, Rest
  <2>2. \A p \in {"writecheck", "read", "readcheck", "finish"} : Start("writecheck") <= Start(p)
    <3>1. \A p \in {"writecheck", "read", "readcheck", "finish"} : Start(p) \in Nat
      BY <1>4 DEF Phases
    <3> QED
      BY <1>1, <3>1, StartsGrow
  <2>3. LeftIn(s) >= Start(Phase(s))
    BY <1>1, <1>7, LeftIs
  <2> QED
    BY <1>1, <1>4, <1>8, <2>1, <2>2, <2>3, SMTT(30) DEF Phases
<1>10. Pc(s) # "times" /\ Pc(s) # "phase"
  <2>1. Pc(s) = "times" => LeftIn(s) = Start("write") + (Shut("write") + Bit("write" = "write") + 1)
    BY <1>1, <1>9, LeftIs
  <2> QED
    BY <1>1, <1>4, <1>6, <1>8, <1>9, <2>1, WhereIs DEF Bit
<1>11. Pc(s) \in {"closed", "stat", "size", "times"} \/ Pc(s) \notin Inside
  BY <1>1, <1>4, <1>6, <1>9, LeftIs
<1> QED
  BY <1>1, <1>6, <1>7, <1>9, <1>10, <1>11 DEF Placed, Ends

\* With striping the first task has created the shared file when another opens it.
LEMMA RootCreates ==
    ASSUME IInv, FInv, Sequential, NEW r \in Members, r # 0, Stripes, Phase(r) = "write", Pc(r) = "open"
    PROVE  Pc(0) \notin {"ready", "open"} /\ st[r].name \in DOMAIN dir
<1>1. /\ Given /\ 0 \in Members /\ Placed(r) /\ Placed(0) /\ Place(0) \in Nat /\ Names(r) /\ Names(0)
      /\ HasFile(0)
  BY MembersKnow DEF FInv
<1>2. /\ Rep(0) = Rep(r) /\ Phase(0) = "write" /\ Wanted("write")
      /\ Pc(0) \in Writing \cup {"deal", "seed", "cntR", "cntB", "xfered", "close", "closed"}
  BY <1>1, WritesTogether
<1>3. Start("write") = 1 /\ Opening("write") \in Nat /\ Opening("write") >= 2
  <2>1. Opening("write") = 1 + 1 + Bit(Around("write"))
    BY DEF Opening, Bit
  <2>2. Bit(Around("write")) \in {0, 1}
    BY DEF Bit
  <2> QED
    BY <1>1, <2>1, <2>2, StartIs
<1>4. Place(0) >= 3
  <2>1. Script(3) = "Barrier"
    <3>1. "write" \in Phases \ {"finish"} /\ 2 \in Nat \ {0} /\ 2 <= Opening("write") /\ 1 + 2 = 3
      BY <1>3 DEF Phases
    <3>2. Script(1 + 2) = "Barrier"
      BY <1>1, <1>2, <1>3, <3>1, ScriptTable
    <3> QED
      BY <3>1, <3>2
  <2>2. LeftIn(r) = 3 /\ Pc(r) \notin Outside /\ Pc(r) # "repEnd" /\ 3 \in Nat \ {0}
    <3>1. Place(r) = 1 + 2
      BY <1>3 DEF Place, Within
    <3>2. Pc(r) \notin TestLabels
      BY KindIs
    <3> QED
      BY <3>1, <3>2 DEF LeftIn, Bit, Outside
  <2> QED
    BY <1>1, <2>1, <2>2, Behind
<1>5. Pc(0) \notin {"ready", "open"}
  <2>1. Pc(0) \in {"ready", "open"} => Place(0) = 1 + 1
    BY <1>2, <1>3 DEF Place, Within
  <2> QED
    BY <1>4, <2>1
<1>6. st[0].name \in DOMAIN dir
  BY <1>1, <1>2, <1>5 DEF HasFile, Holds, Moving, MovedOut, Writing, Placed, Sequential
<1>7. st[0].name = st[r].name
  <2>1. Pc(0) \in Inside \ {"gate"} /\ Pc(r) \in Inside \ {"gate"}
    BY <1>2 DEF Writing, Inside
  <2>2. st[0].name = FileName(0, 0, Rep(r)) /\ st[r].name = FileName(r, 0, Rep(r))
    BY <1>1, <1>2, <2>1 DEF Names
  <2> QED
    BY <2>2 DEF FileName, Stripes
<1> QED
  BY <1>5, <1>6, <1>7

\* Where all is written every file is as long as the test says.
LEMMA AllToRead ==
    ASSUME IInv, FInv, NEW r \in Members, AfterWriting(r), NEW n \in DOMAIN dir
    PROVE  FileSize(dir[n]) = FileXfers
<1>1. \A t \in Members : \A o \in FileOffsets : ~Owes(t, n, o)
  BY NobodyWrites DEF Owes
<1> QED
  BY <1>1, MembersKnow, SizeIs DEF FInv

\* What a step would have to find to end the job.
LEMMA OnlyTheseAbort ==
    ASSUME NEW r, Step(r), ~aborted, ~test.quitOnError, aborted'
    PROVE  \/ CreateFile(r) /\ test.lustre_set_striping /\
                  (~Striping(r) \/ r = 0 <=> st[r].name \in DOMAIN dir)
           \/ /\ OpenFile(r) /\ Pc(r) = "open" /\ Phase(r) # "write"
              /\ \/ st[r].name \notin DOMAIN dir
                 \/ Phase(r) = "readcheck" /\ test.filePerProc /\ ComparisonName(r) \notin DOMAIN dir
           \/ /\ Pc(r) = "xfer" /\ Phase(r) \in {"read", "writecheck", "readcheck"}
              /\ \E off \in Offsets(r) \cup (IF MoreXfers(r) THEN {Offset(r)} ELSE {}) : ~Readable(st[r].fd, off)
           \/ /\ Pc(r) = "rc1"
              /\ ~Readable(IF test.filePerProc THEN st[r].fdCheck ELSE st[r].fd, RereadOffset(Offset(r)))
           \/ Pc(r) = "stat" /\ st[r].name \notin DOMAIN dir
<1>1. ~(PassOn(r) \/ BeginRep(r) \/ GotStamp(r) \/ SkipPhase(r) \/ StartWrite(r) \/ StartCheck(r) \/ StartRead(r)
        \/ LeaveGate(r) \/ LeaveReady(r) \/ LeaveStriped(r))
  BY DEF PassOn, BeginRep, GotStamp, SkipPhase, StartWrite, StartCheck, StartRead, LeaveGate, LeaveReady,
         LeaveStriped, OnlyTasks
<1>2. ~(GetOffsetArrayRandom(r) \/ SeedRandGen(r) \/ WriteXfer(r) \/ EndXfer(r) \/ ReduceErrors(r)
        \/ GotErrors(r) \/ CloseFile(r) \/ LeaveTimes(r) \/ FinishRep(r) \/ DeleteFile(r) \/ EndRep(r))
  BY DEF GetOffsetArrayRandom, SeedRandGen, WriteXfer, EndXfer, ReduceErrors, GotErrors, CloseFile, LeaveTimes,
         FinishRep, DeleteFile, EndRep, OnlyTasks
<1>3. ASSUME NEW rec, NEW off, NEW a, NEW b, Compared(r, rec, off, a, b) PROVE FALSE
  BY <1>3 DEF Compared
<1>4. ~CompareReads(r)
  BY <1>3, Zenon DEF CompareReads
<1>5. CASE CreateFile(r)
  BY <1>5, Zenon DEF CreateFile
<1>6. CASE OpenFile(r)
  BY <1>6 DEF OpenFile, OnlyTasks, At, Pc, Phase
<1>7. CASE ReadXfer(r) \/ WriteCheckXfer(r)
  BY <1>3, <1>7, Zenon DEF ReadXfer, WriteCheckXfer, OnlyTasks, At, Pc, Phase
<1>8. CASE ReadCheckXfer(r) \/ Reread(r) \/ StatFile(r)
  BY <1>8, Zenon DEF ReadCheckXfer, Reread, StatFile, OnlyTasks, Leaving, At, Pc, Phase
<1> QED
  BY <1>1, <1>2, <1>4, <1>5, <1>6, <1>7, <1>8, Zenon DEF Step

\* Names of the repetition a task is in are names of files where they are needed.
LEMMA NamesThere ==
    ASSUME IInv, AInv, NEW r \in Members, Looks(r), Pc(r) \in Inside, NEW o \in Int
    PROVE  FileName(r, o, Rep(r)) \in DOMAIN dir
<1>1. Given /\ Placed(r) /\ Rep(r) \in Nat /\ Provided(r)
  BY MembersKnow DEF AInv
<1>2. Rep(r) \in 0 .. test.repetitions - 1
  BY <1>1, ParamsAre DEF Placed, Inside
<1>3. Needs(r, Rep(r))
  BY <1>1 DEF Needs, Inside
<1>4. There(Rep(r))
  BY <1>1, <1>2, <1>3 DEF Provided
<1>5. \E t \in Members : FileName(r, o, Rep(r)) = FileName(t, 0, Rep(r))
  <2> DEFINE t == (r + o) % N
  <2>1. t \in Members /\ (t + 0) % N = t
    <3>1. r + o \in Int /\ N \in Nat \ {0} /\ Members = 0 .. N - 1
      BY <1>1, MembersAre
    <3>2. t \in Members
      BY <1>1, <3>1, Wraps
    <3> HIDE DEF t
    <3> QED
      BY <3>1, <3>2
  <2> QED
    BY <2>1 DEF FileName, PretendRank
<1> QED
  BY <1>4, <1>5 DEF There

LEMMA NothingMissing ==
    ASSUME IInv, FInv, AInv, Sequential, NEW r \in Members, Step(r), ~aborted, ~test.quitOnError
    PROVE  ~aborted'
<1>1. /\ Given /\ Placed(r) /\ Names(r) /\ HasFile(r) /\ FKnown(r) /\ Compares(r) /\ Cleared(r)
      /\ Rep(r) \in Nat /\ st[r].rankOffset \in Int /\ r \in Int
  BY MembersKnow, MembersAre, FKnows DEF FInv, AInv, Names
<1>2. Pc(r) \in Inside \ {"gate"} => st[r].name = FileName(r, st[r].rankOffset, Rep(r))
  BY <1>1 DEF Names
<1>3. ASSUME CreateFile(r), test.lustre_set_striping, ~Striping(r) \/ r = 0 <=> st[r].name \in DOMAIN dir
      PROVE  FALSE
  <2>1. Pc(r) = "open" /\ Phase(r) = "write" /\ (Striping(r) <=> Stripes)
    BY <1>3 DEF CreateFile, At, Pc, Phase, Striping, Stripes
  <2>2. st[r].name = FileName(r, 0, Rep(r))
    BY <1>1, <1>2, <2>1 DEF Names, Inside
  <2>3. CASE test.filePerProc \/ r = 0
    BY <1>1, <1>3, <2>1, <2>2, <2>3 DEF Cleared, Creates, Stripes
  <2>4. CASE ~test.filePerProc /\ r # 0
    BY <1>3, <2>1, <2>4, RootCreates DEF Stripes
  <2> QED
    BY <2>3, <2>4
<1>4. ASSUME Pc(r) = "open", Phase(r) # "write" PROVE st[r].name \in DOMAIN dir /\ ComparisonName(r) \in DOMAIN dir
  <2>1. Looks(r) /\ Pc(r) \in Inside \ {"gate"}
    BY <1>1, <1>4 DEF Looks, Placed, Phases, Inside, Outside
  <2>2. \E o \in Int : ComparisonName(r) = FileName(r, o, Rep(r))
    <3>1. RereadDistance * test.tasksPerNode \in Int
      BY <1>1, NodesAre DEF RereadDistance
    <3>2. (RereadDistance * test.tasksPerNode) % N \in Int
      <4>1. (RereadDistance * test.tasksPerNode) % N \in Members
        BY <1>1, <3>1, Wraps, Zenon
      <4> QED
        BY <1>1, <4>1, MembersAre
    <3> QED
      BY <1>1, <3>2 DEF ComparisonName, Rep
  <2> QED
    BY <1>1, <1>2, <2>1, <2>2, NamesThere
<1>5. ASSUME Pc(r) \in {"xfer", "rc1"}, Phase(r) \in {"read", "writecheck", "readcheck"}
      PROVE  AfterWriting(r) /\ st[r].fd \in {dir[n] : n \in DOMAIN dir}
  BY <1>1, <1>5 DEF AfterWriting, Inside, HasFile, Holds, Moving
<1>6. ASSUME NEW n \in DOMAIN dir, AfterWriting(r), NEW o \in FileOffsets PROVE Readable(dir[n], o)
  <2>1. FileSize(dir[n]) = FileXfers
    BY <1>6, AllToRead
  <2> QED
    BY <1>1, <2>1, TestStrides DEF Readable, FileOffsets
<1>7. ASSUME Pc(r) = "xfer", Phase(r) \in {"read", "writecheck", "readcheck"},
             NEW off \in Offsets(r) \cup (IF MoreXfers(r) THEN {Offset(r)} ELSE {})
      PROVE  Readable(st[r].fd, off)
  <2>1. off \in FileOffsets
    BY <1>1, <1>7, NextIs DEF MoreXfers
  <2> QED
    BY <1>5, <1>6, <1>7, <2>1
<1>8. ASSUME Pc(r) = "rc1"
      PROVE  Readable(IF test.filePerProc THEN st[r].fdCheck ELSE st[r].fd, RereadOffset(Offset(r)))
  <2>1. Phase(r) = "readcheck" /\ st[r].pairCnt \in 0 .. XfersPerTask - 1
    BY <1>1, <1>8, TestStrides DEF Placed
  <2>2. Pretend(r) \in Members
    BY <1>1, Wraps DEF Pretend, PretendRank
  <2>3. Offset(r) \in FileOffsets
    BY <1>1, <2>1, <2>2, OffsetsAre DEF Offset
  <2>4. RereadOffset(Offset(r)) \in FileOffsets
    <3>1. (IF test.reorderTasks THEN test.tasksPerNode ELSE 0) \in Int
      BY <1>1, NodesAre
    <3> QED
      BY <1>1, <2>3, <3>1, TestStrides, RereadInFile DEF RereadOffset, FileOffsets
  <2>5. test.filePerProc => st[r].fdCheck \in {dir[n] : n \in DOMAIN dir}
    BY <1>1, <1>8, <2>1 DEF Compares
  <2> QED
    BY <1>5, <1>6, <1>8, <2>1, <2>4, <2>5
<1>9. Pc(r) = "stat" => st[r].name \in DOMAIN dir
  BY <1>1 DEF HasFile, MovedOut
<1> QED
  BY <1>3, <1>4, <1>7, <1>8, <1>9, OnlyTheseAbort

\* A name keeps its file as long as it is there, and a new one is that of who creates it.
LEMMA NamesThen ==
    ASSUME IInv, [Next]_vars
    PROVE  /\ \A n \in DOMAIN dir : n \in DOMAIN dir' => dir'[n] = dir[n]
           /\ \A n \in DOMAIN dir' \ DOMAIN dir :
                  \E q \in Members : Opens(q) /\ Phase(q) = "write" /\ st[q].name = n
<1> DEFINE Good == /\ \A n \in DOMAIN dir : n \in DOMAIN dir' => dir'[n] = dir[n]
                   /\ \A n \in DOMAIN dir' \ DOMAIN dir :
                          \E q \in Members : Opens(q) /\ Phase(q) = "write" /\ st[q].name = n
<1>1. dir' = dir => Good
  OBVIOUS
<1>2. ASSUME NEW r, StartWrite(r) \/ DeleteFile(r) PROVE Good
  BY <1>2 DEF StartWrite, DeleteFile, RemoveFile
<1>3. ASSUME NEW r \in World, CreateFile(r), dir' # dir PROVE Good
  <2>1. Known(r) /\ Pc(r) = "open" /\ Phase(r) = "write"
    BY <1>3 DEF IInv, Known, Bystander, CreateFile, At, Pc, Phase
  <2>2. r \in Members
    BY <2>1, KnownIs
  <2>3. Opens(r)
    <3>1. st' # st
      <4>1. ~Abort
        BY <1>3 DEF Abort
      <4>2. PICK inode : Go(r, Opened(r, inode, 0), AfterCreate(r))
        BY <1>3, <4>1, Zenon DEF CreateFile
      <4>3. st'[r].pc = AfterCreate(r)
        <5>1. r \in DOMAIN st
          BY <2>1 DEF Known, Shape
        <5> DEFINE rec == Opened(r, inode, 0)
        <5>2. DOMAIN rec = Fields
          BY <2>1, KnownIs DEF Opened
        <5>3. st' = [st EXCEPT ![r] = [rec EXCEPT !.pc = AfterCreate(r)]]
          BY <4>2, Zenon DEF Go
        <5> HIDE DEF rec
        <5> QED
          BY <5>1, <5>2, <5>3 DEF Fields
      <4>4. AfterCreate(r) # "open"
        BY DEF AfterCreate, BeginXfer, WriteOrRead
      <4> QED
        BY <2>1, <4>3, <4>4 DEF Pc
    <3> QED
      BY <1>3, <2>1, <3>1, OpenMoves DEF Stops
  <2> DEFINE n == st[r].name
             inode == IF n \in DOMAIN dir THEN dir[n] ELSE Len(disk) + 1
  <2>4. dir' = [m \in DOMAIN dir \cup {n} |-> IF m = n THEN inode ELSE dir[m]]
    <3>1. ~Abort
      BY <1>3 DEF Abort
    <3> QED
      BY <1>3, <3>1, Zenon DEF CreateFile
  <2> QED
    BY <2>1, <2>2, <2>3, <2>4
<1>4. ASSUME NEW r \in World, Step(r), ~StartWrite(r), ~DeleteFile(r), ~CreateFile(r) PROVE dir' = dir
  <2>1. WriteXfer(r) => dir' = dir
    BY DEF WriteXfer
  <2> QED
    BY <1>4, <2>1, FilesUntouched
<1>5. UNCHANGED vars \/ CorruptData => dir' = dir
  BY DEF vars, CorruptData
<1> HIDE DEF Good
<1>6. Good
  BY <1>1, <1>2, <1>3, <1>4, <1>5, Zenon DEF Next
<1> QED
  BY <1>6 DEF Good

LEMMA LooksBefore ==
    ASSUME NEW r, Moves(r), Phase(r) \in Phases, test.writeFile, Looks(r)'
    PROVE  (Looks(r) \/ (Phase(r) = "write" /\ Pc(r) = "closed")) /\ Rep(r)' = Rep(r)
<1>1. Pc(r)' = NewPc(r) /\ Phase(r)' = st'[r].phase /\ Rep(r)' = st'[r].rep
  BY NewIs DEF Moves, GoesOn, Turns, Opens, Transfers, AddsUp, Learns, Repeats
<1>2. /\ NewPc(r) \notin Outside
      /\ \/ st'[r].phase = "write" /\ NewPc(r) \in {"stat", "size", "times"}
         \/ st'[r].phase \in {"writecheck", "read", "readcheck"}
  BY <1>1 DEF Looks, Outside
<1>3. CASE GoesOn(r)
  <2>1. st'[r].phase = Phase(r) /\ st'[r].rep = Rep(r)
    BY <1>3, FixedIs DEF GoesOn
  <2> QED
    BY <1>1, <1>2, <1>3, <2>1 DEF GoesOn, Onto, BeginOn, EnterOn, GateOn, ReadyOn, StripedOn, OpenedOn, RereadOn,
          LoopOn, ReduceOn, CloseOn, FinishOn, PlainOn, Plain, First, After, Looks, Outside
<1>4. CASE Turns(r)
  <2>1. st'[r].rep = Rep(r)
    BY <1>4, FixedBut DEF Turns
  <2>2. Phase(r) # "write" \/ Pc(r) = "times"
    <3>1. Wanted("write")
      BY DEF Wanted
    <3> QED
      BY <1>2, <1>4, <3>1 DEF Turns
  <2>3. Pc(r) \in {"phase", "close", "times"} /\ Phase(r) \in Phases \ {"finish"}
    BY <1>2, <1>4 DEF Turns
  <2> QED
    BY <1>1, <2>1, <2>2, <2>3 DEF Looks, Outside, Phases
<1>5. CASE Opens(r) \/ Transfers(r) \/ AddsUp(r) \/ Learns(r)
  <2>1. st'[r].phase = Phase(r) /\ st'[r].rep = Rep(r)
    BY <1>5, FixedBut DEF Opens, Transfers, AddsUp, Learns
  <2>2. NewPc(r) \notin {"stat", "size", "times"} /\ Pc(r) \notin Outside
    BY <1>5 DEF Opens, Transfers, AddsUp, Learns, First, After, Outside
  <2> QED
    BY <1>1, <1>2, <2>1, <2>2 DEF Looks
<1>6. CASE Repeats(r)
  BY <1>2, <1>6 DEF Repeats, Outside
<1> QED
  BY <1>3, <1>4, <1>5, <1>6 DEF Moves

LEMMA NeedsLess ==
    ASSUME Given, NEW r, Moves(r), Placed(r), Supplied, NEW k \in 0 .. test.repetitions - 1, Needs(r, k)'
    PROVE  Needs(r, k) \/ (Phase(r) = "write" /\ Pc(r) = "closed" /\ Rep(r) = k)
<1>1. /\ Pc(r)' = NewPc(r) /\ Phase(r)' = st'[r].phase /\ Rep(r)' = st'[r].rep /\ test' = test
      /\ Rep(r) \in Nat
  BY NewIs DEF Moves, GoesOn, Turns, Opens, Transfers, AddsUp, Learns, Repeats, Placed
<1>2. CASE test.writeFile
  <2>1. k = Rep(r)' /\ Looks(r)'
    BY <1>1, <1>2 DEF Needs
  <2> QED
    BY <1>1, <1>2, <2>1, LooksBefore DEF Needs, Placed
<1>3. CASE ~test.writeFile
  <2>1. k >= Rep(r)' /\ (test.keepFile \/ NewPc(r) \notin {"delete", "repEnd"})
    BY <1>1, <1>3 DEF Needs
  <2>2. Repeats(r) => Rep(r)' = Rep(r) + 1
    BY <1>1 DEF Repeats
  <2>3. Repeats(r) \/ Rep(r)' = Rep(r)
    BY <1>1, FixedBut DEF Moves, GoesOn, Turns, Opens, Transfers, AddsUp, Learns
  <2>4. test.keepFile => Needs(r, k)
    BY <1>1, <1>3, <2>1, <2>2, <2>3 DEF Needs
  <2>5. ASSUME ~test.keepFile PROVE Needs(r, k)
    <3>1. ~Repeats(r)
      BY <1>1, <1>3, <2>1, <2>2, <2>5 DEF Supplied
    <3>2. Pc(r) \notin {"delete", "repEnd"}
      BY <2>1, <2>5, <3>1 DEF Moves, GoesOn, Turns, Opens, Transfers, AddsUp, Learns, Onto, BeginOn, EnterOn,
          GateOn, ReadyOn, StripedOn, OpenedOn, RereadOn, LoopOn, ReduceOn, CloseOn, FinishOn, PlainOn, Plain
    <3> QED
      BY <1>3, <2>1, <2>3, <3>1, <3>2 DEF Needs
  <2> QED
    BY <2>4, <2>5
<1> QED
  BY <1>2, <1>3

LEMMA ProvidedStays ==
    ASSUME IInv, FInv, AInv, Supplied, [Next]_vars, NEW t \in Members
    PROVE  Provided(t)'
<1>1. /\ Given /\ Shape /\ test' = test /\ Members' = Members /\ Members \subseteq World
      /\ \A k : \A u : FileName(u, 0, k)' = FileName(u, 0, k)
  BY MembersKnow, SameTest, FilesLast
<1>2. SUFFICES ASSUME NEW k \in 0 .. test.repetitions - 1, Needs(t, k)' PROVE There(k)'
  BY <1>1 DEF Provided
<1>3. Placed(t) /\ Provided(t)
  BY MembersKnow DEF AInv
<1>4. There(k) /\ DOMAIN dir \subseteq DOMAIN dir' => There(k)'
  BY <1>1 DEF There
<1>5. CASE Needs(t, k)
  <2>1. DOMAIN dir \subseteq DOMAIN dir'
    <3> SUFFICES ASSUME NEW n \in DOMAIN dir \ DOMAIN dir' PROVE FALSE
      OBVIOUS
    <3>1. PICK q \in Members : StartWrite(q) \/ DeleteFile(q)
      BY OnlyTheseRemove
    <3>2. CASE StartWrite(q)
      <4>1. /\ Pc(q) = "phase" /\ Phase(q) = "write" /\ Wanted("write")
            /\ Pc(t) \in Outside \cup {"repEnd"} \/ (Phase(t) = "write" /\ Pc(t) \in {"phase", "ready"})
        BY <3>2, Removing, StartsAlone
      <4>2. Looks(t)
        BY <1>5, <4>1 DEF Needs, Wanted
      <4> QED
        BY <1>3, <4>1, <4>2 DEF Looks, Outside, Placed
    <3>3. CASE DeleteFile(q)
      <4>1. Pc(q) = "delete" /\ Pc(t) \in {"delete", "repEnd"} /\ Placed(q)
        BY <3>3, Removing, DeletesTogether, MembersKnow
      <4>2. ~test.keepFile /\ Phase(t) = "finish"
        BY <1>3, <4>1 DEF Placed, Keeps
      <4> QED
        BY <1>5, <4>1, <4>2 DEF Needs, Looks
    <3> QED
      BY <3>1, <3>2, <3>3
  <2> QED
    BY <1>2, <1>3, <1>4, <1>5, <2>1 DEF Provided
<1>6. CASE ~Needs(t, k)
  <2>1. st' # st
    BY <1>1, <1>2, <1>6 DEF Needs, Looks, Rep, Pc, Phase
  <2>2. PICK q \in World : Step(q)
    BY <2>1 DEF Next, vars, CorruptData
  <2>3. Known(q) /\ Moves(q)
    <3>1. Known(q)
      BY DEF IInv, Known, Bystander
    <3> QED
      BY <2>1, <2>2, <3>1, StepMoves DEF Stops
  <2>4. Went(q)
    BY <2>3 DEF Moves, GoesOn, Turns, Opens, Transfers, AddsUp, Learns, Repeats
  <2>5. q = t
    <3> SUFFICES ASSUME q # t PROVE FALSE
      OBVIOUS
    <3>1. st'[t] = st[t]
      BY <1>1, <2>4 DEF Went
    <3> QED
      BY <1>1, <1>2, <1>6, <3>1 DEF Needs, Looks, Rep, Pc, Phase
  <2>6. Phase(t) = "write" /\ Pc(t) = "closed" /\ Rep(t) = k
    BY <1>1, <1>2, <1>3, <1>6, <2>3, <2>5, NeedsLess
  <2>7. \A s \in Members : Rep(s) = k /\ Phase(s) = "write" /\ Pc(s) \in {"closed", "stat", "size"}
    BY <2>4, <2>5, <2>6, ClosedTogether
  <2>8. There(k)
    <3> SUFFICES ASSUME NEW s \in Members PROVE FileName(s, 0, k) \in DOMAIN dir
      BY DEF There
    <3>1. Rep(s) = k /\ Phase(s) = "write" /\ Pc(s) \in MovedOut /\ Pc(s) \in Inside \ {"gate"}
      BY <2>7 DEF MovedOut, Inside
    <3>2. HasFile(s) /\ Names(s)
      BY DEF FInv
    <3> QED
      BY <3>1, <3>2 DEF HasFile, Names
  <2>9. DOMAIN dir \subseteq DOMAIN dir'
    <3> SUFFICES ASSUME NEW n \in DOMAIN dir \ DOMAIN dir' PROVE FALSE
      OBVIOUS
    <3>1. PICK p \in Members : StartWrite(p) \/ DeleteFile(p)
      BY OnlyTheseRemove
    <3>2. Pc(p) \in {"phase", "delete"}
      BY <3>1, Removing
    <3> QED
      BY <2>7, <3>2
  <2> QED
    BY <1>4, <2>8, <2>9
<1> QED
  BY <1>5, <1>6

\* Where a task is one step before it compares.
LEMMA ComparesBefore ==
    ASSUME NEW r, Moves(r), Placed(r), ~test.randomOffset, st'[r].phase = "readcheck",
           NewPc(r) \in {"xfer", "rc1", "rc2", "rc3"}
    PROVE  Phase(r) = "readcheck" /\ (Opens(r) \/ Pc(r) \in {"xfer", "rc1", "rc2", "rc3"})
<1>1. CASE GoesOn(r)
  <2>1. st'[r].phase = Phase(r) /\ ~Around("readcheck")
    BY <1>1, FixedIs DEF GoesOn, Around
  <2> QED
    BY <1>1, <2>1 DEF GoesOn, Onto, BeginOn, EnterOn, GateOn, ReadyOn, StripedOn, OpenedOn, RereadOn,
          LoopOn, ReduceOn, CloseOn, FinishOn, PlainOn, Plain, First, After, Placed
<1>2. CASE Opens(r) \/ Transfers(r)
  <2>1. st'[r].phase = Phase(r)
    BY <1>2, FixedBut DEF Opens, Transfers
  <2> QED
    BY <1>2, <2>1 DEF Transfers
<1>3. CASE Turns(r) \/ AddsUp(r) \/ Learns(r) \/ Repeats(r)
  BY <1>3 DEF Turns, AddsUp, Learns, Repeats, After
<1> QED
  BY <1>1, <1>2, <1>3 DEF Moves

LEMMA ComparesStays ==
    ASSUME IInv, AInv, Sequential, [Next]_vars, NEW t \in Members
    PROVE  Compares(t)'
<1>1. /\ test' = test /\ t \in World /\ Placed(t) /\ Known(t) /\ Compares(t)
  BY MembersKnow, SameTest DEF Known, AInv
<1>2. SUFFICES ASSUME Phase(t)' = "readcheck", test.filePerProc, Pc(t)' \in {"xfer", "rc1", "rc2", "rc3"}
               PROVE  \E n \in DOMAIN dir' : st'[t].fdCheck = dir'[n]
  BY <1>1 DEF Compares
<1>3. CASE st'[t] = st[t]
  <2>1. PICK n \in DOMAIN dir : st[t].fdCheck = dir[n]
    BY <1>1, <1>2, <1>3 DEF Compares, Phase, Pc
  <2>2. HasOpen(t)
    BY <1>2, <1>3 DEF HasOpen, OpenSteps, Pc
  <2>3. n \in DOMAIN dir'
    BY <2>2, OnlyTheseRemove, NoOpen
  <2> QED
    BY <1>3, <2>1, <2>3, NamesThen
<1>4. CASE st'[t] # st[t]
  <2>1. PICK q \in World : Step(q)
    BY <1>4 DEF Next, vars, CorruptData
  <2>2. Known(q) /\ Moves(q)
    <3>1. Known(q)
      BY DEF IInv, Known, Bystander
    <3> QED
      BY <1>4, <2>1, <3>1, StepMoves DEF Stops
  <2>3. Went(q)
    BY <2>2 DEF Moves, GoesOn, Turns, Opens, Transfers, AddsUp, Learns, Repeats
  <2>4. q = t
    BY <1>1, <1>4, <2>3 DEF Went
  <2>5. Phase(t) = "readcheck" /\ (Opens(t) \/ Pc(t) \in {"xfer", "rc1", "rc2", "rc3"})
    BY <1>1, <1>2, <2>2, <2>3, <2>4, NewIs, ComparesBefore DEF Sequential
  <2>6. ~StartWrite(t) /\ ~DeleteFile(t) /\ ~CreateFile(t) /\ ~WriteXfer(t)
    <3>1. Phase(t) # "write" /\ Pc(t) # "delete"
      BY <2>5 DEF Opens
    <3> QED
      BY <3>1 DEF StartWrite, DeleteFile, CreateFile, WriteXfer, Starting, Leaving, At, Pc, Phase
  <2>7. dir' = dir
    BY <2>1, <2>4, <2>6, FilesUntouched
  <2>8. CASE ~Opens(t)
    <3>1. SameFds(t)
      BY <1>1, <1>4, <2>1, <2>4, <2>5, <2>8, StepsSame
    <3> QED
      BY <1>1, <1>2, <2>5, <2>7, <2>8, <3>1 DEF Compares, SameFds
  <2>9. CASE Opens(t)
    <3>1. Pc(t) = "open"
      BY <2>9 DEF Opens
    <3>2. OpenFile(t) /\ ~Abort
      BY <1>4, <2>1, <2>4, <2>6, <3>1 DEF Step, PassOn, Onward, BeginRep, GotStamp, SkipPhase, StartWrite, StartCheck, StartRead, LeaveGate,
                LeaveReady, CreateFile, LeaveStriped, GetOffsetArrayRandom, SeedRandGen, WriteXfer,
                ReadXfer, WriteCheckXfer, ReadCheckXfer, Reread, CompareReads, EndXfer, ReduceErrors, GotErrors,
                CloseFile, StatFile, LeaveTimes, FinishRep, DeleteFile, EndRep, Leaving, Starting, At, Pc, Abort
    <3> DEFINE compared == st[t].phase = "readcheck" /\ test.filePerProc
               check == IF compared THEN dir[ComparisonName(t)] ELSE 0
               names == {st[t].name} \cup (IF compared THEN {ComparisonName(t)} ELSE {})
               rec == Opened(t, dir[st[t].name], check)
    <3>3. names \subseteq DOMAIN dir /\ Go(t, rec, BeginXfer(t))
      BY <3>2, Zenon DEF OpenFile
    <3>4. compared
      BY <1>2, <2>5 DEF Phase
    <3>5. ComparisonName(t) \in DOMAIN dir /\ check = dir[ComparisonName(t)]
      BY <3>3, <3>4
    <3>6. DOMAIN rec = Fields /\ rec.fdCheck = check
      <4>1. DOMAIN st[t] = Fields
        BY <1>1, KnownIs
      <4> HIDE DEF check
      <4> QED
        BY <4>1 DEF Opened, Fields
    <3> HIDE DEF rec, check
    <3>7. st'[t].fdCheck = check
      <4>1. "fdCheck" \in Fields \ {"pc"}
        BY DEF Fields
      <4> QED
        BY <1>1, <3>3, <3>6, <4>1, DataIs
    <3> QED
      BY <2>7, <3>5, <3>7
  <2> QED
    BY <2>8, <2>9
<1> QED
  BY <1>3, <1>4

LEMMA ClearedStays ==
    ASSUME IInv, FInv, AInv, Sequential, [Next]_vars, NEW t \in Members
    PROVE  Cleared(t)'
<1>1. /\ Given /\ test' = test /\ t \in World /\ Placed(t) /\ Known(t) /\ Cleared(t) /\ Names(t)
      /\ \A u, o, k : FileName(u, o, k)' = FileName(u, o, k)
  BY MembersKnow, SameTest, FilesLast DEF Known, AInv, FInv
<1>2. SUFFICES ASSUME Creates(t)', Pc(t)' \in {"ready", "open"} PROVE FileName(t, 0, Rep(t)') \notin DOMAIN dir'
  BY <1>1 DEF Cleared
<1>3. test.lustre_set_striping /\ (test.filePerProc \/ t = 0) /\ Phase(t)' = "write"
  BY <1>1, <1>2 DEF Creates
<1>4. CASE st'[t] = st[t]
  <2>1. /\ Pc(t) \in {"ready", "open"} /\ Phase(t) = "write" /\ Rep(t)' = Rep(t)
        /\ FileName(t, 0, Rep(t)) \notin DOMAIN dir
    BY <1>1, <1>2, <1>3, <1>4 DEF Pc, Phase, Rep, Cleared, Creates
  <2> SUFFICES ASSUME FileName(t, 0, Rep(t)) \in DOMAIN dir' PROVE FALSE
    BY <2>1
  <2>2. PICK q \in Members : Opens(q) /\ Phase(q) = "write" /\ st[q].name = FileName(t, 0, Rep(t))
    BY <2>1, NamesThen
  <2>3. Pc(q) = "open" /\ NewPc(q) \notin {"ready", "open"}
    BY <2>2 DEF Opens, First
  <2>4. q # t
    BY <1>2, <2>2, <2>3 DEF NewPc, Pc
  <2>5. st[q].name = FileName(q, 0, Rep(q))
    <3>1. Names(q)
      BY DEF FInv
    <3> QED
      BY <2>2, <2>3, <3>1 DEF Names, Inside
  <2>6. CASE test.filePerProc
    <3>1. \A u \in Members : (u + 0) % N = u
      BY <1>1, MembersAre
    <3> QED
      BY <2>2, <2>4, <2>5, <2>6, <3>1 DEF FileName, PretendRank
  <2>7. CASE ~test.filePerProc
    BY <1>3, <2>1, <2>2, <2>3, <2>4, <2>7, RootCreates DEF Stripes
  <2> QED
    BY <2>6, <2>7
<1>5. CASE st'[t] # st[t]
  <2>1. PICK q \in World : Step(q)
    BY <1>5 DEF Next, vars, CorruptData
  <2>2. Known(q) /\ Moves(q)
    <3>1. Known(q)
      BY DEF IInv, Known, Bystander
    <3> QED
      BY <1>5, <2>1, <3>1, StepMoves DEF Stops
  <2>3. Went(q)
    BY <2>2 DEF Moves, GoesOn, Turns, Opens, Transfers, AddsUp, Learns, Repeats
  <2>4. q = t
    BY <1>1, <1>5, <2>3 DEF Went
  <2>5. /\ Pc(t)' = NewPc(t) /\ NewPc(t) \in {"ready", "open"} /\ st'[t].phase = "write" /\ st'[t].rep = Rep(t)'
        /\ Went(t)
    BY <1>2, <1>3, <2>3, <2>4, NewIs
  <2>6. GoesOn(t)
    BY <2>2, <2>4, <2>5 DEF Moves, Turns, Opens, Transfers, AddsUp, Learns, Repeats, First, After
  <2>7. Phase(t) = "write" /\ Rep(t)' = Rep(t)
    BY <2>5, <2>6, FixedIs DEF GoesOn
  <2>8. (Pc(t) = "phase" /\ NewPc(t) = "ready") \/ Pc(t) = "ready"
    <3>1. ~StripedOn(t) \/ NewPc(t) # "open"
      BY <1>1, <1>3 DEF StripedOn, Placed, Stripes, First
    <3>2. Pc(t) # "hist" /\ Pc(t) # "gate"
      BY <1>1, <2>7 DEF Placed
    <3> QED
      BY <2>5, <2>6, <2>7, <3>1, <3>2 DEF GoesOn, Onto, BeginOn, EnterOn, GateOn, ReadyOn, OpenedOn, RereadOn, StripedOn, First,
          LoopOn, ReduceOn, CloseOn, FinishOn, PlainOn, Plain, After
  <2>9. CASE Pc(t) = "ready"
    <3>1. ~StartWrite(t) /\ ~DeleteFile(t) /\ ~CreateFile(t) /\ ~WriteXfer(t)
      BY <2>9 DEF StartWrite, DeleteFile, CreateFile, WriteXfer, Starting, Leaving, At, Pc
    <3>2. dir' = dir
      BY <2>1, <2>4, <3>1, FilesUntouched
    <3> QED
      BY <1>1, <1>3, <2>7, <2>9, <3>2 DEF Cleared, Creates
  <2>10. CASE Pc(t) = "phase" /\ NewPc(t) = "ready"
    <3>1. ~SkipPhase(t)
      BY <1>1, <2>4, <2>10, SkipPhaseMoves DEF Turns
    <3>2. StartWrite(t)
      BY <2>1, <2>4, <2>7, <2>10, <3>1 DEF Step, PassOn, Onward, BeginRep, GotStamp, StartCheck, StartRead,
                LeaveGate, LeaveReady, CreateFile, LeaveStriped, OpenFile, GetOffsetArrayRandom, SeedRandGen, WriteXfer,
                ReadXfer, WriteCheckXfer, ReadCheckXfer, Reread, CompareReads, EndXfer, ReduceErrors, GotErrors,
                CloseFile, StatFile, LeaveTimes, FinishRep, DeleteFile, EndRep, Leaving, Starting, At, Pc, Phase
    <3>3. ~test.useExistingTestFile
      BY <1>1, <1>3, TestsAssumption DEF Given, ValidateTests
    <3> DEFINE rec == Named(t, st[t])
    <3>4. rec.name = FileName(t, 0, Rep(t)) /\ rec.rep = Rep(t)
      <4>1. DOMAIN st[t] = Fields /\ st[t].rankOffset = 0
        BY <1>1, <2>7, KnownIs DEF Names
      <4> QED
        BY <4>1 DEF Named, Rep, Fields
    <3>5. dir' = RemoveFile(t, rec)
      BY <3>2, <3>3 DEF StartWrite
    <3>6. RemovedName(t, rec) = FileName(t, 0, Rep(t))
      <4> HIDE DEF rec
      <4> QED
        BY <1>3, <3>4 DEF RemovedName
    <3> HIDE DEF rec
    <3> QED
      BY <2>7, <3>5, <3>6 DEF RemoveFile
  <2> QED
    BY <2>8, <2>9, <2>10
<1> QED
  BY <1>4, <1>5

LEMMA AInvAtFirst ==
    ASSUME Init, Given
    PROVE  AInv /\ ~aborted
<1>1. ~aborted
  BY Zenon DEF Init
<1>2. SUFFICES ASSUME NEW t \in Members PROVE Provided(t) /\ Compares(t) /\ Cleared(t)
  BY <1>1 DEF AInv
<1>3. t \in World /\ 0 \in Nat
  BY MembersAre
<1>4. Pc(t) = "rep" /\ Phase(t) = "write"
  BY <1>3, StartsWith DEF Pc, Phase
<1>5. Compares(t) /\ Cleared(t) /\ ~Looks(t)
  BY <1>4 DEF Compares, Cleared, Looks, Outside
<1>6. SUFFICES ASSUME ~test.writeFile, NEW k \in 0 .. test.repetitions - 1 PROVE There(k)
  BY <1>5 DEF Provided, Needs
<1> DEFINE names == IF HasOldFiles THEN OldNames ELSE {}
           c == Cardinality(names)
<1>7. dir = CHOOSE f \in [names -> 1 .. c] : \A m, n \in names : m # n => f[m] # f[n]
  BY DEF Init
<1>8. IsFiniteSet(names) /\ names = OldNames
  BY <1>6, OldNamesAre DEF HasOldFiles
<1> HIDE DEF names
<1>9. \E g \in [names -> 1 .. c] : \A m, n \in names : m # n => g[m] # g[n]
  BY <1>8, Numbered
<1>10. DOMAIN dir = OldNames
  <2> HIDE DEF c
  <2> QED
    BY <1>7, <1>8, <1>9
<1> QED
  BY <1>10 DEF There, OldNames

LEMMA NeedsStay ==
    ASSUME IInv, FInv, AInv, NeverAborts, Sequential, Supplied, [Next]_vars
    PROVE  AInv' /\ NeverAborts'
<1>1. test' = test /\ Members' = Members
  BY SameTest, FilesLast
<1>2. AInv'
  BY <1>1, ProvidedStays, ComparesStays, ClearedStays DEF AInv
<1>3. SUFFICES ASSUME ~test.quitOnError, ~aborted PROVE ~aborted'
  BY <1>1, <1>2 DEF NeverAborts
<1>4. ASSUME NEW r \in World, Step(r), aborted' PROVE FALSE
  <2>1. Known(r)
    BY DEF IInv, Known, Bystander
  <2>2. Pc(r) \notin {"world", "done"}
    BY <1>3, <1>4, OnlyTheseAbort DEF CreateFile, At, Pc
  <2> QED
    BY <1>3, <1>4, <2>1, <2>2, KnownIs, NothingMissing
<1> QED
  BY <1>3, <1>4 DEF Next, vars, CorruptData

(* If the parameters do not ask for it, no task ends the job in a test that *)
(* takes its transfers in order and to the end: every file a handler opens, *)
(* stats or reads is there and as long as it must be, and with striping the *)
(* one it creates is not.  A test of several repetitions that only reads    *)
(* and does not keep its files is left out: it removes what its second      *)
(* repetition would read (or would not, if each repetition has its own).    *)
THEOREM JobsGoOn ==
    Spec /\ TasksDecideAlike => [](Sequential /\ Supplied => NeverAborts)
<1> DEFINE Kept == IInv /\ (Sequential => FInv) /\ (Sequential /\ Supplied => AInv /\ NeverAborts)
<1>1. Init /\ TasksDecideAlike => Kept
  <2> SUFFICES ASSUME Init, TasksDecideAlike PROVE IInv /\ FInv /\ AInv /\ NeverAborts
    OBVIOUS
  <2>1. Given
    BY Zenon DEF Init, Given
  <2> QED
    BY <2>1, InvAtFirst, FilesAtFirst, AInvAtFirst DEF NeverAborts
<1>2. Kept /\ [Next]_vars => Kept'
  <2> SUFFICES ASSUME Kept, [Next]_vars PROVE Kept'
    OBVIOUS
  <2>1. IInv' /\ test' = test
    BY InvStays, SameTest
  <2>2. Sequential' = Sequential /\ Supplied' = Supplied
    BY <2>1 DEF Sequential, Supplied
  <2> QED
    BY <2>1, <2>2, FilesStay, NeedsStay
<1>3. Kept => (Sequential /\ Supplied => NeverAborts)
  OBVIOUS
<1> QED
  BY <1>1, <1>2, <1>3, PTL DEF Spec
=============================================================================
