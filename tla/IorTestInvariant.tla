--------------------------- MODULE IorTestInvariant ---------------------------
(***************************************************************************)
(* What the proofs about IorTest carry from state to state: where each     *)
(* task is in the sequence of calls of its repetition, how far apart two   *)
(* tasks can be, what they know of the errors found, which of them may     *)
(* have a file open, what the files hold and which of them must be there.  *)
(***************************************************************************)
EXTENDS IorTest

(* With a time limit tasks look at their own clocks, and with -Z's histogram *)
(* the tasks of a smaller test gather over the world: then they differ.      *)
TasksDecideAlike ==
    /\ ~test.maxTimeDuration
    /\ test.reorderTasksRandom /\ test.hitsHistogram => test.numTasks >= NumTasksWorld
Given == test \in Tests /\ TasksDecideAlike

Bit(b) == IF b THEN 1 ELSE 0

Pc(r) == st[r].pc
Phase(r) == st[r].phase
Rep(r) == st[r].rep

-----------------------------------------------------------------------------
(* The calls of one repetition                                               *)

Checks == test.checkWrite \/ test.checkRead
Stripes == test.lustre_set_striping /\ ~test.filePerProc
Around(phase) == test.intraTestBarriers /\ phase \in {"write", "read"}

\* The calls of a phase up to its first transfer, to its last, to the count of
\* errors and to the closing of the file.
Opening(phase) ==
    CASE phase = "write" -> 1 + Bit(Stripes) + Bit(Around("write"))
      [] phase = "read" -> 1 + Bit(Around("read"))
      [] phase = "writecheck" -> 1
      [] OTHER -> 2
Dealt(phase) == Opening(phase) + Bit(test.randomOffset)
Body(phase) == Dealt(phase) + (IF phase = "readcheck" THEN 3 * XfersPerTask ELSE 0)
CountEnd(phase) == Body(phase) + 2 * Bit(Checks)
Shut(phase) == CountEnd(phase) + Bit(Around(phase))
LengthOf(phase) ==
    IF Wanted(phase)
    THEN Shut(phase) + (CASE phase = "write" -> 3 [] phase = "read" -> 2 [] OTHER -> 0)
    ELSE 0

\* The calls before a phase.  The first is the broadcast of the time stamp.
Start(phase) ==
    CASE phase = "write" -> 1
      [] phase = "writecheck" -> 1 + LengthOf("write")
      [] phase = "read" -> 1 + LengthOf("write") + LengthOf("writecheck")
      [] phase = "readcheck" -> 1 + LengthOf("write") + LengthOf("writecheck") + LengthOf("read")
      [] OTHER -> 1 + LengthOf("write") + LengthOf("writecheck") + LengthOf("read")
                  + LengthOf("readcheck")

\* The j-th call of a phase.
CallOf(phase, j) ==
    CASE j <= Opening(phase) -> "Barrier"
      [] j > Opening(phase) /\ j <= Dealt(phase) -> "Bcast"
      [] j > Dealt(phase) /\ j <= Body(phase) -> "Barrier"
      [] j > Body(phase) /\ j <= CountEnd(phase) -> IF j = Body(phase) + 1 THEN "Reduce" ELSE "Bcast"
      [] j > CountEnd(phase) /\ j <= Shut(phase) + Bit(phase = "write") -> "Barrier"
      [] j > CountEnd(phase) /\ j = Shut(phase) + Bit(phase = "write") + 1 -> "Allreduce"
      [] OTHER -> "Reduce"

Script(i) ==
    CASE i <= 1 -> "Bcast"
      [] i > 1 /\ i <= Start("writecheck") -> CallOf("write", i - 1)
      [] i > Start("writecheck") /\ i <= Start("read") -> CallOf("writecheck", i - Start("writecheck"))
      [] i > Start("read") /\ i <= Start("readcheck") -> CallOf("read", i - Start("read"))
      [] i > Start("readcheck") /\ i <= Start("finish") -> CallOf("readcheck", i - Start("readcheck"))
      [] OTHER -> "Barrier"

\* The calls task r has made in its repetition, in the phase it is in.
Within(r) ==
    LET phase == Phase(r)
        pairs == IF phase = "readcheck" THEN 3 * st[r].pairCnt ELSE 0
    IN  CASE Pc(r) \in {"phase", "hist"} -> 0
          [] Pc(r) \in {"gate", "delete"} -> 1
          [] Pc(r) = "ready" -> IF phase = "readcheck" THEN 2 ELSE 1
          [] Pc(r) = "striped" -> 2
          [] Pc(r) = "open" -> IF phase = "readcheck" \/ (phase = "write" /\ Stripes /\ r # 0)
                               THEN 2 ELSE 1
          [] Pc(r) = "opened" -> Opening(phase)
          [] Pc(r) = "deal" -> Opening(phase)
          [] Pc(r) = "seed" -> Opening(phase) + 1
          [] Pc(r) = "xfer" -> Dealt(phase) + pairs
          [] Pc(r) = "rc1" -> Dealt(phase) + pairs + 1
          [] Pc(r) = "rc2" -> Dealt(phase) + pairs + 2
          [] Pc(r) = "rc3" -> Dealt(phase) + pairs + 3
          [] Pc(r) = "cntR" -> Body(phase) + 1
          [] Pc(r) = "cntB" -> Body(phase) + 2
          [] Pc(r) = "xfered" -> Shut(phase)
          [] Pc(r) = "close" -> Shut(phase)
          [] Pc(r) \in {"closed", "stat"} -> Shut(phase) + Bit(phase = "write")
          [] Pc(r) = "size" -> Shut(phase) + Bit(phase = "write") + 1
          [] Pc(r) = "times" -> Shut(phase) + Bit(phase = "write") + 2
          [] OTHER -> 1 + Bit(~Keeps(r))   \* repEnd

Place(r) ==
    CASE Pc(r) = "rep" -> 0
      [] Pc(r) \in {"stamp", "commFree", "world", "done"} -> 1
      [] OTHER -> Start(Phase(r)) + Within(r)

Log(r) == calls["test"][r]
TestLabels == DOMAIN Kind \ {"hist", "world"}
\* The calls r has made and left.
Left(r) == Len(Log(r)) - Bit(Pc(r) \in TestLabels)

-----------------------------------------------------------------------------
(* The invariant                                                             *)

Outside == {"rep", "stamp", "commFree", "world", "done"}
Ends == {"phase", "delete", "repEnd"}
Inside == {"hist", "gate", "ready", "striped", "open", "opened", "deal", "seed", "xfer", "rc1", "rc2",
           "rc3", "cntR", "cntB", "xfered", "close", "closed", "stat", "size", "times"}
Phases == {"write", "writecheck", "read", "readcheck", "finish"}

Fields == {"pc", "phase", "rep", "rankOffset", "name", "fd", "fdCheck", "pairCnt", "moved", "buffer",
           "checkBuffer", "errors", "totalErrorCount", "errorFound", "stamp", "elapsed", "statSize",
           "rng", "randomSeed", "todo"}
Kinds == {"Bcast", "Gather", "Barrier", "Reduce", "Allreduce", "CommFree"}
Shape ==
    /\ Given
    /\ DOMAIN st = World /\ \A r \in World : DOMAIN st[r] = Fields
    /\ calls \in [{"world", "test"} -> [World -> Seq(Kinds)]]
    /\ DOMAIN wire = {"stamp", "sum", "seed"}

\* Where a member may be.
Placed(r) ==
    /\ Pc(r) \in Outside \cup Ends \cup Inside /\ Phase(r) \in Phases
    /\ Rep(r) \in Nat /\ Rep(r) <= test.repetitions
    /\ Pc(r) \in {"commFree", "world", "done"} => Rep(r) = test.repetitions
    /\ Pc(r) \notin {"rep", "commFree", "world", "done"} => Rep(r) < test.repetitions
    /\ Pc(r) \in Outside => ~st[r].errorFound
    /\ Pc(r) \in Inside => Phase(r) # "finish" /\ Wanted(Phase(r))
    /\ Pc(r) \in {"delete", "repEnd"} => Phase(r) = "finish"
    /\ Pc(r) = "delete" => ~Keeps(r)
    /\ Pc(r) = "hist" => Phase(r) = "read" /\ test.reorderTasksRandom /\ test.hitsHistogram
    /\ Pc(r) = "gate" => Phase(r) \in {"writecheck", "readcheck"}
    /\ Pc(r) = "ready" => Phase(r) # "writecheck"
    /\ Pc(r) = "striped" => Phase(r) = "write" /\ Stripes
    /\ Pc(r) \in {"opened", "xfered"} => Around(Phase(r))
    /\ Pc(r) \in {"deal", "seed"} => test.randomOffset
    /\ Pc(r) \in {"rc1", "rc2", "rc3"} => Phase(r) = "readcheck"
    /\ Pc(r) \in {"cntR", "cntB"} => Checks
    /\ Pc(r) = "closed" => Phase(r) = "write"
    /\ Pc(r) \in {"stat", "size", "times"} => Phase(r) \in {"write", "read"}
    /\ Phase(r) = "readcheck" /\ Pc(r) \in {"xfer", "rc1", "rc2", "rc3"} =>
           /\ st[r].pairCnt \in Nat /\ st[r].pairCnt <= XfersPerTask
           /\ Pc(r) # "xfer" => st[r].pairCnt < XfersPerTask

Typed(r) ==
    /\ st[r].errors \in Nat /\ (~Checks => st[r].errors = 0)
    /\ st[r].totalErrorCount \in Nat /\ st[r].errorFound \in BOOLEAN
    /\ st[r].elapsed = FALSE

\* The count of errors starts from nothing when a file is opened.
Fresh(r) == Pc(r) \in {"opened", "deal", "seed"} \/ (Pc(r) = "striped" /\ r = 0) => st[r].errors = 0

Aligned ==
    \A r, s \in Members :
        /\ Rep(r) = Rep(s) => Len(Log(r)) - Place(r) = Len(Log(s)) - Place(s)
        /\ Rep(r) <= Rep(s) + 1
        /\ Rep(r) = Rep(s) + 1 => Pc(s) = "repEnd" /\ Len(Log(r)) - Place(r) = Len(Log(s))

Recorded(r) ==
    /\ Place(r) <= Len(Log(r))
    /\ \A i \in 1 .. Place(r) :
           Log(r)[Len(Log(r)) - Place(r) + i] =
               IF Rep(r) = test.repetitions THEN "CommFree" ELSE Script(i)

Waits(r, s, kind) ==
    CASE kind = "Bcast" -> s = 0
      [] kind = "Reduce" -> r = 0
      [] OTHER -> TRUE
\* Whoever waits in a call has made it.
Waiting(r) == Pc(r) \in TestLabels => Len(Log(r)) > 0 /\ Log(r)[Len(Log(r))] = Kind[Pc(r)]

\* Whoever has left a call has had to wait for those who must make it.
Synced ==
    \A r, s \in Members : \A n \in 1 .. Left(r) : Waits(r, s, Log(r)[n]) => Len(Log(s)) >= n

\* The counts of errors a task has taken part in, in this repetition.
Counted(r) ==
    IF ~Checks \/ Pc(r) \in Outside THEN 0
    ELSE Bit(Phase(r) # "write" /\ Wanted("write"))
         + Bit(Phase(r) \in {"read", "readcheck", "finish"} /\ Wanted("writecheck"))
         + Bit(Phase(r) \in {"readcheck", "finish"} /\ Wanted("read"))
         + Bit(Phase(r) = "finish" /\ Wanted("readcheck"))
         + Bit(Pc(r) \in {"xfered", "close", "closed", "stat", "size", "times"})

\* Tasks that have taken part in the same counts know the same.
Agree ==
    \A r, s \in Members :
        /\ Rep(r) = Rep(s) =>
             /\ Counted(s) <= Counted(r) + 1
             /\ Counted(s) = Counted(r) =>
                    /\ st[s].totalErrorCount = st[r].totalErrorCount
                    /\ st[s].errorFound = st[r].errorFound
             /\ Counted(s) = Counted(r) + 1 =>
                    /\ Pc(r) \in {"cntR", "cntB"}
                    /\ st[s].totalErrorCount = st[r].totalErrorCount + 2 * wire.sum
                    /\ st[s].errorFound = (st[r].errorFound \/ wire.sum # 0)
        /\ Rep(r) = Rep(s) + 1 => /\ st[r].totalErrorCount = st[s].totalErrorCount
                                  /\ Counted(r) = 0 /\ ~st[r].errorFound

\* Errors of s that the first task has not added up yet.
Uncounted(s) ==
    /\ st[s].errors # 0
    /\ \/ Pc(s) \in {"xfer", "rc1", "rc2", "rc3"}
       \/ Pc(s) = "cntR" /\ Left(0) < Len(Log(s))
       \/ Pc(s) = "cntB" /\ Left(0) < Len(Log(s)) - 1
RootTotal == st[0].totalErrorCount + (IF Pc(0) = "cntB" THEN 2 * wire.sum ELSE 0)
Evidence ==
    /\ found \in Nat /\ wire.sum \in Nat
    /\ found > 0 <=> RootTotal > 0 \/ \E s \in Members : Uncounted(s)

Histograms == test.reorderTasksRandom /\ test.hitsHistogram /\ test.readFile
Gathered(r) ==
    IF ~Histograms THEN 0
    ELSE Rep(r) + Bit(/\ Pc(r) \notin Outside
                      /\ \/ Phase(r) = "read" /\ Pc(r) # "phase"
                         \/ Phase(r) \in {"readcheck", "finish"})
WorldLog(r) == calls["world"][r]
Ended(r) == Pc(r) \in {"world", "done"}
WorldRecorded(r) ==
    /\ Len(WorldLog(r)) = Gathered(r) + Bit(Ended(r))
    /\ \A n \in 1 .. Len(WorldLog(r)) : WorldLog(r)[n] = IF n <= Gathered(r) THEN "Gather" ELSE "Barrier"
AllEnd == (\E r \in World : Pc(r) = "done") => \A s \in World : Ended(s)
Bystander(r) == Ended(r) /\ WorldLog(r) = <<"Barrier">> /\ Log(r) = <<>>

IInv ==
    /\ Shape
    /\ \A r \in Members : /\ Placed(r) /\ Typed(r) /\ Fresh(r) /\ Waiting(r)
                            /\ Recorded(r) /\ WorldRecorded(r)
    /\ \A r \in World \ Members : Bystander(r)
    /\ Aligned /\ Synced /\ CollectivesMatch /\ Agree /\ Evidence /\ AllEnd

-----------------------------------------------------------------------------
(* Files that are open, and files that can be removed                        *)

\* Where a task has a file open; elsewhere it has none.  A shared file that is
\* striped the first task has created before the others may open it.
OpenSteps == {"opened", "deal", "seed", "xfer", "rc1", "rc2", "rc3", "cntR", "cntB", "xfered", "close"}
HasOpen(r) == Pc(r) \in OpenSteps \/ (Pc(r) = "striped" /\ r = 0)
Shuts(r) == ~HasOpen(r) => st[r].fd = 0 /\ st[r].fdCheck = 0
\* In the first repetition a task keeps its file if it has counted errors.
Noted(r) ==
    Rep(r) = 0 => /\ st[r].errorFound <=> st[r].totalErrorCount # 0
                  /\ Counted(r) = 0 => st[r].totalErrorCount = 0
\* Every name is that of a file on the disk.
Inodes == (\E S : disk \in Seq(S)) /\ \A n \in DOMAIN dir : dir[n] \in 1 .. Len(disk)
RInv == Inodes /\ \A t \in Members : Shuts(t) /\ Noted(t)

-----------------------------------------------------------------------------
(* The kinds of steps, and where they lead                                   *)

NewPc(r) == st'[r].pc
Labels == Outside \cup Ends \cup Inside

\* r goes to another step, and leaves and makes the calls this takes.
Went(r) ==
    /\ DOMAIN st' = World /\ \A q \in World : DOMAIN st'[q] = Fields
    /\ \A q \in World \ {r} : st'[q] = st[q]
    /\ NewPc(r) \in Labels
    /\ calls' = IF NewPc(r) \in DOMAIN Kind
                THEN [calls EXCEPT ![Comm(NewPc(r))][r] = Append(@, Kind[NewPc(r)])]
                ELSE calls
    /\ Pc(r) \in DOMAIN Kind => MayLeave(r, Pc(r))
    /\ ~aborted /\ test' = test /\ DOMAIN wire' = DOMAIN wire

Control == {"phase", "rep", "pairCnt", "errors", "totalErrorCount", "errorFound", "elapsed"}
Fixed(r, F) == \A f \in Control \ F : st'[r][f] = st[r][f]

First(phase) == IF Around(phase) THEN "opened" ELSE IF test.randomOffset THEN "deal" ELSE "xfer"
After(phase) == IF Around(phase) THEN "xfered" ELSE "close"

\* What leads where when nothing else changes.
BeginOn(r) == Pc(r) = "rep" /\ NewPc(r) = IF Rep(r) < test.repetitions THEN "stamp" ELSE "commFree"
EnterOn(r) ==
    /\ Pc(r) = "phase" /\ Phase(r) # "finish" /\ Wanted(Phase(r))
    /\ \/ Phase(r) = "write" /\ NewPc(r) = "ready"
       \/ Phase(r) = "read" /\ NewPc(r) = IF test.reorderTasksRandom /\ test.hitsHistogram
                                          THEN "hist" ELSE "ready"
       \/ Phase(r) \in {"writecheck", "readcheck"} /\ NewPc(r) = "gate"
GateOn(r) == Pc(r) = "gate" /\ NewPc(r) = IF Phase(r) = "writecheck" THEN "open" ELSE "ready"
ReadyOn(r) ==
    Pc(r) = "ready" /\ NewPc(r) = IF Phase(r) = "write" /\ Stripes /\ r # 0 THEN "striped" ELSE "open"
StripedOn(r) == Pc(r) = "striped" /\ NewPc(r) = IF r = 0 THEN First(Phase(r)) ELSE "open"
OpenedOn(r) == Pc(r) = "opened" /\ NewPc(r) = IF test.randomOffset THEN "deal" ELSE "xfer"
RereadOn(r) ==
    Pc(r) = "xfer" /\ Phase(r) = "readcheck" /\ st[r].pairCnt < XfersPerTask /\ NewPc(r) = "rc1"
LoopOn(r) ==
    /\ Pc(r) = "xfer" /\ (Phase(r) = "readcheck" => st[r].pairCnt >= XfersPerTask)
    /\ NewPc(r) = IF Checks THEN "cntR" ELSE After(Phase(r))
ReduceOn(r) == Pc(r) = "cntR" /\ r # 0 /\ NewPc(r) = "cntB"
CloseOn(r) ==
    Pc(r) = "close" /\ \/ Phase(r) = "write" /\ NewPc(r) = "closed"
                       \/ Phase(r) = "read" /\ NewPc(r) = "stat"
FinishOn(r) == Pc(r) = "phase" /\ Phase(r) = "finish" /\ NewPc(r) = IF Keeps(r) THEN "repEnd" ELSE "delete"
Plain == [hist |-> "ready", deal |-> "seed", seed |-> "xfer", rc1 |-> "rc2", rc2 |-> "rc3",
          xfered |-> "close", closed |-> "stat", stat |-> "size", size |-> "times",
          delete |-> "repEnd", commFree |-> "world", world |-> "done"]
PlainOn(r) == Pc(r) \in DOMAIN Plain /\ NewPc(r) = Plain[Pc(r)]

Onto(r) ==
    \/ BeginOn(r) \/ EnterOn(r) \/ GateOn(r) \/ ReadyOn(r) \/ StripedOn(r) \/ OpenedOn(r) \/ RereadOn(r)
    \/ LoopOn(r) \/ ReduceOn(r) \/ CloseOn(r) \/ FinishOn(r) \/ PlainOn(r)

Unseen == found' = found /\ wire'.sum = wire.sum

GoesOn(r) == Went(r) /\ Onto(r) /\ Fixed(r, {}) /\ Unseen

Turns(r) ==
    /\ Went(r) /\ NewPc(r) = "phase" /\ Fixed(r, {"phase"}) /\ Unseen
    /\ \/ Pc(r) = "stamp" /\ st'[r].phase = "write"
       \/ /\ \/ Pc(r) = "phase" /\ ~Wanted(Phase(r))
             \/ Pc(r) = "close" /\ Phase(r) \in {"writecheck", "readcheck"}
             \/ Pc(r) = "times"
          /\ Phase(r) # "finish" /\ st'[r].phase = Following[Phase(r)]

Opens(r) ==
    /\ Went(r) /\ Pc(r) = "open" /\ Fixed(r, {"pairCnt", "errors"}) /\ Unseen
    /\ NewPc(r) = IF Phase(r) = "write" /\ Stripes /\ r = 0 THEN "striped" ELSE First(Phase(r))
    /\ st'[r].pairCnt = 0 /\ st'[r].errors = 0

\* The end of a transfer, which may have shown an error.
Transfers(r) ==
    /\ Went(r) /\ NewPc(r) = "xfer" /\ Fixed(r, {"pairCnt", "errors"}) /\ wire'.sum = wire.sum
    /\ Pc(r) = (IF Phase(r) = "readcheck" THEN "rc3" ELSE "xfer")
    /\ st'[r].pairCnt = st[r].pairCnt + 1
    /\ \/ found' = found /\ st'[r].errors = st[r].errors
       \/ /\ Phase(r) \in {"writecheck", "readcheck"}
          /\ found' = found + 1 /\ st'[r].errors = st[r].errors + 1

AddsUp(r) ==
    /\ Went(r) /\ r = 0 /\ Pc(r) = "cntR" /\ NewPc(r) = "cntB" /\ Fixed(r, {}) /\ found' = found
    /\ wire'.sum = AllErrors

Learns(r) ==
    /\ Went(r) /\ Pc(r) = "cntB" /\ NewPc(r) = After(Phase(r))
    /\ Fixed(r, {"totalErrorCount", "errorFound"}) /\ Unseen
    /\ st'[r].totalErrorCount = st[r].totalErrorCount + wire.sum + wire.sum
    /\ st'[r].errorFound = (st[r].errorFound \/ wire.sum # 0)

Repeats(r) ==
    /\ Went(r) /\ Pc(r) = "repEnd" /\ NewPc(r) = "rep" /\ Fixed(r, {"rep", "errorFound"}) /\ Unseen
    /\ st'[r].rep = Rep(r) + 1 /\ st'[r].errorFound = FALSE

Stops == UNCHANGED <<test, st, calls, wire, found>>

Moves(r) == \/ GoesOn(r) \/ Turns(r) \/ Opens(r) \/ Transfers(r)
            \/ AddsUp(r) \/ Learns(r) \/ Repeats(r)

\* What is known of the task that makes a step.
Known(r) ==
    /\ Shape /\ r \in World
    /\ r \in Members => Placed(r) /\ Typed(r)
    /\ r \notin Members => Ended(r)

\* What Place says of a task at step pc of a phase.
PlaceAt(r, pc, phase, pairCnt, keeps, place) ==
    LET pairs == IF phase = "readcheck" THEN 3 * pairCnt ELSE 0
    IN
        /\ pc = "rep" => place = 0
        /\ pc \in {"stamp", "commFree", "world", "done"} => place = 1
        /\ pc \in {"phase", "hist"} => place = Start(phase) + 0
        /\ pc \in {"gate", "delete"} => place = Start(phase) + 1
        /\ pc = "ready" => place = Start(phase) + (IF phase = "readcheck" THEN 2 ELSE 1)
        /\ pc = "striped" => place = Start(phase) + 2
        /\ pc = "open" => place = Start(phase) +
               (IF phase = "readcheck" \/ (phase = "write" /\ Stripes /\ r # 0) THEN 2 ELSE 1)
        /\ pc \in {"opened", "deal"} => place = Start(phase) + Opening(phase)
        /\ pc = "seed" => place = Start(phase) + (Opening(phase) + 1)
        /\ pc = "xfer" => place = Start(phase) + (Dealt(phase) + pairs)
        /\ pc = "rc1" => place = Start(phase) + (Dealt(phase) + pairs + 1)
        /\ pc = "rc2" => place = Start(phase) + (Dealt(phase) + pairs + 2)
        /\ pc = "rc3" => place = Start(phase) + (Dealt(phase) + pairs + 3)
        /\ pc = "cntR" => place = Start(phase) + (Body(phase) + 1)
        /\ pc = "cntB" => place = Start(phase) + (Body(phase) + 2)
        /\ pc \in {"xfered", "close"} => place = Start(phase) + Shut(phase)
        /\ pc \in {"closed", "stat"} => place = Start(phase) + (Shut(phase) + Bit(phase = "write"))
        /\ pc = "size" => place = Start(phase) + (Shut(phase) + Bit(phase = "write") + 1)
        /\ pc = "times" => place = Start(phase) + (Shut(phase) + Bit(phase = "write") + 2)
        /\ pc = "repEnd" => place = Start(phase) + (1 + Bit(~keeps))

\* The call a task makes next, and that it makes it.
Due(r) == IF Rep(r) = test.repetitions THEN "CommFree" ELSE Script(Place(r) + 1)
Steps(r) ==
    /\ NewPc(r) \in TestLabels => Place(r)' = Place(r) + 1 /\ Kind[NewPc(r)] = Due(r)
    /\ NewPc(r) \notin TestLabels => Place(r)' = Place(r)

\* Steps on which a task learns nothing new about errors.
Quiet(r) == GoesOn(r) \/ Turns(r) \/ Opens(r) \/ Transfers(r)

-----------------------------------------------------------------------------
(* How far the tasks of a phase are apart                                    *)

\* The counts of errors before a phase.
Before(phase) ==
    Bit(phase # "write" /\ Wanted("write"))
    + Bit(phase \in {"read", "readcheck", "finish"} /\ Wanted("writecheck"))
    + Bit(phase \in {"readcheck", "finish"} /\ Wanted("read"))
    + Bit(phase = "finish" /\ Wanted("readcheck"))

\* The calls of this repetition that a task has left.
LeftIn(s) == Place(s) - Bit(Pc(s) \in TestLabels)
\* A task at these steps has opened its file for this phase, or is about to.
Past == Inside \ {"hist", "gate", "ready"}
\* All transfers are made, and after that so is the file's part of the phase.
Moving == {"opened", "xfer", "rc1", "rc2", "rc3"}
MovedOut == {"cntR", "cntB", "xfered", "close", "closed", "stat", "size", "times"}
Writing == {"ready", "striped", "open", "opened", "xfer"}
BeforeSize(pc) == pc \in Inside /\ pc \notin {"size", "times"}
\* The number of the barrier after which a file that was written is looked at.
AllClosed == Start("write") + (Shut("write") + 1)

\* Once a task may look at what has been written, nobody writes any more.
AfterWriting(r) ==
    \/ Phase(r) = "write" /\ Pc(r) \in {"stat", "size", "times"}
    \/ Phase(r) \in {"writecheck", "read", "readcheck"} /\ Pc(r) \in Inside

\* When a task has the sizes, everybody has looked, and nobody has opened another file.
Idle == {"phase", "gate", "hist", "ready", "delete", "repEnd"}

-----------------------------------------------------------------------------
(* What the files hold                                                       *)

\* The task whose transfer belongs at an offset of a file.
OwnerIn(n, o) == IF test.filePerProc THEN n[1] ELSE (o \div test.xfersPerBlock) % N

\* Transfers in order, and all of them.
Sequential == ~test.randomOffset /\ ~test.deadlineForStonewalling
Reorders == test.reorderTasks \/ test.reorderTasksRandom
Cells == [task : Int, stamp : Int, off : Int]

\* t has the file open, or had it open in the phase it is in.
Holds(t) == Pc(t) \in Moving \/ (Pc(t) = "striped" /\ t = 0)
HasFile(t) ==
    /\ Holds(t) \/ Pc(t) \in MovedOut => st[t].name \in DOMAIN dir
    /\ Holds(t) => st[t].fd = dir[st[t].name]

\* t names the file of the rank it pretends to be; while it writes that is its own.
Names(t) ==
    /\ st[t].rankOffset \in Members
    /\ Phase(t) = "write" \/ Pc(t) \in Outside \/ ~Reorders => st[t].rankOffset = 0
    /\ Pc(t) \in Inside \ {"gate"} => st[t].name = FileName(t, st[t].rankOffset, Rep(t))
    /\ Pc(t) \in {"rep", "stamp"} /\ Rep(t) = 0 => Phase(t) = "write"

\* The buffer that t writes from.
Signs(t) == /\ ~test.storeFileOffset /\ ~test.faultyStorage
            /\ ~Reorders \/ (test.repetitions = 1 /\ Phase(t) = "write")
Buffers(t) ==
    /\ st[t].buffer \in Cells /\ st[t].stamp \in Int
    /\ ~test.storeFileOffset => st[t].buffer # Hole
    /\ Signs(t) => st[t].buffer.task = t

\* t has moved all its transfers when it has left its loop, until it opens the next file.
Counts(t) ==
    /\ Holds(t) => st[t].moved = st[t].pairCnt /\ st[t].pairCnt \in 0 .. XfersPerTask
    /\ Pc(t) \in MovedOut \/ (Pc(t) \in Idle /\ Before(Phase(t)) > 0) => st[t].moved = XfersPerTask
    /\ Pc(t) = "size" => st[t].statSize = FileXfers

\* t has yet to write this place of this file.
Owes(t, n, o) ==
    /\ Phase(t) = "write" /\ Pc(t) \in Writing /\ st[t].name = n
    /\ \E k \in (IF Holds(t) THEN st[t].pairCnt ELSE 0) .. XfersPerTask - 1 : OffsetOf(t, k) = o

\* Names are distinct files; what is not there yet, somebody still writes; and what is
\* there is of the task whose place it is.
Directory ==
    /\ disk \in Seq([FileOffsets -> Cells])
    /\ \A n \in DOMAIN dir : dir[n] \in 1 .. Len(disk)
    /\ \A m, n \in DOMAIN dir : dir[m] = dir[n] => m = n
Whole == \A n \in DOMAIN dir : \A o \in FileOffsets :
             disk[dir[n]][o] # Hole \/ \E t \in Members : Owes(t, n, o)
\* With reordering, a second repetition writes what the first has read.
SignsItsOwn == test.storeFileOffset \/ ~Reorders \/ test.repetitions = 1
Signed == SignsItsOwn /\ ~test.faultyStorage =>
              \A n \in DOMAIN dir : \A o \in FileOffsets :
                  disk[dir[n]][o] # Hole => disk[dir[n]][o].task = OwnerIn(n, o)

FInv ==
    /\ wire.stamp \in Int /\ (~test.faultyStorage => faults = 0)
    /\ \A t \in Members : HasFile(t) /\ Names(t) /\ Buffers(t) /\ Counts(t)
    /\ Directory /\ Whole /\ Signed

\* All transfers of the loop are made.
Finished(r) == Holds(r) /\ st[r].pairCnt >= XfersPerTask

\* Where a step leads that neither opens a file nor transfers anything.
Leads(r) ==
    /\ Holds(r)' => Holds(r) /\ st'[r].pairCnt = st[r].pairCnt
    /\ Pc(r)' \in MovedOut => Pc(r) \in MovedOut \/ Finished(r)
    /\ Phase(r)' = "write" => Phase(r) = "write" \/ Pc(r) \in Outside
    /\ test.repetitions = 1 /\ Phase(r)' = "write" => Phase(r) = "write"
    /\ Pc(r)' \in Outside => Pc(r) \in Outside \cup {"repEnd"}
    /\ Pc(r)' \in {"rep", "stamp"} /\ Rep(r)' = 0 => Phase(r)' = "write"
    /\ Pc(r)' \in Inside \ {"gate"} => Pc(r) \in Inside \ {"gate"} /\ Rep(r)' = Rep(r)
    /\ Pc(r)' \in Idle /\ Before(st'[r].phase) > 0 =>
           Pc(r) \in MovedOut \/ (Pc(r) \in Idle /\ Before(Phase(r)) > 0)
    /\ Pc(r)' # "size"
    /\ Phase(r) = "write" /\ Pc(r) \in Writing =>
           (Phase(r)' = "write" /\ Pc(r)' \in Writing) \/ Finished(r)

\* What a task keeps of its file and its buffer meanwhile.
Carries(r) ==
    /\ st'[r].name = st[r].name /\ st'[r].buffer = st[r].buffer /\ st'[r].moved = st[r].moved
    /\ st'[r].stamp \in Int
    /\ Holds(r)' => st'[r].fd = st[r].fd
    /\ st'[r].rankOffset = st[r].rankOffset \/ (st'[r].rankOffset = 0 /\ Pc(r)' \notin Inside \ {"gate"})
    /\ Pc(r) = "repEnd" => st'[r].rankOffset = 0

\* Files may go, but nothing is written.
Fewer ==
    /\ DOMAIN dir' \subseteq DOMAIN dir /\ \A n \in DOMAIN dir' : dir'[n] = dir[n]
    /\ disk' = disk

\* What a step of a member starts from.
FKnown(r) ==
    /\ Known(r) /\ Given /\ r \in Members /\ Placed(r) /\ ~test.randomOffset /\ ~test.deadlineForStonewalling
    /\ HasFile(r) /\ Names(r) /\ Buffers(r) /\ Counts(r)

Data == {"rankOffset", "name", "fd", "buffer", "moved", "stamp", "statSize"}

\* r names the file of rank offset o and goes on to where it waits or opens.
NewName(r, o) ==
    /\ st'[r].rankOffset = o /\ st'[r].name = FileName(r, o, Rep(r))
    /\ \A f \in {"buffer", "moved", "stamp"} : st'[r][f] = st[r][f]

\* What r may have in its buffer.
Fits(r, b) ==
    /\ b \in Cells /\ (~test.storeFileOffset => b # Hole)
    /\ Signs(r) => b.task = r

\* A step of the loop, with one transfer more behind it or the same.
Loops(r) ==
    /\ test' = test /\ Phase(r)' = Phase(r) /\ Rep(r)' = Rep(r) /\ \A q \in World \ {r} : st'[q] = st[q]
    /\ Pc(r) \in {"xfer", "rc3"} /\ Pc(r)' \in {"xfer", "rc1"}
    /\ \A f \in {"rankOffset", "name", "fd", "stamp"} : st'[r][f] = st[r][f]
    /\ st'[r].moved = st'[r].pairCnt /\ st'[r].pairCnt \in 0 .. XfersPerTask

Alike(r, rec) == DOMAIN rec = Fields /\ rec.fd = st[r].fd /\ rec.fdCheck = st[r].fdCheck
SameFds(r) == st'[r].fd = st[r].fd /\ st'[r].fdCheck = st[r].fdCheck

-----------------------------------------------------------------------------
(* Files that must be there, or must not                                     *)

\* The test writes what it reads, or nobody removes it before.
Supplied == test.writeFile \/ test.keepFile \/ test.repetitions = 1

\* The files of the k-th repetition are there.
There(k) == \A t \in Members : FileName(t, 0, k) \in DOMAIN dir

\* r may look at what its repetition has written.
Looks(r) ==
    \/ Phase(r) = "write" /\ Pc(r) \in {"stat", "size", "times"}
    \/ Phase(r) \in {"writecheck", "read", "readcheck"} /\ Pc(r) \notin Outside

\* The files of the k-th repetition that r has yet to read, or to find there.
Needs(r, k) ==
    IF test.writeFile THEN k = Rep(r) /\ Looks(r)
    ELSE k >= Rep(r) /\ (test.keepFile \/ Pc(r) \notin {"delete", "repEnd"})
Provided(r) == \A k \in 0 .. test.repetitions - 1 : Needs(r, k) => There(k)

\* What a read check compares with is a file there is.
Compares(r) == Phase(r) = "readcheck" /\ test.filePerProc /\ Pc(r) \in {"xfer", "rc1", "rc2", "rc3"} =>
                   \E n \in DOMAIN dir : st[r].fdCheck = dir[n]

\* With striping a file is new when it is created.
Creates(r) == test.lustre_set_striping /\ (test.filePerProc \/ r = 0) /\ Phase(r) = "write"
Cleared(r) == Creates(r) /\ Pc(r) \in {"ready", "open"} => FileName(r, 0, Rep(r)) \notin DOMAIN dir
AInv == \A r \in Members : Provided(r) /\ Compares(r) /\ Cleared(r)
=============================================================================
