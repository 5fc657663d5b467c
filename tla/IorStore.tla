------------------------------ MODULE IorStore ------------------------------
(***************************************************************************)
(* What an IOR backend promises to the test driver: a transfer is one step *)
(* that writes or reads exactly one cell, the transfer-sized place at an   *)
(* offset of a file, and nothing else changes a cell, except that a cell   *)
(* nobody is transferring may be cleared (files are created, truncated and *)
(* removed).                                                               *)
(***************************************************************************)
CONSTANTS
    Tasks,   \* the tasks that make transfers
    Cells,   \* the places a transfer may be asked for
    Data,    \* what a cell may hold
    Blank    \* what a cleared cell holds, and a task that has read nothing

VARIABLES
    content,    \* cell -> what it holds
    pending,    \* task -> the transfer it has asked for, as a set of at most one
    delivered   \* task -> what its latest read has given it

svars == <<content, pending, delivered>>

Requests == [write : BOOLEAN, cell : Cells, datum : Data]

Init ==
    /\ content \in [Cells -> Data]
    /\ pending = [t \in Tasks |-> {}]
    /\ delivered = [t \in Tasks |-> Blank]

Ask(t) ==
    /\ pending[t] = {}
    /\ \E q \in pending'[t] :
          /\ q \in Requests
          /\ pending' = [pending EXCEPT ![t] = {q}]
    /\ UNCHANGED <<content, delivered>>

Write(t) ==
    \E q \in pending[t] :
        /\ q.write
        /\ content' = [content EXCEPT ![q.cell] = q.datum]
        /\ pending' = [pending EXCEPT ![t] = {}]
        /\ UNCHANGED delivered

Read(t) ==
    \E q \in pending[t] :
        /\ ~q.write
        /\ delivered' = [delivered EXCEPT ![t] = content[q.cell]]
        /\ pending' = [pending EXCEPT ![t] = {}]
        /\ UNCHANGED content

Clear ==
    LET cleared == {c \in Cells : content'[c] # content[c]}
    IN  /\ \A t \in Tasks : \A q \in pending[t] : q.cell \notin cleared
        /\ content' = [c \in Cells |-> IF c \in cleared THEN Blank ELSE content[c]]
        /\ UNCHANGED <<pending, delivered>>

Next == Clear \/ \E t \in Tasks : Ask(t) \/ Write(t) \/ Read(t)

Spec == Init /\ [][Next]_svars

=============================================================================
