---------------------------- MODULE MCH5PartView ----------------------------
\* Instances of H5PartView: jobs that write one or two steps and read them back.
EXTENDS H5PartView

C(op, arg) == [op |-> op, arg |-> arg]
Job(independent, calls) == [independent |-> independent, calls |-> calls]

Each(v) == [r \in Procs |-> v]
Own == [r \in Procs |-> r]

Write(c) == <<C("num", c), C("write", "x")>>
WriteStep(s, c) == <<C("step", s)>> \o Write(c)
Reopen == <<C("reopen", 0)>>

\* Views a reader may ask for: none, all, a tail, an empty range, one's own.
Views == {Each(<<-1, -1>>), Each(<<0, -1>>), Each(<<1, 2>>), Each(<<2, 0>>),
          [r \in Procs |-> <<r, r>>], [r \in Procs |-> <<2 * r, 2 * r + 1>>]}

Readers ==
    {<<C("view", v), C("read", "x")>> : v \in Views} \cup
    {<<C("canonical", 0), C("read", "x")>>,
     <<C("indices", [r \in Procs |-> <<r, 0>>]), C("read", "x")>>,
     <<C("view", Each(<<0, 0>>)), C("reset", 0), C("read", "x")>>}

\* Written by any of these counts, read back by any view.
OneStep(counts) ==
    {Job(FALSE, WriteStep(0, c) \o Reopen \o p) : c \in counts, p \in Readers}

\* A view set in one step and still in force in another, and a step not there.
TwoSteps ==
    {Job(FALSE, WriteStep(0, c) \o WriteStep(1, d) \o Reopen
                \o <<C("view", v), C("step", 1), C("read", "x"), C("step", 7), C("read", "x")>>) :
        c \in {Each(1)}, d \in {Own}, v \in {Each(<<0, -1>>), [r \in Procs |-> <<r, r>>]}}

\* Writes before the step and the counts are set; counts for a reader; no step at all.
OutOfOrder ==
    {Job(FALSE, <<C("reset", 0), C("write", "y"), C("step", 0), C("write", "y")>> \o Write(c)
                \o <<C("write", "y")>> \o Reopen \o <<C("num", d), C("read", "y"), C("write", "y")>>) :
            c \in {Own}, d \in {Own, Each(1)}}
    \cup {Job(FALSE, <<C("step", 0)>> \o Reopen \o <<C("canonical", 0), C("read", "x")>>),
          Job(FALSE, Reopen \o <<C("canonical", 0), C("read", "x")>>)}

\* Two transfers in a row under a throttle; the throttle is refused without an
\* independent VFD.
Throttled(independent, factor) ==
    {Job(independent, <<C("throttle", factor), C("step", 0), C("num", Each(1)), C("write", "x"),
                        C("write", "y")>>
                      \o Reopen \o <<C("throttle", factor), C("canonical", 0), C("read", "x"),
                                     C("read", "y")>>)}

\* A batch of one for the first transfer, of two for the next: tokens of two senders.
Widened == {Job(TRUE, <<C("throttle", 1), C("step", 0), C("num", Each(1)), C("write", "x"),
                        C("throttle", 2), C("write", "y")>> \o Reopen)}

\* One processor with none, equal counts, nobody has any.
Uneven == {[r \in Procs |-> (2 * r) % 3], Each(1), Each(0)}
Programs3 ==
    OneStep(Uneven) \cup TwoSteps \cup OutOfOrder
        \cup Widened \cup Throttled(TRUE, 1) \cup Throttled(TRUE, 2) \cup Throttled(FALSE, 1)
SmallWrite == {Job(FALSE, WriteStep(0, Each(1)))}
=============================================================================
