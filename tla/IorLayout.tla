------------------------------ MODULE IorLayout ------------------------------
(***************************************************************************)
(* Where the transfers of an IOR test go, as offsets counted in transfers. *)
(* p is the test's parameter record (IOR_param_t), n its number of tasks.  *)
(* A file consists of segments, a segment of one block per task (one block *)
(* if every task has its own file), a block of transfers.                  *)
(***************************************************************************)
EXTENDS Integers

BlocksPerSegment(p, n) == IF p.filePerProc THEN 1 ELSE n
SegmentSize(p, n) == BlocksPerSegment(p, n) * p.xfersPerBlock
XfersOf(p) == p.xfersPerBlock * p.segmentCount
FileLength(p, n) == p.segmentCount * SegmentSize(p, n)

\* GetOffsetArraySequential: where the k-th transfer of task r goes.
OffsetIn(p, n, r, k) ==
    LET segment == k \div p.xfersPerBlock
        inBlock == k % p.xfersPerBlock
    IN  IF p.filePerProc
        THEN segment * p.xfersPerBlock + inBlock
        ELSE (segment * n + r) * p.xfersPerBlock + inBlock

\* ReadCheck's second read of a shared file: the same place in the block of the
\* task `shift` ranks further, inside the same segment.
RereadOffsetIn(p, n, shift, off) ==
    IF p.filePerProc THEN off
    ELSE (((off % SegmentSize(p, n)) + shift * p.xfersPerBlock) % SegmentSize(p, n))
         + (off \div SegmentSize(p, n)) * SegmentSize(p, n)

=============================================================================
