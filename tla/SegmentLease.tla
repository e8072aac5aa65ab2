----------------------------- MODULE SegmentLease -----------------------------
(***************************************************************************)
(* The life of one lease as NativeTransfer sees it: the worker moves the   *)
(* blocks of the segment in order and hands the lease back at the end, or  *)
(* gives it up; whoever waits for it may leave first.                      *)
(***************************************************************************)
EXTENDS Naturals

CONSTANT BlocksPerSegment

VARIABLES
  io,        \* as in NativeTransfer: "streaming", "written", "orphan", "none"
  pos,       \* blocks read or written
  cancelled  \* ActiveTransfer.cancelled

leaseVars == <<io, pos, cancelled>>

Init == io = "streaming" /\ pos = 0 /\ cancelled = FALSE

StreamBlock ==
  /\ io \in {"streaming", "orphan"} /\ ~cancelled
  /\ pos < BlocksPerSegment
  /\ pos' = pos + 1
  /\ UNCHANGED <<io, cancelled>>

WorkerReturns ==
  /\ io = "streaming" /\ pos = BlocksPerSegment
  /\ io' = "written"
  /\ UNCHANGED <<pos, cancelled>>

WorkerFails ==
  /\ io = "streaming"
  /\ io' = "none"
  /\ UNCHANGED <<pos, cancelled>>

\* Nobody waits any more; a lease that was handed back is dropped at once.
Abandoned ==
  /\ \/ io = "streaming" /\ io' = "orphan"
     \/ io = "written" /\ io' = "none"
  /\ UNCHANGED <<pos, cancelled>>

OrphanEnds ==
  /\ io = "orphan"
  /\ io' = "none"
  /\ UNCHANGED <<pos, cancelled>>

Cancel == cancelled' = TRUE /\ UNCHANGED <<io, pos>>

Next ==
  StreamBlock \/ WorkerReturns \/ WorkerFails \/ Abandoned \/ OrphanEnds \/ Cancel

Spec == Init /\ [][Next]_leaseVars
=============================================================================
