--------------------------- MODULE SegmentPipeline ---------------------------
(***************************************************************************)
(* How one segment or extent moves between the network and the file: an    *)
(* async task and a blocking worker, joined by a payload channel and a     *)
(* channel that returns the empty buffers. In a download the worker fills  *)
(* buffers and the task drains them, in an upload the other way round.     *)
(* An LNA request has two buffers and channels of two, a WebTransport lane *)
(* one buffer and channels of one.                                         *)
(***************************************************************************)
EXTENDS Integers, Sequences

CONSTANTS
  BlocksPerSegment, \* I/O blocks of the segment
  Depths            \* channel capacities explored: 2 for LNA, 1 for WebTransport

ASSUME PipelineAssumption == BlocksPerSegment \in Nat \ {0} /\ Depths \subseteq {1, 2}

VARIABLES
  dir,       \* "send" (download) or "receive" (upload)
  depth,     \* capacity of both channels and number of buffers
  pc,        \* where the producer and the consumer are
  payload,   \* filled buffers under way: the block in each
  recycle,   \* empty buffers under way
  freed,     \* buffers back in the pool
  sent,      \* blocks the producer has passed on
  hand,      \* the block the consumer holds
  moved,     \* blocks that arrived in the file or on the network, in order
  pos,       \* blocks the worker has read or written and touched
  cancelled  \* ActiveTransfer.cancelled

channels == <<payload, recycle, freed>>
progress == <<sent, hand, moved, pos>>
vars == <<dir, depth, pc, channels, progress, cancelled>>

Worker == IF dir = "send" THEN "prod" ELSE "cons"
Task   == IF dir = "send" THEN "cons" ELSE "prod"
Goto(a, l) == pc' = [pc EXCEPT ![a] = l]

\* The ends of the channels that a holds are dropped when it fails, and when the
\* worker returns; the task keeps its own until it has joined the worker. The
\* mutant keeps a copy of them.
GoneNever(a) == FALSE
Gone(a)    == pc[a] \in {"failed", "done"} \/ (a = Worker /\ pc[a] = "end")
Holding(a) == IF pc[a] \in {"io", "give"} THEN 1 ELSE 0

\* What a drops at its end: its buffer and the queue it was the receiver of. The
\* mutant forgets the queue.
DropOwnBuffer(a) ==
  /\ freed' = freed + Holding(a)
  /\ IF a = "prod" THEN recycle' = 0 /\ UNCHANGED payload
                   ELSE payload' = <<>> /\ UNCHANGED recycle
DropEnds(a) ==
  IF a = "prod"
    THEN freed' = freed + Holding(a) + recycle /\ recycle' = 0 /\ UNCHANGED payload
    ELSE freed' = freed + Holding(a) + Len(payload) /\ payload' = <<>> /\ UNCHANGED recycle
Fail(a) == Goto(a, "failed") /\ DropEnds(a)

-----------------------------------------------------------------------------
(* The producer: take an empty buffer, fill it, pass it on.                *)

ProdTake ==
  /\ pc["prod"] = "take" /\ sent < BlocksPerSegment
  /\ \/ recycle > 0 /\ Goto("prod", "io") /\ recycle' = recycle - 1 /\ UNCHANGED <<payload, freed>>
     \/ recycle = 0 /\ Gone("cons") /\ Fail("prod")
  /\ UNCHANGED <<dir, depth, sent, hand, moved, pos, cancelled>>

ProdGive ==
  /\ pc["prod"] = "give"
  /\ \/ /\ ~Gone("cons") /\ Len(payload) < depth
        /\ payload' = Append(payload, sent)
        /\ sent' = sent + 1
        /\ Goto("prod", "take")
        /\ UNCHANGED <<recycle, freed>>
     \/ Gone("cons") /\ Fail("prod") /\ UNCHANGED sent
  /\ UNCHANGED <<dir, depth, hand, moved, pos, cancelled>>

\* After the last block a worker returns the lease, a task closes the payload
\* channel and waits for the worker. The mutant ends one block short.
ProdEndEarly ==
  /\ pc["prod"] = "take" /\ sent >= BlocksPerSegment - 1
  /\ Goto("prod", "end")
  /\ IF Worker = "prod" THEN DropEnds("prod") ELSE UNCHANGED channels
  /\ UNCHANGED <<dir, depth, progress, cancelled>>
ProdEnd ==
  /\ pc["prod"] = "take" /\ sent = BlocksPerSegment
  /\ Goto("prod", "end")
  /\ IF Worker = "prod" THEN DropEnds("prod") ELSE UNCHANGED channels
  /\ UNCHANGED <<dir, depth, progress, cancelled>>

-----------------------------------------------------------------------------
(* The consumer: take a filled buffer, drain it, give it back.             *)

ConsTake ==
  /\ pc["cons"] = "take" /\ payload # <<>>
  /\ hand' = Head(payload) /\ payload' = Tail(payload)
  /\ Goto("cons", "io")
  /\ UNCHANGED <<dir, depth, recycle, freed, sent, moved, pos, cancelled>>

\* A worker that cannot return the buffer fails, a task does not care.
ConsGive ==
  /\ pc["cons"] = "give"
  /\ \/ ~Gone("prod") /\ recycle' = recycle + 1 /\ Goto("cons", "take")
        /\ UNCHANGED <<payload, freed>>
     \/ Gone("prod") /\ Task = "cons" /\ freed' = freed + 1 /\ Goto("cons", "take")
        /\ UNCHANGED <<payload, recycle>>
     \/ Gone("prod") /\ Worker = "cons" /\ Fail("cons")
  /\ UNCHANGED <<dir, depth, progress, cancelled>>

\* The payload channel is closed and empty. A worker checks the length, a task
\* goes on to wait for the worker.
ConsEnd ==
  /\ pc["cons"] = "take" /\ payload = <<>>
  /\ pc["prod"] \in {"end", "failed"}
  /\ IF Worker = "cons"
       THEN IF pos = BlocksPerSegment THEN Goto("cons", "end") /\ DropEnds("cons") ELSE Fail("cons")
       ELSE Goto("cons", "end") /\ UNCHANGED channels
  /\ UNCHANGED <<dir, depth, progress, cancelled>>

-----------------------------------------------------------------------------
(* The file, the network and the join.                                     *)

Arrives(a) == IF a = "cons" THEN moved' = Append(moved, hand) ELSE UNCHANGED moved

\* One block of file I/O and the touch behind it.
FileBlock ==
  /\ pc[Worker] = "io" /\ ~cancelled
  /\ Goto(Worker, "give")
  /\ Arrives(Worker)
  /\ pos' = pos + 1
  /\ UNCHANGED <<dir, depth, channels, sent, hand, cancelled>>

\* The I/O fails, or it succeeds and touch finds the transfer cancelled.
FileFails ==
  /\ pc[Worker] = "io"
  /\ Fail(Worker)
  /\ UNCHANGED moved \/ (cancelled /\ Arrives(Worker))
  /\ UNCHANGED <<dir, depth, sent, hand, pos, cancelled>>

\* One block written to or read from the peer.
NetworkBlock ==
  /\ pc[Task] = "io"
  /\ Goto(Task, "give")
  /\ Arrives(Task)
  /\ UNCHANGED <<dir, depth, channels, sent, hand, pos, cancelled>>

\* The peer disconnects or, over LNA, times out.
NetworkFails ==
  /\ pc[Task] = "io"
  /\ Fail(Task)
  /\ UNCHANGED <<dir, depth, progress, cancelled>>

\* The task is aborted wherever it waits: a WebTransport lane with its connection,
\* an LNA request with the endpoint. During network I/O that is NetworkFails.
TaskAborted ==
  /\ pc[Task] \in {"take", "give", "end"}
  /\ Fail(Task)
  /\ UNCHANGED <<dir, depth, progress, cancelled>>

\* The task gets the lease, or the error of the worker, and its channels end.
\* The mutant takes an error for success.
JoinAny ==
  /\ pc[Task] = "end" /\ pc[Worker] \in {"end", "failed"}
  /\ Goto(Task, "done") /\ DropEnds(Task)
  /\ UNCHANGED <<dir, depth, progress, cancelled>>
Join ==
  /\ pc[Task] = "end" /\ pc[Worker] \in {"end", "failed"}
  /\ IF pc[Worker] = "end" THEN Goto(Task, "done") /\ DropEnds(Task) ELSE Fail(Task)
  /\ UNCHANGED <<dir, depth, progress, cancelled>>

Cancel ==
  /\ ~cancelled
  /\ cancelled' = TRUE
  /\ UNCHANGED <<dir, depth, pc, channels, progress>>

TaskEnded   == pc[Task] \in {"done", "failed"}
WorkerEnded == pc[Worker] \in {"end", "failed"}
Ended == TaskEnded /\ WorkerEnded /\ UNCHANGED vars

-----------------------------------------------------------------------------
Init ==
  /\ dir \in {"send", "receive"} /\ depth \in Depths
  /\ pc = [a \in {"prod", "cons"} |-> "take"]
  /\ payload = <<>> /\ recycle = depth /\ freed = 0
  /\ sent = 0 /\ hand = 0 /\ moved = <<>> /\ pos = 0
  /\ cancelled = FALSE

ProdStep == ProdTake \/ ProdGive \/ ProdEnd
ConsStep == ConsTake \/ ConsGive \/ ConsEnd

Next ==
  \/ ProdStep \/ ConsStep
  \/ FileBlock \/ FileFails
  \/ NetworkBlock \/ NetworkFails \/ TaskAborted
  \/ Join
  \/ Cancel
  \/ Ended

Spec == Init /\ [][Next]_vars

\* Threads and tasks are scheduled. The peer of an LNA request answers or times
\* out after 120 s; a WebTransport lane may wait for its peer for ever.
Fairness ==
  /\ WF_vars(ProdStep) /\ WF_vars(ConsStep) /\ WF_vars(Join)
  /\ WF_vars(FileBlock \/ FileFails)
  /\ WF_vars(depth = 2 /\ (NetworkBlock \/ NetworkFails))
FairSpec == Spec /\ Fairness

-----------------------------------------------------------------------------
(* Properties.                                                             *)

\* A lease that comes back to be committed stands for a whole segment: the worker
\* has ended, and every block arrived once and in the order of the file, although
\* two buffers of an LNA request are under way at the same time.
CommittedIsWhole ==
  pc[Task] = "done" =>
    /\ pc[Worker] = "end"
    /\ moved = [i \in 1 .. BlocksPerSegment |-> i - 1] /\ pos = BlocksPerSegment

\* No buffer is lost on any path, and a filled buffer always finds room in its
\* channel: the worker never blocks in a send.
BuffersAccounted ==
  /\ Len(payload) + recycle + Holding("prod") + Holding("cons") + freed = depth
  /\ TaskEnded /\ WorkerEnded => freed = depth
  /\ pc["prod"] = "give" => Len(payload) < depth

\* When the task ends, for whatever reason, its worker lets the lease go; and an
\* LNA request ends in any case.
WorkerFollowsTask == TaskEnded ~> WorkerEnded
LnaRequestEnds    == depth = 2 ~> (TaskEnded /\ WorkerEnded)
BothHalvesEnd     == WorkerFollowsTask /\ LnaRequestEnds

\* NativeTransfer's view of the lease.
IoState ==
  CASE pc[Task] = "done"                  -> "written"
    [] pc[Task] = "failed" /\ WorkerEnded  -> "none"
    [] pc[Task] = "failed" /\ ~WorkerEnded -> "orphan"
    [] ~TaskEnded /\ pc[Worker] = "end"    -> "written"
    [] ~TaskEnded /\ pc[Worker] = "failed" -> "none"
    [] OTHER                              -> "streaming"

\* The pipeline implements the life of a lease that NativeTransfer assumes.
Lease == INSTANCE SegmentLease WITH io <- IoState
LeaseLife == Lease!Spec
=============================================================================
