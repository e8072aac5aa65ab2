----------------------- MODULE SegmentPipelineProofs -----------------------
(***************************************************************************)
(* Proofs about SegmentPipeline, for every length of the segment, and      *)
(* about TransferBuffers.  The inductive invariant of the pipeline numbers *)
(* the blocks: those that arrived are 0, 1, 2, ..., those under way are    *)
(* the next ones, and the count of the producer is ahead by exactly those. *)
(***************************************************************************)
EXTENDS SegmentPipeline, TransferBuffers, FiniteSetTheorems, SequenceTheorems, TLAPS

Places == {"take", "io", "give", "end", "done", "failed"}

\* The elements of the sequence count up from n.
Numbered(s, n) == \A i \in 1 .. Len(s) : s[i] = n + i - 1

PipelineType ==
  /\ dir \in {"send", "receive"} /\ depth \in {1, 2} /\ depth \in Depths
  /\ pc \in [{"prod", "cons"} -> Places]
  /\ payload \in Seq(Nat) /\ moved \in Seq(Nat)
  /\ recycle \in Nat /\ freed \in Nat
  /\ sent \in 0 .. BlocksPerSegment /\ hand \in Nat
  /\ pos \in Nat /\ cancelled \in BOOLEAN

\* What each place of the producer and the consumer says about the other and about
\* the progress.
PlaceInv ==
  /\ pc["prod"] \in {"io", "give"} => sent < BlocksPerSegment
  /\ pc["prod"] \in {"end", "done"} => sent = BlocksPerSegment
  /\ pc["cons"] = "end" => payload = <<>> /\ pc["prod"] \notin {"take", "io", "give"}
  /\ pc[Worker] # "done"
  /\ pc[Task] = "done" => pc[Worker] = "end"
  /\ pc[Worker] = "end" => pos = BlocksPerSegment

\* Every buffer is in one place, and none in a channel whose receiver is gone.
ChannelInv ==
  /\ Gone("prod") => recycle = 0
  /\ Gone("cons") => payload = <<>>
  /\ Len(payload) + recycle + Holding("prod") + Holding("cons") + freed = depth

\* Blocks that have left the payload channel.
Passed == sent - Len(payload)

\* The blocks arrive in order, and none is skipped while the consumer lives.
OrderInv ==
  /\ Numbered(moved, 0)
  /\ pc["cons"] # "failed" =>
       /\ Numbered(payload, Passed)
       /\ IF pc["cons"] = "io" THEN Len(moved) = Passed - 1 /\ hand = Passed - 1
                               ELSE Len(moved) = Passed

\* The worker has counted the blocks it has read, or those that arrived in the file.
PosInv ==
  /\ Worker = "cons" /\ pc["cons"] # "failed" => pos = Len(moved)
  /\ Worker = "prod" /\ pc["prod"] # "failed" =>
       pos = IF pc["prod"] = "give" THEN sent + 1 ELSE sent
  /\ pos <= BlocksPerSegment

IInv == PipelineType /\ PlaceInv /\ ChannelInv /\ OrderInv /\ PosInv

-----------------------------------------------------------------------------
(* Sequences that count up *)

\* What Append does to the length and to the elements.
LEMMA AppendFacts ==
  ASSUME NEW s \in Seq(Nat), NEW x \in Nat
  PROVE  /\ Append(s, x) \in Seq(Nat)
         /\ Len(Append(s, x)) = Len(s) + 1
         /\ \A i \in 1 .. Len(s) : Append(s, x)[i] = s[i]
         /\ Append(s, x)[Len(s) + 1] = x
OBVIOUS

\* What Head and Tail do.
LEMMA TailFacts ==
  ASSUME NEW s \in Seq(Nat), s # <<>>
  PROVE  /\ Head(s) \in Nat /\ Head(s) = s[1]
         /\ Tail(s) \in Seq(Nat)
         /\ Len(s) \in Nat \ {0}
         /\ Len(Tail(s)) = Len(s) - 1
         /\ \A i \in 1 .. Len(s) - 1 : Tail(s)[i] = s[i + 1]
OBVIOUS

\* The next number keeps a sequence numbered.
LEMMA NumberedAppend ==
  ASSUME NEW s \in Seq(Nat), NEW n \in Nat, Numbered(s, n)
  PROVE  Numbered(Append(s, n + Len(s)), n)
<1>1. n + Len(s) \in Nat
  OBVIOUS
<1> QED
  BY <1>1, AppendFacts DEF Numbered

\* The head of a numbered sequence is the first number, the tail counts up from the next.
LEMMA NumberedTail ==
  ASSUME NEW s \in Seq(Nat), NEW n \in Nat, Numbered(s, n), s # <<>>
  PROVE  Head(s) = n /\ Numbered(Tail(s), n + 1)
<1>1. Head(s) = n
  BY TailFacts DEF Numbered
<1>2. ASSUME NEW i \in 1 .. Len(Tail(s))
      PROVE  Tail(s)[i] = (n + 1) + i - 1
  BY <1>2, TailFacts DEF Numbered
<1> QED
  BY <1>1, <1>2 DEF Numbered

\* The empty sequence is numbered from anywhere.
LEMMA NumberedEmpty ==
  <<>> \in Seq(Nat) /\ Len(<<>>) = 0 /\ \A n : Numbered(<<>>, n)
BY DEF Numbered

-----------------------------------------------------------------------------
(* Every step keeps the invariant: first what several actions do *)

\* A block that the consumer hands on is the next one.
LEMMA ArrivalKeepsOrder ==
  ASSUME IInv, pc["cons"] = "io", moved' = Append(moved, hand)
  PROVE  moved' \in Seq(Nat) /\ Numbered(moved', 0) /\ Len(moved') = Passed
<1>1. Len(moved) \in Nat /\ hand = 0 + Len(moved) /\ Passed = Len(moved) + 1
  BY DEF IInv, PipelineType, OrderInv, Passed
<1>2. moved \in Seq(Nat) /\ hand \in Nat /\ Numbered(moved, 0)
  BY DEF IInv, PipelineType, OrderInv
<1> QED
  BY <1>1, <1>2, AppendFacts, NumberedAppend

\* A block that the producer passes on is numbered after those under way.
LEMMA GivingKeepsOrder ==
  ASSUME IInv, pc["cons"] # "failed", sent' = sent + 1, payload' = Append(payload, sent)
  PROVE  payload' \in Seq(Nat) /\ Numbered(payload', Passed) /\ Len(payload') = Len(payload) + 1
         /\ Passed' = Passed
<1>1. Len(payload) \in Nat /\ sent \in Nat /\ Passed \in Nat /\ sent = Passed + Len(payload)
  BY PipelineAssumption DEF IInv, PipelineType, OrderInv, Passed
<1>2. payload \in Seq(Nat) /\ Numbered(payload, Passed)
  BY DEF IInv, PipelineType, OrderInv
<1>3. payload' \in Seq(Nat) /\ Len(payload') = Len(payload) + 1
  BY <1>1, <1>2, AppendFacts
<1> QED
  BY <1>1, <1>2, <1>3, NumberedAppend DEF Passed

\* An empty buffer for the producer, or the end of it when the consumer is gone.
LEMMA ProdTakeKeeps ==
  IInv /\ ProdTake => IInv'
<1> SUFFICES ASSUME IInv, ProdTake PROVE IInv'
  OBVIOUS
<1> USE DEF ProdTake, Goto, Gone, Holding, DropEnds, Fail, Worker, Task, Arrives, Places, channels, progress
<1>1. PipelineType'
  <2>1. payload' \in Seq(Nat) /\ moved' \in Seq(Nat)
    BY NumberedEmpty DEF IInv, PipelineType
  <2>2. pc' \in [{"prod", "cons"} -> Places]
    BY DEF IInv, PipelineType
  <2>3. recycle' \in Nat /\ freed' \in Nat /\ sent' \in 0 .. BlocksPerSegment /\ hand' \in Nat /\ pos' \in Nat
    BY PipelineAssumption DEF IInv, PipelineType, PlaceInv
  <2> QED
    BY <2>1, <2>2, <2>3 DEF IInv, PipelineType
<1>2. PlaceInv'
  BY PipelineAssumption DEF IInv, PipelineType, PlaceInv, ChannelInv, PosInv
<1>3. ChannelInv'
  BY PipelineAssumption DEF IInv, PipelineType, PlaceInv, ChannelInv
<1>4. OrderInv'
  BY NumberedEmpty, PipelineAssumption
     DEF IInv, PipelineType, PlaceInv, ChannelInv, OrderInv, Passed
<1>5. PosInv'
  BY PipelineAssumption DEF IInv, PipelineType, PlaceInv, PosInv, OrderInv, Passed
<1> QED
  BY <1>1, <1>2, <1>3, <1>4, <1>5 DEF IInv

\* A filled buffer into the channel, with the next number.
LEMMA ProdGiveKeeps ==
  IInv /\ ProdGive => IInv'
<1> SUFFICES ASSUME IInv, ProdGive PROVE IInv'
  OBVIOUS
<1> USE DEF ProdGive, Goto, Gone, Holding, DropEnds, Fail, Worker, Task, Arrives, Places, channels, progress
<1>a. UNCHANGED <<payload, sent>> \/ (pc["cons"] # "failed" /\ sent' = sent + 1 /\ payload' = Append(payload, sent))
  OBVIOUS
<1>b. payload' \in Seq(Nat) /\ (payload' = payload \/ Len(payload') = Len(payload) + 1)
  BY <1>a, GivingKeepsOrder DEF IInv, PipelineType
<1>c. pc'["cons"] = pc["cons"] /\ (pc["cons"] # "failed" => Numbered(payload', Passed) /\ Passed' = Passed)
  <2>1. CASE UNCHANGED <<payload, sent>>
    BY <2>1 DEF IInv, PipelineType, OrderInv, Passed
  <2>2. CASE pc["cons"] # "failed" /\ sent' = sent + 1 /\ payload' = Append(payload, sent)
    BY <2>2, GivingKeepsOrder DEF IInv, PipelineType
  <2> QED
    BY <1>a, <2>1, <2>2
<1>1. PipelineType'
  <2>1. payload' \in Seq(Nat) /\ moved' \in Seq(Nat)
    BY <1>b, NumberedEmpty DEF IInv, PipelineType
  <2>2. pc' \in [{"prod", "cons"} -> Places]
    BY DEF IInv, PipelineType
  <2>3. recycle' \in Nat /\ freed' \in Nat /\ sent' \in 0 .. BlocksPerSegment /\ hand' \in Nat /\ pos' \in Nat
    BY PipelineAssumption DEF IInv, PipelineType, PlaceInv
  <2> QED
    BY <2>1, <2>2, <2>3 DEF IInv, PipelineType
<1>2. PlaceInv'
  BY <1>b, PipelineAssumption DEF IInv, PipelineType, PlaceInv, ChannelInv, PosInv
<1>3. ChannelInv'
  BY <1>b, PipelineAssumption DEF IInv, PipelineType, PlaceInv, ChannelInv
<1>4. OrderInv'
  BY <1>a, <1>b, <1>c, NumberedEmpty, PipelineAssumption
     DEF IInv, PipelineType, PlaceInv, ChannelInv, OrderInv, Passed
<1>5. PosInv'
  BY <1>a, <1>b, <1>c, PipelineAssumption DEF IInv, PipelineType, PlaceInv, PosInv, OrderInv, Passed
<1> QED
  BY <1>1, <1>2, <1>3, <1>4, <1>5 DEF IInv

\* The last block is passed on; a producing worker drops its ends.
LEMMA ProdEndKeeps ==
  IInv /\ ProdEnd => IInv'
<1> SUFFICES ASSUME IInv, ProdEnd PROVE IInv'
  OBVIOUS
<1> USE DEF ProdEnd, Goto, Gone, Holding, DropEnds, Fail, Worker, Task, Arrives, Places, channels, progress
<1>1. PipelineType'
  <2>1. payload' \in Seq(Nat) /\ moved' \in Seq(Nat)
    BY NumberedEmpty DEF IInv, PipelineType
  <2>2. pc' \in [{"prod", "cons"} -> Places]
    BY DEF IInv, PipelineType
  <2>3. recycle' \in Nat /\ freed' \in Nat /\ sent' \in 0 .. BlocksPerSegment /\ hand' \in Nat /\ pos' \in Nat
    BY PipelineAssumption DEF IInv, PipelineType, PlaceInv
  <2> QED
    BY <2>1, <2>2, <2>3 DEF IInv, PipelineType
<1>2. PlaceInv'
  BY PipelineAssumption DEF IInv, PipelineType, PlaceInv, ChannelInv, PosInv
<1>3. ChannelInv'
  BY PipelineAssumption DEF IInv, PipelineType, PlaceInv, ChannelInv
<1>4. OrderInv'
  BY NumberedEmpty, PipelineAssumption
     DEF IInv, PipelineType, PlaceInv, ChannelInv, OrderInv, Passed
<1>5. PosInv'
  BY PipelineAssumption DEF IInv, PipelineType, PlaceInv, PosInv, OrderInv, Passed
<1> QED
  BY <1>1, <1>2, <1>3, <1>4, <1>5 DEF IInv

\* The first of the filled buffers.
LEMMA ConsTakeKeeps ==
  IInv /\ ConsTake => IInv'
<1> SUFFICES ASSUME IInv, ConsTake PROVE IInv'
  OBVIOUS
<1> USE DEF ConsTake, Goto, Gone, Holding, DropEnds, Fail, Worker, Task, Arrives, Places, channels, progress
<1>1. PipelineType'
  <2>1. payload' \in Seq(Nat) /\ moved' \in Seq(Nat)
    BY TailFacts, NumberedEmpty DEF IInv, PipelineType
  <2>2. pc' \in [{"prod", "cons"} -> Places]
    BY DEF IInv, PipelineType
  <2>3. recycle' \in Nat /\ freed' \in Nat /\ sent' \in 0 .. BlocksPerSegment /\ hand' \in Nat /\ pos' \in Nat
    BY TailFacts, PipelineAssumption DEF IInv, PipelineType, PlaceInv
  <2> QED
    BY <2>1, <2>2, <2>3 DEF IInv, PipelineType
<1>2. PlaceInv'
  BY TailFacts, PipelineAssumption DEF IInv, PipelineType, PlaceInv, ChannelInv, PosInv
<1>3. ChannelInv'
  BY TailFacts, PipelineAssumption DEF IInv, PipelineType, PlaceInv, ChannelInv
<1>4. OrderInv'
  <2>1. Len(payload) \in Nat \ {0} /\ Passed \in Nat /\ Passed' = Passed + 1
    BY TailFacts DEF IInv, PipelineType, OrderInv, Passed
  <2>2. payload \in Seq(Nat) /\ Numbered(payload, Passed) /\ Numbered(moved, 0) /\ Len(moved) = Passed
    BY DEF IInv, PipelineType, OrderInv
  <2>3. hand' = Passed /\ Numbered(payload', Passed')
    BY <2>1, <2>2, NumberedTail
  <2> QED
    BY <2>1, <2>2, <2>3 DEF IInv, PipelineType, OrderInv
<1>5. PosInv'
  BY TailFacts, PipelineAssumption DEF IInv, PipelineType, PlaceInv, PosInv, OrderInv, Passed
<1> QED
  BY <1>1, <1>2, <1>3, <1>4, <1>5 DEF IInv

\* The empty buffer goes back, to the channel or to the pool.
LEMMA ConsGiveKeeps ==
  IInv /\ ConsGive => IInv'
<1> SUFFICES ASSUME IInv, ConsGive PROVE IInv'
  OBVIOUS
<1> USE DEF ConsGive, Goto, Gone, Holding, DropEnds, Fail, Worker, Task, Arrives, Places, channels, progress
<1>1. PipelineType'
  <2>1. payload' \in Seq(Nat) /\ moved' \in Seq(Nat)
    BY NumberedEmpty DEF IInv, PipelineType
  <2>2. pc' \in [{"prod", "cons"} -> Places]
    BY DEF IInv, PipelineType
  <2>3. recycle' \in Nat /\ freed' \in Nat /\ sent' \in 0 .. BlocksPerSegment /\ hand' \in Nat /\ pos' \in Nat
    BY PipelineAssumption DEF IInv, PipelineType, PlaceInv
  <2> QED
    BY <2>1, <2>2, <2>3 DEF IInv, PipelineType
<1>2. PlaceInv'
  BY PipelineAssumption DEF IInv, PipelineType, PlaceInv, ChannelInv, PosInv
<1>3. ChannelInv'
  BY PipelineAssumption DEF IInv, PipelineType, PlaceInv, ChannelInv
<1>4. OrderInv'
  BY NumberedEmpty, PipelineAssumption
     DEF IInv, PipelineType, PlaceInv, ChannelInv, OrderInv, Passed
<1>5. PosInv'
  BY PipelineAssumption DEF IInv, PipelineType, PlaceInv, PosInv, OrderInv, Passed
<1> QED
  BY <1>1, <1>2, <1>3, <1>4, <1>5 DEF IInv

\* The channel is closed and empty; a consuming worker checks the length.
LEMMA ConsEndKeeps ==
  IInv /\ ConsEnd => IInv'
<1> SUFFICES ASSUME IInv, ConsEnd PROVE IInv'
  OBVIOUS
<1> USE DEF ConsEnd, Goto, Gone, Holding, DropEnds, Fail, Worker, Task, Arrives, Places, channels, progress
<1>1. PipelineType'
  <2>1. payload' \in Seq(Nat) /\ moved' \in Seq(Nat)
    BY NumberedEmpty DEF IInv, PipelineType
  <2>2. pc' \in [{"prod", "cons"} -> Places]
    BY DEF IInv, PipelineType
  <2>3. recycle' \in Nat /\ freed' \in Nat /\ sent' \in 0 .. BlocksPerSegment /\ hand' \in Nat /\ pos' \in Nat
    BY PipelineAssumption DEF IInv, PipelineType, PlaceInv
  <2> QED
    BY <2>1, <2>2, <2>3 DEF IInv, PipelineType
<1>2. PlaceInv'
  BY PipelineAssumption DEF IInv, PipelineType, PlaceInv, ChannelInv, PosInv
<1>3. ChannelInv'
  BY PipelineAssumption DEF IInv, PipelineType, PlaceInv, ChannelInv
<1>4. OrderInv'
  BY NumberedEmpty, PipelineAssumption
     DEF IInv, PipelineType, PlaceInv, ChannelInv, OrderInv, Passed
<1>5. PosInv'
  BY PipelineAssumption DEF IInv, PipelineType, PlaceInv, PosInv, OrderInv, Passed
<1> QED
  BY <1>1, <1>2, <1>3, <1>4, <1>5 DEF IInv

\* One block of file I/O.
LEMMA FileBlockKeeps ==
  IInv /\ FileBlock => IInv'
<1> SUFFICES ASSUME IInv, FileBlock PROVE IInv'
  OBVIOUS
<1> USE DEF FileBlock, Goto, Gone, Holding, DropEnds, Fail, Worker, Task, Arrives, Places, channels, progress
<1>a. moved' = moved \/ (pc["cons"] = "io" /\ moved' = Append(moved, hand))
  OBVIOUS
<1>b. moved' \in Seq(Nat) /\ Numbered(moved', 0)
  BY <1>a, ArrivalKeepsOrder DEF IInv, PipelineType, OrderInv
<1>1. PipelineType'
  <2>1. payload' \in Seq(Nat) /\ moved' \in Seq(Nat)
    BY <1>b, NumberedEmpty DEF IInv, PipelineType
  <2>2. pc' \in [{"prod", "cons"} -> Places]
    BY DEF IInv, PipelineType
  <2>3. recycle' \in Nat /\ freed' \in Nat /\ sent' \in 0 .. BlocksPerSegment /\ hand' \in Nat /\ pos' \in Nat
    BY PipelineAssumption DEF IInv, PipelineType, PlaceInv
  <2> QED
    BY <2>1, <2>2, <2>3 DEF IInv, PipelineType
<1>2. PlaceInv'
  BY <1>b, PipelineAssumption DEF IInv, PipelineType, PlaceInv, ChannelInv, PosInv
<1>3. ChannelInv'
  BY <1>b, PipelineAssumption DEF IInv, PipelineType, PlaceInv, ChannelInv
<1>4. OrderInv'
  BY <1>a, <1>b, ArrivalKeepsOrder, NumberedEmpty, PipelineAssumption
     DEF IInv, PipelineType, PlaceInv, ChannelInv, OrderInv, Passed
<1>5. PosInv'
  BY <1>a, <1>b, ArrivalKeepsOrder, PipelineAssumption
     DEF IInv, PipelineType, PlaceInv, PosInv, OrderInv, Passed
<1> QED
  BY <1>1, <1>2, <1>3, <1>4, <1>5 DEF IInv

\* The worker fails, before or after its block arrived.
LEMMA FileFailsKeeps ==
  IInv /\ FileFails => IInv'
<1> SUFFICES ASSUME IInv, FileFails PROVE IInv'
  OBVIOUS
<1> USE DEF FileFails, Goto, Gone, Holding, DropEnds, Fail, Worker, Task, Arrives, Places, channels, progress
<1>a. moved' = moved \/ (pc["cons"] = "io" /\ moved' = Append(moved, hand))
  OBVIOUS
<1>b. moved' \in Seq(Nat) /\ Numbered(moved', 0)
  BY <1>a, ArrivalKeepsOrder DEF IInv, PipelineType, OrderInv
<1>1. PipelineType'
  <2>1. payload' \in Seq(Nat) /\ moved' \in Seq(Nat)
    BY <1>b, NumberedEmpty DEF IInv, PipelineType
  <2>2. pc' \in [{"prod", "cons"} -> Places]
    BY DEF IInv, PipelineType
  <2>3. recycle' \in Nat /\ freed' \in Nat /\ sent' \in 0 .. BlocksPerSegment /\ hand' \in Nat /\ pos' \in Nat
    BY PipelineAssumption DEF IInv, PipelineType, PlaceInv
  <2> QED
    BY <2>1, <2>2, <2>3 DEF IInv, PipelineType
<1>2. PlaceInv'
  BY <1>b, PipelineAssumption DEF IInv, PipelineType, PlaceInv, ChannelInv, PosInv
<1>3. ChannelInv'
  BY <1>b, PipelineAssumption DEF IInv, PipelineType, PlaceInv, ChannelInv
<1>4. OrderInv'
  BY <1>a, <1>b, ArrivalKeepsOrder, NumberedEmpty, PipelineAssumption
     DEF IInv, PipelineType, PlaceInv, ChannelInv, OrderInv, Passed
<1>5. PosInv'
  BY <1>a, <1>b, ArrivalKeepsOrder, PipelineAssumption
     DEF IInv, PipelineType, PlaceInv, PosInv, OrderInv, Passed
<1> QED
  BY <1>1, <1>2, <1>3, <1>4, <1>5 DEF IInv

\* One block of the peer.
LEMMA NetworkBlockKeeps ==
  IInv /\ NetworkBlock => IInv'
<1> SUFFICES ASSUME IInv, NetworkBlock PROVE IInv'
  OBVIOUS
<1> USE DEF NetworkBlock, Goto, Gone, Holding, DropEnds, Fail, Worker, Task, Arrives, Places, channels, progress
<1>a. moved' = moved \/ (pc["cons"] = "io" /\ moved' = Append(moved, hand))
  OBVIOUS
<1>b. moved' \in Seq(Nat) /\ Numbered(moved', 0)
  BY <1>a, ArrivalKeepsOrder DEF IInv, PipelineType, OrderInv
<1>1. PipelineType'
  <2>1. payload' \in Seq(Nat) /\ moved' \in Seq(Nat)
    BY <1>b, NumberedEmpty DEF IInv, PipelineType
  <2>2. pc' \in [{"prod", "cons"} -> Places]
    BY DEF IInv, PipelineType
  <2>3. recycle' \in Nat /\ freed' \in Nat /\ sent' \in 0 .. BlocksPerSegment /\ hand' \in Nat /\ pos' \in Nat
    BY PipelineAssumption DEF IInv, PipelineType, PlaceInv
  <2> QED
    BY <2>1, <2>2, <2>3 DEF IInv, PipelineType
<1>2. PlaceInv'
  BY <1>b, PipelineAssumption DEF IInv, PipelineType, PlaceInv, ChannelInv, PosInv
<1>3. ChannelInv'
  BY <1>b, PipelineAssumption DEF IInv, PipelineType, PlaceInv, ChannelInv
<1>4. OrderInv'
  BY <1>a, <1>b, ArrivalKeepsOrder, NumberedEmpty, PipelineAssumption
     DEF IInv, PipelineType, PlaceInv, ChannelInv, OrderInv, Passed
<1>5. PosInv'
  BY <1>a, <1>b, ArrivalKeepsOrder, PipelineAssumption
     DEF IInv, PipelineType, PlaceInv, PosInv, OrderInv, Passed
<1> QED
  BY <1>1, <1>2, <1>3, <1>4, <1>5 DEF IInv

\* The task loses its peer.
LEMMA NetworkFailsKeeps ==
  IInv /\ NetworkFails => IInv'
<1> SUFFICES ASSUME IInv, NetworkFails PROVE IInv'
  OBVIOUS
<1> USE DEF NetworkFails, Goto, Gone, Holding, DropEnds, Fail, Worker, Task, Arrives, Places, channels, progress
<1>1. PipelineType'
  <2>1. payload' \in Seq(Nat) /\ moved' \in Seq(Nat)
    BY NumberedEmpty DEF IInv, PipelineType
  <2>2. pc' \in [{"prod", "cons"} -> Places]
    BY DEF IInv, PipelineType
  <2>3. recycle' \in Nat /\ freed' \in Nat /\ sent' \in 0 .. BlocksPerSegment /\ hand' \in Nat /\ pos' \in Nat
    BY PipelineAssumption DEF IInv, PipelineType, PlaceInv
  <2> QED
    BY <2>1, <2>2, <2>3 DEF IInv, PipelineType
<1>2. PlaceInv'
  BY PipelineAssumption DEF IInv, PipelineType, PlaceInv, ChannelInv, PosInv
<1>3. ChannelInv'
  BY PipelineAssumption DEF IInv, PipelineType, PlaceInv, ChannelInv
<1>4. OrderInv'
  BY NumberedEmpty, PipelineAssumption
     DEF IInv, PipelineType, PlaceInv, ChannelInv, OrderInv, Passed
<1>5. PosInv'
  BY PipelineAssumption DEF IInv, PipelineType, PlaceInv, PosInv, OrderInv, Passed
<1> QED
  BY <1>1, <1>2, <1>3, <1>4, <1>5 DEF IInv

\* The task is aborted wherever it waits.
LEMMA TaskAbortedKeeps ==
  IInv /\ TaskAborted => IInv'
<1> SUFFICES ASSUME IInv, TaskAborted PROVE IInv'
  OBVIOUS
<1> USE DEF TaskAborted, Goto, Gone, Holding, DropEnds, Fail, Worker, Task, Arrives, Places, channels, progress
<1>1. PipelineType'
  <2>1. payload' \in Seq(Nat) /\ moved' \in Seq(Nat)
    BY NumberedEmpty DEF IInv, PipelineType
  <2>2. pc' \in [{"prod", "cons"} -> Places]
    BY DEF IInv, PipelineType
  <2>3. recycle' \in Nat /\ freed' \in Nat /\ sent' \in 0 .. BlocksPerSegment /\ hand' \in Nat /\ pos' \in Nat
    BY PipelineAssumption DEF IInv, PipelineType, PlaceInv
  <2> QED
    BY <2>1, <2>2, <2>3 DEF IInv, PipelineType
<1>2. PlaceInv'
  BY PipelineAssumption DEF IInv, PipelineType, PlaceInv, ChannelInv, PosInv
<1>3. ChannelInv'
  BY PipelineAssumption DEF IInv, PipelineType, PlaceInv, ChannelInv
<1>4. OrderInv'
  BY NumberedEmpty, PipelineAssumption
     DEF IInv, PipelineType, PlaceInv, ChannelInv, OrderInv, Passed
<1>5. PosInv'
  BY PipelineAssumption DEF IInv, PipelineType, PlaceInv, PosInv, OrderInv, Passed
<1> QED
  BY <1>1, <1>2, <1>3, <1>4, <1>5 DEF IInv

\* The task has the result of its worker.
LEMMA JoinKeeps ==
  IInv /\ Join => IInv'
<1> SUFFICES ASSUME IInv, Join PROVE IInv'
  OBVIOUS
<1> USE DEF Join, Goto, Gone, Holding, DropEnds, Fail, Worker, Task, Arrives, Places, channels, progress
<1>1. PipelineType'
  <2>1. payload' \in Seq(Nat) /\ moved' \in Seq(Nat)
    BY NumberedEmpty DEF IInv, PipelineType
  <2>2. pc' \in [{"prod", "cons"} -> Places]
    BY DEF IInv, PipelineType
  <2>3. recycle' \in Nat /\ freed' \in Nat /\ sent' \in 0 .. BlocksPerSegment /\ hand' \in Nat /\ pos' \in Nat
    BY PipelineAssumption DEF IInv, PipelineType, PlaceInv
  <2> QED
    BY <2>1, <2>2, <2>3 DEF IInv, PipelineType
<1>2. PlaceInv'
  BY PipelineAssumption DEF IInv, PipelineType, PlaceInv, ChannelInv, PosInv
<1>3. ChannelInv'
  BY PipelineAssumption DEF IInv, PipelineType, PlaceInv, ChannelInv
<1>4. OrderInv'
  BY NumberedEmpty, PipelineAssumption
     DEF IInv, PipelineType, PlaceInv, ChannelInv, OrderInv, Passed
<1>5. PosInv'
  BY PipelineAssumption DEF IInv, PipelineType, PlaceInv, PosInv, OrderInv, Passed
<1> QED
  BY <1>1, <1>2, <1>3, <1>4, <1>5 DEF IInv

\* The transfer is cancelled; the pipeline learns of it later.
LEMMA CancelKeeps ==
  IInv /\ Cancel => IInv'
<1> SUFFICES ASSUME IInv, Cancel PROVE IInv'
  OBVIOUS
<1> USE DEF Cancel, Goto, Gone, Holding, DropEnds, Fail, Worker, Task, Arrives, Places, channels, progress
<1>1. PipelineType'
  <2>1. payload' \in Seq(Nat) /\ moved' \in Seq(Nat)
    BY NumberedEmpty DEF IInv, PipelineType
  <2>2. pc' \in [{"prod", "cons"} -> Places]
    BY DEF IInv, PipelineType
  <2>3. recycle' \in Nat /\ freed' \in Nat /\ sent' \in 0 .. BlocksPerSegment /\ hand' \in Nat /\ pos' \in Nat
    BY PipelineAssumption DEF IInv, PipelineType, PlaceInv
  <2> QED
    BY <2>1, <2>2, <2>3 DEF IInv, PipelineType
<1>2. PlaceInv'
  BY PipelineAssumption DEF IInv, PipelineType, PlaceInv, ChannelInv, PosInv
<1>3. ChannelInv'
  BY PipelineAssumption DEF IInv, PipelineType, PlaceInv, ChannelInv
<1>4. OrderInv'
  BY NumberedEmpty, PipelineAssumption
     DEF IInv, PipelineType, PlaceInv, ChannelInv, OrderInv, Passed
<1>5. PosInv'
  BY PipelineAssumption DEF IInv, PipelineType, PlaceInv, PosInv, OrderInv, Passed
<1> QED
  BY <1>1, <1>2, <1>3, <1>4, <1>5 DEF IInv

\* The initial state satisfies the invariant.
LEMMA InitSound ==
  Init => IInv
<1> SUFFICES ASSUME Init PROVE IInv
  OBVIOUS
<1> USE PipelineAssumption, NumberedEmpty DEF Init
<1>1. PipelineType
  <2>1. depth \in {1, 2} /\ depth \in Depths /\ sent \in 0 .. BlocksPerSegment
    BY PipelineAssumption
  <2>2. payload \in Seq(Nat) /\ moved \in Seq(Nat) /\ recycle \in Nat
    BY <2>1, NumberedEmpty
  <2>3. pc \in [{"prod", "cons"} -> Places]
    BY DEF Places
  <2> QED
    BY <2>1, <2>2, <2>3 DEF PipelineType
<1>2. PlaceInv
  BY DEF PlaceInv, Worker, Task
<1>3. ChannelInv
  <2>1. Len(payload) = 0 /\ Holding("prod") = 0 /\ Holding("cons") = 0 /\ depth \in Nat
    BY <1>1, NumberedEmpty DEF Holding, PipelineType
  <2>2. ~Gone("prod") /\ ~Gone("cons")
    BY DEF Gone
  <2> QED
    BY <2>1, <2>2 DEF ChannelInv
<1>4. OrderInv
  <2>1. Len(payload) = 0 /\ Len(moved) = 0 /\ sent = 0
    BY NumberedEmpty
  <2>2. Numbered(moved, 0) /\ Numbered(payload, Passed)
    BY NumberedEmpty
  <2>3. Passed = 0
    <3> HIDE DEF Init
    <3> QED
      BY <2>1 DEF Passed
  <2> QED
    BY <2>1, <2>2, <2>3 DEF OrderInv
<1>5. PosInv
  BY DEF PosInv, Worker
<1> QED
  BY <1>1, <1>2, <1>3, <1>4, <1>5 DEF IInv

\* No step changes nothing but the invariant.
LEMMA PipelineStutters ==
  IInv /\ UNCHANGED vars => IInv'
BY DEF IInv, vars, channels, progress, PipelineType, PlaceInv, ChannelInv, OrderInv, PosInv, Passed,
       Numbered, Gone, Holding, Worker, Task

\* Every step keeps the invariant.
LEMMA NextKeeps ==
  IInv /\ [Next]_vars => IInv'
<1> SUFFICES ASSUME IInv, [Next]_vars PROVE IInv'
  OBVIOUS
<1>1. CASE ProdStep
  BY <1>1, ProdTakeKeeps, ProdGiveKeeps, ProdEndKeeps DEF ProdStep
<1>2. CASE ConsStep
  BY <1>2, ConsTakeKeeps, ConsGiveKeeps, ConsEndKeeps DEF ConsStep
<1>3. CASE FileBlock \/ FileFails
  BY <1>3, FileBlockKeeps, FileFailsKeeps
<1>4. CASE NetworkBlock \/ NetworkFails \/ TaskAborted
  BY <1>4, NetworkBlockKeeps, NetworkFailsKeeps, TaskAbortedKeeps
<1>5. CASE Join \/ Cancel
  BY <1>5, JoinKeeps, CancelKeeps
<1>6. CASE Ended \/ UNCHANGED vars
  BY <1>6, PipelineStutters DEF Ended
<1> QED
  BY <1>1, <1>2, <1>3, <1>4, <1>5, <1>6 DEF Next

-----------------------------------------------------------------------------
(* The theorems about the pipeline *)

\* IInv holds in every reachable state of the pipeline (file_transfer: one
\* segment or extent between the file and the network).
THEOREM PipelineSound ==
  Spec => []IInv
<1>1. QED
  BY InitSound, NextKeeps, PTL DEF Spec

\* A lease that comes back to be committed stands for a whole segment: its worker has
\* ended and every block arrived, once and in the order of the file.
THEOREM CommittedLeaseIsWhole ==
  Spec => []CommittedIsWhole
<1>1. ASSUME IInv, pc[Task] = "done"
      PROVE  /\ pc[Worker] = "end"
             /\ moved = [i \in 1 .. BlocksPerSegment |-> i - 1] /\ pos = BlocksPerSegment
  <2>1. pc[Worker] = "end" /\ pos = BlocksPerSegment
    BY <1>1 DEF IInv, PlaceInv
  <2>2. sent = BlocksPerSegment /\ pc["cons"] \notin {"failed", "io"} /\ payload = <<>>
    BY <1>1, <2>1 DEF IInv, PipelineType, PlaceInv, ChannelInv, Gone, Worker, Task
  <2>3. Len(moved) = BlocksPerSegment /\ Numbered(moved, 0) /\ moved \in Seq(Nat)
    BY <1>1, <2>2, NumberedEmpty, PipelineAssumption DEF IInv, PipelineType, OrderInv, Passed
  <2>4. \A i \in 1 .. BlocksPerSegment : moved[i] = i - 1
    BY <2>3 DEF Numbered
  <2> QED
    BY <2>1, <2>3, <2>4
<1>2. IInv => CommittedIsWhole
  BY <1>1 DEF CommittedIsWhole
<1> QED
  BY <1>2, PipelineSound, PTL

\* No buffer is lost on any path, all are back in the pool at the end, and the worker
\* always finds room for the buffer it has filled.
THEOREM NoBufferIsLost ==
  Spec => []BuffersAccounted
<1>1. ASSUME IInv PROVE BuffersAccounted
  <2>1. /\ Len(payload) \in Nat /\ recycle \in Nat /\ freed \in Nat
        /\ Len(payload) + recycle + Holding("prod") + Holding("cons") + freed = depth
    BY <1>1 DEF IInv, PipelineType, ChannelInv
  <2>2. TaskEnded /\ WorkerEnded => freed = depth
    BY <1>1, <2>1, NumberedEmpty
       DEF IInv, PipelineType, ChannelInv, TaskEnded, WorkerEnded, Gone, Holding, Worker, Task
  <2>3. pc["prod"] = "give" => Len(payload) < depth
    BY <1>1, <2>1 DEF IInv, PipelineType, Holding
  <2> QED
    BY <2>1, <2>2, <2>3 DEF BuffersAccounted
<1> QED
  BY <1>1, PipelineSound, PTL

-----------------------------------------------------------------------------
(* The pipeline implements the life of a lease *)

\* The state of the lease is read off the places of the two processes.
LEMMA IoStateFrame ==
  UNCHANGED <<dir, pc>> => UNCHANGED IoState
BY DEF IoState, TaskEnded, WorkerEnded, Worker, Task

\* A block moves a lease that has a worker, one block further within the segment.
LEMMA FileBlockImplements ==
  IInv /\ FileBlock => Lease!StreamBlock
<1> SUFFICES ASSUME IInv, FileBlock PROVE Lease!StreamBlock
  OBVIOUS
<1>1. pc[Worker] = "io" /\ ~cancelled /\ pos' = pos + 1 /\ UNCHANGED <<dir, cancelled>>
  BY DEF FileBlock
<1>2. pc'[Worker] = "give" /\ pc'[Task] = pc[Task] /\ pc[Task] # "done" /\ Worker' = Worker /\ Task' = Task
  BY DEF FileBlock, Goto, IInv, PipelineType, PlaceInv, Worker, Task
<1>3. IoState \in {"streaming", "orphan"} /\ IoState' = IoState
  BY <1>1, <1>2 DEF IoState, TaskEnded, WorkerEnded
<1>4. pos < BlocksPerSegment
  BY <1>1, PipelineAssumption DEF IInv, PipelineType, PlaceInv, OrderInv, PosInv, Passed, Worker
<1> QED
  BY <1>1, <1>3, <1>4 DEF Lease!StreamBlock

\* What the end or the failure of the worker, and the failure of the task, mean for the
\* lease.
LEMMA WorkerEndsLease ==
  ASSUME IInv, IInv', UNCHANGED <<dir, pos, cancelled>>, ~WorkerEnded, pc'[Task] = pc[Task],
         pc'[Worker] \in {"end", "failed"}
  PROVE  Lease!WorkerReturns \/ Lease!WorkerFails \/ Lease!OrphanEnds
<1>1. Worker' = Worker /\ Task' = Task
  BY DEF Worker, Task
<1>2. CASE pc[Task] = "failed"
  BY <1>1, <1>2 DEF IoState, TaskEnded, WorkerEnded, Lease!OrphanEnds
<1>3. CASE pc[Task] # "failed" /\ pc'[Worker] = "end"
  BY <1>1, <1>3 DEF IoState, TaskEnded, WorkerEnded, Lease!WorkerReturns, IInv, PlaceInv
<1>4. CASE pc[Task] # "failed" /\ pc'[Worker] = "failed"
  BY <1>1, <1>4 DEF IoState, TaskEnded, WorkerEnded, Lease!WorkerFails, IInv, PlaceInv
<1> QED
  BY <1>2, <1>3, <1>4

\* Nobody waits for the lease any more.
LEMMA TaskFailsLease ==
  ASSUME IInv, UNCHANGED <<dir, pos, cancelled>>, ~TaskEnded, pc'[Worker] = pc[Worker],
         pc'[Task] = "failed"
  PROVE  Lease!Abandoned \/ UNCHANGED <<IoState, pos, cancelled>>
<1>1. Worker' = Worker /\ Task' = Task
  BY DEF Worker, Task
<1> QED
  BY <1>1 DEF IoState, TaskEnded, WorkerEnded, Lease!Abandoned

\* Steps of the task and of the worker that do not end them are invisible.
LEMMA InvisibleStep ==
  ASSUME UNCHANGED <<dir, pos, cancelled>>, TaskEnded' = TaskEnded, WorkerEnded' = WorkerEnded,
         TaskEnded \/ WorkerEnded => pc'[Task] = pc[Task] /\ pc'[Worker] = pc[Worker]
  PROVE  UNCHANGED <<IoState, pos, cancelled>>
BY DEF IoState, TaskEnded, WorkerEnded, Worker, Task

\* A step of the pipeline is a step of the lease, or none.
LEMMA StepImplements ==
  IInv /\ IInv' /\ [Next]_vars => [Lease!Next]_(Lease!leaseVars)
<1> SUFFICES ASSUME IInv, IInv', [Next]_vars
             PROVE  Lease!Next \/ UNCHANGED <<IoState, pos, cancelled>>
  BY DEF Lease!leaseVars
<1>ends. ASSUME UNCHANGED <<dir, pos, cancelled>>, ~WorkerEnded, pc'[Task] = pc[Task],
                pc'[Worker] \in {"end", "failed"}
         PROVE  Lease!Next
  BY <1>ends, WorkerEndsLease DEF Lease!Next
<1>leaves. ASSUME UNCHANGED <<dir, pos, cancelled>>, ~TaskEnded, pc'[Worker] = pc[Worker],
                  pc'[Task] = "failed"
           PROVE  Lease!Next \/ UNCHANGED <<IoState, pos, cancelled>>
  BY <1>leaves, TaskFailsLease DEF Lease!Next
<1>roles. /\ dir \in {"send", "receive"} /\ {Worker, Task} = {"prod", "cons"} /\ Worker # Task
          /\ pc \in [{"prod", "cons"} -> Places]
  BY DEF IInv, PipelineType, Worker, Task
<1>1. CASE FileBlock
  BY <1>1, FileBlockImplements DEF Lease!Next
<1>2. CASE FileFails
  <2>1. UNCHANGED <<dir, pos, cancelled>> /\ ~WorkerEnded /\ pc'[Task] = pc[Task] /\ pc'[Worker] = "failed"
    BY <1>2, <1>roles DEF FileFails, Fail, Goto, WorkerEnded
  <2> QED
    BY <2>1, <1>ends
<1>3. CASE NetworkBlock
  <2>1. /\ UNCHANGED <<dir, pos, cancelled>> /\ pc[Task] = "io" /\ pc'[Task] = "give"
        /\ pc'[Worker] = pc[Worker]
    BY <1>3, <1>roles DEF NetworkBlock, Goto
  <2> QED
    BY <2>1 DEF IoState, TaskEnded, WorkerEnded, Worker, Task
<1>4. CASE NetworkFails \/ TaskAborted
  <2>1. UNCHANGED <<dir, pos, cancelled>> /\ ~TaskEnded /\ pc'[Worker] = pc[Worker] /\ pc'[Task] = "failed"
    BY <1>4, <1>roles DEF NetworkFails, TaskAborted, Fail, Goto, TaskEnded, progress
  <2> QED
    BY <2>1, <1>leaves
<1>5. CASE Join
  <2>1. /\ UNCHANGED <<dir, pos, cancelled>> /\ ~TaskEnded /\ WorkerEnded /\ pc'[Worker] = pc[Worker]
        /\ pc'[Task] = IF pc[Worker] = "end" THEN "done" ELSE "failed"
    BY <1>5, <1>roles DEF Join, Fail, Goto, TaskEnded, WorkerEnded, progress
  <2> QED
    BY <2>1 DEF IoState, TaskEnded, WorkerEnded, Worker, Task
<1>6. CASE ProdTake \/ ProdGive \/ ProdEnd
  <2>1. /\ UNCHANGED <<dir, pos, cancelled>> /\ pc["prod"] \in {"take", "give"}
        /\ pc'["cons"] = pc["cons"] /\ pc'["prod"] \in {"io", "take", "end", "failed"}
    BY <1>6, <1>roles DEF ProdTake, ProdGive, ProdEnd, Fail, Goto, progress
  <2> QED
    BY <2>1, <1>roles, <1>ends, <1>leaves DEF IoState, TaskEnded, WorkerEnded, Worker, Task
<1>7. CASE ConsTake \/ ConsGive \/ ConsEnd
  <2>1. /\ UNCHANGED <<dir, pos, cancelled>> /\ pc["cons"] \in {"take", "give"}
        /\ pc'["prod"] = pc["prod"] /\ pc'["cons"] \in {"io", "take", "end", "failed"}
    BY <1>7, <1>roles DEF ConsTake, ConsGive, ConsEnd, Fail, Goto, progress
  <2> QED
    BY <2>1, <1>roles, <1>ends, <1>leaves DEF IoState, TaskEnded, WorkerEnded, Worker, Task
<1>8. CASE Cancel
  BY <1>8, IoStateFrame DEF Cancel, progress, Lease!Next, Lease!Cancel
<1>9. CASE Ended \/ UNCHANGED vars
  BY <1>9, IoStateFrame DEF Ended, vars, progress
<1> QED
  BY <1>1, <1>2, <1>3, <1>4, <1>5, <1>6, <1>7, <1>8, <1>9 DEF Next, ProdStep, ConsStep

\* The pipeline implements the life of a lease as NativeTransfer has it: the file moves
\* block by block while there is a worker, a lease comes back only after the last block,
\* and one that nobody waits for is given up.
THEOREM PipelineImplementsLease ==
  Spec => LeaseLife
<1>1. Init => Lease!Init
  BY PipelineAssumption DEF Init, Lease!Init, IoState, TaskEnded, WorkerEnded, Worker, Task
<1> QED
  BY <1>1, StepImplements, PipelineSound, PTL DEF Spec, LeaseLife, Lease!Spec

-----------------------------------------------------------------------------
(***************************************************************************)
(* The buffer pool.  PoolInv counts the buffers in use as the users with   *)
(* at least one and the users with at least two, and says who may have any *)
(* at all: over LNA, those with a permit and those whose worker survived   *)
(* its request, which together are never more than the permits.            *)
(***************************************************************************)

\* Users that hold n buffers or more, and buffers in use when nobody holds more than two.
AtLeast(h, n) == {u \in Users : h[u] >= n}
InUse(h) == Cardinality(AtLeast(h, 1)) + Cardinality(AtLeast(h, 2))

\* Users of an LNA transfer that may hold buffers.
Entitled == {u \in Users : HasPermit(u) \/ worker[u]}

PoolType ==
  /\ plane \in {"lna", "wt"} /\ open \in BOOLEAN
  /\ phase \in [Users -> {"idle", "begun", "running", "failing", "failed", "gone"}]
  /\ worker \in [Users -> BOOLEAN]
  /\ held \in [Users -> 0 .. 2]
  /\ allocated \in Nat /\ available \in Nat

\* What the phase of a user says of its worker and its buffers. A worker survives its
\* LNA request only while the request has its permit, or when the transfer is closed.
UserInv ==
  \A u \in Users :
    /\ held[u] <= Need
    /\ held[u] > 0 => phase[u] = "begun" \/ worker[u]
    /\ phase[u] = "begun" => ~worker[u]
    /\ phase[u] = "failed" => ~open
    /\ phase[u] = "gone" => plane = "wt"
    /\ open /\ worker[u] /\ plane = "lna" => HasPermit(u)

PermitInv == plane = "lna" => Cardinality(Entitled) <= Permits
CountInv  == allocated = available + InUse(held)

PoolInv == PoolType /\ UserInv /\ PermitInv /\ CountInv

\* The sets of users that are counted are finite.
LEMMA UsersFinite ==
  ASSUME NEW S \in SUBSET Users
  PROVE  IsFiniteSet(S) /\ Cardinality(S) \in Nat /\ Cardinality(S) <= Cardinality(Users)
BY BufferAssumption, FS_Subset, FS_CardinalityType

\* When one user's number of buffers changes, so does its place among those that hold k.
LEMMA OneUserCounts ==
  ASSUME NEW h \in [Users -> 0 .. 2], NEW u \in Users, NEW n \in 0 .. 2, NEW k \in {1, 2}
  PROVE  Cardinality(AtLeast([h EXCEPT ![u] = n], k)) =
           Cardinality(AtLeast(h, k)) + (IF n >= k THEN 1 ELSE 0) - (IF h[u] >= k THEN 1 ELSE 0)
<1> DEFINE A == AtLeast(h, k)
<1> DEFINE B == AtLeast([h EXCEPT ![u] = n], k)
<1>1. IsFiniteSet(A) /\ Cardinality(A) \in Nat
  BY UsersFinite DEF AtLeast
<1>2. B = IF n >= k THEN A \cup {u} ELSE A \ {u}
  BY DEF AtLeast
<1>3. u \in A <=> h[u] >= k
  BY DEF AtLeast
<1> HIDE DEF A, B
<1>4. n >= k => Cardinality(B) = Cardinality(A) + (IF h[u] >= k THEN 0 ELSE 1)
  BY <1>1, <1>2, <1>3, FS_AddElement
<1>5. ~(n >= k) => Cardinality(B) = Cardinality(A) - (IF h[u] >= k THEN 1 ELSE 0)
  <2>1. Cardinality(A \ {u}) = IF u \in A THEN Cardinality(A) - 1 ELSE Cardinality(A)
    BY <1>1, FS_RemoveElement
  <2> QED
    BY <1>1, <1>2, <1>3, <2>1
<1>6. Cardinality(B) = Cardinality(A) + (IF n >= k THEN 1 ELSE 0) - (IF h[u] >= k THEN 1 ELSE 0)
  BY <1>1, <1>4, <1>5
<1> QED
  BY <1>6 DEF A, B

\* The buffers in use change by what the one user takes or gives back.
LEMMA InUseChanges ==
  ASSUME NEW h \in [Users -> 0 .. 2], NEW u \in Users, NEW n \in 0 .. 2
  PROVE  InUse(h) \in Nat /\ InUse([h EXCEPT ![u] = n]) = InUse(h) + n - h[u]
<1>1. \A k \in {1, 2} : Cardinality(AtLeast(h, k)) \in Nat
  BY UsersFinite DEF AtLeast
<1>2. Cardinality(AtLeast([h EXCEPT ![u] = n], 1)) =
        Cardinality(AtLeast(h, 1)) + (IF n >= 1 THEN 1 ELSE 0) - (IF h[u] >= 1 THEN 1 ELSE 0)
  BY OneUserCounts
<1>3. Cardinality(AtLeast([h EXCEPT ![u] = n], 2)) =
        Cardinality(AtLeast(h, 2)) + (IF n >= 2 THEN 1 ELSE 0) - (IF h[u] >= 2 THEN 1 ELSE 0)
  BY OneUserCounts
<1>4. h[u] \in 0 .. 2
  OBVIOUS
<1> QED
  BY <1>1, <1>2, <1>3, <1>4 DEF InUse

\* Nobody holds a buffer at first.
LEMMA NothingInUse ==
  InUse([u \in Users |-> 0]) = 0
<1>1. AtLeast([u \in Users |-> 0], 1) = {} /\ AtLeast([u \in Users |-> 0], 2) = {}
  BY DEF AtLeast
<1> QED
  BY <1>1, FS_EmptySet DEF InUse

\* Whoever needs a buffer is not counted among those that have all theirs.
LEMMA PoolIsLargeEnough ==
  PoolInv => NeverExhausted
<1> SUFFICES ASSUME PoolInv, NEW u \in Users, phase[u] = "begun", held[u] < Need
             PROVE  available > 0 \/ allocated < Capacity
  BY DEF NeverExhausted
<1>1. /\ Cardinality(AtLeast(held, 1)) \in Nat /\ Cardinality(AtLeast(held, 2)) \in Nat
      /\ allocated = available + Cardinality(AtLeast(held, 1)) + Cardinality(AtLeast(held, 2))
      /\ allocated \in Nat /\ available \in Nat /\ Permits \in Nat /\ Cardinality(Users) \in Nat
  BY UsersFinite, BufferAssumption, FS_CardinalityType
     DEF PoolInv, PoolType, CountInv, InUse, AtLeast
<1>2. CASE plane = "lna"
  <2>1. AtLeast(held, 1) \subseteq Entitled /\ AtLeast(held, 2) \subseteq Entitled \ {u} /\ u \in Entitled
    BY <1>2 DEF PoolInv, PoolType, UserInv, AtLeast, Entitled, HasPermit, Need
  <2>2. IsFiniteSet(Entitled) /\ Cardinality(Entitled) \in Nat
    BY UsersFinite DEF Entitled
  <2>3. IsFiniteSet(Entitled \ {u}) /\ Cardinality(Entitled \ {u}) = Cardinality(Entitled) - 1
    BY <2>1, <2>2, FS_RemoveElement
  <2>4. Cardinality(AtLeast(held, 1)) <= Cardinality(Entitled)
    BY <2>1, <2>2, FS_Subset
  <2>5. Cardinality(AtLeast(held, 2)) <= Cardinality(Entitled \ {u})
    BY <2>1, <2>3, FS_Subset
  <2>6. Cardinality(Entitled) <= Permits
    BY <1>2 DEF PoolInv, PermitInv
  <2>7. Capacity = 2 * Permits
    BY <1>2 DEF Capacity
  <2> QED
    BY <1>1, <2>2, <2>3, <2>4, <2>5, <2>6, <2>7
<1>3. CASE plane = "wt"
  <2>1. AtLeast(held, 1) \subseteq Users \ {u} /\ AtLeast(held, 2) = {}
    BY <1>3 DEF PoolInv, PoolType, UserInv, AtLeast, Need
  <2>2. IsFiniteSet(Users \ {u}) /\ Cardinality(Users \ {u}) = Cardinality(Users) - 1
    BY BufferAssumption, FS_RemoveElement
  <2>3. Cardinality(AtLeast(held, 1)) <= Cardinality(Users) - 1 /\ Cardinality(AtLeast(held, 2)) = 0
    BY <2>1, <2>2, FS_Subset, FS_EmptySet
  <2>4. Capacity = Cardinality(Users)
    BY <1>3 DEF Capacity
  <2> QED
    BY <1>1, <2>3, <2>4
<1> QED
  BY <1>2, <1>3 DEF PoolInv, PoolType

-----------------------------------------------------------------------------
(* Every step of the users keeps the pool in order *)

\* At first nobody holds a buffer.
LEMMA PoolInitSound ==
  PoolInit => PoolInv
<1> SUFFICES ASSUME PoolInit PROVE PoolInv
  OBVIOUS
<1>1. PoolType /\ UserInv
  BY BufferAssumption DEF PoolInit, PoolType, UserInv, Need, HasPermit
<1>2. Entitled = {}
  BY DEF PoolInit, Entitled, HasPermit
<1>3. PermitInv
  BY <1>2, FS_EmptySet, BufferAssumption DEF PermitInv
<1>4. CountInv
  BY NothingInUse DEF PoolInit, CountInv
<1> QED
  BY <1>1, <1>3, <1>4 DEF PoolInv

\* Where the users that may hold buffers become no more, they stay within the permits.
LEMMA PermitFrame ==
  ASSUME PoolInv, plane' = plane, Entitled' \subseteq Entitled
  PROVE  PermitInv'
<1>1. Cardinality(Entitled') <= Cardinality(Entitled) /\ Cardinality(Entitled) \in Nat
      /\ Cardinality(Entitled') \in Nat
  BY UsersFinite, FS_Subset DEF Entitled
<1> QED
  BY <1>1, BufferAssumption DEF PoolInv, PermitInv

\* What a user takes or gives back is counted.
LEMMA CountMoves ==
  ASSUME PoolInv, NEW u \in Users, NEW n \in 0 .. 2, held' = [held EXCEPT ![u] = n],
         allocated' \in Nat, available' \in Nat,
         allocated' - available' = allocated - available + n - held[u]
  PROVE  CountInv'
<1>1. InUse(held) \in Nat /\ InUse(held') = InUse(held) + n - held[u] /\ held[u] \in 0 .. 2
  BY InUseChanges DEF PoolInv, PoolType
<1>2. allocated \in Nat /\ available \in Nat /\ allocated = available + InUse(held)
  BY DEF PoolInv, PoolType, CountInv
<1>3. allocated' = available' + InUse(held')
  BY <1>1, <1>2
<1> QED
  BY <1>3 DEF CountInv, InUse, AtLeast

\* A request begins only with a permit, and while every worker has the permit of its own.
LEMMA BeginKeeps ==
  ASSUME PoolInv, NEW u \in Users, Begin(u)
  PROVE  PoolInv'
<1>1. PoolType' /\ UserInv'
  BY DEF Begin, pool, PoolInv, PoolType, UserInv, Need, HasPermit
<1>2. PermitInv'
  <2> SUFFICES ASSUME plane = "lna" PROVE Cardinality(Entitled') <= Permits
    BY DEF PermitInv, Begin
  <2>1. Entitled = {v \in Users : HasPermit(v)} /\ u \notin Entitled /\ Entitled' = Entitled \cup {u}
    BY DEF Begin, PoolInv, PoolType, UserInv, Entitled, HasPermit
  <2>2. Cardinality(Entitled) < Permits
    BY <2>1 DEF Begin, PermitFree
  <2>3. IsFiniteSet(Entitled) /\ Cardinality(Entitled) \in Nat
    BY UsersFinite DEF Entitled
  <2>4. Cardinality(Entitled') = Cardinality(Entitled) + 1
    BY <2>1, <2>3, FS_AddElement
  <2> QED
    BY <2>2, <2>3, <2>4, BufferAssumption
<1>3. CountInv'
  BY DEF Begin, pool, PoolInv, CountInv, InUse, AtLeast
<1> QED
  BY <1>1, <1>2, <1>3 DEF PoolInv

\* A buffer comes from the pool or is allocated.
LEMMA AcquireKeeps ==
  ASSUME PoolInv, NEW u \in Users, Acquire(u)
  PROVE  PoolInv'
<1>0. held[u] \in 0 .. 1 /\ held \in [Users -> 0 .. 2] /\ allocated \in Nat /\ available \in Nat
  BY DEF Acquire, PoolInv, PoolType, Need
<1>1. /\ held' = [held EXCEPT ![u] = held[u] + 1] /\ UNCHANGED <<plane, open, phase, worker>>
      /\ \/ available > 0 /\ available' = available - 1 /\ allocated' = allocated
         \/ allocated' = allocated + 1 /\ available' = available
  BY PoolIsLargeEnough DEF Acquire, NeverExhausted
<1>2. PoolType'
  <2>1. held' \in [Users -> 0 .. 2] /\ allocated' \in Nat /\ available' \in Nat
    BY <1>0, <1>1
  <2> QED
    BY <1>1, <2>1 DEF PoolInv, PoolType
<1>3. UserInv'
  BY <1>0, <1>1 DEF Acquire, PoolInv, PoolType, UserInv, Need, HasPermit
<1>4. PermitInv'
  BY <1>1, PermitFrame DEF Entitled, HasPermit
<1>5. CountInv'
  <2>1. held[u] + 1 \in 0 .. 2 /\ allocated' \in Nat /\ available' \in Nat
    BY <1>0, <1>1
  <2>2. allocated' - available' = allocated - available + (held[u] + 1) - held[u]
    BY <1>0, <1>1
  <2> QED
    BY <1>1, <2>1, <2>2, CountMoves
<1> QED
  BY <1>2, <1>3, <1>4, <1>5 DEF PoolInv

\* With its buffers a request starts its worker.
LEMMA StartWorkerKeeps ==
  ASSUME PoolInv, NEW u \in Users, StartWorker(u)
  PROVE  PoolInv'
<1>1. PoolType' /\ UserInv'
  BY DEF StartWorker, pool, PoolInv, PoolType, UserInv, Need, HasPermit
<1>2. PermitInv'
  BY PermitFrame DEF StartWorker, Entitled, HasPermit, PoolInv, PoolType
<1>3. CountInv'
  BY DEF StartWorker, pool, PoolInv, CountInv, InUse, AtLeast
<1> QED
  BY <1>1, <1>2, <1>3 DEF PoolInv

\* Buffers that are given back are available again.
LEMMA GiveBackCounts ==
  ASSUME PoolInv, NEW u \in Users, NEW n \in 0 .. held[u], GiveBack(u, n), allocated' = allocated
  PROVE  /\ held' = [held EXCEPT ![u] = held[u] - n] /\ held' \in [Users -> 0 .. 2]
         /\ available' \in Nat /\ CountInv'
<1>1. held[u] \in 0 .. 2 /\ held[u] - n \in 0 .. 2 /\ n \in Nat /\ allocated \in Nat /\ available \in Nat
  BY DEF PoolInv, PoolType
<1>2. held' = [held EXCEPT ![u] = held[u] - n] /\ held' \in [Users -> 0 .. 2]
  BY <1>1 DEF GiveBack, PoolInv, PoolType
<1>3. available' = available + n /\ available' \in Nat
  BY <1>1 DEF GiveBack
<1>4. allocated' - available' = allocated - available + (held[u] - n) - held[u]
  BY <1>1, <1>3
<1> QED
  BY <1>1, <1>2, <1>3, <1>4, CountMoves

\* A request that is served gives everything back.
LEMMA FinishKeeps ==
  ASSUME PoolInv, NEW u \in Users, Finish(u)
  PROVE  PoolInv'
<1>1. held[u] \in 0 .. held[u] /\ GiveBack(u, held[u]) /\ allocated' = allocated
  BY DEF Finish, PoolInv, PoolType
<1>2. /\ held' = [held EXCEPT ![u] = held[u] - held[u]] /\ held' \in [Users -> 0 .. 2]
      /\ available' \in Nat /\ CountInv'
  BY <1>1, GiveBackCounts
<1>3. PoolType' /\ UserInv'
  BY <1>1, <1>2 DEF Finish, PoolInv, PoolType, UserInv, Need, HasPermit
<1>4. PermitInv'
  BY PermitFrame DEF Finish, Entitled, HasPermit, PoolInv, PoolType
<1> QED
  BY <1>2, <1>3, <1>4 DEF PoolInv

\* A request that breaks off keeps its permit as long as the transfer is open.
LEMMA BreakKeeps ==
  ASSUME PoolInv, NEW u \in Users, Break(u)
  PROVE  PoolInv'
<1>1. PICK n \in 0 .. held[u] : GiveBack(u, n) /\ (worker[u] \/ n = held[u])
  BY DEF Break
<1>2. /\ held' = [held EXCEPT ![u] = held[u] - n] /\ held' \in [Users -> 0 .. 2]
      /\ available' \in Nat /\ CountInv'
  BY <1>1, GiveBackCounts DEF Break
<1>3. PoolType' /\ UserInv'
  BY <1>1, <1>2 DEF Break, PoolInv, PoolType, UserInv, Need, HasPermit
<1>4. PermitInv'
  BY PermitFrame DEF Break, Entitled, HasPermit, PoolInv, PoolType
<1> QED
  BY <1>2, <1>3, <1>4 DEF PoolInv

\* A worker that nobody waits for gives back what it kept.
LEMMA WorkerEndsKeeps ==
  ASSUME PoolInv, NEW u \in Users, WorkerEnds(u)
  PROVE  PoolInv'
<1>1. held[u] \in 0 .. held[u] /\ GiveBack(u, held[u]) /\ allocated' = allocated
  BY DEF WorkerEnds, PoolInv, PoolType
<1>2. /\ held' = [held EXCEPT ![u] = held[u] - held[u]] /\ held' \in [Users -> 0 .. 2]
      /\ available' \in Nat /\ CountInv'
  BY <1>1, GiveBackCounts
<1>3. PoolType' /\ UserInv'
  BY <1>1, <1>2 DEF WorkerEnds, PoolInv, PoolType, UserInv, Need, HasPermit
<1>4. PermitInv'
  BY PermitFrame DEF WorkerEnds, Entitled, HasPermit, PoolInv, PoolType
<1> QED
  BY <1>2, <1>3, <1>4 DEF PoolInv

\* A failed request closes the transfer before its permit is free again; the transfer
\* may also be closed by others.
LEMMA ClosingKeeps ==
  ASSUME PoolInv, Taken \/ (\E u \in Users : FailTransfer(u) \/ ReturnPermit(u))
  PROVE  PoolInv'
<1>1. CASE Taken
  BY <1>1 DEF Taken, pool, PoolInv, PoolType, UserInv, Need, HasPermit, PermitInv, Entitled,
              CountInv, InUse, AtLeast
<1>2. ASSUME NEW u \in Users, FailTransfer(u) \/ ReturnPermit(u)
      PROVE  PoolInv'
  <2>1. \E l \in {"failed", "idle"} : phase' = [phase EXCEPT ![u] = l]
    BY <1>2 DEF FailTransfer, ReturnPermit
  <2>2. PoolType'
    BY <1>2, <2>1 DEF FailTransfer, ReturnPermit, pool, PoolInv, PoolType
  <2>3. UserInv'
    BY <1>2 DEF FailTransfer, ReturnPermit, pool, PoolInv, PoolType, UserInv, Need, HasPermit
  <2>4. PermitInv'
    BY <1>2, PermitFrame DEF FailTransfer, ReturnPermit, Entitled, HasPermit, PoolInv, PoolType
  <2>5. CountInv'
    BY <1>2 DEF FailTransfer, ReturnPermit, pool, PoolInv, CountInv, InUse, AtLeast
  <2> QED
    BY <2>2, <2>3, <2>4, <2>5 DEF PoolInv
<1> QED
  BY <1>1, <1>2

\* PoolInv holds in every reachable state (BufferPool of file_transfer, with the LNA file
\* semaphore and the WebTransport lanes).
THEOREM PoolSound ==
  PoolSpec => []PoolInv
<1>1. PoolInv /\ [PoolNext]_poolVars => PoolInv'
  <2> SUFFICES ASSUME PoolInv, [PoolNext]_poolVars PROVE PoolInv'
    OBVIOUS
  <2>1. CASE \E u \in Users : UserStep(u)
    BY <2>1, BeginKeeps, AcquireKeeps, StartWorkerKeeps, FinishKeeps, BreakKeeps, WorkerEndsKeeps,
       ClosingKeeps
       DEF UserStep
  <2>2. CASE Taken
    BY <2>2, ClosingKeeps
  <2>3. CASE UNCHANGED poolVars
    BY <2>3 DEF poolVars, pool, PoolInv, PoolType, UserInv, PermitInv, CountInv, Need, HasPermit,
                Entitled, InUse, AtLeast
  <2> QED
    BY <2>1, <2>2, <2>3 DEF PoolNext
<1> QED
  BY <1>1, PoolInitSound, PTL DEF PoolSpec

\* The pool is never exhausted, however many requests and whichever workers outlive them:
\* two buffers for each permit, or one for each lane, are always enough.
THEOREM PoolNeverExhausted ==
  PoolSpec => []NeverExhausted
<1>1. QED
  BY PoolSound, PoolIsLargeEnough, PTL
=============================================================================
