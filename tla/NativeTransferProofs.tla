------------------------- MODULE NativeTransferProofs -------------------------
(***************************************************************************)
(* Proofs about NativeTransfer, for every number of transfers, segments,   *)
(* connections, lanes and permits. The inductive invariant IInv is the     *)
(* conjunction of eight named parts; every part has a lemma for the        *)
(* initial states and one for a step, with one named step per action or    *)
(* per group of actions that leave the part's variables alone. The         *)
(* theorems behind them read the properties of NativeTransfer off IInv.    *)
(*                                                                         *)
(* The last part shows that NativeTransfer implements TransferContract:    *)
(* every step of the manager, its requests, lanes, workers, completions    *)
(* and the shutdown is a step of the contract or leaves its variables      *)
(* alone. IInv supplies what the contract's guards ask for.                *)
(***************************************************************************)
EXTENDS NativeTransfer, TLAPS

\* The tracker and the leases agree, and no block is missing from what a worker
\* handed back or the tracker accepted.
LeaseInv ==
  \A t \in Transfers, s \in Segments :
    /\ seg[t][s] = "active" <=> io[t][s] # "none"
    /\ io[t][s] = "written" \/ seg[t][s] = "complete" => pos[t][s] = BlocksPerSegment

\* An identifier that was never issued has no state.
EntryInv ==
  \A t \in Transfers :
    /\ kind[t] = "none" <=> plane[t] = "none"
    /\ kind[t] = "none" => /\ taker[t] = "none" /\ ~settled[t]
                           /\ part[t] = "none" /\ comp[t] = "none"
                           /\ \A s \in Segments : io[t][s] = "none"

\* The slot is exact, and it stays empty while the save dialog is open.
SlotInv == OpenIffInSlot /\ (bridge = "saving" => active = NoTransfer)

\* A completion in progress has whole coverage behind it, and `complete` is
\* taken only after the rename.
CompletionInv ==
  \A t \in Transfers :
    /\ comp[t] # "none" \/ part[t] = "installed" => Covered(t)
    /\ comp[t] = "replaced" \/ taker[t] = "complete" => part[t] = "installed"

\* Whoever took the transfer is the only one to clean up and to publish.
OutcomeInv ==
  \A t \in Transfers :
    /\ settled[t] => Cancelled(t) /\ part[t] # "present"
    /\ \/ terminal[t] = <<>>
       \/ taker[t] = "complete" /\ terminal[t] = <<"complete">>
       \/ settled[t] /\ terminal[t] = TerminalEvent(t)

\* One cancel command at a time keeps the Bridge busy; a stopping Agent has an
\* empty slot and an exited one has no cleanup left.
ShutdownInv ==
  /\ server # "running" => active = NoTransfer /\ bridge = "ended"
  /\ \A t \in Transfers : taker[t] = "cancel" /\ ~settled[t] => bridge = "busy"
  /\ \A t, u \in Transfers :
       taker[t] = "cancel" /\ ~settled[t] /\ taker[u] = "cancel" /\ ~settled[u] => t = u
  /\ server = "exited" => \A t \in Transfers : Cancelled(t) => settled[t]

\* A completion that holds every permit excludes the leases and the failing
\* requests of every transfer on the LNA plane.
ExclusionInv ==
  \A t, u \in Transfers :
    plane[t] = "lna" /\ comp[t] # "none" =>
      /\ plane[u] = "lna" => /\ comp[u] # "none" => u = t
                             /\ \A s \in Segments : ~InFlight(u, s)
      /\ lnaFailing[u] = 0

\* The inductive invariant.
IInv ==
  /\ TypeOK /\ LeaseInv /\ EntryInv /\ SlotInv
  /\ CompletionInv /\ OutcomeInv /\ ShutdownInv /\ ExclusionInv

-----------------------------------------------------------------------------
(* Types.                                                                  *)

\* Initially every variable has its type.
LEMMA TypeInit == Init => TypeOK
BY SourceAssumption, ShapeAssumption DEF Init, TypeOK, ManagerType, LeaseType, NetworkType,
   FileType, OutcomeType, TaskType

\* Every step keeps the types; in particular no worker runs past its segment.
LEMMA TypeStep == TypeOK /\ [Next]_vars => TypeOK'
<1> SUFFICES ASSUME TypeOK, [Next]_vars PROVE TypeOK'
  OBVIOUS
<1> USE ShapeAssumption DEF TypeOK, ManagerType, LeaseType, NetworkType, FileType, OutcomeType, TaskType
<1>1. ASSUME BridgeStep PROVE TypeOK'
  <2>1. ASSUME NEW S \in SUBSET Sources, SelectFiles(S) PROVE TypeOK'
    BY <2>1 DEF SelectFiles, leases, network, outcome
  <2>2. ASSUME NEW src \in Sources, ReleaseSource(src) PROVE TypeOK'
    BY <2>2 DEF ReleaseSource, leases, network, outcome
  <2>3. ASSUME NEW t \in Transfers, NEW p \in Planes, NEW src \in Sources,
               CreateSend(t, p, src)
        PROVE  TypeOK'
    BY <2>3 DEF CreateSend, NewEntry, leases, network, outcome
  <2>4. ASSUME AskDestination \/ DestinationRefused PROVE TypeOK'
    BY <2>4 DEF AskDestination, DestinationRefused, manager, leases, network, outcome
  <2>5. ASSUME NEW t \in Transfers, NEW p \in Planes, InstallReceive(t, p) PROVE TypeOK'
    BY <2>5 DEF InstallReceive, NewEntry, leases, network, outcome
  <2>6. ASSUME NEW t \in Transfers, CancelTransfer(t) PROVE TypeOK'
    BY <2>6 DEF CancelTransfer, TakeActive, leases, network
  <2>7. ASSUME NEW t \in Transfers, FinishSend(t) PROVE TypeOK'
    BY <2>7 DEF FinishSend, TakeActive, leases, network
  <2>8. ASSUME BridgeCloses PROVE TypeOK'
    BY <2>8 DEF BridgeCloses, CancelAll, TakeActive, leases, network
  <2>9. ASSUME BridgeFails PROVE TypeOK'
    BY <2>9 DEF BridgeFails, manager, leases, network, outcome
  <2> QED
    BY <1>1, <2>1, <2>2, <2>3, <2>4, <2>5, <2>6, <2>7, <2>8, <2>9 DEF BridgeStep
<1>2. ASSUME NEW t \in Transfers, NEW s \in Segments, SegmentStep(t, s) PROVE TypeOK'
  <2>1. CASE BeginLnaSegment(t, s)
    BY <2>1 DEF BeginLnaSegment, Reserve, manager, network, outcome
  <2>2. CASE BeginExtent(t, s)
    BY <2>2 DEF BeginExtent, Reserve, Touch, manager, network, outcome
  <2>3. CASE StreamBlock(t, s)
    BY <2>3 DEF StreamBlock, Touch, manager, network, outcome
  <2>4. CASE WorkerReturns(t, s)
    BY <2>4 DEF WorkerReturns, manager, network, outcome
  <2>5. CASE WorkerFails(t, s)
    <3> HIDE DEF ManagerType, LeaseType, NetworkType, FileType, OutcomeType, TaskType
    <3>1. lnaFailing' = lnaFailing \/ lnaFailing' = [lnaFailing EXCEPT ![t] = @ + 1]
      BY <2>5 DEF WorkerFails
    <3>2. conn' = conn \/ conn' = [conn EXCEPT ![t][ConnOf(s)] = "failing"]
      BY <2>5 DEF WorkerFails
    <3>3. NetworkType'
      <4>1. (lnaFailing \in [Transfers -> Nat])'
        BY <3>1 DEF NetworkType
      <4>2. \A u \in Transfers : conn'[u] \in [Connections ->
               {"unused", "running", "failing", "payload", "closed", "broken", "rejected"}]
        BY <3>2 DEF NetworkType
      <4>3. conn' = [u \in Transfers |-> conn'[u]]
        BY <3>2 DEF NetworkType
      <4> QED
        BY <4>1, <4>2, <4>3 DEF NetworkType
    <3>4. LeaseType'
      BY <2>5 DEF WorkerFails, DropLease, LeaseType
    <3> QED
      BY <2>5, <3>3, <3>4 DEF WorkerFails, manager, outcome, ManagerType, FileType,
         OutcomeType, TaskType
  <2>6. CASE RequestBreaks(t, s)
    BY <2>6 DEF RequestBreaks, manager, outcome
  <2>9. CASE RequestAborted(t, s)
    BY <2>9 DEF RequestAborted, manager, network, outcome
  <2>7. CASE OrphanEnds(t, s)
    BY <2>7 DEF OrphanEnds, DropLease, manager, network, outcome
  <2>8. CASE Commit(t, s)
    BY <2>8 DEF Commit, manager, network, outcome
  <2> QED
    BY <1>2, <2>1, <2>2, <2>3, <2>4, <2>5, <2>6, <2>7, <2>8, <2>9 DEF SegmentStep
<1>3. ASSUME NEW t \in Transfers, NEW c \in Connections, ConnectionStep(t, c) PROVE TypeOK'
  <2>1. CASE BeginConnection(t, c)
    BY <2>1 DEF BeginConnection, manager, leases, outcome
  <2>2. CASE ConnectionRejected(t, c)
    BY <2>2 DEF ConnectionRejected, manager, leases, outcome
  <2>3. CASE ConnectionBreaks(t, c)
    BY <2>3 DEF ConnectionBreaks, manager, leases, outcome
  <2>4. CASE FailConnection(t, c)
    <3> HIDE DEF ManagerType, LeaseType, NetworkType, FileType, OutcomeType, TaskType
    <3>1. ManagerType'
      BY <2>4 DEF FailConnection, FailTransfer, TakeActive, ManagerType
    <3>2. OutcomeType'
      BY <2>4 DEF FailConnection, FailTransfer, TakeActive, OutcomeType
    <3>3. NetworkType'
      BY <2>4 DEF FailConnection, NetworkType
    <3>4. LeaseType' /\ FileType' /\ TaskType'
      BY <2>4 DEF FailConnection, leases, LeaseType, FileType, TaskType
    <3> QED
      BY <3>1, <3>2, <3>3, <3>4
  <2>5. CASE PayloadDone(t, c)
    BY <2>5 DEF PayloadDone, manager, leases, outcome
  <2>6. CASE ConnectionFinishes(t, c)
    BY <2>6 DEF ConnectionFinishes, manager, leases, outcome
  <2>7. CASE ConnectionAbandoned(t, c)
    BY <2>7 DEF ConnectionAbandoned, manager, leases, outcome
  <2> QED
    BY <1>3, <2>1, <2>2, <2>3, <2>4, <2>5, <2>6, <2>7 DEF ConnectionStep
<1>4. ASSUME NEW t \in Transfers, TransferStep(t) PROVE TypeOK'
  <2>1. CASE Settle(t)
    <3> HIDE DEF ManagerType, LeaseType, NetworkType, FileType, OutcomeType, TaskType
    <3>1. TerminalEvent(t) \in Seq({"complete", "cancelled", "failed"})
      <4> DEFINE E == {"complete", "cancelled", "failed"}
      <4>1. <<"cancelled">> \in Seq(E) /\ <<"failed">> \in Seq(E) /\ << >> \in Seq(E)
        OBVIOUS
      <4> QED
        BY <4>1 DEF TerminalEvent
    <3>2. ReleasedSources(t) \subseteq Sources
      BY DEF ReleasedSources, ManagerType
    <3>3. OutcomeType'
      <4>1. settled' \in [Transfers -> BOOLEAN]
        BY <2>1, Zenon DEF Settle, OutcomeType
      <4>2. taker' = taker /\ terminal' = [terminal EXCEPT ![t] = @ \o TerminalEvent(t)]
        BY <2>1 DEF Settle
      <4> QED
        BY <3>1, <4>1, <4>2 DEF OutcomeType
    <3>4. ManagerType'
      BY <2>1, <3>2 DEF Settle, ManagerType
    <3>5. FileType'
      BY <2>1 DEF Settle, RemovePart, FileType
    <3> QED
      BY <2>1, <3>3, <3>4, <3>5 DEF Settle, leases, network, LeaseType, NetworkType, TaskType
  <2>2. CASE FailSegment(t) \/ FailureAborted(t)
    <3>1. lnaFailing[t] > 0 /\ lnaFailing' = [lnaFailing EXCEPT ![t] = @ - 1] /\ UNCHANGED conn
      BY <2>2 DEF FailSegment, FailureAborted
    <3>2. NetworkType'
      BY <3>1 DEF NetworkType
    <3>3. ManagerType' /\ OutcomeType'
      <4>1. CASE FailSegment(t)
        BY <4>1 DEF FailSegment, FailTransfer, TakeActive, ManagerType, OutcomeType
      <4>2. CASE FailureAborted(t)
        BY <4>2 DEF FailureAborted, manager, outcome, ManagerType, OutcomeType
      <4> QED
        BY <2>2, <4>1, <4>2
    <3> QED
      BY <2>2, <3>2, <3>3 DEF FailSegment, FailureAborted, leases, LeaseType, FileType, TaskType
  <2>3. CASE CompleteLna(t) \/ CompleteWebTransport(t)
    BY <2>3 DEF CompleteLna, CompleteWebTransport, manager, leases, network, outcome
  <2>4. CASE CompletionFails(t)
    <3> HIDE DEF ManagerType, LeaseType, NetworkType, FileType, OutcomeType, TaskType
    <3>1. conn' = conn \/ conn' = [conn EXCEPT ![t][0] = "broken"]
      BY <2>4 DEF CompletionFails, EndCompletion
    <3>2. comp' = [comp EXCEPT ![t] = "none"]
      BY <2>4 DEF CompletionFails, EndCompletion
    <3>3. NetworkType'
      BY <2>4, <3>1 DEF CompletionFails, NetworkType
    <3> QED
      BY <2>4, <3>2, <3>3 DEF CompletionFails, manager, leases, outcome,
         ManagerType, LeaseType, FileType, OutcomeType, TaskType
  <2>5. CASE ReplacePart(t)
    BY <2>5 DEF ReplacePart, manager, leases, network, outcome
  <2>6. CASE FinishCompletion(t)
    <3> HIDE DEF ManagerType, LeaseType, NetworkType, FileType, OutcomeType, TaskType
    <3>1. terminal' = terminal \/ terminal' = [terminal EXCEPT ![t] = Append(@, "complete")]
      BY <2>6 DEF FinishCompletion
    <3>2. UNCHANGED taker \/ taker' = [taker EXCEPT ![t] = "complete"]
      BY <2>6 DEF FinishCompletion, TakeActive
    <3>3. OutcomeType'
      <4> DEFINE E == {"complete", "cancelled", "failed"}
      <4>1. terminal \in [Transfers -> Seq(E)]
        BY DEF OutcomeType
      <4>2. Append(terminal[t], "complete") \in Seq(E)
        BY <4>1
      <4> HIDE DEF E
      <4>3. terminal' \in [Transfers -> Seq(E)]
        BY <3>1, <4>1, <4>2
      <4> QED
        BY <2>6, <3>2, <4>3 DEF FinishCompletion, OutcomeType, E
    <3>4. conn' = conn \/ \E how \in {"closed", "broken"} : conn' = [conn EXCEPT ![t][0] = how]
      BY <2>6 DEF FinishCompletion, EndCompletion
    <3>5. comp' = [comp EXCEPT ![t] = "none"]
      BY <2>6 DEF FinishCompletion, EndCompletion
    <3>6. NetworkType'
      BY <2>6, <3>4 DEF FinishCompletion, NetworkType
    <3>8. FileType'
      BY <2>6, <3>5 DEF FinishCompletion, FileType
    <3>7. ManagerType'
      BY <2>6 DEF FinishCompletion, TakeActive, ManagerType
    <3> QED
      BY <2>6, <3>3, <3>6, <3>7, <3>8 DEF FinishCompletion, leases, LeaseType, TaskType
  <2>7. ASSUME NEW how \in Lapses, Lapse(t, how) PROVE TypeOK'
    BY <2>7 DEF Lapse, manager, leases, network, outcome
  <2> QED
    BY <1>4, <2>1, <2>2, <2>3, <2>4, <2>5, <2>6, <2>7 DEF TransferStep
<1>5. CASE StopServer
  <2>1. CancelAll /\ server' = "stopping"
    BY <1>5 DEF StopServer
  <2>2. /\ UNCHANGED <<opened, kind, plane, source, seg, io, pos, lnaFailing, conn>>
        /\ UNCHANGED <<comp, part, expiry, settled, terminal, bridge>>
    BY <1>5 DEF StopServer, leases, network
  <2> QED
    BY <2>1, <2>2 DEF CancelAll, TakeActive
<1>6. CASE Exit
  BY <1>6 DEF Exit, manager, leases, network, outcome
<1>7. CASE Exited \/ UNCHANGED vars
  <2>1. /\ UNCHANGED <<active, selected, opened, kind, plane, source, seg, io, pos>>
        /\ UNCHANGED <<lnaFailing, conn, comp, part, expiry, taker, settled, terminal>>
        /\ UNCHANGED <<bridge, server>>
    BY <1>7 DEF Exited, vars, manager, leases, network, outcome
  <2> QED
    BY <2>1, SMTT(60)
<1> QED
  BY <1>1, <1>2, <1>3, <1>4, <1>5, <1>6, <1>7 DEF Next

-----------------------------------------------------------------------------
(* Leases.                                                                 *)

\* Only the steps of a segment touch the tracker, the leases and the blocks.
LEMMA LeaseFrame ==
  ASSUME \/ BridgeStep
         \/ \E t \in Transfers, c \in Connections : ConnectionStep(t, c)
         \/ \E t \in Transfers : TransferStep(t)
         \/ StopServer \/ Exit \/ Exited \/ UNCHANGED vars
  PROVE  UNCHANGED <<seg, io, pos>>
<1>1. ASSUME BridgeStep PROVE UNCHANGED leases
  BY <1>1 DEF BridgeStep, SelectFiles, ReleaseSource, CreateSend, AskDestination,
     DestinationRefused, InstallReceive, CancelTransfer, FinishSend, BridgeCloses, BridgeFails
<1>2. ASSUME NEW t \in Transfers, NEW c \in Connections, ConnectionStep(t, c)
      PROVE  UNCHANGED leases
  BY <1>2 DEF ConnectionStep, BeginConnection, ConnectionRejected, ConnectionBreaks,
     FailConnection, PayloadDone, ConnectionFinishes, ConnectionAbandoned
<1>3. ASSUME NEW t \in Transfers, TransferStep(t) PROVE UNCHANGED leases
  BY <1>3 DEF TransferStep, Settle, FailSegment, FailureAborted, CompleteLna, CompleteWebTransport,
     CompletionFails, ReplacePart, FinishCompletion, Lapse
<1>4. ASSUME StopServer \/ Exit \/ Exited \/ UNCHANGED vars PROVE UNCHANGED leases
  BY <1>4 DEF StopServer, Exit, Exited, vars
<1> QED
  BY <1>1, <1>2, <1>3, <1>4 DEF leases

\* LeaseInv holds initially.
LEMMA LeaseInit == Init => LeaseInv
BY DEF Init, LeaseInv

\* LeaseInv is inductive: reserve, hand back, release and commit move the tracker
\* and the lease together.
LEMMA LeaseStep == TypeOK /\ LeaseInv /\ [Next]_vars => LeaseInv'
<1> SUFFICES ASSUME TypeOK, LeaseInv, [Next]_vars PROVE LeaseInv'
  OBVIOUS
<1>1. ASSUME NEW t \in Transfers, NEW s \in Segments, SegmentStep(t, s) PROVE LeaseInv'
  <2> USE ShapeAssumption
  <2>1. CASE BeginLnaSegment(t, s) \/ BeginExtent(t, s)
    <3>1. /\ seg' = [seg EXCEPT ![t][s] = "active"]
          /\ io'  = [io  EXCEPT ![t][s] = "streaming"]
          /\ pos' = [pos EXCEPT ![t][s] = 0]
          /\ seg[t][s] = "pending"
      BY <2>1 DEF BeginLnaSegment, BeginExtent, Reserve, Reservable
    <3> QED
      BY <3>1 DEF TypeOK, LeaseType, LeaseInv
  <2>2. CASE StreamBlock(t, s)
    BY <2>2 DEF StreamBlock, TypeOK, LeaseType, LeaseInv
  <2>3. CASE WorkerReturns(t, s)
    BY <2>3 DEF WorkerReturns, TypeOK, LeaseType, LeaseInv
  <2>4. CASE WorkerFails(t, s) \/ OrphanEnds(t, s)
    <3>1. io[t][s] # "none" /\ pos' = pos /\ DropLease(t, s)
      BY <2>4 DEF WorkerFails, OrphanEnds
    <3>2. seg[t][s] = "active"
      BY <3>1 DEF LeaseInv
    <3>3. /\ seg' = [seg EXCEPT ![t][s] = "pending"]
          /\ io'  = [io  EXCEPT ![t][s] = "none"]
      BY <3>1, <3>2 DEF DropLease
    <3> QED
      BY <3>1, <3>3 DEF TypeOK, LeaseType, LeaseInv
  <2>5. CASE RequestBreaks(t, s) \/ RequestAborted(t, s)
    BY <2>5 DEF RequestBreaks, RequestAborted, InFlight, TypeOK, LeaseType, LeaseInv
  <2>6. CASE Commit(t, s)
    BY <2>6 DEF Commit, TypeOK, LeaseType, LeaseInv
  <2> QED
    BY <1>1, <2>1, <2>2, <2>3, <2>4, <2>5, <2>6 DEF SegmentStep
<1>2. ASSUME ~ \E t \in Transfers, s \in Segments : SegmentStep(t, s) PROVE LeaseInv'
  <2>1. UNCHANGED <<seg, io, pos>>
    BY <1>2, LeaseFrame DEF Next
  <2> QED
    BY <2>1 DEF LeaseInv
<1> QED
  BY <1>1, <1>2

-----------------------------------------------------------------------------
(* The slot and its entries.                                               *)

\* SlotInv holds initially.
LEMMA SlotInit == Init => SlotInv
BY SlotAssumption DEF Init, SlotInv, OpenIffInSlot

\* Taking the transfer that is in the slot keeps the slot exact.
LEMMA TakeKeepsSlot ==
  ASSUME TypeOK, SlotInv, NEW t \in Transfers, active = t, NEW by, by # "none",
         TakeActive(t, by), UNCHANGED kind,
         bridge' # "saving" \/ bridge' = bridge
  PROVE  SlotInv'
BY SlotAssumption DEF TypeOK, ManagerType, OutcomeType, SlotInv, OpenIffInSlot, TakeActive

\* SlotInv depends on the slot, the entries and the dialog only.
LEMMA SlotFrame ==
  ASSUME SlotInv, UNCHANGED <<active, kind, taker>>, bridge' # "saving" \/ bridge' = bridge
  PROVE  SlotInv'
BY DEF SlotInv, OpenIffInSlot

\* SlotInv is inductive: an entry is installed into an empty slot only, and leaves
\* it only by being taken.
LEMMA SlotStep == TypeOK /\ EntryInv /\ SlotInv /\ [Next]_vars => SlotInv'
<1> SUFFICES ASSUME TypeOK, EntryInv, SlotInv, [Next]_vars PROVE SlotInv'
  OBVIOUS
<1>1. ASSUME BridgeStep PROVE SlotInv'
  <2>1. ASSUME NEW S \in SUBSET Sources, SelectFiles(S) PROVE SlotInv'
    BY <2>1, SlotFrame DEF SelectFiles, outcome
  <2>2. ASSUME NEW src \in Sources, ReleaseSource(src) PROVE SlotInv'
    BY <2>2, SlotFrame DEF ReleaseSource, outcome
  <2>3. ASSUME NEW t \in Transfers, NEW p \in Planes, NEW src \in Sources,
               CreateSend(t, p, src)
        PROVE  SlotInv'
    <3>1. /\ active = NoTransfer /\ active' = t /\ bridge' = "ready"
          /\ kind[t] = "none" /\ kind' = [kind EXCEPT ![t] = "send"]
          /\ taker' = taker /\ taker[t] = "none"
      BY <2>3 DEF CreateSend, NewEntry, outcome, EntryInv
    <3> QED
      BY <3>1, SlotAssumption DEF TypeOK, ManagerType, SlotInv, OpenIffInSlot
  <2>4. ASSUME AskDestination PROVE SlotInv'
    BY <2>4 DEF AskDestination, manager, outcome, SlotInv, OpenIffInSlot
  <2>5. ASSUME DestinationRefused PROVE SlotInv'
    BY <2>5, SlotFrame DEF DestinationRefused, manager, outcome
  <2>6. ASSUME NEW t \in Transfers, NEW p \in Planes, InstallReceive(t, p) PROVE SlotInv'
    <3>1. /\ active = NoTransfer /\ active' = t /\ bridge' = "ready"
          /\ kind[t] = "none" /\ kind' = [kind EXCEPT ![t] = "receive"]
          /\ taker' = taker /\ taker[t] = "none"
      BY <2>6 DEF InstallReceive, NewEntry, outcome, EntryInv, SlotInv
    <3> QED
      BY <3>1, SlotAssumption DEF TypeOK, ManagerType, SlotInv, OpenIffInSlot
  <2>7. ASSUME NEW t \in Transfers, CancelTransfer(t) PROVE SlotInv'
    BY <2>7, TakeKeepsSlot DEF CancelTransfer
  <2>8. ASSUME NEW t \in Transfers, FinishSend(t) PROVE SlotInv'
    BY <2>8, TakeKeepsSlot DEF FinishSend
  <2>9. ASSUME BridgeCloses PROVE SlotInv'
    <3>1. CASE active = NoTransfer
      BY <2>9, <3>1, SlotFrame DEF BridgeCloses, CancelAll
    <3>2. CASE active # NoTransfer
      BY <2>9, <3>2, TakeKeepsSlot DEF BridgeCloses, CancelAll, TypeOK, ManagerType
    <3> QED
      BY <3>1, <3>2
  <2>10. ASSUME BridgeFails PROVE SlotInv'
    BY <2>10, SlotFrame DEF BridgeFails, manager, outcome
  <2> QED
    BY <1>1, <2>1, <2>2, <2>3, <2>4, <2>5, <2>6, <2>7, <2>8, <2>9, <2>10 DEF BridgeStep
<1>2. ASSUME NEW t \in Transfers, NEW s \in Segments, SegmentStep(t, s) PROVE SlotInv'
  <2>1. UNCHANGED <<active, kind, taker, bridge>>
    BY <1>2 DEF SegmentStep, BeginLnaSegment, BeginExtent, StreamBlock, WorkerReturns,
       WorkerFails, RequestBreaks, RequestAborted, OrphanEnds, Commit, manager, outcome
  <2> QED
    BY <2>1, SlotFrame
<1>3. ASSUME NEW t \in Transfers, NEW c \in Connections, ConnectionStep(t, c) PROVE SlotInv'
  <2>1. ASSUME FailConnection(t, c), active = t PROVE SlotInv'
    BY <2>1, TakeKeepsSlot DEF FailConnection, FailTransfer
  <2>2. ASSUME ~(FailConnection(t, c) /\ active = t)
        PROVE  UNCHANGED <<active, kind, taker, bridge>>
    BY <1>3, <2>2 DEF ConnectionStep, BeginConnection, ConnectionRejected, ConnectionBreaks,
       FailConnection, FailTransfer, PayloadDone, ConnectionFinishes, ConnectionAbandoned,
       manager, outcome
  <2> QED
    BY <2>1, <2>2, SlotFrame
<1>4. ASSUME NEW t \in Transfers, TransferStep(t) PROVE SlotInv'
  <2>1. CASE Settle(t)
    BY <2>1, SlotFrame DEF Settle
  <2>2. ASSUME FailSegment(t) \/ FinishCompletion(t), active = t PROVE SlotInv'
    BY <2>2, TakeKeepsSlot DEF FailSegment, FailTransfer, FinishCompletion
  <2>3. ASSUME FailSegment(t) \/ FinishCompletion(t), active # t PROVE SlotInv'
    BY <2>3, SlotFrame DEF FailSegment, FailTransfer, FinishCompletion
  <2>4. ASSUME \/ CompleteLna(t) \/ CompleteWebTransport(t) \/ CompletionFails(t)
               \/ ReplacePart(t) \/ FailureAborted(t) \/ \E how \in Lapses : Lapse(t, how)
        PROVE  SlotInv'
    BY <2>4, SlotFrame DEF FailureAborted, CompleteLna, CompleteWebTransport, CompletionFails, ReplacePart,
       Lapse, manager, outcome
  <2> QED
    BY <1>4, <2>1, <2>2, <2>3, <2>4 DEF TransferStep
<1>5. ASSUME StopServer PROVE SlotInv'
  <2>1. CASE active = NoTransfer
    BY <1>5, <2>1, SlotFrame DEF StopServer, CancelAll
  <2>2. CASE active # NoTransfer
    BY <1>5, <2>2, TakeKeepsSlot DEF StopServer, CancelAll, TypeOK, ManagerType
  <2> QED
    BY <2>1, <2>2
<1>6. ASSUME Exit \/ Exited \/ UNCHANGED vars PROVE SlotInv'
  BY <1>6, SlotFrame DEF Exit, Exited, vars, manager, outcome
<1> QED
  BY <1>1, <1>2, <1>3, <1>4, <1>5, <1>6 DEF Next

\* EntryInv holds initially.
LEMMA EntryInit == Init => EntryInv
BY DEF Init, EntryInv

\* EntryInv is about identifiers that were never issued only.
LEMMA EntryFrame ==
  ASSUME EntryInv, UNCHANGED <<kind, plane>>,
         \A t \in Transfers : kind[t] = "none" =>
           /\ taker'[t] = taker[t] /\ settled'[t] = settled[t]
           /\ part'[t] = part[t] /\ comp'[t] = comp[t]
           /\ \A s \in Segments : io'[t][s] = io[t][s]
  PROVE  EntryInv'
BY DEF EntryInv

\* EntryInv is inductive: no call works on an identifier that was never issued.
LEMMA EntryStep == TypeOK /\ EntryInv /\ SlotInv /\ LeaseInv /\ [Next]_vars => EntryInv'
<1> SUFFICES ASSUME TypeOK, EntryInv, SlotInv, LeaseInv, [Next]_vars PROVE EntryInv'
  OBVIOUS
<1>0. ASSUME NEW t \in Transfers, active = t PROVE kind[t] # "none"
  BY <1>0 DEF SlotInv, OpenIffInSlot
<1>1. ASSUME BridgeStep PROVE EntryInv'
  <2>1. ASSUME NEW S \in SUBSET Sources, SelectFiles(S) PROVE EntryInv'
    BY <2>1, EntryFrame DEF SelectFiles, leases, outcome
  <2>2. ASSUME NEW src \in Sources, ReleaseSource(src) PROVE EntryInv'
    BY <2>2, EntryFrame DEF ReleaseSource, leases, outcome
  <2>3. ASSUME NEW t \in Transfers, NEW p \in Planes, NEW src \in Sources,
               CreateSend(t, p, src)
        PROVE  EntryInv'
    <3>1. /\ kind' = [kind EXCEPT ![t] = "send"] /\ plane' = [plane EXCEPT ![t] = p]
          /\ UNCHANGED <<taker, settled, part, comp, io>> /\ p # "none"
      BY <2>3, ShapeAssumption DEF CreateSend, NewEntry, leases, outcome
    <3> QED
      BY <3>1 DEF TypeOK, ManagerType, EntryInv
  <2>4. ASSUME AskDestination \/ DestinationRefused PROVE EntryInv'
    BY <2>4, EntryFrame DEF AskDestination, DestinationRefused, manager, leases, outcome
  <2>5. ASSUME NEW t \in Transfers, NEW p \in Planes, InstallReceive(t, p) PROVE EntryInv'
    <3>1. /\ kind' = [kind EXCEPT ![t] = "receive"] /\ plane' = [plane EXCEPT ![t] = p]
          /\ part' = [part EXCEPT ![t] = "present"]
          /\ UNCHANGED <<taker, settled, comp, io>> /\ p # "none"
      BY <2>5, ShapeAssumption DEF InstallReceive, NewEntry, leases, outcome
    <3> QED
      BY <3>1 DEF TypeOK, ManagerType, FileType, EntryInv
  <2>6. ASSUME NEW t \in Transfers, CancelTransfer(t) \/ FinishSend(t) PROVE EntryInv'
    <3>1. kind[t] # "none" /\ \E by \in {"cancel", "finish"} : taker' = [taker EXCEPT ![t] = by]
      BY <2>6, <1>0 DEF CancelTransfer, FinishSend, TakeActive
    <3>2. UNCHANGED <<kind, plane, settled, part, comp, io>>
      BY <2>6 DEF CancelTransfer, FinishSend, leases
    <3> QED
      BY <3>1, <3>2, EntryFrame DEF TypeOK, OutcomeType
  <2>7. ASSUME BridgeCloses PROVE EntryInv'
    <3>1. UNCHANGED <<kind, plane, settled, part, comp, io>> /\ CancelAll
      BY <2>7 DEF BridgeCloses, leases
    <3>2. CASE active = NoTransfer
      BY <3>1, <3>2, EntryFrame DEF CancelAll
    <3>3. CASE active # NoTransfer
      BY <3>1, <3>3, <1>0, EntryFrame
         DEF CancelAll, TakeActive, TypeOK, ManagerType, OutcomeType
    <3> QED
      BY <3>2, <3>3
  <2>8. ASSUME BridgeFails PROVE EntryInv'
    BY <2>8, EntryFrame DEF BridgeFails, manager, leases, outcome
  <2> QED
    BY <1>1, <2>1, <2>2, <2>3, <2>4, <2>5, <2>6, <2>7, <2>8 DEF BridgeStep
<1>2. ASSUME NEW t \in Transfers, NEW s \in Segments, SegmentStep(t, s) PROVE EntryInv'
  <2>1. kind[t] # "none"
    BY <1>2 DEF SegmentStep, BeginLnaSegment, BeginExtent, StreamBlock, WorkerReturns,
       WorkerFails, RequestBreaks, RequestAborted, OrphanEnds, Commit, EntryInv
  <2>2. UNCHANGED <<kind, plane, taker, settled, part, comp>>
    BY <1>2 DEF SegmentStep, BeginLnaSegment, BeginExtent, StreamBlock, WorkerReturns,
       WorkerFails, RequestBreaks, RequestAborted, OrphanEnds, Commit, manager, outcome
  <2>3. io' = io \/ \E v \in {"none", "streaming", "written", "orphan"} :
          io' = [io EXCEPT ![t][s] = v]
    BY <1>2 DEF SegmentStep, BeginLnaSegment, BeginExtent, Reserve, StreamBlock, WorkerReturns,
       WorkerFails, DropLease, RequestBreaks, RequestAborted, OrphanEnds, Commit
  <2> QED
    BY <2>1, <2>2, <2>3, EntryFrame DEF TypeOK, LeaseType
<1>3. ASSUME NEW t \in Transfers, NEW c \in Connections, ConnectionStep(t, c) PROVE EntryInv'
  <2>1. UNCHANGED <<kind, plane, settled, part, comp, io>>
    BY <1>3 DEF ConnectionStep, BeginConnection, ConnectionRejected, ConnectionBreaks,
       FailConnection, PayloadDone, ConnectionFinishes, ConnectionAbandoned,
       manager, leases, outcome
  <2>2. taker' = taker \/ (kind[t] # "none" /\ taker' = [taker EXCEPT ![t] = "fail"])
    BY <1>3, <1>0 DEF ConnectionStep, BeginConnection, ConnectionRejected, ConnectionBreaks,
       FailConnection, FailTransfer, TakeActive, PayloadDone, ConnectionFinishes,
       ConnectionAbandoned, outcome
  <2> QED
    BY <2>1, <2>2, EntryFrame DEF TypeOK, OutcomeType
<1>4. ASSUME NEW t \in Transfers, TransferStep(t) PROVE EntryInv'
  <2>1. UNCHANGED <<kind, plane, io>>
    BY <1>4 DEF TransferStep, Settle, FailSegment, FailureAborted, CompleteLna, CompleteWebTransport,
       CompletionFails, ReplacePart, FinishCompletion, Lapse, manager, leases
  <2>2. CASE Settle(t)
    <3>1. kind[t] # "none"
      BY <2>2 DEF Settle, Cancelled, EntryInv
    <3>2. UNCHANGED <<taker, comp>>
      BY <2>2 DEF Settle
    <3>3. settled' = [settled EXCEPT ![t] = TRUE]
      BY <2>2 DEF Settle
    <3>4. \A u \in Transfers \ {t} : part'[u] = part[u] /\ settled'[u] = settled[u]
      BY <2>2, <3>3 DEF Settle, RemovePart, TypeOK, FileType, OutcomeType
    <3> QED
      BY <2>1, <3>1, <3>2, <3>4, EntryFrame
  <2>3. CASE FailSegment(t)
    <3>1. taker' = taker \/ (kind[t] # "none" /\ taker' = [taker EXCEPT ![t] = "fail"])
      BY <2>3, <1>0 DEF FailSegment, FailTransfer, TakeActive
    <3>2. UNCHANGED <<settled, part, comp>>
      BY <2>3 DEF FailSegment
    <3> QED
      BY <2>1, <3>1, <3>2, EntryFrame DEF TypeOK, OutcomeType
  <2>4. CASE CompleteLna(t) \/ CompleteWebTransport(t)
    <3>1. kind[t] # "none" /\ comp' = [comp EXCEPT ![t] = "confirming"]
      BY <2>4 DEF CompleteLna, CompleteWebTransport
    <3>2. UNCHANGED <<taker, settled, part>>
      BY <2>4 DEF CompleteLna, CompleteWebTransport, outcome
    <3> QED
      BY <2>1, <3>1, <3>2, EntryFrame DEF TypeOK, FileType
  <2>5. CASE CompletionFails(t)
    <3>1. kind[t] # "none" /\ comp' = [comp EXCEPT ![t] = "none"]
      BY <2>5 DEF CompletionFails, EndCompletion, EntryInv
    <3>2. UNCHANGED <<taker, settled, part>>
      BY <2>5 DEF CompletionFails, outcome
    <3> QED
      BY <2>1, <3>1, <3>2, EntryFrame DEF TypeOK, FileType
  <2>6. CASE ReplacePart(t)
    <3>1. /\ kind[t] # "none"
          /\ comp' = [comp EXCEPT ![t] = "replaced"]
          /\ part' = [part EXCEPT ![t] = "installed"]
      BY <2>6 DEF ReplacePart, EntryInv
    <3>2. UNCHANGED <<taker, settled>>
      BY <2>6 DEF ReplacePart, outcome
    <3> QED
      BY <2>1, <3>1, <3>2, EntryFrame DEF TypeOK, FileType
  <2>7. CASE FinishCompletion(t)
    <3>1. kind[t] # "none" /\ comp' = [comp EXCEPT ![t] = "none"]
      BY <2>7 DEF FinishCompletion, EndCompletion, EntryInv
    <3>2. taker' = taker \/ taker' = [taker EXCEPT ![t] = "complete"]
      BY <2>7 DEF FinishCompletion, TakeActive
    <3>3. UNCHANGED <<settled, part>>
      BY <2>7 DEF FinishCompletion
    <3> QED
      BY <2>1, <3>1, <3>2, <3>3, EntryFrame DEF TypeOK, FileType, OutcomeType
  <2>8. ASSUME NEW how \in Lapses, Lapse(t, how) PROVE EntryInv'
    BY <2>1, <2>8, EntryFrame DEF Lapse, outcome
  <2>9. CASE FailureAborted(t)
    BY <2>1, <2>9, EntryFrame DEF FailureAborted, outcome
  <2> QED
    BY <1>4, <2>2, <2>3, <2>4, <2>5, <2>6, <2>7, <2>8, <2>9 DEF TransferStep
<1>5. ASSUME StopServer PROVE EntryInv'
  <2>1. UNCHANGED <<kind, plane, settled, part, comp, io>> /\ CancelAll
    BY <1>5 DEF StopServer, leases
  <2>2. CASE active = NoTransfer
    BY <2>1, <2>2, EntryFrame DEF CancelAll
  <2>3. CASE active # NoTransfer
    BY <2>1, <2>3, <1>0, EntryFrame
       DEF CancelAll, TakeActive, TypeOK, ManagerType, OutcomeType
  <2> QED
    BY <2>2, <2>3
<1>6. ASSUME Exit \/ Exited \/ UNCHANGED vars PROVE EntryInv'
  BY <1>6, EntryFrame DEF Exit, Exited, vars, manager, leases, outcome
<1> QED
  BY <1>1, <1>2, <1>3, <1>4, <1>5, <1>6 DEF Next

-----------------------------------------------------------------------------
(* Completion.                                                             *)

\* A segment the tracker has accepted keeps its state, its blocks and its (absent)
\* lease in every step.
LEMMA AcceptedStep ==
  ASSUME TypeOK, LeaseInv, [Next]_vars,
         NEW t \in Transfers, NEW s \in Segments, seg[t][s] = "complete"
  PROVE  seg'[t][s] = "complete" /\ pos'[t][s] = pos[t][s] /\ io'[t][s] = io[t][s]
<1>1. ASSUME NEW u \in Transfers, NEW r \in Segments, SegmentStep(u, r)
      PROVE  seg'[t][s] = seg[t][s] /\ pos'[t][s] = pos[t][s] /\ io'[t][s] = io[t][s]
  <2>1. io[t][s] = "none"
    BY DEF TypeOK, LeaseType, LeaseInv
  <2>2. u # t \/ r # s
    <3> SUFFICES ASSUME u = t, r = s PROVE FALSE
      OBVIOUS
    <3> QED
      BY <1>1, <2>1 DEF SegmentStep, BeginLnaSegment, BeginExtent, Reserve, Reservable,
         StreamBlock, WorkerReturns, WorkerFails, RequestBreaks, RequestAborted, InFlight, OrphanEnds, Commit
  <2>3. seg' = seg \/ \E v \in {"pending", "active", "complete"} : seg' = [seg EXCEPT ![u][r] = v]
    <3>1. CASE WorkerFails(u, r) \/ OrphanEnds(u, r)
      BY <3>1 DEF WorkerFails, OrphanEnds, DropLease, TypeOK, LeaseType
    <3>2. CASE ~(WorkerFails(u, r) \/ OrphanEnds(u, r))
      BY <1>1, <3>2 DEF SegmentStep, BeginLnaSegment, BeginExtent, Reserve, StreamBlock,
         WorkerReturns, RequestBreaks, RequestAborted, Commit
    <3> QED
      BY <3>1, <3>2
  <2>4. io' = io \/ \E v : io' = [io EXCEPT ![u][r] = v]
    BY <1>1 DEF SegmentStep, BeginLnaSegment, BeginExtent, Reserve, StreamBlock,
       WorkerReturns, WorkerFails, DropLease, RequestBreaks, RequestAborted, OrphanEnds, Commit
  <2>5. pos' = pos \/ \E v : pos' = [pos EXCEPT ![u][r] = v]
    BY <1>1 DEF SegmentStep, BeginLnaSegment, BeginExtent, Reserve, StreamBlock,
       WorkerReturns, WorkerFails, RequestBreaks, RequestAborted, OrphanEnds, Commit
  <2> QED
    BY <2>2, <2>3, <2>4, <2>5 DEF TypeOK, LeaseType
<1>2. ASSUME ~ \E u \in Transfers, r \in Segments : SegmentStep(u, r)
      PROVE  UNCHANGED <<seg, io, pos>>
  BY <1>2, LeaseFrame DEF Next
<1> QED
  BY <1>1, <1>2

\* Whole coverage stays whole.
LEMMA CoverageStep ==
  ASSUME TypeOK, LeaseInv, [Next]_vars, NEW t \in Transfers, Covered(t)
  PROVE  Covered(t)'
BY AcceptedStep DEF Covered

\* CompletionInv holds initially.
LEMMA CompletionInit == Init => CompletionInv
BY DEF Init, CompletionInv

\* CompletionInv survives the end of a completion and every taker but `complete`.
LEMMA CompletionFrame ==
  ASSUME CompletionInv,
         \A t \in Transfers : Covered(t) => Covered(t)',
         \A t \in Transfers :
           /\ comp'[t] = comp[t] \/ comp'[t] = "none"
           /\ taker'[t] = taker[t] \/ taker'[t] # "complete"
           /\ part'[t] = part[t] \/ (part[t] # "installed" /\ part'[t] # "installed")
  PROVE  CompletionInv'
BY DEF CompletionInv

\* CompletionInv is inductive: what was covered when a completion began is still
\* covered when it renames the .part.
LEMMA CompletionStep ==
  TypeOK /\ LeaseInv /\ EntryInv /\ SlotInv /\ CompletionInv /\ [Next]_vars => CompletionInv'
<1> SUFFICES ASSUME TypeOK, LeaseInv, EntryInv, SlotInv, CompletionInv, [Next]_vars
             PROVE  CompletionInv'
  OBVIOUS
<1>0. \A t \in Transfers : Covered(t) => Covered(t)'
  BY CoverageStep
<1>1. ASSUME BridgeStep PROVE CompletionInv'
  <2>1. UNCHANGED comp
    BY <1>1 DEF BridgeStep, SelectFiles, ReleaseSource, CreateSend, AskDestination,
       DestinationRefused, InstallReceive, CancelTransfer, FinishSend, BridgeCloses, BridgeFails
  <2>2. \/ part' = part
        \/ \E t \in Transfers : part[t] = "none" /\ part' = [part EXCEPT ![t] = "present"]
    BY <1>1 DEF BridgeStep, SelectFiles, ReleaseSource, CreateSend, AskDestination,
       DestinationRefused, InstallReceive, NewEntry, CancelTransfer, FinishSend, BridgeCloses,
       BridgeFails, EntryInv
  <2>3. taker' = taker \/ \E t \in Transfers, by \in {"cancel", "finish", "close"} :
          taker' = [taker EXCEPT ![t] = by]
    BY <1>1 DEF BridgeStep, SelectFiles, ReleaseSource, CreateSend, AskDestination,
       DestinationRefused, InstallReceive, CancelTransfer, FinishSend, TakeActive,
       BridgeCloses, CancelAll, BridgeFails, outcome, TypeOK, ManagerType
  <2>4. \A t \in Transfers : 
          part'[t] = part[t] \/ (part[t] # "installed" /\ part'[t] # "installed")
    BY <2>2 DEF TypeOK, FileType
  <2>5. \A t \in Transfers : taker'[t] = taker[t] \/ taker'[t] # "complete"
    BY <2>3 DEF TypeOK, OutcomeType
  <2> QED
    BY <1>0, <2>1, <2>4, <2>5, CompletionFrame
<1>2. ASSUME NEW t \in Transfers, NEW s \in Segments, SegmentStep(t, s) PROVE CompletionInv'
  <2>1. UNCHANGED <<comp, part, taker>>
    BY <1>2 DEF SegmentStep, BeginLnaSegment, BeginExtent, StreamBlock, WorkerReturns,
       WorkerFails, RequestBreaks, RequestAborted, OrphanEnds, Commit, outcome
  <2> QED
    BY <1>0, <2>1, CompletionFrame
<1>3. ASSUME NEW t \in Transfers, NEW c \in Connections, ConnectionStep(t, c)
      PROVE  CompletionInv'
  <2>1. UNCHANGED <<comp, part>>
    BY <1>3 DEF ConnectionStep, BeginConnection, ConnectionRejected, ConnectionBreaks,
       FailConnection, PayloadDone, ConnectionFinishes, ConnectionAbandoned
  <2>2. taker' = taker \/ taker' = [taker EXCEPT ![t] = "fail"]
    BY <1>3 DEF ConnectionStep, BeginConnection, ConnectionRejected, ConnectionBreaks,
       FailConnection, FailTransfer, TakeActive, PayloadDone, ConnectionFinishes,
       ConnectionAbandoned, outcome
  <2>3. \A u \in Transfers : taker'[u] = taker[u] \/ taker'[u] # "complete"
    BY <2>2 DEF TypeOK, OutcomeType
  <2> QED
    BY <1>0, <2>1, <2>3, CompletionFrame
<1>4. ASSUME NEW t \in Transfers, TransferStep(t) PROVE CompletionInv'
  <2>1. CASE Settle(t)
    <3>1. UNCHANGED <<comp, taker>>
      BY <2>1 DEF Settle
    <3>2. \A u \in Transfers : 
            part'[u] = part[u] \/ (part[u] # "installed" /\ part'[u] # "installed")
      BY <2>1 DEF Settle, RemovePart, TypeOK, FileType
    <3> QED
      BY <1>0, <3>1, <3>2, CompletionFrame
  <2>2. CASE FailSegment(t)
    <3>1. UNCHANGED <<comp, part>> /\ (taker' = taker \/ taker' = [taker EXCEPT ![t] = "fail"])
      BY <2>2 DEF FailSegment, FailTransfer, TakeActive
    <3>2. \A u \in Transfers : taker'[u] = taker[u] \/ taker'[u] # "complete"
      BY <3>1 DEF TypeOK, OutcomeType
    <3> QED
      BY <1>0, <3>1, <3>2, CompletionFrame
  <2>3. CASE CompleteLna(t) \/ CompleteWebTransport(t)
    <3>1. /\ Covered(t) /\ comp' = [comp EXCEPT ![t] = "confirming"]
          /\ UNCHANGED <<part, taker>>
      BY <2>3 DEF CompleteLna, CompleteWebTransport, outcome
    <3> QED
      BY <1>0, <3>1 DEF TypeOK, FileType, CompletionInv
  <2>4. CASE CompletionFails(t)
    <3>1. comp' = [comp EXCEPT ![t] = "none"] /\ UNCHANGED <<part, taker>>
      BY <2>4 DEF CompletionFails, EndCompletion, outcome
    <3>2. \A u \in Transfers : comp'[u] = comp[u] \/ comp'[u] = "none"
      BY <3>1 DEF TypeOK, FileType
    <3> QED
      BY <1>0, <3>1, <3>2, CompletionFrame
  <2>5. CASE ReplacePart(t)
    <3>1. /\ comp[t] # "none" /\ UNCHANGED taker
          /\ part' = [part EXCEPT ![t] = "installed"]
          /\ comp' = [comp EXCEPT ![t] = "replaced"]
      BY <2>5 DEF ReplacePart, outcome
    <3> QED
      BY <1>0, <3>1 DEF TypeOK, FileType, CompletionInv
  <2>6. CASE FinishCompletion(t)
    <3>1. part[t] = "installed" /\ UNCHANGED part
      BY <2>6 DEF FinishCompletion, CompletionInv
    <3>2. comp' = [comp EXCEPT ![t] = "none"]
      BY <2>6 DEF FinishCompletion, EndCompletion
    <3>3. taker' = taker \/ taker' = [taker EXCEPT ![t] = "complete"]
      BY <2>6 DEF FinishCompletion, TakeActive
    <3> QED
      BY <1>0, <3>1, <3>2, <3>3 DEF TypeOK, FileType, OutcomeType, CompletionInv
  <2>7. ASSUME NEW how \in Lapses, Lapse(t, how) PROVE CompletionInv'
    <3>1. UNCHANGED <<comp, part, taker>>
      BY <2>7 DEF Lapse, outcome
    <3> QED
      BY <1>0, <3>1, CompletionFrame
  <2>8. CASE FailureAborted(t)
    BY <1>0, <2>8, CompletionFrame DEF FailureAborted, outcome
  <2> QED
    BY <1>4, <2>1, <2>2, <2>3, <2>4, <2>5, <2>6, <2>7, <2>8 DEF TransferStep
<1>5. ASSUME StopServer \/ Exit \/ Exited \/ UNCHANGED vars PROVE CompletionInv'
  <2>1. UNCHANGED <<comp, part>>
    BY <1>5 DEF StopServer, Exit, Exited, vars
  <2>2. taker' = taker \/ taker' = [taker EXCEPT ![active] = "close"]
    BY <1>5 DEF StopServer, CancelAll, TakeActive, Exit, Exited, vars, outcome
  <2>3. \A u \in Transfers : taker'[u] = taker[u] \/ taker'[u] # "complete"
    BY <2>2 DEF TypeOK, OutcomeType
  <2> QED
    BY <1>0, <2>1, <2>3, CompletionFrame
<1> QED
  BY <1>1, <1>2, <1>3, <1>4, <1>5 DEF Next

\* An installed file is not renamed, removed or created again.
LEMMA PartStep ==
  ASSUME TypeOK, EntryInv, [Next]_vars, NEW t \in Transfers, part[t] = "installed"
  PROVE  part'[t] = "installed"
<1>1. CASE BridgeStep
  <2>1. \/ part' = part
        \/ \E u \in Transfers : kind[u] = "none" /\ part' = [part EXCEPT ![u] = "present"]
    BY <1>1 DEF BridgeStep, SelectFiles, ReleaseSource, CreateSend, AskDestination,
       DestinationRefused, InstallReceive, NewEntry, CancelTransfer, FinishSend, BridgeCloses,
       BridgeFails
  <2> QED
    BY <2>1 DEF EntryInv, TypeOK, FileType
<1>2. ASSUME NEW u \in Transfers, NEW s \in Segments, SegmentStep(u, s) PROVE UNCHANGED part
  BY <1>2 DEF SegmentStep, BeginLnaSegment, BeginExtent, StreamBlock, WorkerReturns,
     WorkerFails, RequestBreaks, RequestAborted, OrphanEnds, Commit
<1>3. ASSUME NEW u \in Transfers, NEW c \in Connections, ConnectionStep(u, c) PROVE UNCHANGED part
  BY <1>3 DEF ConnectionStep, BeginConnection, ConnectionRejected, ConnectionBreaks,
     FailConnection, PayloadDone, ConnectionFinishes, ConnectionAbandoned
<1>4. ASSUME NEW u \in Transfers, TransferStep(u) PROVE part'[t] = "installed"
  <2>1. CASE Settle(u)
    BY <2>1 DEF Settle, RemovePart, TypeOK, FileType
  <2>2. CASE ReplacePart(u)
    BY <2>2 DEF ReplacePart, TypeOK, FileType
  <2>3. CASE ~Settle(u) /\ ~ReplacePart(u)
    BY <1>4, <2>3 DEF TransferStep, FailSegment, FailureAborted, CompleteLna, CompleteWebTransport,
       CompletionFails, FinishCompletion, Lapse
  <2> QED
    BY <2>1, <2>2, <2>3
<1>5. CASE StopServer \/ Exit \/ Exited \/ UNCHANGED vars
  BY <1>5 DEF StopServer, Exit, Exited, vars
<1> QED
  BY <1>1, <1>2, <1>3, <1>4, <1>5 DEF Next

-----------------------------------------------------------------------------
(* Takers and their outcome.                                               *)

\* A transfer gets its taker only while it is in the slot, by take_active.
LEMMA TakerStep ==
  ASSUME TypeOK, SlotInv, [Next]_vars
  PROVE  \/ UNCHANGED taker
         \/ \E t \in Transfers : \E by : /\ active = t /\ taker[t] = "none" /\ TakeActive(t, by)
<1>1. ASSUME NEW t \in Transfers, active = t PROVE taker[t] = "none"
  BY <1>1 DEF SlotInv, OpenIffInSlot
<1>2. CASE BridgeStep
  BY <1>1, <1>2 DEF BridgeStep, SelectFiles, ReleaseSource, CreateSend, AskDestination,
     DestinationRefused, InstallReceive, CancelTransfer, FinishSend, BridgeCloses, CancelAll,
     BridgeFails, outcome, TypeOK, ManagerType
<1>3. ASSUME NEW t \in Transfers, NEW s \in Segments, SegmentStep(t, s) PROVE UNCHANGED taker
  BY <1>3 DEF SegmentStep, BeginLnaSegment, BeginExtent, StreamBlock, WorkerReturns,
     WorkerFails, RequestBreaks, RequestAborted, OrphanEnds, Commit, outcome
<1>4. ASSUME NEW t \in Transfers, NEW c \in Connections, ConnectionStep(t, c)
      PROVE  UNCHANGED taker \/ (active = t /\ TakeActive(t, "fail"))
  BY <1>4 DEF ConnectionStep, BeginConnection, ConnectionRejected, ConnectionBreaks,
     FailConnection, FailTransfer, PayloadDone, ConnectionFinishes, ConnectionAbandoned, outcome
<1>5. ASSUME NEW t \in Transfers, TransferStep(t)
      PROVE  UNCHANGED taker \/ \E by : active = t /\ TakeActive(t, by)
  BY <1>5 DEF TransferStep, Settle, FailSegment, FailureAborted, FailTransfer, CompleteLna,
     CompleteWebTransport, CompletionFails, ReplacePart, FinishCompletion, Lapse, outcome
<1>6. CASE StopServer
  BY <1>1, <1>6 DEF StopServer, CancelAll, TypeOK, ManagerType
<1>7. CASE Exit \/ Exited \/ UNCHANGED vars
  BY <1>7 DEF Exit, Exited, vars, outcome
<1> QED
  BY <1>1, <1>2, <1>3, <1>4, <1>5, <1>6, <1>7 DEF Next

\* A transfer is taken at most once, and taking it empties the slot.
LEMMA TakenOnce ==
  ASSUME TypeOK, SlotInv, [Next]_vars, NEW t \in Transfers
  PROVE  taker'[t] = taker[t] \/ (taker[t] = "none" /\ active = t /\ active' = NoTransfer)
BY TakerStep DEF TakeActive, TypeOK, OutcomeType

\* OutcomeInv holds initially.
LEMMA OutcomeInit == Init => OutcomeInv
BY DEF Init, OutcomeInv

\* OutcomeInv survives a take and changes to a .part that is not settled.
LEMMA OutcomeFrame ==
  ASSUME OutcomeInv, UNCHANGED <<settled, terminal>>,
         \A t \in Transfers : taker'[t] = taker[t] \/ taker[t] = "none",
         \A t \in Transfers : settled[t] /\ part[t] # "present" => part'[t] # "present"
  PROVE  OutcomeInv'
BY DEF OutcomeInv, Cancelled, TerminalEvent

\* OutcomeInv is inductive: cleanup happens once, after an abort, and publishes the
\* event of the abort.
LEMMA OutcomeStep ==
  ASSUME TypeOK, EntryInv, SlotInv, OutcomeInv, [Next]_vars PROVE OutcomeInv'
<1>0. \A t \in Transfers : taker'[t] = taker[t] \/ taker[t] = "none"
  BY TakenOnce
<1>1. ASSUME BridgeStep PROVE OutcomeInv'
  <2>1. UNCHANGED <<settled, terminal>>
    BY <1>1 DEF BridgeStep, SelectFiles, ReleaseSource, CreateSend, AskDestination,
       DestinationRefused, InstallReceive, CancelTransfer, FinishSend, BridgeCloses,
       BridgeFails, outcome
  <2>2. \/ part' = part
        \/ \E t \in Transfers : kind[t] = "none" /\ part' = [part EXCEPT ![t] = "present"]
    BY <1>1 DEF BridgeStep, SelectFiles, ReleaseSource, CreateSend, AskDestination,
       DestinationRefused, InstallReceive, NewEntry, CancelTransfer, FinishSend, BridgeCloses,
       BridgeFails
  <2>3. \A t \in Transfers : settled[t] /\ part[t] # "present" => part'[t] # "present"
    BY <2>2 DEF EntryInv, TypeOK, FileType
  <2> QED
    BY <1>0, <2>1, <2>3, OutcomeFrame
<1>2. ASSUME NEW t \in Transfers, NEW s \in Segments, SegmentStep(t, s) PROVE OutcomeInv'
  <2>1. UNCHANGED <<settled, terminal, part>>
    BY <1>2 DEF SegmentStep, BeginLnaSegment, BeginExtent, StreamBlock, WorkerReturns,
       WorkerFails, RequestBreaks, RequestAborted, OrphanEnds, Commit, outcome
  <2> QED
    BY <1>0, <2>1, OutcomeFrame
<1>3. ASSUME NEW t \in Transfers, NEW c \in Connections, ConnectionStep(t, c) PROVE OutcomeInv'
  <2>1. UNCHANGED <<settled, terminal, part>>
    BY <1>3 DEF ConnectionStep, BeginConnection, ConnectionRejected, ConnectionBreaks,
       FailConnection, PayloadDone, ConnectionFinishes, ConnectionAbandoned, outcome
  <2> QED
    BY <1>0, <2>1, OutcomeFrame
<1>4. ASSUME NEW t \in Transfers, TransferStep(t) PROVE OutcomeInv'
  <2>1. CASE Settle(t)
    <3>1. Cancelled(t) /\ ~settled[t] /\ terminal[t] = <<>>
      BY <2>1 DEF Settle, OutcomeInv, Cancelled
    <3>2. UNCHANGED taker /\ TerminalEvent(t)' = TerminalEvent(t)
      BY <2>1 DEF Settle, TerminalEvent
    <3>3. terminal' = [terminal EXCEPT ![t] = TerminalEvent(t)]
      <4>1. terminal' = [terminal EXCEPT ![t] = terminal[t] \o TerminalEvent(t)]
        BY <2>1 DEF Settle
      <4>2. <<>> \o TerminalEvent(t) = TerminalEvent(t)
        BY DEF TerminalEvent
      <4> QED
        BY <3>1, <4>1, <4>2
    <3>4. settled' = [settled EXCEPT ![t] = TRUE]
      BY <2>1 DEF Settle
    <3>5. \A u \in Transfers : /\ part'[t] # "present"
                               /\ u # t => part'[u] = part[u] /\ settled'[u] = settled[u]
                               /\ u # t => terminal'[u] = terminal[u]
      BY <2>1, <3>3, <3>4 DEF Settle, RemovePart, TypeOK, FileType, OutcomeType
    <3>6. settled'[t] /\ terminal'[t] = TerminalEvent(t)
      BY <3>3, <3>4 DEF TypeOK, OutcomeType
    <3>7. ASSUME NEW u \in Transfers, u # t
          PROVE /\ settled'[u] => Cancelled(u)' /\ part'[u] # "present"
                /\ \/ terminal'[u] = <<>>
                   \/ taker'[u] = "complete" /\ terminal'[u] = <<"complete">>
                   \/ settled'[u] /\ terminal'[u] = TerminalEvent(u)'
      BY <3>2, <3>5, <3>7 DEF OutcomeInv, Cancelled, TerminalEvent
    <3> QED
      BY <3>1, <3>2, <3>5, <3>6, <3>7 DEF OutcomeInv, Cancelled
  <2>2. CASE FinishCompletion(t) /\ active = t
    <3>1. taker[t] = "none"
      BY <2>2 DEF SlotInv, OpenIffInSlot
    <3>2. ~settled[t] /\ terminal[t] = <<>>
      BY <3>1 DEF OutcomeInv, Cancelled
    <3>3. /\ taker' = [taker EXCEPT ![t] = "complete"]
          /\ terminal' = [terminal EXCEPT ![t] = Append(terminal[t], "complete")]
          /\ UNCHANGED <<settled, part>>
      BY <2>2 DEF FinishCompletion, TakeActive
    <3>4. terminal' = [terminal EXCEPT ![t] = <<"complete">>]
      BY <3>2, <3>3
    <3> QED
      BY <3>2, <3>3, <3>4 DEF OutcomeInv, Cancelled, TerminalEvent, TypeOK, OutcomeType
  <2>3. ASSUME ~Settle(t), ~(FinishCompletion(t) /\ active = t) PROVE OutcomeInv'
    <3>1. UNCHANGED <<settled, terminal>>
      BY <1>4, <2>3 DEF TransferStep, FailSegment, FailureAborted, CompleteLna, CompleteWebTransport,
         CompletionFails, ReplacePart, FinishCompletion, Lapse, outcome
    <3>2. part' = part \/ part' = [part EXCEPT ![t] = "installed"]
      BY <1>4, <2>3 DEF TransferStep, FailSegment, FailureAborted, CompleteLna, CompleteWebTransport,
         CompletionFails, ReplacePart, FinishCompletion, Lapse
    <3>3. \A u \in Transfers : settled[u] /\ part[u] # "present" => part'[u] # "present"
      BY <3>2 DEF TypeOK, FileType
    <3> QED
      BY <1>0, <3>1, <3>3, OutcomeFrame
  <2> QED
    BY <2>1, <2>2, <2>3
<1>5. ASSUME StopServer \/ Exit \/ Exited \/ UNCHANGED vars PROVE OutcomeInv'
  <2>1. UNCHANGED <<settled, terminal, part>>
    BY <1>5 DEF StopServer, Exit, Exited, vars, outcome
  <2> QED
    BY <1>0, <2>1, OutcomeFrame
<1> QED
  BY <1>1, <1>2, <1>3, <1>4, <1>5 DEF Next

-----------------------------------------------------------------------------
(* Shutdown.                                                               *)

\* Nothing moves after the process has exited.
LEMMA ExitIsFinal ==
  ASSUME server = "exited", [Next]_vars
  PROVE  UNCHANGED vars
<1>1. ~Alive
  BY DEF Alive
<1>2. CASE BridgeStep
  BY <1>1, <1>2 DEF BridgeStep, SelectFiles, ReleaseSource, CreateSend, AskDestination,
     DestinationRefused, InstallReceive, CancelTransfer, FinishSend, BridgeCloses, BridgeFails
<1>3. ASSUME NEW t \in Transfers, NEW s \in Segments PROVE ~SegmentStep(t, s)
  BY <1>1 DEF SegmentStep, BeginLnaSegment, BeginExtent, StreamBlock, WorkerReturns,
     WorkerFails, RequestBreaks, RequestAborted, OrphanEnds, Commit
<1>4. ASSUME NEW t \in Transfers, NEW c \in Connections PROVE ~ConnectionStep(t, c)
  BY <1>1 DEF ConnectionStep, BeginConnection, ConnectionRejected, ConnectionBreaks,
     FailConnection, PayloadDone, ConnectionFinishes, ConnectionAbandoned
<1>5. ASSUME NEW t \in Transfers PROVE ~TransferStep(t)
  BY <1>1 DEF TransferStep, Settle, FailSegment, FailureAborted, CompleteLna, CompleteWebTransport,
     CompletionFails, ReplacePart, FinishCompletion, Lapse
<1>6. ~StopServer /\ ~Exit
  BY DEF StopServer, Exit
<1> QED
  BY <1>2, <1>3, <1>4, <1>5, <1>6 DEF Next, Exited

\* ShutdownInv holds initially.
LEMMA ShutdownInit == Init => ShutdownInv
BY DEF Init, ShutdownInv, Cancelled

\* ShutdownInv survives every take but a cancel command, until the exit.
LEMMA ShutdownFrame ==
  ASSUME ShutdownInv, server # "exited", UNCHANGED <<server, bridge, settled>>,
         active' = active \/ active' = NoTransfer,
         \A t \in Transfers : taker'[t] = taker[t] \/ taker'[t] # "cancel"
  PROVE  ShutdownInv'
BY DEF ShutdownInv, Cancelled

\* ShutdownInv is inductive: the Bridge runs one cancel at a time, and the Agent
\* exits only after the cleanup of whatever shutdown took.
LEMMA ShutdownStep ==
  ASSUME TypeOK, SlotInv, OutcomeInv, ShutdownInv, [Next]_vars PROVE ShutdownInv'
<1>1. CASE server = "exited"
  <2>1. UNCHANGED <<active, taker, settled, bridge, server>>
    BY <1>1, ExitIsFinal DEF vars, manager, outcome
  <2> QED
    BY <2>1 DEF ShutdownInv, Cancelled
<1>2. ASSUME server # "exited", BridgeStep PROVE ShutdownInv'
  <2>1. /\ server = "running" /\ server' = server /\ bridge \in {"ready", "saving"}
        /\ UNCHANGED settled
    BY <1>2 DEF BridgeStep, SelectFiles, ReleaseSource, CreateSend, AskDestination,
       DestinationRefused, InstallReceive, CancelTransfer, FinishSend, BridgeCloses,
       BridgeFails, outcome, ShutdownInv, TypeOK, TaskType
  <2>2. ASSUME NEW t \in Transfers, CancelTransfer(t) PROVE ShutdownInv'
    <3>1. bridge' = "busy" /\ taker' = [taker EXCEPT ![t] = "cancel"]
      BY <2>2 DEF CancelTransfer, TakeActive
    <3> QED
      BY <2>1, <3>1 DEF ShutdownInv, TypeOK, OutcomeType
  <2>3. ASSUME ~ \E t \in Transfers : CancelTransfer(t) PROVE ShutdownInv'
    <3>1. taker' = taker \/ \E t \in Transfers, by \in {"finish", "close"} :
            taker' = [taker EXCEPT ![t] = by]
      BY <1>2, <2>3 DEF BridgeStep, SelectFiles, ReleaseSource, CreateSend, AskDestination,
         DestinationRefused, InstallReceive, FinishSend, TakeActive, BridgeCloses, CancelAll,
         BridgeFails, outcome, TypeOK, ManagerType
    <3>2. \A t \in Transfers : taker'[t] = taker[t] \/ taker'[t] # "cancel"
      BY <3>1 DEF TypeOK, OutcomeType
    <3> QED
      BY <2>1, <3>2 DEF ShutdownInv
  <2> QED
    BY <2>2, <2>3
<1>3. ASSUME server # "exited", NEW t \in Transfers, NEW s \in Segments, SegmentStep(t, s)
      PROVE  ShutdownInv'
  <2>1. UNCHANGED <<active, taker, settled, bridge, server>>
    BY <1>3 DEF SegmentStep, BeginLnaSegment, BeginExtent, StreamBlock, WorkerReturns,
       WorkerFails, RequestBreaks, RequestAborted, OrphanEnds, Commit, manager, outcome
  <2> QED
    BY <1>3, <2>1, ShutdownFrame
<1>4. ASSUME server # "exited", NEW t \in Transfers, NEW c \in Connections, ConnectionStep(t, c)
      PROVE  ShutdownInv'
  <2>1. /\ UNCHANGED <<settled, bridge, server>>
        /\ UNCHANGED <<active, taker>> \/ TakeActive(t, "fail")
    BY <1>4 DEF ConnectionStep, BeginConnection, ConnectionRejected, ConnectionBreaks,
       FailConnection, FailTransfer, PayloadDone, ConnectionFinishes, ConnectionAbandoned,
       manager, outcome
  <2>2. \A u \in Transfers : taker'[u] = taker[u] \/ taker'[u] # "cancel"
    BY <2>1 DEF TakeActive, TypeOK, OutcomeType
  <2> QED
    BY <1>4, <2>1, <2>2, ShutdownFrame DEF TakeActive
<1>5. ASSUME server # "exited", NEW t \in Transfers, TransferStep(t) PROVE ShutdownInv'
  <2>1. CASE Settle(t)
    <3>1. /\ ~settled[t] /\ settled' = [settled EXCEPT ![t] = TRUE]
          /\ UNCHANGED <<active, taker, server>>
          /\ bridge' = IF taker[t] = "cancel" THEN "ready" ELSE bridge
      BY <2>1 DEF Settle
    <3>2. \A u \in Transfers : settled'[u] <=> settled[u] \/ u = t
      BY <3>1 DEF TypeOK, OutcomeType
    <3>3. CASE taker[t] = "cancel"
      <4>1. \A u \in Transfers : taker[u] = "cancel" => settled'[u]
        BY <3>1, <3>2, <3>3 DEF ShutdownInv
      <4>2. server = "running"
        BY <3>1, <3>3 DEF ShutdownInv, TypeOK, TaskType
      <4> QED
        BY <3>1, <4>1, <4>2 DEF ShutdownInv
    <3>4. CASE taker[t] # "cancel"
      BY <1>5, <3>1, <3>2, <3>4 DEF ShutdownInv, Cancelled
    <3> QED
      BY <3>3, <3>4
  <2>2. CASE ~Settle(t)
    <3>1. /\ UNCHANGED <<settled, bridge, server>>
          /\ \/ UNCHANGED <<active, taker>>
             \/ \E by \in {"fail", "complete"} : TakeActive(t, by)
      BY <1>5, <2>2 DEF TransferStep, FailSegment, FailureAborted, FailTransfer, CompleteLna,
         CompleteWebTransport, CompletionFails, ReplacePart, FinishCompletion, Lapse,
         manager, outcome
    <3>2. \A u \in Transfers : taker'[u] = taker[u] \/ taker'[u] # "cancel"
      BY <3>1 DEF TakeActive, TypeOK, OutcomeType
    <3> QED
      BY <1>5, <3>1, <3>2, ShutdownFrame DEF TakeActive
  <2> QED
    BY <2>1, <2>2
<1>6. CASE StopServer
  <2>1. /\ bridge = "ended" /\ server' = "stopping" /\ UNCHANGED <<bridge, settled>>
        /\ CancelAll
    BY <1>6 DEF StopServer
  <2>2. active' = NoTransfer /\ (taker' = taker \/ taker' = [taker EXCEPT ![active] = "close"])
    BY <2>1 DEF CancelAll, TakeActive
  <2>3. \A u \in Transfers : taker'[u] = taker[u] \/ taker'[u] # "cancel"
    BY <2>2 DEF TypeOK, OutcomeType
  <2> QED
    BY <2>1, <2>2, <2>3 DEF ShutdownInv
<1>7. CASE Exit
  <2>1. /\ server = "stopping" /\ server' = "exited"
        /\ UNCHANGED <<active, bridge, taker, settled>>
        /\ \A t \in Transfers : Cancelled(t) => settled[t]
    BY <1>7 DEF Exit, manager, outcome
  <2> QED
    BY <2>1 DEF ShutdownInv, Cancelled
<1>8. CASE Exited \/ UNCHANGED vars
  BY <1>8 DEF Exited, vars, manager, outcome, ShutdownInv, Cancelled
<1> QED
  BY <1>1, <1>2, <1>3, <1>4, <1>5, <1>6, <1>7, <1>8 DEF Next

-----------------------------------------------------------------------------
(* Exclusion on the LNA plane.                                             *)

\* ExclusionInv holds initially.
LEMMA ExclusionInit == Init => ExclusionInv
BY DEF Init, ExclusionInv

\* ExclusionInv survives the end of leases, failures and completions.
LEMMA ExclusionFrame ==
  ASSUME ExclusionInv,
         \A t \in Transfers : plane'[t] = "lna" /\ comp'[t] # "none" =>
                              plane[t] = "lna" /\ comp[t] # "none",
         \A t \in Transfers, s \in Segments :
           plane'[t] = "lna" /\ InFlight(t, s)' => plane[t] = "lna" /\ InFlight(t, s),
         \A t \in Transfers : lnaFailing[t] = 0 => lnaFailing'[t] = 0
  PROVE  ExclusionInv'
BY DEF ExclusionInv

\* ExclusionInv is inductive: the permits of the semaphore keep completions and
\* segment requests apart.
LEMMA ExclusionStep ==
  ASSUME TypeOK, EntryInv, ExclusionInv, [Next]_vars PROVE ExclusionInv'
<1>1. ASSUME BridgeStep PROVE ExclusionInv'
  <2>1. UNCHANGED <<comp, io, lnaFailing>>
    BY <1>1 DEF BridgeStep, SelectFiles, ReleaseSource, CreateSend, AskDestination,
       DestinationRefused, InstallReceive, CancelTransfer, FinishSend, BridgeCloses,
       BridgeFails, leases, network
  <2>2. plane' = plane \/ \E t \in Transfers, p \in Planes :
          kind[t] = "none" /\ plane' = [plane EXCEPT ![t] = p]
    BY <1>1 DEF BridgeStep, SelectFiles, ReleaseSource, CreateSend, AskDestination,
       DestinationRefused, InstallReceive, NewEntry, CancelTransfer, FinishSend,
       BridgeCloses, BridgeFails, manager
  <2>3. \A t \in Transfers : \/ plane'[t] = plane[t]
                             \/ comp[t] = "none" /\ \A s \in Segments : io[t][s] = "none"
    BY <2>2 DEF EntryInv, TypeOK, ManagerType
  <2> QED
    BY <2>1, <2>3, ExclusionFrame DEF InFlight
<1>2. ASSUME NEW t \in Transfers, NEW s \in Segments, SegmentStep(t, s) PROVE ExclusionInv'
  <2>1. UNCHANGED <<plane, comp>>
    BY <1>2 DEF SegmentStep, BeginLnaSegment, BeginExtent, StreamBlock, WorkerReturns,
       WorkerFails, RequestBreaks, RequestAborted, OrphanEnds, Commit, manager
  <2>2. CASE BeginLnaSegment(t, s)
    <3>1. \A u \in Transfers : ~(plane[u] = "lna" /\ comp[u] # "none")
      BY <2>2 DEF BeginLnaSegment, SomePermitFree, LnaCompleting, TypeOK, FileType
    <3> QED
      BY <2>1, <3>1 DEF ExclusionInv
  <2>3. CASE plane[t] = "lna" /\ InFlight(t, s)
    <3>1. \A u \in Transfers : ~(plane[u] = "lna" /\ comp[u] # "none")
      BY <2>3 DEF ExclusionInv
    <3> QED
      BY <2>1, <3>1 DEF ExclusionInv
  <2>4. CASE ~BeginLnaSegment(t, s) /\ ~(plane[t] = "lna" /\ InFlight(t, s))
    <3>1. UNCHANGED lnaFailing
      BY <1>2, <2>4 DEF SegmentStep, BeginExtent, StreamBlock, WorkerReturns, WorkerFails,
         Attended, RequestBreaks, RequestAborted, OrphanEnds, Commit, network
    <3>2. io' = io \/ \E v \in {"none", "streaming", "written", "orphan"} :
            io' = [io EXCEPT ![t][s] = v] /\ (plane[t] = "lna" => v = "none")
      <4>1. CASE BeginExtent(t, s)
        BY <4>1 DEF BeginExtent, Reserve
      <4>2. CASE StreamBlock(t, s)
        BY <4>2 DEF StreamBlock
      <4>3. CASE OrphanEnds(t, s) \/ WorkerFails(t, s)
        BY <4>3 DEF OrphanEnds, WorkerFails, DropLease
      <4>4. CASE Commit(t, s)
        BY <4>4 DEF Commit
      <4>5. CASE WorkerReturns(t, s) \/ RequestBreaks(t, s) \/ RequestAborted(t, s)
        BY <2>4, <4>5 DEF WorkerReturns, RequestBreaks, RequestAborted, Attended
      <4> QED
        BY <1>2, <2>4, <4>1, <4>2, <4>3, <4>4, <4>5 DEF SegmentStep
    <3>3. \A u \in Transfers, r \in Segments :
            plane[u] = "lna" /\ InFlight(u, r)' => InFlight(u, r)
      <4> SUFFICES ASSUME NEW u \in Transfers, NEW r \in Segments,
                          plane[u] = "lna", InFlight(u, r)'
                   PROVE  InFlight(u, r)
        OBVIOUS
      <4>1. CASE u = t /\ r = s
        BY <2>4, <3>2, <4>1 DEF InFlight, TypeOK, LeaseType
      <4>2. CASE ~(u = t /\ r = s)
        <5>1. io'[u][r] = io[u][r]
          BY <3>2, <4>2 DEF TypeOK, LeaseType
        <5> QED
          BY <5>1 DEF InFlight
      <4> QED
        BY <4>1, <4>2
    <3> QED
      BY <2>1, <3>1, <3>3, ExclusionFrame
  <2> QED
    BY <2>2, <2>3, <2>4
<1>3. ASSUME NEW t \in Transfers, NEW c \in Connections, ConnectionStep(t, c)
      PROVE  ExclusionInv'
  <2>1. UNCHANGED <<plane, comp, io, lnaFailing>>
    BY <1>3 DEF ConnectionStep, BeginConnection, ConnectionRejected, ConnectionBreaks,
       FailConnection, PayloadDone, ConnectionFinishes, ConnectionAbandoned, manager, leases
  <2> QED
    BY <2>1, ExclusionFrame DEF InFlight
<1>4. ASSUME NEW t \in Transfers, TransferStep(t) PROVE ExclusionInv'
  <2>1. UNCHANGED <<plane, io>>
    BY <1>4 DEF TransferStep, Settle, FailSegment, FailureAborted, CompleteLna, CompleteWebTransport,
       CompletionFails, ReplacePart, FinishCompletion, Lapse, manager, leases
  <2>2. CASE CompleteLna(t)
    <3>1. /\ comp' = [comp EXCEPT ![t] = "confirming"] /\ UNCHANGED lnaFailing
          /\ LnaLeases = {} /\ LnaFailed = {} /\ ~LnaCompleting
      BY <2>2 DEF CompleteLna, AllPermitsFree, network
    <3>2. \A u \in Transfers, s \in Segments : ~(plane[u] = "lna" /\ InFlight(u, s))
      <4> SUFFICES ASSUME NEW u \in Transfers, NEW s \in Segments,
                          plane[u] = "lna", InFlight(u, s)
                   PROVE  <<u, s>> \in LnaLeases
        BY <3>1
      <4> QED
        BY DEF LnaLeases
    <3>3. \A u \in Transfers : lnaFailing[u] = 0
      <4> SUFFICES ASSUME NEW u \in Transfers, lnaFailing[u] # 0 PROVE FALSE
        OBVIOUS
      <4>1. 1 \in 1 .. HttpParallelism /\ 1 <= lnaFailing[u]
        BY ShapeAssumption DEF TypeOK, NetworkType
      <4>2. <<u, 1>> \in LnaFailed
        BY <4>1 DEF LnaFailed
      <4> QED
        BY <3>1, <4>2
    <3>4. \A u \in Transfers : plane[u] = "lna" => comp[u] = "none"
      BY <3>1 DEF LnaCompleting, TypeOK, FileType
    <3> QED
      BY <2>1, <3>1, <3>2, <3>3, <3>4 DEF ExclusionInv, InFlight, TypeOK, FileType
  <2>3. CASE FailSegment(t) \/ FailureAborted(t)
    <3>1. /\ UNCHANGED comp
          /\ lnaFailing[t] > 0 /\ lnaFailing' = [lnaFailing EXCEPT ![t] = @ - 1]
      BY <2>3 DEF FailSegment, FailureAborted
    <3>2. \A u \in Transfers : lnaFailing[u] = 0 => lnaFailing'[u] = 0
      BY <3>1 DEF TypeOK, NetworkType
    <3> QED
      BY <2>1, <3>1, <3>2, ExclusionFrame DEF InFlight
  <2>4. CASE ~CompleteLna(t) /\ ~FailSegment(t) /\ ~FailureAborted(t)
    <3>1. UNCHANGED lnaFailing
      BY <1>4, <2>4 DEF TransferStep, Settle, CompleteWebTransport, CompletionFails,
         ReplacePart, FinishCompletion, Lapse, network
    <3>2. \/ UNCHANGED comp
          \/ comp' = [comp EXCEPT ![t] = "none"]
          \/ \E v : comp' = [comp EXCEPT ![t] = v] /\ (comp[t] # "none" \/ plane[t] = "wt")
      BY <1>4, <2>4 DEF TransferStep, Settle, CompleteWebTransport, CompletionFails,
         ReplacePart, FinishCompletion, EndCompletion, Lapse
    <3>3. \A u \in Transfers : plane[u] = "lna" /\ comp'[u] # "none" => comp[u] # "none"
      BY <3>2 DEF TypeOK, FileType
    <3> QED
      BY <2>1, <3>1, <3>3, ExclusionFrame DEF InFlight
  <2> QED
    BY <2>2, <2>3, <2>4
<1>5. ASSUME StopServer \/ Exit \/ Exited \/ UNCHANGED vars PROVE ExclusionInv'
  <2>1. UNCHANGED <<plane, comp, io, lnaFailing>>
    BY <1>5 DEF StopServer, Exit, Exited, vars, manager, leases, network
  <2> QED
    BY <2>1, ExclusionFrame DEF InFlight
<1> QED
  BY <1>1, <1>2, <1>3, <1>4, <1>5 DEF Next

-----------------------------------------------------------------------------
(* The theorems.                                                           *)

\* IInv holds in every reachable state.
THEOREM Inductive == Spec => []IInv
<1>1. Init => IInv
  BY TypeInit, LeaseInit, EntryInit, SlotInit, CompletionInit, OutcomeInit, ShutdownInit,
     ExclusionInit DEF IInv
<1>2. IInv /\ [Next]_vars => IInv'
  BY TypeStep, LeaseStep, EntryStep, SlotStep, CompletionStep, OutcomeStep, ShutdownStep,
     ExclusionStep DEF IInv
<1> QED
  BY <1>1, <1>2, PTL DEF Spec

\* Type correctness: in particular no block is ever moved past its segment.
THEOREM TypeCorrect == Spec => []TypeOK
BY Inductive, PTL DEF IInv

\* A completed upload is whole: CompletionInv gives the coverage, LeaseInv the
\* blocks and the absence of leases.
LEMMA WholeLemma == IInv => InstalledIsWhole
BY DEF IInv, TypeOK, LeaseType, LeaseInv, CompletionInv, Covered, InstalledIsWhole

\* The final name only ever receives a whole file.
THEOREM InstalledWhole == Spec => []InstalledIsWhole
BY Inductive, WholeLemma, PTL

\* A transfer that nobody has taken is the one in the slot.
THEOREM SlotExact == Spec => []OpenIffInSlot
<1>1. IInv => OpenIffInSlot
  BY DEF IInv, SlotInv
<1> QED
  BY <1>1, Inductive, PTL

\* A segment is reserved exactly while one owner has its lease.
THEOREM LeasesExact == Spec => []ReservedIffLeased
<1>1. IInv => ReservedIffLeased
  BY DEF IInv, LeaseInv, ReservedIffLeased
<1> QED
  BY <1>1, Inductive, PTL

\* At most one terminal event per transfer, and `complete` only after the rename.
THEOREM OutcomeUnique == Spec => []OneOutcome
<1>1. ASSUME IInv, NEW t \in Transfers
      PROVE  /\ Len(terminal[t]) <= 1
             /\ terminal[t] # <<>> => active # t
             /\ terminal[t] = <<"complete">> => part[t] = "installed"
  <2>1. /\ OutcomeInv /\ SlotInv /\ CompletionInv
    BY <1>1 DEF IInv
  <2>2. terminal[t] # <<>> => taker[t] # "none"
    BY <2>1 DEF OutcomeInv, Cancelled
  <2>3. /\ Len(<<>>) = 0 /\ Len(<<"complete">>) = 1 /\ Len(TerminalEvent(t)) <= 1
        /\ TerminalEvent(t) # <<"complete">> /\ <<"complete">> # <<>>
    BY DEF TerminalEvent
  <2>4. terminal[t] = <<"complete">> => taker[t] = "complete"
    BY <2>1, <2>3 DEF OutcomeInv
  <2>5. Len(terminal[t]) <= 1
    <3>1. CASE terminal[t] = <<>>
      BY <3>1
    <3>2. CASE terminal[t] = <<"complete">>
      BY <3>2
    <3>3. CASE terminal[t] = TerminalEvent(t)
      BY <2>3, <3>3
    <3> QED
      BY <2>1, <3>1, <3>2, <3>3 DEF OutcomeInv
  <2> QED
    BY <2>1, <2>2, <2>4, <2>5 DEF SlotInv, OpenIffInSlot, CompletionInv
<1>2. IInv => OneOutcome
  BY <1>1 DEF OneOutcome
<1> QED
  BY <1>2, Inductive, PTL

\* A .part on disk has someone who will rename or remove it.
THEOREM PartsOwned == Spec => []PartHasOwner
<1>1. ASSUME IInv, NEW t \in Transfers, part[t] = "present"
      PROVE  active = t \/ (Cancelled(t) /\ ~settled[t]) \/ taker[t] = "finish"
  <2>1. kind[t] # "none" /\ taker[t] # "complete" /\ ~settled[t]
    BY <1>1 DEF IInv, EntryInv, CompletionInv, OutcomeInv
  <2>2. taker[t] = "none" => active = t
    BY <1>1, <2>1 DEF IInv, SlotInv, OpenIffInSlot
  <2> QED
    BY <1>1, <2>1, <2>2 DEF IInv, TypeOK, OutcomeType, Cancelled
<1>2. IInv => PartHasOwner
  BY <1>1 DEF PartHasOwner
<1> QED
  BY <1>2, Inductive, PTL

\* A completion over LNA HTTP excludes every other LNA request.
THEOREM CompletionExclusive == Spec => []CompletionIsExclusive
<1>1. ASSUME IInv, LnaCompleting
      PROVE  /\ LnaLeases = {} /\ LnaFailed = {}
             /\ \A t, u \in Transfers :
                  plane[t] = "lna" /\ plane[u] = "lna"
                  /\ comp[t] # "none" /\ comp[u] # "none" => t = u
  <2>1. PICK t \in Transfers : plane[t] = "lna" /\ comp[t] # "none"
    BY <1>1 DEF LnaCompleting
  <2>2. \A u \in Transfers : /\ plane[u] = "lna" => \A s \in Segments : ~InFlight(u, s)
                             /\ lnaFailing[u] = 0
    BY <1>1, <2>1 DEF IInv, ExclusionInv
  <2>3. LnaLeases = {}
    BY <2>2 DEF LnaLeases
  <2>4. LnaFailed = {}
    BY <2>2, ShapeAssumption DEF LnaFailed
  <2> QED
    BY <1>1, <2>3, <2>4 DEF IInv, ExclusionInv
<1>2. IInv => CompletionIsExclusive
  BY <1>1 DEF CompletionIsExclusive
<1> QED
  BY <1>2, Inductive, PTL

\* After the exit the slot is empty and no .part is left, but for finish-send.
THEOREM ExitClean == Spec => []ExitIsClean
<1>1. IInv /\ PartHasOwner => ExitIsClean
  BY SlotAssumption DEF IInv, ShutdownInv, PartHasOwner, ExitIsClean
<1> QED
  BY <1>1, Inductive, PartsOwned, PTL

\* An installed file is never written again.
THEOREM InstalledFrozen == Spec => InstalledIsFrozen
<1>1. ASSUME IInv, [Next]_vars, NEW t \in Transfers, part[t] = "installed"
      PROVE  part'[t] = "installed" /\ seg'[t] = seg[t] /\ pos'[t] = pos[t]
  <2>1. TypeOK /\ LeaseInv /\ CompletionInv /\ EntryInv
    BY <1>1 DEF IInv
  <2>2. TypeOK'
    BY <1>1, <2>1, TypeStep
  <2>3. \A s \in Segments : seg[t][s] = "complete"
    BY <1>1, <2>1 DEF CompletionInv, Covered
  <2>4. \A s \in Segments : seg'[t][s] = seg[t][s] /\ pos'[t][s] = pos[t][s]
    BY <1>1, <2>1, <2>3, AcceptedStep
  <2>5. part'[t] = "installed"
    BY <1>1, <2>1, PartStep
  <2> QED
    BY <2>2, <2>1, <2>4, <2>5 DEF TypeOK, LeaseType
<1>2. IInv /\ [Next]_vars => \A t \in Transfers : part[t] = "installed" =>
         /\ part'[t] = "installed"
         /\ seg'[t] = seg[t] /\ pos'[t] = pos[t]
  BY <1>1
<1> QED
  BY <1>2, Inductive, PTL DEF Spec, InstalledIsFrozen

\* A completed segment is never leased again.
THEOREM AcceptedAtMostOnce == Spec => AcceptedOnce
<1>1. IInv /\ [Next]_vars => [\A t \in Transfers, s \in Segments :
        seg[t][s] = "complete" => seg'[t][s] = "complete" /\ pos'[t][s] = pos[t][s]]_vars
  BY AcceptedStep DEF IInv
<1> QED
  BY <1>1, Inductive, PTL DEF Spec, AcceptedOnce

\* The slot is handed over only through empty, and a taken transfer never returns.
THEOREM SlotHandedOver == Spec => SlotHandover
<1>1. ASSUME IInv, [Next]_vars, active # NoTransfer PROVE active' \in {active, NoTransfer}
  <2>1. SlotInv
    BY <1>1 DEF IInv
  <2>2. CASE BridgeStep
    BY <1>1, <2>1, <2>2 DEF BridgeStep, SelectFiles, ReleaseSource, CreateSend, AskDestination,
       DestinationRefused, InstallReceive, CancelTransfer, FinishSend, TakeActive, BridgeCloses,
       CancelAll, BridgeFails, manager, SlotInv
  <2>3. ASSUME NEW t \in Transfers, NEW s \in Segments, SegmentStep(t, s) PROVE active' = active
    BY <2>3 DEF SegmentStep, BeginLnaSegment, BeginExtent, StreamBlock, WorkerReturns,
       WorkerFails, RequestBreaks, RequestAborted, OrphanEnds, Commit, manager
  <2>4. ASSUME NEW t \in Transfers, NEW c \in Connections, ConnectionStep(t, c)
        PROVE  active' \in {active, NoTransfer}
    BY <2>4 DEF ConnectionStep, BeginConnection, ConnectionRejected, ConnectionBreaks,
       FailConnection, FailTransfer, TakeActive, PayloadDone, ConnectionFinishes,
       ConnectionAbandoned, manager
  <2>5. ASSUME NEW t \in Transfers, TransferStep(t) PROVE active' \in {active, NoTransfer}
    BY <2>5 DEF TransferStep, Settle, FailSegment, FailureAborted, FailTransfer, TakeActive, CompleteLna,
       CompleteWebTransport, CompletionFails, ReplacePart, FinishCompletion, Lapse, manager
  <2>6. CASE StopServer \/ Exit \/ Exited \/ UNCHANGED vars
    BY <2>6 DEF StopServer, CancelAll, TakeActive, Exit, Exited, vars, manager
  <2> QED
    BY <1>1, <2>2, <2>3, <2>4, <2>5, <2>6 DEF Next
<1>2. ASSUME IInv, IInv', [Next]_vars, NEW t \in Transfers, taker[t] # "none"
      PROVE  taker'[t] = taker[t] /\ active' # t
  <2>1. taker'[t] = taker[t]
    BY <1>2, TakenOnce DEF IInv
  <2>2. OpenIffInSlot'
    BY <1>2 DEF IInv, SlotInv
  <2> QED
    BY <1>2, <2>1, <2>2 DEF OpenIffInSlot
<1>3. IInv /\ IInv' /\ [Next]_vars =>
        /\ active # NoTransfer => active' \in {active, NoTransfer}
        /\ \A t \in Transfers : taker[t] # "none" => taker'[t] = taker[t] /\ active' # t
  BY <1>1, <1>2
<1> QED
  BY <1>3, Inductive, PTL DEF Spec, SlotHandover

-----------------------------------------------------------------------------
(* The contract *)

Stage    == [t \in Transfers |-> StageOf(t)]
Accepted == [t \in Transfers |-> AcceptedOf(t)]

\* A step of the contract, or none.
ContractStep == Contract!Next \/ UNCHANGED Contract!contractVars

\* What the contract sees of a state, by the names used here.
LEMMA ContractView ==
  /\ Contract!contractVars = <<active, Stage, Accepted, part, terminal>>
  /\ UNCHANGED <<active, Stage, Accepted, part, terminal>> => ContractStep
BY DEF Contract!contractVars, Stage, Accepted, ContractStep

\* The stage depends on the kind and the taker, the coverage on the tracker.
LEMMA ViewFrame ==
  /\ UNCHANGED <<kind, taker>> => UNCHANGED Stage
  /\ UNCHANGED seg => UNCHANGED Accepted
BY DEF Stage, StageOf, Accepted, AcceptedOf

\* A step that touches none of the mapped variables is a stutter.
LEMMA Stutter ==
  ASSUME UNCHANGED <<active, kind, taker, seg, part, terminal>>
  PROVE  ContractStep
BY ContractView, ViewFrame

\* A new entry in the empty slot is a grant.
LEMMA GrantStep ==
  ASSUME IInv, NEW t \in Transfers, NEW k \in {"send", "receive"}, NEW p, NewEntry(t, k, p),
         active = NoTransfer, active' = t, UNCHANGED <<seg, taker, terminal>>,
         NEW f \in {"none", "present"}, part' = [part EXCEPT ![t] = f]
  PROVE  ContractStep
<1>1. kind[t] = "none" /\ taker[t] = "none"
  BY DEF NewEntry, IInv, EntryInv
<1>2. kind' = [kind EXCEPT ![t] = k] /\ kind \in [Transfers -> {"none", "send", "receive"}]
  BY DEF NewEntry, IInv, TypeOK, ManagerType
<1>3. Stage' = [Stage EXCEPT ![t] = "open"]
  <2>1. \A u \in Transfers : Stage'[u] = IF u = t THEN "open" ELSE Stage[u]
    BY <1>1, <1>2 DEF Stage, StageOf
  <2> QED
    BY <2>1 DEF Stage
<1>4. Stage[t] = "new" /\ UNCHANGED Accepted
  BY <1>1, ViewFrame DEF Stage, StageOf
<1>5. Contract!Grant(t, f)
  BY <1>3, <1>4 DEF Contract!Grant, Stage, Accepted
<1> QED
  BY <1>5 DEF ContractStep, Contract!Next

\* take_active changes the stage of what is in the slot.
LEMMA TakenStage ==
  ASSUME IInv, NEW t \in Transfers, active = t, NEW by, by # "none",
         TakeActive(t, by), UNCHANGED kind
  PROVE  Stage' = [Stage EXCEPT ![t] = by]
<1>1. kind[t] # "none" /\ taker \in [Transfers ->
        {"none", "complete", "finish", "cancel", "fail", "close"}]
  BY DEF IInv, SlotInv, OpenIffInSlot, TypeOK, OutcomeType
<1>2. taker' = [taker EXCEPT ![t] = by]
  BY DEF TakeActive
<1>3. \A u \in Transfers : Stage'[u] = IF u = t THEN by ELSE Stage[u]
  BY <1>1, <1>2 DEF Stage, StageOf
<1> QED
  BY <1>3 DEF Stage

\* Every taker but the completion leaves the file and the events alone.
LEMMA LeaveStep ==
  ASSUME IInv, NEW t \in Transfers, active = t,
         NEW how \in {"finish", "cancel", "fail", "close"}, TakeActive(t, how),
         UNCHANGED <<kind, seg, part, terminal>>
  PROVE  ContractStep
<1>1. Stage' = [Stage EXCEPT ![t] = how] /\ UNCHANGED Accepted
  BY TakenStage, ViewFrame
<1>2. Contract!Leave(t, how)
  BY <1>1 DEF Contract!Leave, TakeActive, Stage, Accepted
<1> QED
  BY <1>2 DEF ContractStep, Contract!Next

\* The end of a completion is a completion while the transfer is in the slot.
LEMMA CompleteStep ==
  ASSUME IInv, NEW t \in Transfers, FinishCompletion(t)
  PROVE  ContractStep
<1>1. CASE active = t
  <2>1. part[t] = "installed" /\ taker[t] = "none"
    BY <1>1 DEF FinishCompletion, IInv, CompletionInv, SlotInv, OpenIffInSlot
  <2>2. terminal[t] = <<>>
    BY <2>1 DEF IInv, OutcomeInv, Cancelled
  <2>3. Stage' = [Stage EXCEPT ![t] = "complete"] /\ UNCHANGED Accepted
    BY <1>1, TakenStage, ViewFrame DEF FinishCompletion, leases
  <2>4. terminal' = [terminal EXCEPT ![t] = <<"complete">>]
    <3>1. Append(terminal[t], "complete") = <<"complete">>
      BY <2>2
    <3> QED
      BY <1>1, <3>1 DEF FinishCompletion
  <2>5. Contract!Complete(t)
    BY <1>1, <2>1, <2>2, <2>3, <2>4
       DEF FinishCompletion, TakeActive, Contract!Complete, Stage, Accepted
  <2> QED
    BY <2>5 DEF ContractStep, Contract!Next
<1>2. CASE active # t
  BY <1>2, Stutter DEF FinishCompletion, leases
<1> QED
  BY <1>1, <1>2

\* The cleanup of an abort happens once and tells the event of the abort.
LEMMA CleanUpStep ==
  ASSUME IInv, NEW t \in Transfers, Settle(t)
  PROVE  ContractStep
<1>1. taker[t] \in {"cancel", "fail", "close"} /\ ~settled[t]
  BY DEF Settle, Cancelled
<1>2. kind[t] # "none" /\ terminal[t] = <<>>
  BY <1>1 DEF IInv, EntryInv, OutcomeInv
<1>3. Stage[t] = taker[t] /\ UNCHANGED <<active, Stage, Accepted>>
  <2>1. UNCHANGED <<active, kind, taker, seg>>
    BY DEF Settle, leases
  <2>2. Stage[t] = taker[t]
    BY <1>1, <1>2 DEF Stage, StageOf
  <2> QED
    BY <2>1, <2>2, ViewFrame
<1>4. terminal' = [terminal EXCEPT ![t] = Contract!Event(Stage[t])]
  <2>1. <<>> \o TerminalEvent(t) = TerminalEvent(t)
    BY DEF TerminalEvent
  <2>2. TerminalEvent(t) = Contract!Event(Stage[t])
    BY <1>3 DEF TerminalEvent, Contract!Event
  <2> QED
    BY <1>2, <2>1, <2>2 DEF Settle
<1>5. part' = [part EXCEPT ![t] = IF @ = "present" THEN "removed" ELSE @]
  BY DEF Settle, RemovePart
<1>6. Contract!CleanUp(t)
  BY <1>1, <1>2, <1>3, <1>4, <1>5 DEF Contract!CleanUp, Stage, Accepted
<1> QED
  BY <1>6 DEF ContractStep, Contract!Next

\* The rename has whole coverage behind it.
LEMMA InstallStep ==
  ASSUME IInv, NEW t \in Transfers, ReplacePart(t)
  PROVE  ContractStep
<1>1. UNCHANGED <<active, kind, taker, seg, terminal>>
  BY DEF ReplacePart, manager, leases, outcome
<1>2. UNCHANGED <<active, Stage, Accepted, terminal>>
  BY <1>1, ViewFrame
<1>3. Accepted[t] = Segments
  BY DEF ReplacePart, IInv, CompletionInv, Covered, Accepted, AcceptedOf
<1>4. Contract!Install(t)
  BY <1>2, <1>3 DEF ReplacePart, Contract!Install, Stage, Accepted
<1> QED
  BY <1>4 DEF ContractStep, Contract!Next

-----------------------------------------------------------------------------
\* A segment is accepted by its commit, never after the rename; no other step of
\* a segment changes the coverage.
LEMMA SegmentRefines ==
  ASSUME IInv, NEW t \in Transfers, NEW s \in Segments, SegmentStep(t, s)
  PROVE  ContractStep
<1>0. UNCHANGED <<active, kind, taker, part, terminal>>
  BY DEF SegmentStep, BeginLnaSegment, BeginExtent, StreamBlock, WorkerReturns, WorkerFails,
     RequestBreaks, RequestAborted, OrphanEnds, Commit, manager, outcome
<1>1. seg \in [Transfers -> [Segments -> {"pending", "active", "complete"}]]
  BY DEF IInv, TypeOK, LeaseType
<1>2. CASE Commit(t, s)
  <2>1. io[t][s] # "none" /\ seg' = [seg EXCEPT ![t][s] = "complete"]
    BY <1>2 DEF Commit
  <2>2. kind[t] # "none" /\ part[t] # "installed"
    BY <2>1 DEF IInv, EntryInv, LeaseInv, CompletionInv, Covered
  <2>3. Accepted' = [Accepted EXCEPT ![t] = @ \cup {s}]
    <3>1. \A u \in Transfers : AcceptedOf(u)' = IF u = t THEN AcceptedOf(u) \cup {s}
                                                         ELSE AcceptedOf(u)
      BY <1>1, <2>1 DEF AcceptedOf
    <3> QED
      BY <3>1 DEF Accepted
  <2>4. Stage[t] # "new" /\ UNCHANGED Stage
    BY <1>0, <2>2, ViewFrame DEF Stage, StageOf, IInv, TypeOK, OutcomeType
  <2>5. Contract!Accept(t, s)
    BY <1>0, <2>2, <2>3, <2>4 DEF Contract!Accept, Stage, Accepted
  <2> QED
    BY <2>5 DEF ContractStep, Contract!Next
<1>3. CASE ~Commit(t, s)
  <2>1. \/ seg' = seg
        \/ seg[t][s] # "complete" /\ \E v \in {"pending", "active"} : seg' = [seg EXCEPT ![t][s] = v]
    <3>1. CASE WorkerFails(t, s) \/ OrphanEnds(t, s)
      <4>1. seg[t][s] = "active"
        BY <3>1 DEF WorkerFails, OrphanEnds, IInv, LeaseInv
      <4> QED
        BY <3>1, <4>1 DEF WorkerFails, OrphanEnds, DropLease
    <3>2. CASE ~(WorkerFails(t, s) \/ OrphanEnds(t, s))
      BY <1>3, <3>2 DEF SegmentStep, BeginLnaSegment, BeginExtent, Reserve, Reservable,
         StreamBlock, WorkerReturns, RequestBreaks, RequestAborted
    <3> QED
      BY <3>1, <3>2
  <2>2. \A u \in Transfers : AcceptedOf(u)' = AcceptedOf(u)
    BY <1>1, <2>1 DEF AcceptedOf
  <2>3. UNCHANGED Accepted
    BY <2>2 DEF Accepted
  <2> QED
    BY <1>0, <2>3, ContractView, ViewFrame
<1> QED
  BY <1>2, <1>3

\* The commands of the Bridge grant a transfer or take it.
LEMMA BridgeRefines ==
  ASSUME IInv, BridgeStep
  PROVE  ContractStep
<1>1. CASE \/ \E S \in SUBSET Sources : SelectFiles(S)
           \/ \E src \in Sources : ReleaseSource(src)
           \/ AskDestination \/ DestinationRefused \/ BridgeFails
  BY <1>1, Stutter DEF SelectFiles, ReleaseSource, AskDestination, DestinationRefused,
     BridgeFails, manager, leases, outcome
<1>2. ASSUME NEW t \in Transfers, NEW p \in Planes, NEW src \in Sources, CreateSend(t, p, src)
      PROVE  ContractStep
  <2>1. part[t] = "none" /\ part \in [Transfers -> {"none", "present", "removed", "installed"}]
    BY <1>2 DEF CreateSend, NewEntry, IInv, EntryInv, TypeOK, FileType
  <2>2. part' = [part EXCEPT ![t] = "none"]
    BY <1>2, <2>1 DEF CreateSend
  <2> QED
    BY <1>2, <2>2, GrantStep DEF CreateSend, leases, outcome
<1>3. ASSUME NEW t \in Transfers, NEW p \in Planes, InstallReceive(t, p)
      PROVE  ContractStep
  <2>1. active = NoTransfer
    BY <1>3 DEF InstallReceive, IInv, SlotInv
  <2> QED
    BY <1>3, <2>1, GrantStep DEF InstallReceive, leases, outcome
<1>4. ASSUME NEW t \in Transfers, CancelTransfer(t) \/ FinishSend(t) PROVE ContractStep
  BY <1>4, LeaveStep DEF CancelTransfer, FinishSend, leases
<1>5. CASE BridgeCloses
  <2>1. CASE active = NoTransfer
    BY <1>5, <2>1, Stutter DEF BridgeCloses, CancelAll, leases
  <2>2. CASE active # NoTransfer
    <3>1. active \in Transfers
      BY <2>2 DEF IInv, TypeOK, ManagerType
    <3> QED
      BY <1>5, <2>2, <3>1, LeaveStep DEF BridgeCloses, CancelAll, leases
  <2> QED
    BY <2>1, <2>2
<1> QED
  BY <1>1, <1>2, <1>3, <1>4, <1>5 DEF BridgeStep

\* A connection may only fail the transfer in the slot.
LEMMA ConnectionRefines ==
  ASSUME IInv, NEW t \in Transfers, NEW c \in Connections, ConnectionStep(t, c)
  PROVE  ContractStep
<1>1. CASE FailConnection(t, c)
  BY <1>1, LeaveStep, Stutter DEF FailConnection, FailTransfer, leases
<1>2. CASE ~FailConnection(t, c)
  BY <1>2, Stutter DEF ConnectionStep, BeginConnection, ConnectionRejected, ConnectionBreaks,
     PayloadDone, ConnectionFinishes, ConnectionAbandoned, manager, leases, outcome
<1> QED
  BY <1>1, <1>2

\* Cleanup, failing requests and completions.
LEMMA TransferRefines ==
  ASSUME IInv, NEW t \in Transfers, TransferStep(t)
  PROVE  ContractStep
<1>1. CASE Settle(t) \/ FinishCompletion(t) \/ ReplacePart(t)
  BY <1>1, CleanUpStep, CompleteStep, InstallStep
<1>2. CASE FailSegment(t) \/ FailureAborted(t)
  BY <1>2, LeaveStep, Stutter DEF FailSegment, FailureAborted, FailTransfer, manager, leases, outcome
<1>3. CASE \/ CompleteLna(t) \/ CompleteWebTransport(t) \/ CompletionFails(t)
           \/ \E how \in Lapses : Lapse(t, how)
  BY <1>3, Stutter DEF CompleteLna, CompleteWebTransport, CompletionFails, Lapse, manager,
     leases, outcome
<1> QED
  BY <1>1, <1>2, <1>3 DEF TransferStep

\* The shutdown takes what is still in the slot.
LEMMA ShutdownRefines ==
  ASSUME IInv, StopServer \/ Exit \/ Exited \/ UNCHANGED vars
  PROVE  ContractStep
<1>1. CASE StopServer /\ active # NoTransfer
  <2>1. active \in Transfers
    BY <1>1 DEF IInv, TypeOK, ManagerType
  <2> QED
    BY <1>1, <2>1, LeaveStep DEF StopServer, CancelAll, leases
<1>2. CASE StopServer /\ active = NoTransfer
  BY <1>2, Stutter DEF StopServer, CancelAll, leases
<1>3. CASE Exit \/ Exited \/ UNCHANGED vars
  BY <1>3, Stutter DEF Exit, Exited, vars, manager, leases, outcome
<1> QED
  BY <1>1, <1>2, <1>3

\* The manager keeps its contract: one transfer in the slot, a final name only for
\* a whole file that nobody takes away again, one event about the end.
THEOREM KeepsContract == Spec => ContractKept
<1>1. Init => Contract!Init
  BY DEF Init, Contract!Init, StageOf, AcceptedOf
<1>2. IInv /\ [Next]_vars => [Contract!Next]_(Contract!contractVars)
  <2>1. IInv /\ [Next]_vars => ContractStep
    BY BridgeRefines, SegmentRefines, ConnectionRefines, TransferRefines, ShutdownRefines DEF Next
  <2> QED
    BY <2>1 DEF ContractStep
<1> QED
  BY <1>1, <1>2, Inductive, PTL DEF Spec, ContractKept, Contract!Spec
=============================================================================
