---------------------------- MODULE NativeTransfer ----------------------------
(***************************************************************************)
(* The native file transfer of the Agent: the one transfer slot of the     *)
(* FileTransferManager, the Bridge that opens and ends transfers, the LNA  *)
(* HTTP requests and WebTransport connections that move the bytes, the     *)
(* blocking workers that touch the file, the completion of an upload and   *)
(* the shutdown of the Agent, each interleaved with the others.            *)
(*                                                                         *)
(* A lock that is taken and dropped inside one call is one step; two locks *)
(* of one call, or a lock and a file operation, are two steps wherever     *)
(* another actor can come between them and tell the difference.            *)
(***************************************************************************)
EXTENDS Integers, FiniteSets, Sequences

CONSTANTS
  Transfers,          \* transfer identifiers (fresh random 128-bit values)
  NoTransfer,         \* an empty slot
  Sources,            \* opaque source identifiers of picked files
  NoSource,           \* the source of a transfer that has none
  NumSegments,        \* segments (LNA) or extents (WebTransport) of a file
  BlocksPerSegment,   \* I/O blocks of a segment
  NumConnections,     \* WebTransport connections of a transfer
  LanesPerConnection, \* lanes of one connection
  HttpParallelism,    \* permits of the LNA file semaphore
  MaxSelected,        \* sources that may wait in the registry
  Kinds,              \* directions explored, a subset of {"send", "receive"}
  Planes,             \* data planes explored, a subset of {"lna", "wt"}
  Lapses              \* expiries explored, a subset of {"idle", "expired"}

ASSUME SlotAssumption   == NoTransfer \notin Transfers
ASSUME SourceAssumption == NoSource \notin Sources
ASSUME ShapeAssumption  ==
  /\ NumSegments \in Nat \ {0}
  /\ BlocksPerSegment \in Nat \ {0}
  /\ NumConnections \in Nat \ {0}
  /\ LanesPerConnection \in Nat \ {0}
  /\ HttpParallelism \in Nat \ {0}
  /\ MaxSelected \in Nat
  /\ Kinds \subseteq {"send", "receive"}
  /\ Planes \subseteq {"lna", "wt"}
  /\ Lapses \subseteq {"idle", "expired"}

VARIABLES
  active,      \* ManagerInner.active: the installed transfer or NoTransfer
  selected,    \* ManagerInner.selected: the registered sources
  opened,      \* every source identifier ever issued
  kind,        \* direction and resource: "none" until the id is issued
  plane,       \* data plane of the transfer
  source,      \* the source a send transfer reads
  seg,         \* SegmentTracker.states
  io,          \* who owns the lease of a segment and how far it is
  pos,         \* blocks the owner of the lease has read or written
  lnaFailing,  \* LNA requests about to call fail_transfer
  conn,        \* WebTransport connections of the transfer
  comp,        \* complete_receive_transfer in progress
  part,        \* the .part file, "installed" once renamed to the final name
  expiry,      \* validate_time: "fresh", "idle" (120 s) or "expired" (12 h)
  taker,       \* the call that took the transfer out of the slot
  settled,     \* the taker has cleaned up and published its event
  terminal,    \* terminal events published for the transfer
  bridge,      \* the Bridge session task
  server       \* the accept loop of the Agent

manager  == <<active, selected, opened, kind, plane, source>>
leases   == <<seg, io, pos>>
network  == <<lnaFailing, conn>>
outcome  == <<taker, settled, terminal>>
vars == <<manager, leases, network, comp, part, expiry, outcome, bridge, server>>

Segments    == 0 .. NumSegments - 1
Connections == 0 .. NumConnections - 1

\* cancel_transfer, fail_transfer and cancel_all set the flag of what they take.
Cancelled(t) == taker[t] \in {"cancel", "fail", "close"}
Alive        == server # "exited"

-----------------------------------------------------------------------------
(* Helpers of the manager.                                                 *)

\* begin_webtransport_extent: an extent belongs to one lane of all lanes.
LaneOf(s) == s % (NumConnections * LanesPerConnection)
ConnOf(s) == LaneOf(s) \div LanesPerConnection

\* A request, a lane or a completed worker still owns the lease.
InFlight(t, s) == io[t][s] \in {"streaming", "written"}

\* SegmentTracker::is_complete, also when counting reserved segments (mutant).
CoveredOrReserved(t) == \A s \in Segments : seg[t][s] # "pending"
Covered(t) == \A s \in Segments : seg[t][s] = "complete"

\* The LNA requests that hold a permit of the file semaphore.
LnaLeases == {l \in Transfers \X Segments : plane[l[1]] = "lna" /\ InFlight(l[1], l[2])}
LnaFailed == {r \in Transfers \X (1 .. HttpParallelism) : r[2] <= lnaFailing[r[1]]}
LnaCompleting == \E t \in Transfers : plane[t] = "lna" /\ comp[t] \in {"confirming", "replaced"}
\* try_acquire_many(6) of a completion, ignoring requests in flight (mutant).
OnlyOneCompletion == ~LnaCompleting
AllPermitsFree    == LnaLeases = {} /\ LnaFailed = {} /\ ~LnaCompleting
\* try_acquire(1) of a segment request.
SomePermitFree ==
  ~LnaCompleting /\ Cardinality(LnaLeases) + Cardinality(LnaFailed) < HttpParallelism

\* SegmentTracker::reserve.
Reservable(t, s) == seg[t][s] = "pending"
Reserve(t, s) ==
  /\ Reservable(t, s)
  /\ seg' = [seg EXCEPT ![t][s] = "active"]
  /\ io'  = [io  EXCEPT ![t][s] = "streaming"]
  /\ pos' = [pos EXCEPT ![t][s] = 0]

\* ActiveTransfer::touch: activity makes an idle transfer fresh again.
Touch(t) == expiry' = [expiry EXCEPT ![t] = IF @ = "idle" THEN "fresh" ELSE @]

\* take_active: the one place where a transfer leaves the slot.
TakeActive(t, by) ==
  /\ active' = NoTransfer
  /\ taker'  = [taker EXCEPT ![t] = by]

\* fail_transfer up to its cleanup: no effect unless t is still in the slot.
FailTransfer(t) ==
  IF active = t THEN TakeActive(t, "fail") ELSE UNCHANGED <<active, taker>>

\* install_transfer_with_id: a new entry of kind k on plane p.
NewEntry(t, k, p) ==
  /\ kind[t] = "none"
  /\ kind'  = [kind  EXCEPT ![t] = k]
  /\ plane' = [plane EXCEPT ![t] = p]

-----------------------------------------------------------------------------
(* The Bridge session: one task, one command at a time.                    *)

\* select-files: the picked files get fresh identifiers.
SelectFiles(S) ==
  /\ Alive /\ bridge = "ready"
  /\ S # {} /\ S \cap opened = {}
  /\ Cardinality(selected) + Cardinality(S) <= MaxSelected
  /\ selected' = selected \cup S
  /\ opened' = opened \cup S
  /\ UNCHANGED <<active, kind, plane, source, leases, network, comp, part, expiry,
                 outcome, bridge, server>>

\* create-send-transfer.
CreateSend(t, p, src) ==
  /\ Alive /\ bridge = "ready"
  /\ active = NoTransfer
  /\ src \in selected
  /\ NewEntry(t, "send", p)
  /\ source' = [source EXCEPT ![t] = src]
  /\ active' = t
  /\ UNCHANGED <<selected, opened, leases, network, comp, part, expiry, outcome,
                 bridge, server>>

\* release-source.
ReleaseSource(src) ==
  /\ Alive /\ bridge = "ready"
  /\ src \in selected
  /\ selected' = selected \ {src}
  /\ UNCHANGED <<active, opened, kind, plane, source, leases, network, comp, part,
                 expiry, outcome, bridge, server>>

\* prepare-receive-transfer up to the native save dialog: the Bridge task
\* waits for the user and serves nothing else.
AskDestination ==
  /\ Alive /\ bridge = "ready"
  /\ active = NoTransfer
  /\ bridge' = "saving"
  /\ UNCHANGED <<manager, leases, network, comp, part, expiry, outcome, server>>

\* The dialog is dismissed, or the .part cannot be created or reserved.
DestinationRefused ==
  /\ Alive /\ bridge = "saving"
  /\ bridge' = "ready"
  /\ UNCHANGED <<manager, leases, network, comp, part, expiry, outcome, server>>

\* The .part exists before the slot is checked again; a refusal leaves it.
InstallReceive(t, p) ==
  /\ Alive /\ bridge = "saving"
  /\ NewEntry(t, "receive", p)
  /\ part' = [part EXCEPT ![t] = "present"]
  /\ active' = IF active = NoTransfer THEN t ELSE active
  /\ bridge' = "ready"
  /\ UNCHANGED <<selected, opened, source, leases, network, comp, expiry, outcome, server>>

\* cancel-transfer takes the transfer; Settle finishes the command.
CancelTransfer(t) ==
  /\ Alive /\ bridge = "ready"
  /\ active = t
  /\ TakeActive(t, "cancel")
  /\ bridge' = "busy"
  /\ UNCHANGED <<selected, opened, kind, plane, source, leases, network, comp, part,
                 expiry, settled, terminal, server>>

\* finish-send-transfer takes the transfer before it looks at its direction.
FinishSend(t) ==
  /\ Alive /\ bridge = "ready"
  /\ active = t
  /\ TakeActive(t, "finish")
  /\ selected' = IF kind[t] = "send" THEN selected \ {source[t]} ELSE selected
  /\ UNCHANGED <<opened, kind, plane, source, leases, network, comp, part, expiry,
                 settled, terminal, bridge, server>>

\* The peer closes the Bridge stream: cancel_all, then the session ends. An
\* error ends the session without cancel_all.
CancelAll ==
  IF active = NoTransfer
    THEN selected' = {} /\ UNCHANGED <<active, taker>>
    ELSE TakeActive(active, "close") /\ UNCHANGED selected
BridgeCloses ==
  /\ Alive /\ bridge = "ready"
  /\ CancelAll
  /\ bridge' = "ended"
  /\ UNCHANGED <<opened, kind, plane, source, leases, network, comp, part, expiry,
                 settled, terminal, server>>
BridgeFails ==
  /\ Alive /\ bridge = "ready"
  /\ bridge' = "ended"
  /\ UNCHANGED <<manager, leases, network, comp, part, expiry, outcome, server>>

-----------------------------------------------------------------------------
(* The cleanup of whoever took the transfer: remove the .part, release the *)
(* source, publish. cancel_all publishes nothing and clears the registry.  *)
TerminalEvent(t) ==
  CASE taker[t] = "cancel" -> <<"cancelled">>
    [] taker[t] = "fail"   -> <<"failed">>
    [] OTHER               -> <<>>
\* cleanup_resource only for a cancelled transfer (mutant).
RemovePartOnCancel(t) ==
  part' = [part EXCEPT ![t] = IF @ = "present" /\ taker[t] = "cancel" THEN "removed" ELSE @]
\* cleanup_resource on the final name (mutant).
RemoveInstalled(t) ==
  part' = [part EXCEPT ![t] = IF @ # "none" THEN "removed" ELSE @]
RemovePart(t) == part' = [part EXCEPT ![t] = IF @ = "present" THEN "removed" ELSE @]
ReleasedSources(t) ==
  CASE taker[t] = "close" -> {}
    [] kind[t] = "send"   -> selected \ {source[t]}
    [] OTHER              -> selected
Settle(t) ==
  /\ Alive /\ Cancelled(t) /\ ~settled[t]
  /\ RemovePart(t)
  /\ selected' = ReleasedSources(t)
  /\ terminal' = [terminal EXCEPT ![t] = @ \o TerminalEvent(t)]
  /\ settled'  = [settled EXCEPT ![t] = TRUE]
  /\ bridge'   = IF taker[t] = "cancel" THEN "ready" ELSE bridge
  /\ UNCHANGED <<active, opened, kind, plane, source, leases, network, comp, expiry,
                 taker, server>>

-----------------------------------------------------------------------------
(* Leases: LNA requests and WebTransport lanes.                            *)

\* A segment request: permit, active_transfer, validate_lna, reserve, touch.
BeginLnaSegment(t, s) ==
  /\ Alive /\ active = t /\ plane[t] = "lna"
  /\ expiry[t] = "fresh"
  /\ SomePermitFree
  /\ Reserve(t, s)
  /\ UNCHANGED <<manager, network, comp, part, expiry, outcome, bridge, server>>

\* begin_webtransport_connection: a token is consumed once, while the
\* transfer is in the slot.
BeginConnection(t, c) ==
  /\ Alive /\ active = t /\ plane[t] = "wt"
  /\ expiry[t] = "fresh"
  /\ conn[t][c] = "unused"
  /\ conn' = [conn EXCEPT ![t][c] = "running"]
  /\ UNCHANGED <<manager, leases, lnaFailing, comp, part, expiry, outcome, bridge, server>>

\* The token is consumed, the announced size is wrong: the connection ends.
ConnectionRejected(t, c) ==
  /\ Alive /\ active = t /\ plane[t] = "wt"
  /\ expiry[t] = "fresh"
  /\ conn[t][c] = "unused"
  /\ conn' = [conn EXCEPT ![t][c] = "rejected"]
  /\ UNCHANGED <<manager, leases, lnaFailing, comp, part, expiry, outcome, bridge, server>>

\* begin_webtransport_extent: neither the slot, nor the cancelled flag, nor the
\* expiry is looked at. A sender walks its extents in order, an uploader picks.
BeginExtent(t, s) ==
  /\ Alive /\ plane[t] = "wt"
  /\ conn[t][ConnOf(s)] = "running"
  /\ \A r \in Segments : LaneOf(r) = LaneOf(s) =>
       /\ ~InFlight(t, r)
       /\ kind[t] = "send" /\ r < s => seg[t][r] = "complete"
  /\ Reserve(t, s)
  /\ Touch(t)
  /\ UNCHANGED <<manager, network, comp, part, outcome, bridge, server>>

\* Someone still waits for the worker: an LNA request that is not broken, or a
\* lane of a connection that has not failed.
Attended(t, s) == InFlight(t, s) /\ (plane[t] = "wt" => conn[t][ConnOf(s)] = "running")

\* The worker reads or writes one block, then touches the transfer. A worker
\* nobody waits for still works off the blocks queued for it.
StreamBlock(t, s) ==
  /\ Alive /\ io[t][s] \in {"streaming", "orphan"} /\ ~Cancelled(t)
  /\ pos[t][s] < BlocksPerSegment
  /\ pos' = [pos EXCEPT ![t][s] = @ + 1]
  /\ Touch(t)
  /\ UNCHANGED <<manager, seg, io, network, comp, part, outcome, bridge, server>>

\* The worker hands the lease back only at the end of the segment; the mutant
\* does not check the length.
WorkerReturnsShort(t, s) ==
  /\ Alive /\ io[t][s] = "streaming" /\ Attended(t, s)
  /\ io' = [io EXCEPT ![t][s] = "written"]
  /\ UNCHANGED <<manager, seg, pos, network, comp, part, expiry, outcome, bridge, server>>
WorkerReturns(t, s) ==
  /\ Alive /\ io[t][s] = "streaming" /\ Attended(t, s)
  /\ pos[t][s] = BlocksPerSegment
  /\ io' = [io EXCEPT ![t][s] = "written"]
  /\ UNCHANGED <<manager, seg, pos, network, comp, part, expiry, outcome, bridge, server>>

\* Dropping a lease that was not committed: SegmentTracker::release. The mutant
\* forgets the tracker.
ForgetLease(t, s) ==
  /\ io' = [io EXCEPT ![t][s] = "none"]
  /\ UNCHANGED seg
DropLease(t, s) ==
  /\ io'  = [io  EXCEPT ![t][s] = "none"]
  /\ seg' = [seg EXCEPT ![t][s] = IF @ = "active" THEN "pending" ELSE @]

\* The worker fails: file I/O, or touch finds the transfer cancelled. A block it
\* wrote before that touch is given up with the lease.
WorkerFails(t, s) ==
  /\ Alive /\ io[t][s] = "streaming" /\ Attended(t, s)
  /\ DropLease(t, s)
  /\ IF plane[t] = "lna"
       THEN lnaFailing' = [lnaFailing EXCEPT ![t] = @ + 1] /\ UNCHANGED conn
       ELSE conn' = [conn EXCEPT ![t][ConnOf(s)] = "failing"] /\ UNCHANGED lnaFailing
  /\ UNCHANGED <<manager, pos, comp, part, expiry, outcome, bridge, server>>

\* The peer of an LNA request disconnects or times out: the request gives up
\* while its worker still owns the lease. A download may break after its last
\* block was read, an upload not after its last block was queued.
RequestBreaks(t, s) ==
  /\ Alive /\ plane[t] = "lna" /\ InFlight(t, s)
  /\ io[t][s] = "written" => kind[t] = "send"
  /\ io' = [io EXCEPT ![t][s] = "orphan"]
  /\ lnaFailing' = [lnaFailing EXCEPT ![t] = @ + 1]
  /\ UNCHANGED <<manager, seg, pos, conn, comp, part, expiry, outcome, bridge, server>>

\* The Bridge session has ended and the LNA endpoint aborts its connections: a
\* request is dropped wherever it waits, without fail_transfer. So is one whose
\* worker has just failed.
RequestAborted(t, s) ==
  /\ Alive /\ bridge = "ended" /\ plane[t] = "lna" /\ InFlight(t, s)
  /\ io' = [io EXCEPT ![t][s] = "orphan"]
  /\ UNCHANGED <<manager, seg, pos, network, comp, part, expiry, outcome, bridge, server>>
FailureAborted(t) ==
  /\ Alive /\ bridge = "ended" /\ lnaFailing[t] > 0
  /\ lnaFailing' = [lnaFailing EXCEPT ![t] = @ - 1]
  /\ UNCHANGED <<manager, leases, conn, comp, part, expiry, outcome, bridge, server>>

\* A worker nobody waits for finds its channel closed and drops the lease. The
\* mutant waits for the rest of the segment first.
OrphanWaitsForBlocks(t, s) ==
  /\ Alive /\ io[t][s] # "none" /\ ~Attended(t, s)
  /\ pos[t][s] = BlocksPerSegment
  /\ DropLease(t, s)
  /\ UNCHANGED <<manager, pos, network, comp, part, expiry, outcome, bridge, server>>
OrphanEnds(t, s) ==
  /\ Alive /\ io[t][s] # "none" /\ ~Attended(t, s)
  /\ DropLease(t, s)
  /\ UNCHANGED <<manager, pos, network, comp, part, expiry, outcome, bridge, server>>

\* commit_segment: SegmentTracker::complete. A lane that already holds its
\* lease again commits even when its connection fails or the slot moves on.
Commit(t, s) ==
  /\ Alive /\ io[t][s] = "written"
  /\ io'  = [io  EXCEPT ![t][s] = "none"]
  /\ seg' = [seg EXCEPT ![t][s] = "complete"]
  /\ UNCHANGED <<manager, pos, network, comp, part, expiry, outcome, bridge, server>>

\* A failed LNA request calls fail_transfer.
FailSegment(t) ==
  /\ Alive /\ lnaFailing[t] > 0
  /\ lnaFailing' = [lnaFailing EXCEPT ![t] = @ - 1]
  /\ FailTransfer(t)
  /\ UNCHANGED <<selected, opened, kind, plane, source, leases, conn, comp, part, expiry,
                 settled, terminal, bridge, server>>

\* A stream of the connection breaks or the peer violates the lane protocol.
ConnectionBreaks(t, c) ==
  /\ Alive /\ conn[t][c] = "running"
  /\ conn' = [conn EXCEPT ![t][c] = "failing"]
  /\ UNCHANGED <<manager, leases, lnaFailing, comp, part, expiry, outcome, bridge, server>>

\* The failed payload of a connection fails the transfer.
FailConnection(t, c) ==
  /\ Alive /\ conn[t][c] = "failing"
  /\ conn' = [conn EXCEPT ![t][c] = "closed"]
  /\ FailTransfer(t)
  /\ UNCHANGED <<selected, opened, kind, plane, source, leases, lnaFailing, comp, part,
                 expiry, settled, terminal, bridge, server>>

\* Every lane has ended: a sender's after its last extent, an uploader's when
\* the peer says so.
PayloadDone(t, c) ==
  /\ Alive /\ conn[t][c] = "running"
  /\ \A s \in Segments : ConnOf(s) = c =>
       ~InFlight(t, s) /\ (kind[t] = "send" => seg[t][s] = "complete")
  /\ conn' = [conn EXCEPT ![t][c] = "payload"]
  /\ UNCHANGED <<manager, leases, lnaFailing, comp, part, expiry, outcome, bridge, server>>

\* After payload-complete only connection 0 of an upload stays, for `complete`.
ConnectionFinishes(t, c) ==
  /\ Alive /\ conn[t][c] = "payload"
  /\ ~(kind[t] = "receive" /\ c = 0)
  /\ conn' = [conn EXCEPT ![t][c] = "closed"]
  /\ UNCHANGED <<manager, leases, lnaFailing, comp, part, expiry, outcome, bridge, server>>

\* payload-complete cannot be written, or `complete` does not arrive, is
\* malformed or refused: the connection ends without fail_transfer.
ConnectionAbandoned(t, c) ==
  /\ Alive /\ conn[t][c] = "payload" /\ comp[t] = "none"
  /\ conn' = [conn EXCEPT ![t][c] = "broken"]
  /\ UNCHANGED <<manager, leases, lnaFailing, comp, part, expiry, outcome, bridge, server>>

-----------------------------------------------------------------------------
(* Completion of an upload: confirm, sync, rename, take, publish.          *)

\* POST /complete: all permits, active_transfer, validate_lna, coverage.
CompleteLna(t) ==
  /\ Alive /\ active = t /\ plane[t] = "lna" /\ kind[t] = "receive"
  /\ expiry[t] = "fresh"
  /\ AllPermitsFree
  /\ Covered(t)
  /\ comp' = [comp EXCEPT ![t] = "confirming"]
  /\ UNCHANGED <<manager, leases, network, part, expiry, outcome, bridge, server>>

\* `complete` on connection 0: the expiry and the coverage, but not the slot.
CompleteWebTransport(t) ==
  /\ Alive /\ plane[t] = "wt" /\ kind[t] = "receive"
  /\ conn[t][0] = "payload" /\ comp[t] = "none"
  /\ expiry[t] = "fresh"
  /\ Covered(t)
  /\ comp' = [comp EXCEPT ![t] = "confirming"]
  /\ UNCHANGED <<manager, leases, network, part, expiry, outcome, bridge, server>>

\* The connection that asked for a completion ends with it.
EndCompletion(t, how) ==
  /\ comp' = [comp EXCEPT ![t] = "none"]
  /\ conn' = IF plane[t] = "wt" THEN [conn EXCEPT ![t][0] = how] ELSE conn

\* sync_all or atomic_replace fails, the latter always once the .part is gone.
CompletionFails(t) ==
  /\ Alive /\ comp[t] = "confirming"
  /\ EndCompletion(t, "broken")
  /\ UNCHANGED <<manager, leases, lnaFailing, part, expiry, outcome, bridge, server>>

\* sync_all, then atomic_replace of the .part.
ReplacePart(t) ==
  /\ Alive /\ comp[t] = "confirming"
  /\ part[t] = "present"
  /\ part' = [part EXCEPT ![t] = "installed"]
  /\ comp' = [comp EXCEPT ![t] = "replaced"]
  /\ UNCHANGED <<manager, leases, network, expiry, outcome, bridge, server>>

\* take_active; `complete` is published only when that succeeds.
FinishCompletion(t) ==
  /\ Alive /\ comp[t] = "replaced"
  /\ IF active = t
       THEN /\ TakeActive(t, "complete")
            /\ terminal' = [terminal EXCEPT ![t] = Append(@, "complete")]
            /\ EndCompletion(t, "closed")
       ELSE /\ EndCompletion(t, "broken")
            /\ UNCHANGED <<active, taker, terminal>>
  /\ UNCHANGED <<selected, opened, kind, plane, source, leases, lnaFailing, part, expiry,
                 settled, bridge, server>>

-----------------------------------------------------------------------------
(* Time and shutdown.                                                      *)

\* 120 s without a touch, or 12 h since the grant.
Lapse(t, how) ==
  /\ Alive /\ kind[t] # "none" /\ expiry[t] \notin {"expired", how}
  /\ expiry' = [expiry EXCEPT ![t] = how]
  /\ UNCHANGED <<manager, leases, network, comp, part, outcome, bridge, server>>

\* The end of the Bridge session stops the accept loop; the loop then calls
\* cancel_all. One mutant waits for the slot to empty by itself, the other
\* relies on the Bridge session for cancel_all.
StopWhenIdle ==
  /\ server = "running" /\ bridge = "ended" /\ active = NoTransfer
  /\ \A t \in Transfers : taker[t] = "close" => settled[t]
  /\ CancelAll
  /\ server' = "stopping"
  /\ UNCHANGED <<opened, kind, plane, source, leases, network, comp, part, expiry,
                 settled, terminal, bridge>>
StopWithoutCancel ==
  /\ server = "running" /\ bridge = "ended"
  /\ \A t \in Transfers : taker[t] = "close" => settled[t]
  /\ server' = "stopping"
  /\ UNCHANGED <<manager, leases, network, comp, part, expiry, outcome, bridge>>
StopServer ==
  /\ server = "running" /\ bridge = "ended"
  /\ \A t \in Transfers : taker[t] = "close" => settled[t]
  /\ CancelAll
  /\ server' = "stopping"
  /\ UNCHANGED <<opened, kind, plane, source, leases, network, comp, part, expiry,
                 settled, terminal, bridge>>

\* The runtime is dropped once no synchronous section is on a thread.
Exit ==
  /\ server = "stopping"
  /\ \A t \in Transfers : (Cancelled(t) => settled[t]) /\ comp[t] = "none"
  /\ server' = "exited"
  /\ UNCHANGED <<manager, leases, network, comp, part, expiry, outcome, bridge>>

Exited == server = "exited" /\ UNCHANGED vars

-----------------------------------------------------------------------------
Init ==
  /\ active = NoTransfer /\ selected = {} /\ opened = {}
  /\ kind   = [t \in Transfers |-> "none"]
  /\ plane  = [t \in Transfers |-> "none"]
  /\ source = [t \in Transfers |-> NoSource]
  /\ seg    = [t \in Transfers |-> [s \in Segments |-> "pending"]]
  /\ io     = [t \in Transfers |-> [s \in Segments |-> "none"]]
  /\ pos    = [t \in Transfers |-> [s \in Segments |-> 0]]
  /\ lnaFailing = [t \in Transfers |-> 0]
  /\ conn   = [t \in Transfers |-> [c \in Connections |-> "unused"]]
  /\ comp   = [t \in Transfers |-> "none"]
  /\ part   = [t \in Transfers |-> "none"]
  /\ expiry = [t \in Transfers |-> "fresh"]
  /\ taker  = [t \in Transfers |-> "none"]
  /\ settled  = [t \in Transfers |-> FALSE]
  /\ terminal = [t \in Transfers |-> <<>>]
  /\ bridge = "ready" /\ server = "running"

BridgeStep ==
  \/ \E S \in SUBSET Sources : SelectFiles(S)
  \/ \E src \in Sources : ReleaseSource(src)
  \/ \E t \in Transfers, p \in Planes, src \in Sources : "send" \in Kinds /\ CreateSend(t, p, src)
  \/ "receive" \in Kinds /\ AskDestination
  \/ DestinationRefused
  \/ \E t \in Transfers, p \in Planes : InstallReceive(t, p)
  \/ \E t \in Transfers : CancelTransfer(t) \/ FinishSend(t)
  \/ BridgeCloses
  \/ BridgeFails

SegmentStep(t, s) ==
  \/ BeginLnaSegment(t, s) \/ BeginExtent(t, s)
  \/ StreamBlock(t, s) \/ WorkerReturns(t, s) \/ WorkerFails(t, s)
  \/ RequestBreaks(t, s) \/ RequestAborted(t, s) \/ OrphanEnds(t, s) \/ Commit(t, s)

ConnectionStep(t, c) ==
  \/ BeginConnection(t, c) \/ ConnectionRejected(t, c) \/ ConnectionBreaks(t, c)
  \/ FailConnection(t, c) \/ PayloadDone(t, c)
  \/ ConnectionFinishes(t, c) \/ ConnectionAbandoned(t, c)

TransferStep(t) ==
  \/ Settle(t) \/ FailSegment(t) \/ FailureAborted(t)
  \/ CompleteLna(t) \/ CompleteWebTransport(t) \/ CompletionFails(t)
  \/ ReplacePart(t) \/ FinishCompletion(t)
  \/ \E how \in Lapses : Lapse(t, how)

Next ==
  \/ BridgeStep
  \/ \E t \in Transfers, s \in Segments : SegmentStep(t, s)
  \/ \E t \in Transfers, c \in Connections : ConnectionStep(t, c)
  \/ \E t \in Transfers : TransferStep(t)
  \/ StopServer
  \/ Exit
  \/ Exited

Spec == Init /\ [][Next]_vars

\* A lease whose owner may wait for its peer for ever: no read or write of a
\* WebTransport lane has a timeout, nor has the response head of a download.
AwaitsPeer(t, s) ==
  IF plane[t] = "wt" THEN conn[t][ConnOf(s)] = "running"
                     ELSE kind[t] = "send" /\ io[t][s] = "streaming" /\ pos[t][s] = 0

\* What the Agent does without anybody's help: synchronous sections, the blocks
\* of an LNA request, each under its limit of 120 s, completions and the
\* shutdown. Nothing is assumed of a peer.
HttpWorker(t, s) ==
  /\ plane[t] = "lna" /\ ~AwaitsPeer(t, s)
  /\ StreamBlock(t, s) \/ WorkerReturns(t, s) \/ WorkerFails(t, s)
AgentFairness ==
  /\ \A t \in Transfers :
       /\ WF_vars(Settle(t))
       /\ WF_vars(FailSegment(t))
       /\ WF_vars(ReplacePart(t) \/ CompletionFails(t))
       /\ WF_vars(FinishCompletion(t))
       /\ \A s \in Segments :
            /\ WF_vars(HttpWorker(t, s))
            /\ WF_vars(OrphanEnds(t, s))
            /\ WF_vars(plane[t] = "lna" /\ Commit(t, s))
       /\ \A c \in Connections : WF_vars(FailConnection(t, c))
  /\ WF_vars(StopServer)
  /\ WF_vars(Exit)

FairSpec == Spec /\ AgentFairness

-----------------------------------------------------------------------------
(* Properties.                                                             *)

\* Every variable has its type; blocks never run past their segment.
ManagerType ==
  /\ active \in Transfers \cup {NoTransfer}
  /\ selected \subseteq Sources /\ opened \subseteq Sources
  /\ kind   \in [Transfers -> {"none", "send", "receive"}]
  /\ plane  \in [Transfers -> {"none", "lna", "wt"}]
  /\ source \in [Transfers -> Sources \cup {NoSource}]
LeaseType ==
  /\ seg \in [Transfers -> [Segments -> {"pending", "active", "complete"}]]
  /\ io  \in [Transfers -> [Segments -> {"none", "streaming", "written", "orphan"}]]
  /\ pos \in [Transfers -> [Segments -> 0 .. BlocksPerSegment]]
NetworkType ==
  /\ lnaFailing \in [Transfers -> Nat]
  /\ conn \in [Transfers -> [Connections ->
               {"unused", "running", "failing", "payload", "closed", "broken", "rejected"}]]
FileType ==
  /\ comp   \in [Transfers -> {"none", "confirming", "replaced"}]
  /\ part   \in [Transfers -> {"none", "present", "removed", "installed"}]
  /\ expiry \in [Transfers -> {"fresh", "idle", "expired"}]
OutcomeType ==
  /\ taker   \in [Transfers -> {"none", "complete", "finish", "cancel", "fail", "close"}]
  /\ settled \in [Transfers -> BOOLEAN]
  /\ terminal \in [Transfers -> Seq({"complete", "cancelled", "failed"})]
TaskType ==
  /\ bridge \in {"ready", "saving", "busy", "ended"}
  /\ server \in {"running", "stopping", "exited"}
TypeOK ==
  ManagerType /\ LeaseType /\ NetworkType /\ FileType /\ OutcomeType /\ TaskType

\* The final name only ever receives a whole file: when the .part is renamed,
\* every segment was accepted, every block of it was written, and no worker
\* holds a lease through which it could still write into the installed file.
InstalledIsWhole ==
  \A t \in Transfers : part[t] = "installed" =>
    \A s \in Segments : /\ seg[t][s] = "complete"
                        /\ pos[t][s] = BlocksPerSegment
                        /\ io[t][s] = "none"

\* The Bridge hears at most one of complete, cancelled and failed about a
\* transfer, whichever of completion, cancel-transfer, failing requests,
\* failing connections and shutdown race for it; and `complete` only after the
\* rename.
OneOutcome ==
  \A t \in Transfers :
    /\ Len(terminal[t]) <= 1
    /\ terminal[t] # <<>> => active # t
    /\ terminal[t] = <<"complete">> => part[t] = "installed"

\* ensure_idle and take_active keep the slot exact: a transfer that nobody has
\* taken is the one in the slot, so two unfinished transfers never coexist.
OpenIffInSlot ==
  \A t \in Transfers : active = t <=> (kind[t] # "none" /\ taker[t] = "none")

\* A .part on disk always has someone who will rename or remove it. The one
\* exception is the transfer that finish-send-transfer took although it was a
\* receive transfer.
PartHasOwner ==
  \A t \in Transfers : part[t] = "present" =>
    \/ active = t
    \/ Cancelled(t) /\ ~settled[t]
    \/ taker[t] = "finish"

\* The tracker and the leases agree: a segment is reserved exactly while one
\* owner has its lease, so a segment never has two writers and is never stuck.
ReservedIffLeased ==
  \A t \in Transfers, s \in Segments : seg[t][s] = "active" <=> io[t][s] # "none"

\* A completion that holds the six permits excludes every other LNA request,
\* also the requests of an earlier transfer.
CompletionIsExclusive ==
  LnaCompleting => /\ LnaLeases = {} /\ LnaFailed = {}
                   /\ \A t, u \in Transfers :
                        plane[t] = "lna" /\ plane[u] = "lna"
                        /\ comp[t] # "none" /\ comp[u] # "none" => t = u

\* When the Agent has exited it leaves no transfer in the slot and no .part,
\* except the one orphaned by finish-send-transfer.
ExitIsClean ==
  server = "exited" =>
    /\ active = NoTransfer
    /\ \A t \in Transfers : part[t] = "present" => taker[t] = "finish"

\* Once installed, the file is never written again and its coverage is final.
InstalledIsFrozen ==
  [][\A t \in Transfers : part[t] = "installed" =>
       /\ part'[t] = "installed"
       /\ seg'[t] = seg[t] /\ pos'[t] = pos[t]]_vars

\* Each segment is accepted once: a completed segment is never leased again.
AcceptedOnce ==
  [][\A t \in Transfers, s \in Segments :
       seg[t][s] = "complete" => seg'[t][s] = "complete" /\ pos'[t][s] = pos[t][s]]_vars

\* The slot is handed over only through empty, and a transfer that left it
\* never returns.
SlotHandover ==
  [][/\ active # NoTransfer => active' \in {active, NoTransfer}
     /\ \A t \in Transfers : taker[t] # "none" => taker'[t] = taker[t] /\ active' # t]_vars

\* The manager keeps the contract of TransferContract, whatever its requests,
\* lanes, workers, completions and the shutdown do.
StageOf(t) ==
  IF kind[t] = "none" THEN "new" ELSE IF taker[t] = "none" THEN "open" ELSE taker[t]
AcceptedOf(t) == {s \in Segments : seg[t][s] = "complete"}
Contract == INSTANCE TransferContract WITH
  slot     <- active,
  stage    <- [t \in Transfers |-> StageOf(t)],
  accepted <- [t \in Transfers |-> AcceptedOf(t)],
  file     <- part,
  told     <- terminal
ContractKept == Contract!Spec

\* The Agent itself keeps the ActiveTransfer, and with it the file handle, alive:
\* a completion, a connection about to fail its transfer, or the owner of a lease
\* that does not wait for its peer.
HeldByAgent(t) ==
  /\ Alive
  /\ \/ comp[t] # "none"
     \/ \E c \in Connections : conn[t][c] = "failing"
     \/ \E s \in Segments : io[t][s] # "none" /\ ~AwaitsPeer(t, s)

\* Once a transfer is cancelled or has failed, its requests, lanes, orphaned
\* workers and completions let the file handle go for good, without help of the
\* peer; what may keep it is a peer that stays connected and silent.
OnlyPeersKeepHandle == \A t \in Transfers : Cancelled(t) ~> []~HeldByAgent(t)

\* The end of the Bridge session ends the process.
BridgeEndStopsAgent == bridge = "ended" ~> server = "exited"
=============================================================================
