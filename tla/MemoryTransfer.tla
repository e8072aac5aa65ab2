---------------------------- MODULE MemoryTransfer ----------------------------
(* One benchmark session over WebTransport (transfer.rs run_session): the   *)
(* hello on the control stream, its authentication, the payload that its    *)
(* lanes carry one way or the other, the result that ends it.               *)
(*                                                                          *)
(* A payload is a number of extents, of ExtentSize each but the last.  The  *)
(* browser deals them to its streams as it likes, the Agent in turn.  Bytes *)
(* are units; of a malformed header it matters only that it is refused.     *)
EXTENDS Naturals, FiniteSets

CONSTANTS
    LaneCount,        \* LANE_COUNT, 4
    BlockSize,        \* BLOCK_SIZE, 4 MiB
    ExtentSize,       \* EXTENT_SIZE, 16 MiB
    Totals,           \* sizes a hello asks for
    MaxTransferSize,  \* largest that the settings allow
    Tokens            \* tickets a hello may carry

ASSUME SizesAssumption ==
    /\ LaneCount \in Nat \ {0} /\ BlockSize \in Nat \ {0} /\ ExtentSize \in Nat \ {0}
    /\ MaxTransferSize \in Nat
    /\ Totals \subseteq Nat \ {0}    \* Hello::validate refuses 0

VARIABLES
    connected,  \* the QUIC connection
    phase,      \* where run_session is
    hello,      \* what the browser asked for
    lane,       \* the task of each data stream
    seen,       \* seen_lanes
    coverage,   \* extents that CoverageTracker has recorded
    moved,      \* bytes of each extent that came, or that were sent
    progress,   \* Progress: bytes counted
    outcome,    \* of the payload
    result      \* the TransferResult written

payloadVars == <<lane, seen, coverage, moved, progress>>
sessionVars == <<connected, phase, hello, payloadVars, outcome, result>>

Lanes == 0 .. LaneCount - 1
Least(a, b) == IF a < b THEN a ELSE b

-----------------------------------------------------------------------------
(* Extents *)

Starts(n, total) == n * ExtentSize < total
Extents(total) == {n \in 0 .. total : Starts(n, total)}
Length(n, total) == Least(ExtentSize, total - n * ExtentSize)

\* CoverageTracker::record takes an extent of the transfer, once.
Recordable(n) == n \in Extents(hello.total) \ coverage

\* is_complete
Covered == coverage = Extents(hello.total)

-----------------------------------------------------------------------------
NoHello  == [direction |-> "none", total |-> 0, token |-> "none"]
NoResult == [status |-> "none", bytes |-> 0]
Idle     == [at |-> "none", extent |-> 0, left |-> 0]

SessionInit ==
    /\ connected = TRUE /\ phase = "control" /\ hello = NoHello
    /\ lane = [s \in Lanes |-> Idle]
    /\ seen = {} /\ coverage = {}
    /\ moved = [n \in 0 .. MaxTransferSize |-> 0] /\ progress = 0
    /\ outcome = "none" /\ result = NoResult

Receiving == hello.direction = "receive"
Sending   == hello.direction = "send" /\ phase = "joining"
Live(s)   == lane[s].at \notin {"none", "done", "failed"}

Goto(p) == phase' = p /\ UNCHANGED <<connected, hello, payloadVars, outcome, result>>

-----------------------------------------------------------------------------
(* The control stream *)

ControlOpens == phase = "control" /\ connected /\ Goto("hello")

HelloArrives(d, total, k) ==
    /\ phase = "hello"
    /\ hello' = [direction |-> d, total |-> total, token |-> k]
    /\ phase' = "authenticating"
    /\ UNCHANGED <<connected, payloadVars, outcome, result>>

\* No stream or no whole, valid hello within AUTH_TIMEOUT.
NoHelloInTime == phase \in {"control", "hello"} /\ Goto("over")

Authenticated == phase = "authenticating" /\ Goto("authenticated")
AuthenticationFails == phase = "authenticating" /\ Goto("over")

ValidConfiguration == hello.total <= MaxTransferSize

\* The acknowledgement is written; the Agent's own lanes start at once.
Accept ==
    /\ phase = "authenticated" /\ connected /\ ValidConfiguration
    /\ Goto(IF Receiving THEN "accepting" ELSE "joining")

Decline ==
    /\ phase = "authenticated"
    /\ ~ValidConfiguration \/ ~connected
    /\ Goto("over")

-----------------------------------------------------------------------------
(* The payload *)

\* The JoinSet is dropped, and with it every lane that still runs.
PayloadFails ==
    /\ phase' = "reporting" /\ outcome' = "failed"
    /\ lane' = [s \in Lanes |-> Idle]
    /\ UNCHANGED <<connected, hello, seen, coverage, moved, progress, result>>

LaneGoes(s, l) ==
    /\ lane' = [lane EXCEPT ![s] = l]
    /\ UNCHANGED <<connected, hello, outcome, result>>

\* The browser's streams are accepted one after the other.
AcceptStream(s) ==
    /\ phase = "accepting" /\ connected
    /\ lane[s].at = "none" /\ \A r \in Lanes : r < s => lane[r].at # "none"
    /\ LaneGoes(s, [Idle EXCEPT !.at = "header"])
    /\ phase' = IF s = LaneCount - 1 THEN "joining" ELSE phase
    /\ UNCHANGED <<seen, coverage, moved, progress>>

AcceptFails == phase = "accepting" /\ ~connected /\ PayloadFails

LaneHeader(s, id) ==
    /\ lane[s].at = "header" /\ id \notin seen
    /\ LaneGoes(s, [Idle EXCEPT !.at = "extents"])
    /\ seen' = seen \cup {id}
    /\ UNCHANGED <<phase, coverage, moved, progress>>

\* An extent counts as covered when its header has come.
ExtentHeader(s, n) ==
    /\ Receiving /\ lane[s].at = "extents" /\ Recordable(n)
    /\ LaneGoes(s, [at |-> "payload", extent |-> n, left |-> Length(n, hello.total)])
    /\ coverage' = coverage \cup {n}
    /\ UNCHANGED <<phase, seen, moved, progress>>

\* b bytes of its extent pass; after the last the lane turns to another.
Passes(s, b, next) ==
    LET l == lane[s] IN
    /\ LaneGoes(s, IF l.left = b THEN [at |-> "extents", extent |-> next, left |-> 0]
                                 ELSE [l EXCEPT !.left = @ - b])
    /\ moved' = [moved EXCEPT ![l.extent] = @ + b]
    /\ progress' = progress + b
    /\ UNCHANGED <<phase, seen, coverage>>

\* MUTANT of Chunk: what was asked for is counted, not what came
ChunkAsAsked(s) ==
    LET l == lane[s]
        asked == Least(l.left, BlockSize) IN
    /\ Receiving /\ l.at = "payload"
    /\ LaneGoes(s, IF l.left = asked THEN [Idle EXCEPT !.at = "extents"]
                                     ELSE [l EXCEPT !.left = @ - asked])
    /\ \E b \in 1 .. asked : moved' = [moved EXCEPT ![l.extent] = @ + b]
    /\ progress' = progress + asked
    /\ UNCHANGED <<phase, seen, coverage>>

Chunk(s) ==
    /\ Receiving /\ lane[s].at = "payload"
    /\ \E b \in 1 .. Least(lane[s].left, BlockSize) : Passes(s, b, 0)

\* The terminator, and nothing after it.
LaneEnds(s) ==
    /\ Receiving /\ lane[s].at = "extents"
    /\ LaneGoes(s, [Idle EXCEPT !.at = "done"])
    /\ UNCHANGED <<phase, seen, coverage, moved, progress>>

\* send_lane: the stream is opened and its header written.
OpenLane(s) ==
    /\ Sending /\ connected /\ lane[s].at = "none"
    /\ LaneGoes(s, [at |-> "extents", extent |-> s, left |-> 0])
    /\ UNCHANGED <<phase, seen, coverage, moved, progress>>

\* lane_extent: every LaneCount-th extent, from the lane's own number on.
SendExtent(s) ==
    /\ Sending /\ connected /\ lane[s].at = "extents"
    /\ Starts(lane[s].extent, hello.total)
    /\ LaneGoes(s, [lane[s] EXCEPT !.at = "payload",
                                   !.left = Length(lane[s].extent, hello.total)])
    /\ UNCHANGED <<phase, seen, coverage, moved, progress>>

SendChunk(s) ==
    /\ Sending /\ connected /\ lane[s].at = "payload"
    /\ Passes(s, Least(lane[s].left, BlockSize), lane[s].extent + LaneCount)

SendEnd(s) ==
    /\ Sending /\ connected /\ lane[s].at = "extents"
    /\ ~Starts(lane[s].extent, hello.total)
    /\ LaneGoes(s, [lane[s] EXCEPT !.at = "finished"])
    /\ UNCHANGED <<phase, seen, coverage, moved, progress>>

Acknowledged(s) ==
    /\ Sending /\ connected /\ lane[s].at = "finished"
    /\ LaneGoes(s, [lane[s] EXCEPT !.at = "done"])
    /\ UNCHANGED <<phase, seen, coverage, moved, progress>>

Fails(s) ==
    /\ LaneGoes(s, [Idle EXCEPT !.at = "failed"])
    /\ UNCHANGED <<phase, seen, coverage, moved, progress>>

\* The browser resets or stops a stream, ends it early, or sends what is
\* refused: a wrong or repeated lane, an extent that is not Recordable.
LaneBreaks(s) == Live(s) /\ Fails(s)
LaneLost(s)   == ~connected /\ (Live(s) \/ (Sending /\ lane[s].at = "none")) /\ Fails(s)

\* MUTANT of JoinFails: the others are waited for
JoinFailsLate ==
    /\ phase = "joining" /\ \E s \in Lanes : lane[s].at = "failed"
    /\ \A s \in Lanes : lane[s].at \in {"done", "failed"}
    /\ PayloadFails

\* join_next hands the failure of any lane to the session.
JoinFails ==
    /\ phase = "joining" /\ \E s \in Lanes : lane[s].at = "failed"
    /\ PayloadFails

Verified ==
    /\ Receiving => seen = Lanes /\ Covered
    /\ progress = hello.total

JoinAll ==
    /\ phase = "joining" /\ \A s \in Lanes : lane[s].at = "done"
    /\ outcome' = IF Verified THEN "ok" ELSE "failed"
    /\ phase' = "reporting"
    /\ UNCHANGED <<connected, hello, payloadVars, result>>

-----------------------------------------------------------------------------
(* The end *)

Report ==
    /\ phase = "reporting" /\ connected
    /\ result' = [status |-> outcome, bytes |-> progress]
    /\ phase' = IF outcome = "ok" THEN "draining" ELSE "over"
    /\ UNCHANGED <<connected, hello, payloadVars, outcome>>

ReportFails == phase = "reporting" /\ ~connected /\ Goto("over")

\* The browser has read the result, or CONTROL_TIMEOUT is over.
Close == phase = "draining" /\ Goto("over")

Lose ==
    /\ connected /\ phase # "over"
    /\ connected' = FALSE
    /\ UNCHANGED <<phase, hello, payloadVars, outcome, result>>

-----------------------------------------------------------------------------
Control == ControlOpens \/ NoHelloInTime \/ Accept \/ Decline

LaneStep(s) ==
    \/ AcceptStream(s) \/ Chunk(s) \/ LaneEnds(s)
    \/ \E id \in Lanes : LaneHeader(s, id)
    \/ \E n \in Extents(hello.total) : ExtentHeader(s, n)
    \/ OpenLane(s) \/ SendExtent(s) \/ SendChunk(s) \/ SendEnd(s) \/ Acknowledged(s)
    \/ LaneBreaks(s) \/ LaneLost(s)

Ending == AcceptFails \/ JoinFails \/ JoinAll \/ Report \/ ReportFails \/ Close \/ Lose

SessionNext ==
    \/ Control \/ Authenticated \/ AuthenticationFails \/ Ending
    \/ \E d \in {"receive", "send"}, total \in Totals, k \in Tokens : HelloArrives(d, total, k)
    \/ \E s \in Lanes : LaneStep(s)

SessionSpec == SessionInit /\ [][SessionNext]_sessionVars

-----------------------------------------------------------------------------
StreamStates == {"none", "header", "extents", "payload", "finished", "done", "failed"}

SessionTypeOK ==
    /\ connected \in BOOLEAN
    /\ phase \in {"control", "hello", "authenticating", "authenticated", "accepting",
                  "joining", "reporting", "draining", "over"}
    /\ hello \in {NoHello} \cup
                 [direction : {"receive", "send"}, total : Totals, token : Tokens]
    /\ lane \in [Lanes -> [at : StreamStates, extent : Nat, left : Nat]]
    /\ seen \subseteq Lanes /\ coverage \subseteq 0 .. MaxTransferSize
    /\ moved \in [0 .. MaxTransferSize -> Nat] /\ progress \in Nat
    /\ outcome \in {"none", "ok", "failed"}
    /\ result \in [status : {"none", "ok", "failed"}, bytes : Nat]

\* A payload that is reported as accepted is there to the last byte, each
\* extent once, however it was dealt to the lanes and whatever broke: the
\* coverage is marked before the bytes come (transfer.rs receive_memory,
\* receive_lane, send_memory; coverage.rs).
AcceptedIsWhole ==
    result.status = "ok" =>
        /\ \A n \in Extents(hello.total) : moved[n] = Length(n, hello.total)
        /\ result.bytes = hello.total

\* A session that lost its connection is over in the end, none goes on when one
\* of its lanes has failed while the others wait for the browser, and none
\* waits for its hello forever (transfer.rs run_session, join_next).
SessionEnds ==
    /\ ~connected ~> phase = "over"
    /\ (phase = "joining" /\ \E s \in Lanes : lane[s].at = "failed") ~> phase # "joining"
    /\ phase \in {"control", "hello"} ~> phase \notin {"control", "hello"}
=============================================================================
