--------------------------- MODULE BenchmarkProofs ----------------------------
(***************************************************************************)
(* Proofs about the benchmark: what a session reports as accepted is there, *)
(* however the extents were dealt to the lanes (transfer.rs, coverage.rs), *)
(* and beside requests and tickets the session keeps its promises and no   *)
(* ticket moves two transfers (lna_http.rs route_request).                 *)
(*                                                                         *)
(* A receiving session marks an extent as covered before its bytes come, so *)
(* the invariant says who still carries the rest of it; a sending one deals *)
(* extent n to lane n modulo LaneCount, so the invariant says up to which  *)
(* of its own each lane is through.                                        *)
(***************************************************************************)
EXTENDS Benchmark, TLAPS

-----------------------------------------------------------------------------
(* Extents *)

\* An extent of a transfer is not empty, and there are fewer of them than bytes.
LEMMA ExtentFacts ==
    ASSUME NEW total \in Nat, NEW n \in Extents(total)
    PROVE  /\ n \in Nat /\ n < total
           /\ Length(n, total) \in Nat /\ Length(n, total) > 0
<1>1. n \in Nat /\ n * ExtentSize < total /\ n * ExtentSize \in Nat
  BY SizesAssumption DEF SizesAssumption, Extents, Starts
<1>2. n <= n * ExtentSize
  BY <1>1, SizesAssumption DEF SizesAssumption
<1> QED BY <1>1, <1>2, SizesAssumption DEF SizesAssumption, Length, Least

\* Behind an extent that does not start there is none.
LEMMA NoneStartsLater ==
    ASSUME NEW total \in Nat, NEW n \in Extents(total), NEW e \in Nat, ~Starts(e, total)
    PROVE  n < e
<1>1. n \in Nat /\ n * ExtentSize < total /\ n * ExtentSize \in Nat
      /\ e * ExtentSize >= total /\ e * ExtentSize \in Nat
  BY SizesAssumption DEF SizesAssumption, Extents, Starts
<1>2. ASSUME n >= e PROVE FALSE
  <2>1. n * ExtentSize >= e * ExtentSize
    BY <1>1, <1>2, SizesAssumption DEF SizesAssumption
  <2> QED BY <1>1, <2>1
<1> QED BY <1>1, <1>2

\* An extent that starts is one of the transfer.
LEMMA StartsIsExtent ==
    ASSUME NEW total \in Nat, NEW n \in Nat, Starts(n, total)
    PROVE  n \in Extents(total)
<1>1. n <= n * ExtentSize /\ n * ExtentSize \in Nat /\ n * ExtentSize < total
  BY SizesAssumption DEF SizesAssumption, Starts
<1> QED BY <1>1 DEF Extents

-----------------------------------------------------------------------------
(* Lanes that send deal the extents out in turn *)

Mine(s) == {n \in Nat : \E k \in Nat : n = s + k * LaneCount}

\* What a lane deals with are extents.
LEMMA MineIsNat == \A s : Mine(s) \subseteq Nat
BY DEF Mine

\* A lane begins with the extent of its own number.
LEMMA MineFirst == \A s \in Lanes : s \in Mine(s)
<1>1. \A s \in Lanes : s \in Nat /\ s = s + 0 * LaneCount
  BY SizesAssumption DEF SizesAssumption, Lanes
<1> QED BY <1>1 DEF Mine

\* The next of its extents is LaneCount further.
LEMMA MineNext == \A s \in Lanes : \A n \in Mine(s) : n + LaneCount \in Mine(s)
<1> SUFFICES ASSUME NEW s \in Lanes, NEW n \in Mine(s) PROVE n + LaneCount \in Mine(s)
  OBVIOUS
<1>1. PICK k \in Nat : n = s + k * LaneCount
  BY DEF Mine
<1>2. n \in Nat /\ s \in Nat /\ LaneCount \in Nat
  BY SizesAssumption DEF SizesAssumption, Mine, Lanes
<1>3. (k + 1) * LaneCount = k * LaneCount + LaneCount /\ k * LaneCount \in Nat
  BY <1>2
<1>4. n + LaneCount = s + (k + 1) * LaneCount
  BY <1>1, <1>2, <1>3
<1>5. k + 1 \in Nat /\ n + LaneCount \in Nat
  BY <1>2
<1>6. \E i \in Nat : n + LaneCount = s + i * LaneCount
  BY <1>4, <1>5
<1> QED BY <1>5, <1>6 DEF Mine

\* Between two of its extents that follow one another there is none.
LEMMA MineApart ==
    \A s \in Lanes : \A m, n \in Mine(s) : m < n => m + LaneCount <= n
<1> SUFFICES ASSUME NEW s \in Lanes, NEW m \in Mine(s), NEW n \in Mine(s), m < n
             PROVE  m + LaneCount <= n
  OBVIOUS
<1>1. PICK j \in Nat : m = s + j * LaneCount
  BY DEF Mine
<1>2. PICK k \in Nat : n = s + k * LaneCount
  BY DEF Mine
<1>3. s \in Nat /\ LaneCount \in Nat \ {0}
  BY SizesAssumption DEF SizesAssumption, Lanes
<1>4. j < k
  <2>1. ASSUME k <= j PROVE FALSE
    <3>1. k * LaneCount <= j * LaneCount
      BY <1>3, <2>1
    <3> QED BY <1>1, <1>2, <1>3, <3>1
  <2> QED BY <2>1
<1>5. (j + 1) * LaneCount <= k * LaneCount
  BY <1>3, <1>4
<1> QED BY <1>1, <1>2, <1>3, <1>5

\* No extent belongs to two lanes.
LEMMA MineAlone ==
    \A s, t \in Lanes : \A n : n \in Mine(s) /\ n \in Mine(t) => s = t
<1> SUFFICES ASSUME NEW s \in Lanes, NEW t \in Lanes, NEW n, n \in Mine(s), n \in Mine(t)
             PROVE  s = t
  OBVIOUS
<1>1. PICK j \in Nat : n = s + j * LaneCount
  BY DEF Mine
<1>2. PICK k \in Nat : n = t + k * LaneCount
  BY DEF Mine
<1>3. /\ s \in Nat /\ t \in Nat /\ LaneCount \in Nat \ {0}
      /\ s < LaneCount /\ t < LaneCount
  BY SizesAssumption DEF SizesAssumption, Lanes
<1>4. ASSUME NEW a \in Nat, NEW b \in Nat, NEW p \in Nat, NEW q \in Nat, q < LaneCount,
             a < b, p + a * LaneCount = q + b * LaneCount, p < LaneCount
      PROVE  FALSE
  <2>1. (a + 1) * LaneCount <= b * LaneCount
    BY <1>3, <1>4
  <2>2. (a + 1) * LaneCount = a * LaneCount + LaneCount
    BY <1>3
  <2> QED BY <1>3, <1>4, <2>1, <2>2
<1>5. j = k
  BY <1>1, <1>2, <1>3, <1>4
<1> QED BY <1>1, <1>2, <1>3, <1>5

\* Every extent belongs to a lane.
LEMMA MineSome == \A n \in Nat : \E s \in Lanes : n \in Mine(s)
<1> SUFFICES ASSUME NEW n \in Nat PROVE \E s \in Lanes : n \in Mine(s)
  OBVIOUS
<1>1. LaneCount \in Nat /\ LaneCount > 0
  BY SizesAssumption DEF SizesAssumption
<1>2. /\ n % LaneCount \in 0 .. LaneCount - 1 /\ n \div LaneCount \in Nat
      /\ n = (n % LaneCount) + (n \div LaneCount) * LaneCount
  BY <1>1
<1> QED BY <1>1, <1>2 DEF Mine, Lanes

-----------------------------------------------------------------------------
(* The invariant *)

Before  == phase \in {"control", "hello", "authenticating", "authenticated"}
Working == phase \in {"accepting", "joining"}

\* Nothing has happened before the payload begins, and nothing happens after it.
Fresh ==
    /\ lane = [s \in Lanes |-> Idle]
    /\ seen = {} /\ coverage = {}
    /\ moved = [n \in 0 .. MaxTransferSize |-> 0] /\ progress = 0
PhaseInv ==
    /\ Before => Fresh
    /\ Before \/ Working => outcome = "none"
    /\ ~Working => \A s \in Lanes : ~Live(s)

\* What is moved is what a hello asked for, within the settings.
HelloInv ==
    phase \in {"authenticating", "authenticated", "accepting", "joining"} =>
        hello \in [direction : {"receive", "send"}, total : Totals, token : Tokens]
BoundInv ==
    /\ Working => hello.total \in Nat /\ hello.total <= MaxTransferSize
    /\ phase = "accepting" => hello.direction = "receive"

\* A covered extent is whole, or one lane carries the rest of it.
Carries(s, n) == lane[s].at = "payload" /\ lane[s].extent = n
ReceiveInv ==
    Working /\ hello.direction = "receive" =>
        /\ coverage \subseteq Extents(hello.total)
        /\ \A n \in 0 .. MaxTransferSize : n \notin coverage => moved[n] = 0
        /\ \A s \in Lanes : lane[s].at = "payload" =>
              /\ lane[s].extent \in coverage
              /\ moved[lane[s].extent] + lane[s].left = Length(lane[s].extent, hello.total)
        /\ \A s, t \in Lanes :
              lane[s].at = "payload" /\ lane[t].at = "payload" /\ s # t =>
                  lane[s].extent # lane[t].extent
        /\ \A n \in coverage :
              \/ moved[n] = Length(n, hello.total)
              \/ \E s \in Lanes : Carries(s, n)
              \/ \E s \in Lanes : lane[s].at = "failed"

\* A lane that sends is through with its own extents up to the one it is at.
SentBy(s) ==
    LET l == lane[s] IN
    /\ l.at \in {"none", "extents", "payload", "finished", "done", "failed"}
    /\ l.at = "none" => \A n \in Mine(s) \cap 0 .. MaxTransferSize : moved[n] = 0
    /\ l.at \in {"extents", "payload", "finished", "done"} =>
        /\ l.extent \in Mine(s)
        /\ \A n \in Mine(s) \cap Extents(hello.total) :
              n < l.extent => moved[n] = Length(n, hello.total)
        /\ \A n \in Mine(s) \cap 0 .. MaxTransferSize : n > l.extent => moved[n] = 0
    /\ l.at = "extents" /\ l.extent \in 0 .. MaxTransferSize => moved[l.extent] = 0
    /\ l.at = "payload" =>
        /\ l.extent \in Extents(hello.total)
        /\ moved[l.extent] + l.left = Length(l.extent, hello.total)
    /\ l.at \in {"finished", "done"} => ~Starts(l.extent, hello.total)
SendInv == phase = "joining" /\ hello.direction = "send" => \A s \in Lanes : SentBy(s)

\* A payload is called complete when it is.
Whole == \A n \in Extents(hello.total) : moved[n] = Length(n, hello.total)
OutcomeInv ==
    /\ outcome = "ok" => Whole /\ progress = hello.total
    /\ result.status = "ok" => outcome = "ok" /\ result.bytes = hello.total

SessionInv ==
    /\ SessionTypeOK /\ PhaseInv /\ HelloInv /\ BoundInv
    /\ ReceiveInv /\ SendInv /\ OutcomeInv

-----------------------------------------------------------------------------
(* Steps of the session itself *)

\* The invariant holds when a session begins.
LEMMA InvInit == SessionInit => SessionInv
<1> SUFFICES ASSUME SessionInit PROVE SessionInv
  OBVIOUS
<1>1. SessionTypeOK
  BY SizesAssumption DEF SessionInit, SessionTypeOK, NoHello, NoResult, Idle, StreamStates, SizesAssumption
<1>2. PhaseInv
  BY DEF SessionInit, PhaseInv, Before, Working, Fresh, Live, Idle
<1>3. HelloInv /\ BoundInv /\ ReceiveInv /\ SendInv
  BY DEF SessionInit, HelloInv, BoundInv, ReceiveInv, SendInv, Working
<1>4. OutcomeInv
  BY DEF SessionInit, OutcomeInv, NoResult
<1> QED BY <1>1, <1>2, <1>3, <1>4 DEF SessionInv

\* The phase changes, before the payload or after it.
LEMMA GotoKeeps ==
    ASSUME SessionInv, NEW p, Goto(p), ~Working,
           \/ p = "over"
           \/ p = "hello" /\ Before
           \/ p = "authenticated" /\ phase = "authenticating"
    PROVE  SessionInv'
<1>1. SessionTypeOK'
  BY DEF SessionInv, SessionTypeOK, Goto, payloadVars
<1>2. PhaseInv'
  BY DEF SessionInv, PhaseInv, Before, Working, Goto, payloadVars, Fresh, Live
<1>3. HelloInv' /\ BoundInv' /\ ReceiveInv' /\ SendInv'
  BY DEF SessionInv, HelloInv, BoundInv, ReceiveInv, SendInv, Working, Goto
<1>4. OutcomeInv'
  BY DEF SessionInv, OutcomeInv, Whole, Goto, payloadVars
<1> QED BY <1>1, <1>2, <1>3, <1>4 DEF SessionInv

\* The control stream up to the authentication.
LEMMA ControlKeeps == SessionInv /\ (ControlOpens \/ NoHelloInTime \/ Decline) => SessionInv'
BY GotoKeeps DEF ControlOpens, NoHelloInTime, Decline, Before, Working

\* The answer of the ticket authority.
LEMMA TicketKeeps == SessionInv /\ (Authenticated \/ AuthenticationFails) => SessionInv'
BY GotoKeeps DEF Authenticated, AuthenticationFails, Before, Working

\* The end of a session that has reported, or cannot.
LEMMA CloseKeeps == SessionInv /\ (ReportFails \/ Close) => SessionInv'
BY GotoKeeps DEF ReportFails, Close, Before, Working

\* A hello names a transfer; none has begun.
LEMMA HelloKeeps ==
    ASSUME SessionInv, NEW d \in {"receive", "send"}, NEW total \in Totals, NEW k \in Tokens,
           HelloArrives(d, total, k)
    PROVE  SessionInv'
<1>1. hello' \in [direction : {"receive", "send"}, total : Totals, token : Tokens]
  BY DEF HelloArrives
<1>2. SessionTypeOK'
  BY <1>1 DEF SessionInv, SessionTypeOK, HelloArrives, payloadVars
<1>3. PhaseInv'
  BY DEF SessionInv, PhaseInv, Before, Working, HelloArrives, payloadVars, Fresh, Live
<1>4. HelloInv' /\ BoundInv' /\ ReceiveInv' /\ SendInv'
  BY <1>1 DEF SessionInv, HelloInv, BoundInv, ReceiveInv, SendInv, Working, HelloArrives
<1>5. OutcomeInv'
  BY DEF SessionInv, OutcomeInv, PhaseInv, Before, HelloArrives
<1> QED BY <1>2, <1>3, <1>4, <1>5 DEF SessionInv

\* The payload begins with nothing covered, nothing moved and no lane.
LEMMA AcceptKeeps == SessionInv /\ Accept => SessionInv'
<1> SUFFICES ASSUME SessionInv, Accept PROVE SessionInv'
  OBVIOUS
<1>1. /\ phase = "authenticated" /\ Fresh /\ outcome = "none"
      /\ UNCHANGED <<connected, hello, payloadVars, outcome, result>>
      /\ phase' = IF Receiving THEN "accepting" ELSE "joining"
      /\ hello.total <= MaxTransferSize
      /\ hello \in [direction : {"receive", "send"}, total : Totals, token : Tokens]
  BY DEF SessionInv, PhaseInv, HelloInv, Before, Accept, Goto, ValidConfiguration
<1>2. hello.total \in Nat /\ hello.direction \in {"receive", "send"}
  BY <1>1, SizesAssumption DEF SizesAssumption
<1>3. SessionTypeOK'
  BY <1>1 DEF SessionInv, SessionTypeOK, payloadVars
<1>4. PhaseInv'
  BY <1>1 DEF PhaseInv, Before, Working
<1>5. HelloInv' /\ BoundInv'
  BY <1>1, <1>2 DEF HelloInv, BoundInv, Working, Receiving
<1>6. ReceiveInv'
  BY <1>1 DEF ReceiveInv, Fresh, payloadVars, Idle, Carries
<1>7. SendInv'
  BY <1>1, MineIsNat DEF SendInv, SentBy, Fresh, payloadVars, Idle
<1>8. OutcomeInv'
  BY <1>1 DEF SessionInv, OutcomeInv
<1> QED BY <1>3, <1>4, <1>5, <1>6, <1>7, <1>8 DEF SessionInv

\* A connection that is lost changes nothing that was counted.
LEMMA LoseKeeps == SessionInv /\ Lose => SessionInv'
<1> SUFFICES ASSUME SessionInv, Lose PROVE SessionInv'
  OBVIOUS
<1>1. UNCHANGED <<phase, hello, payloadVars, outcome, result>> /\ connected' \in BOOLEAN
  BY DEF Lose
<1>2. SessionTypeOK'
  BY <1>1 DEF SessionInv, SessionTypeOK, payloadVars
<1>3. PhaseInv' /\ HelloInv' /\ BoundInv'
  BY <1>1 DEF SessionInv, PhaseInv, HelloInv, BoundInv, Before, Working, Fresh, Live, payloadVars
<1>4. ReceiveInv' /\ SendInv' /\ OutcomeInv'
  BY <1>1 DEF SessionInv, ReceiveInv, SendInv, SentBy, Carries, OutcomeInv, Whole, Working, payloadVars
<1> QED BY <1>2, <1>3, <1>4 DEF SessionInv

-----------------------------------------------------------------------------
(* The end of the payload *)

\* A payload that fails takes its lanes with it.
LEMMA PayloadFailsKeeps == SessionInv /\ Working /\ PayloadFails => SessionInv'
<1> SUFFICES ASSUME SessionInv, Working, PayloadFails PROVE SessionInv'
  OBVIOUS
<1>1. SessionTypeOK'
  BY DEF SessionInv, SessionTypeOK, PayloadFails, Idle, StreamStates
<1>2. PhaseInv'
  BY DEF PhaseInv, PayloadFails, Before, Working, Live, Idle
<1>3. HelloInv' /\ BoundInv' /\ ReceiveInv' /\ SendInv'
  BY DEF HelloInv, BoundInv, ReceiveInv, SendInv, Working, PayloadFails
<1>4. OutcomeInv'
  BY DEF SessionInv, PhaseInv, OutcomeInv, PayloadFails
<1> QED BY <1>1, <1>2, <1>3, <1>4 DEF SessionInv

\* Every lane is done, so what it covered, or what was its own to send, is whole.
LEMMA DoneIsWhole ==
    ASSUME SessionInv, phase = "joining", \A s \in Lanes : lane[s].at = "done", Verified
    PROVE  Whole
<1>1. hello.total \in Nat /\ hello.total <= MaxTransferSize
      /\ hello.direction \in {"receive", "send"}
  BY DEF SessionInv, BoundInv, HelloInv, Working
<1>2. CASE hello.direction = "receive"
  <2>1. coverage = Extents(hello.total)
    BY <1>2 DEF Verified, Receiving, Covered
  <2>2. ASSUME NEW n \in coverage PROVE moved[n] = Length(n, hello.total)
    BY <1>2 DEF SessionInv, ReceiveInv, Working, Carries
  <2> QED BY <2>1, <2>2 DEF Whole
<1>3. CASE hello.direction = "send"
  <2> SUFFICES ASSUME NEW n \in Extents(hello.total)
               PROVE  moved[n] = Length(n, hello.total)
    BY DEF Whole
  <2>1. n \in Nat
    BY <1>1, ExtentFacts
  <2>2. PICK s \in Lanes : n \in Mine(s)
    BY <2>1, MineSome
  <2>3. SentBy(s) /\ lane[s].at = "done"
    BY <1>3, <2>2 DEF SessionInv, SendInv
  <2>4. /\ lane[s].extent \in Mine(s) /\ ~Starts(lane[s].extent, hello.total)
        /\ n < lane[s].extent => moved[n] = Length(n, hello.total)
    BY <2>2, <2>3 DEF SentBy
  <2>5. n < lane[s].extent
    BY <1>1, <2>4, NoneStartsLater, MineIsNat
  <2> QED BY <2>4, <2>5
<1> QED BY <1>1, <1>2, <1>3

\* The outcome of a payload whose lanes are all done.
LEMMA JoinAllKeeps == SessionInv /\ JoinAll => SessionInv'
<1> SUFFICES ASSUME SessionInv, JoinAll PROVE SessionInv'
  OBVIOUS
<1>1. /\ phase = "joining" /\ phase' = "reporting" /\ \A s \in Lanes : lane[s].at = "done"
      /\ UNCHANGED <<connected, hello, payloadVars, result>>
      /\ outcome' = IF Verified THEN "ok" ELSE "failed"
  BY DEF JoinAll
<1>2. SessionTypeOK'
  BY <1>1 DEF SessionInv, SessionTypeOK, payloadVars
<1>3. PhaseInv'
  BY <1>1 DEF PhaseInv, Before, Working, Live, payloadVars
<1>4. HelloInv' /\ BoundInv' /\ ReceiveInv' /\ SendInv'
  BY <1>1 DEF HelloInv, BoundInv, ReceiveInv, SendInv, Working
<1>5. OutcomeInv'
  <2>1. outcome = "none" /\ result.status # "ok"
    BY <1>1 DEF SessionInv, PhaseInv, Working, OutcomeInv
  <2>2. CASE Verified
    <3>1. Whole /\ progress = hello.total
      BY <1>1, <2>2, DoneIsWhole DEF Verified
    <3> QED BY <1>1, <2>1, <3>1 DEF OutcomeInv, Whole, payloadVars
  <2>3. CASE ~Verified
    BY <1>1, <2>1, <2>3 DEF OutcomeInv
  <2> QED BY <2>2, <2>3
<1> QED BY <1>2, <1>3, <1>4, <1>5 DEF SessionInv

\* The result says what the payload came to.
LEMMA ReportKeeps == SessionInv /\ Report => SessionInv'
<1> SUFFICES ASSUME SessionInv, Report PROVE SessionInv'
  OBVIOUS
<1>1. /\ phase = "reporting" /\ phase' \in {"draining", "over"}
      /\ result' = [status |-> outcome, bytes |-> progress]
      /\ UNCHANGED <<connected, hello, payloadVars, outcome>>
  BY DEF Report
<1>2. SessionTypeOK'
  BY <1>1 DEF SessionInv, SessionTypeOK, payloadVars
<1>3. PhaseInv'
  BY <1>1 DEF SessionInv, PhaseInv, Before, Working, Live, payloadVars
<1>4. HelloInv' /\ BoundInv' /\ ReceiveInv' /\ SendInv'
  BY <1>1 DEF HelloInv, BoundInv, ReceiveInv, SendInv, Working
<1>5. OutcomeInv'
  BY <1>1 DEF SessionInv, OutcomeInv, Whole, payloadVars
<1> QED BY <1>2, <1>3, <1>4, <1>5 DEF SessionInv

-----------------------------------------------------------------------------
(* Steps of a lane *)

\* What every step of a lane leaves alone.
LEMMA LaneFrame ==
    ASSUME SessionInv, Working, Working', (phase = "joining" => phase' = "joining"),
           phase' = "accepting" => phase = "accepting",
           UNCHANGED <<connected, hello, outcome, result>>, SessionTypeOK'
    PROVE  SessionTypeOK' /\ PhaseInv' /\ HelloInv' /\ BoundInv' /\ OutcomeInv'
<1>1. outcome = "none" /\ result.status # "ok"
  BY DEF SessionInv, PhaseInv, OutcomeInv
<1>2. PhaseInv'
  BY <1>1 DEF PhaseInv, Before, Working
<1>3. HelloInv' /\ BoundInv'
  BY DEF SessionInv, HelloInv, BoundInv, Working
<1>4. OutcomeInv'
  BY <1>1 DEF OutcomeInv
<1> QED BY <1>2, <1>3, <1>4

\* What a session that works has for a hello.
LEMMA LaneFacts ==
    ASSUME SessionInv, Working
    PROVE  /\ hello.direction \in {"receive", "send"}
           /\ hello.total \in Nat /\ hello.total <= MaxTransferSize
           /\ Extents(hello.total) \subseteq 0 .. MaxTransferSize
           /\ lane \in [Lanes -> [at : StreamStates, extent : Nat, left : Nat]]
           /\ moved \in [0 .. MaxTransferSize -> Nat] /\ progress \in Nat
<1>1. hello.direction \in {"receive", "send"} /\ hello.total \in Nat /\ hello.total <= MaxTransferSize
  BY DEF SessionInv, HelloInv, BoundInv, Working
<1>2. ASSUME NEW n \in Extents(hello.total) PROVE n \in 0 .. MaxTransferSize
  <2>1. n \in Nat /\ n < hello.total
    BY <1>1, ExtentFacts
  <2> QED BY <1>1, <2>1, SizesAssumption DEF SizesAssumption
<1> QED BY <1>1, <1>2 DEF SessionInv, SessionTypeOK

\* A receiving lane that turns to something else than a payload, or fails with one.
LEMMA ReceiveQuiet ==
    ASSUME SessionInv, Working, Working', NEW s \in Lanes, NEW l,
           lane' = [lane EXCEPT ![s] = l], UNCHANGED <<hello, coverage, moved>>,
           l.at # "payload", lane[s].at # "failed",
           lane[s].at # "payload" \/ l.at = "failed"
    PROVE  ReceiveInv'
<1> SUFFICES ASSUME hello.direction = "receive" PROVE ReceiveInv'
  BY DEF ReceiveInv
<1>1. /\ coverage \subseteq Extents(hello.total)
      /\ \A n \in 0 .. MaxTransferSize : n \notin coverage => moved[n] = 0
      /\ \A t \in Lanes : lane[t].at = "payload" =>
            /\ lane[t].extent \in coverage
            /\ moved[lane[t].extent] + lane[t].left = Length(lane[t].extent, hello.total)
      /\ \A r, t \in Lanes :
            lane[r].at = "payload" /\ lane[t].at = "payload" /\ r # t =>
                lane[r].extent # lane[t].extent
      /\ \A n \in coverage :
            \/ moved[n] = Length(n, hello.total)
            \/ \E t \in Lanes : Carries(t, n)
            \/ \E t \in Lanes : lane[t].at = "failed"
  BY DEF SessionInv, ReceiveInv
<1>2. /\ lane'[s] = l
      /\ \A t \in Lanes \ {s} : lane'[t] = lane[t]
  BY LaneFacts
<1>3. ASSUME NEW n \in coverage
      PROVE  \/ moved[n] = Length(n, hello.total)
             \/ \E t \in Lanes : lane'[t].at = "payload" /\ lane'[t].extent = n
             \/ \E t \in Lanes : lane'[t].at = "failed"
  <2>1. CASE moved[n] = Length(n, hello.total)
    BY <2>1
  <2>2. CASE \E t \in Lanes : Carries(t, n)
    <3>1. PICK t \in Lanes : lane[t].at = "payload" /\ lane[t].extent = n
      BY <2>2 DEF Carries
    <3>2. CASE t = s
      BY <1>2, <3>1, <3>2
    <3>3. CASE t # s
      BY <1>2, <3>1, <3>3
    <3> QED BY <3>2, <3>3
  <2>3. CASE \E t \in Lanes : lane[t].at = "failed"
    BY <1>2, <2>3
  <2> QED BY <1>1, <2>1, <2>2, <2>3
<1>4. \A t \in Lanes : lane'[t].at = "payload" => t # s /\ lane'[t] = lane[t]
  BY <1>2
<1> QED BY <1>1, <1>3, <1>4 DEF ReceiveInv, Carries

\* A sending lane that another lane's step leaves alone.
LEMMA SendOther ==
    ASSUME SessionInv, Working, NEW t \in Lanes, SentBy(t), lane'[t] = lane[t], hello' = hello,
           \A n \in Mine(t) \cap 0 .. MaxTransferSize : moved'[n] = moved[n]
    PROVE  SentBy(t)'
<1>1. Extents(hello.total) \subseteq 0 .. MaxTransferSize
  BY LaneFacts
<1>2. SentBy(t)' <=>
        LET l == lane[t] IN
        /\ l.at \in {"none", "extents", "payload", "finished", "done", "failed"}
        /\ l.at = "none" => \A n \in Mine(t) \cap 0 .. MaxTransferSize : moved'[n] = 0
        /\ l.at \in {"extents", "payload", "finished", "done"} =>
            /\ l.extent \in Mine(t)
            /\ \A n \in Mine(t) \cap Extents(hello.total) :
                  n < l.extent => moved'[n] = Length(n, hello.total)
            /\ \A n \in Mine(t) \cap 0 .. MaxTransferSize : n > l.extent => moved'[n] = 0
        /\ l.at = "extents" /\ l.extent \in 0 .. MaxTransferSize => moved'[l.extent] = 0
        /\ l.at = "payload" =>
            /\ l.extent \in Extents(hello.total)
            /\ moved'[l.extent] + l.left = Length(l.extent, hello.total)
        /\ l.at \in {"finished", "done"} => ~Starts(l.extent, hello.total)
  BY DEF SentBy
<1> QED BY <1>1, <1>2 DEF SentBy

-----------------------------------------------------------------------------
(* Steps of a lane that receives *)

\* Only the payload of a session that works has lanes that live.
LEMMA LiveWorks ==
    ASSUME SessionInv, NEW s \in Lanes, Live(s)
    PROVE  Working
BY DEF SessionInv, PhaseInv

\* A stream that is accepted carries nothing yet.
LEMMA AcceptStreamKeeps ==
    ASSUME SessionInv, NEW s \in Lanes, AcceptStream(s)
    PROVE  SessionInv'
<1> DEFINE l == [Idle EXCEPT !.at = "header"]
<1>1. /\ phase = "accepting" /\ phase' \in {"accepting", "joining"} /\ lane[s].at = "none"
      /\ lane' = [lane EXCEPT ![s] = l]
      /\ UNCHANGED <<connected, hello, outcome, result, seen, coverage, moved, progress>>
  BY DEF AcceptStream, LaneGoes
<1>2. /\ l = [at |-> "header", extent |-> 0, left |-> 0]
      /\ l \in [at : StreamStates, extent : Nat, left : Nat]
  BY DEF Idle, StreamStates
<1>3. Working /\ Working' /\ hello.direction = "receive"
  BY <1>1 DEF Working, SessionInv, BoundInv
<1>4. SessionTypeOK'
  BY <1>1, <1>2 DEF SessionInv, SessionTypeOK
<1>5. PhaseInv' /\ HelloInv' /\ BoundInv' /\ OutcomeInv'
  BY <1>1, <1>3, <1>4, LaneFrame
<1>6. ReceiveInv'
  BY <1>1, <1>2, <1>3, ReceiveQuiet
<1>7. SendInv'
  BY <1>1, <1>3 DEF SendInv
<1> QED BY <1>4, <1>5, <1>6, <1>7 DEF SessionInv

\* Only a receiving session reads lane headers.
LEMMA LaneHeaderKeeps ==
    ASSUME SessionInv, NEW s \in Lanes, NEW id \in Lanes, LaneHeader(s, id)
    PROVE  SessionInv'
<1> DEFINE l == [Idle EXCEPT !.at = "extents"]
<1>1. /\ lane[s].at = "header" /\ lane' = [lane EXCEPT ![s] = l] /\ seen' = seen \cup {id}
      /\ UNCHANGED <<connected, hello, outcome, result, phase, coverage, moved, progress>>
  BY DEF LaneHeader, LaneGoes
<1>2. /\ l = [at |-> "extents", extent |-> 0, left |-> 0]
      /\ l \in [at : StreamStates, extent : Nat, left : Nat]
  BY DEF Idle, StreamStates
<1>3. Working /\ Working'
  BY <1>1, LiveWorks DEF Live, Working
<1>4. hello.direction = "receive"
  BY <1>1, <1>3, LaneFacts DEF SessionInv, SendInv, SentBy, BoundInv, Working
<1>5. SessionTypeOK'
  BY <1>1, <1>2 DEF SessionInv, SessionTypeOK
<1>6. PhaseInv' /\ HelloInv' /\ BoundInv' /\ OutcomeInv'
  BY <1>1, <1>3, <1>5, LaneFrame
<1>7. ReceiveInv'
  BY <1>1, <1>2, <1>3, ReceiveQuiet
<1>8. SendInv'
  BY <1>1, <1>4 DEF SendInv
<1> QED BY <1>5, <1>6, <1>7, <1>8 DEF SessionInv

\* An extent is covered from its header on, and its lane carries all of it.
LEMMA ExtentHeaderKeeps ==
    ASSUME SessionInv, NEW s \in Lanes, NEW n \in Extents(hello.total), ExtentHeader(s, n)
    PROVE  SessionInv'
<1> DEFINE l == [at |-> "payload", extent |-> n, left |-> Length(n, hello.total)]
<1>1. /\ lane[s].at = "extents" /\ hello.direction = "receive" /\ n \notin coverage
      /\ lane' = [lane EXCEPT ![s] = l] /\ coverage' = coverage \cup {n}
      /\ UNCHANGED <<connected, hello, outcome, result, phase, seen, moved, progress>>
  BY DEF ExtentHeader, LaneGoes, Receiving, Recordable
<1>2. Working /\ Working'
  BY <1>1, LiveWorks DEF Live, Working
<1>3. /\ n \in Nat /\ n \in 0 .. MaxTransferSize /\ Length(n, hello.total) \in Nat
      /\ lane \in [Lanes -> [at : StreamStates, extent : Nat, left : Nat]]
  BY <1>2, LaneFacts, ExtentFacts
<1>4. SessionTypeOK'
  BY <1>1, <1>3 DEF SessionInv, SessionTypeOK, StreamStates
<1>5. PhaseInv' /\ HelloInv' /\ BoundInv' /\ OutcomeInv'
  BY <1>1, <1>2, <1>4, LaneFrame
<1>6. SendInv'
  BY <1>1 DEF SendInv
<1>7. /\ lane'[s] = l /\ moved[n] = 0
      /\ \A t \in Lanes \ {s} : lane'[t] = lane[t]
      /\ \A t \in Lanes : lane[t].at = "payload" => t # s /\ lane[t].extent \in coverage
  BY <1>1, <1>2, <1>3 DEF SessionInv, ReceiveInv
<1>8. ReceiveInv'
  <2>1. coverage' \subseteq Extents(hello.total)
    BY <1>1, <1>2 DEF SessionInv, ReceiveInv
  <2>2. \A m \in 0 .. MaxTransferSize : m \notin coverage' => moved'[m] = 0
    BY <1>1, <1>2 DEF SessionInv, ReceiveInv
  <2>3. ASSUME NEW t \in Lanes, lane'[t].at = "payload"
        PROVE  /\ lane'[t].extent \in coverage'
               /\ moved'[lane'[t].extent] + lane'[t].left = Length(lane'[t].extent, hello.total)
    <3>1. CASE t = s
      BY <1>1, <1>3, <1>7, <3>1
    <3>2. CASE t # s
      BY <1>1, <1>2, <1>7, <2>3, <3>2 DEF SessionInv, ReceiveInv
    <3> QED BY <3>1, <3>2
  <2>4. ASSUME NEW r \in Lanes, NEW t \in Lanes,
               lane'[r].at = "payload", lane'[t].at = "payload", r # t
        PROVE  lane'[r].extent # lane'[t].extent
    <3>1. CASE r # s /\ t # s
      BY <1>1, <1>2, <1>7, <2>4, <3>1 DEF SessionInv, ReceiveInv
    <3>2. CASE r = s
      BY <1>1, <1>7, <2>4, <3>2
    <3>3. CASE t = s
      BY <1>1, <1>7, <2>4, <3>3
    <3> QED BY <3>1, <3>2, <3>3
  <2>5. ASSUME NEW m \in coverage'
        PROVE  \/ moved'[m] = Length(m, hello.total)
               \/ \E t \in Lanes : lane'[t].at = "payload" /\ lane'[t].extent = m
               \/ \E t \in Lanes : lane'[t].at = "failed"
    <3>1. CASE m = n
      BY <1>7, <3>1
    <3>2. CASE \E t \in Lanes : Carries(t, m)
      BY <1>7, <3>2 DEF Carries
    <3>3. CASE \E t \in Lanes : lane[t].at = "failed"
      BY <1>1, <1>7, <3>3
    <3>4. CASE moved[m] = Length(m, hello.total)
      BY <1>1, <3>4
    <3> QED BY <1>1, <1>2, <3>1, <3>2, <3>3, <3>4 DEF SessionInv, ReceiveInv
  <2> QED BY <1>1, <2>1, <2>2, <2>3, <2>4, <2>5 DEF ReceiveInv, Carries
<1> QED BY <1>4, <1>5, <1>6, <1>8 DEF SessionInv

\* A lane that ends carries nothing.
LEMMA LaneEndsKeeps ==
    ASSUME SessionInv, NEW s \in Lanes, LaneEnds(s)
    PROVE  SessionInv'
<1> DEFINE l == [Idle EXCEPT !.at = "done"]
<1>1. /\ lane[s].at = "extents" /\ hello.direction = "receive"
      /\ lane' = [lane EXCEPT ![s] = l]
      /\ UNCHANGED <<connected, hello, outcome, result, phase, seen, coverage, moved, progress>>
  BY DEF LaneEnds, LaneGoes, Receiving
<1>2. /\ l = [at |-> "done", extent |-> 0, left |-> 0]
      /\ l \in [at : StreamStates, extent : Nat, left : Nat]
  BY DEF Idle, StreamStates
<1>3. Working /\ Working'
  BY <1>1, LiveWorks DEF Live, Working
<1>4. SessionTypeOK'
  BY <1>1, <1>2 DEF SessionInv, SessionTypeOK
<1>5. PhaseInv' /\ HelloInv' /\ BoundInv' /\ OutcomeInv'
  BY <1>1, <1>3, <1>4, LaneFrame
<1>6. ReceiveInv'
  BY <1>1, <1>2, <1>3, ReceiveQuiet
<1>7. SendInv'
  BY <1>1 DEF SendInv
<1> QED BY <1>4, <1>5, <1>6, <1>7 DEF SessionInv

\* Bytes that pass on a lane with an extent, whichever way they go.
LEMMA PassFacts ==
    ASSUME SessionInv, Working, NEW s \in Lanes, lane[s].at = "payload",
           lane[s].extent \in 0 .. MaxTransferSize,
           NEW b \in Nat, b <= lane[s].left, NEW next \in Nat, Passes(s, b, next)
    PROVE  /\ UNCHANGED <<connected, hello, outcome, result, phase, seen, coverage>>
           /\ SessionTypeOK'
           /\ moved' = [moved EXCEPT ![lane[s].extent] = moved[lane[s].extent] + b]
           /\ \A t \in Lanes \ {s} : lane'[t] = lane[t]
           /\ lane'[s] = IF lane[s].left = b
                            THEN [at |-> "extents", extent |-> next, left |-> 0]
                            ELSE [at |-> "payload", extent |-> lane[s].extent,
                                  left |-> lane[s].left - b]
<1> DEFINE l == lane[s]
           m == IF l.left = b THEN [at |-> "extents", extent |-> next, left |-> 0]
                              ELSE [l EXCEPT !.left = l.left - b]
<1>1. /\ l \in [at : StreamStates, extent : Nat, left : Nat] /\ l.left \in Nat /\ l.extent \in Nat
      /\ lane \in [Lanes -> [at : StreamStates, extent : Nat, left : Nat]]
      /\ moved \in [0 .. MaxTransferSize -> Nat] /\ progress \in Nat
  BY LaneFacts
<1>2. /\ lane' = [lane EXCEPT ![s] = m] /\ progress' = progress + b
      /\ moved' = [moved EXCEPT ![l.extent] = moved[l.extent] + b]
      /\ UNCHANGED <<connected, hello, outcome, result, phase, seen, coverage>>
  BY DEF Passes, LaneGoes
<1>3. m = IF l.left = b THEN [at |-> "extents", extent |-> next, left |-> 0]
                        ELSE [at |-> "payload", extent |-> l.extent, left |-> l.left - b]
  BY <1>1
<1>4. m \in [at : StreamStates, extent : Nat, left : Nat]
  BY <1>1, <1>3 DEF StreamStates
<1>5. moved' \in [0 .. MaxTransferSize -> Nat] /\ progress' \in Nat
      /\ lane' \in [Lanes -> [at : StreamStates, extent : Nat, left : Nat]]
  BY <1>1, <1>2, <1>4
<1>6. SessionTypeOK'
  BY <1>2, <1>5 DEF SessionInv, SessionTypeOK
<1>7. lane'[s] = m /\ \A t \in Lanes \ {s} : lane'[t] = lane[t]
  BY <1>1, <1>2
<1> QED BY <1>2, <1>3, <1>6, <1>7

\* Bytes that come make the extent whole or leave it with its lane.
LEMMA ChunkKeeps ==
    ASSUME SessionInv, NEW s \in Lanes, Chunk(s)
    PROVE  SessionInv'
<1> DEFINE l == lane[s]
           e == lane[s].extent
<1>1. PICK b \in 1 .. Least(l.left, BlockSize) : Passes(s, b, 0)
  BY DEF Chunk
<1>2. l.at = "payload" /\ hello.direction = "receive" /\ phase' = phase
  BY <1>1 DEF Chunk, Receiving, Passes
<1>3. Working /\ Working'
  BY <1>2, LiveWorks DEF Live, Working
<1>4. /\ coverage \subseteq Extents(hello.total) /\ e \in coverage /\ e \in 0 .. MaxTransferSize
      /\ moved[e] + l.left = Length(e, hello.total)
      /\ l.left \in Nat /\ moved \in [0 .. MaxTransferSize -> Nat] /\ moved[e] \in Nat
  <2>1. e \in coverage /\ coverage \subseteq Extents(hello.total)
        /\ moved[e] + l.left = Length(e, hello.total)
    BY <1>2, <1>3 DEF SessionInv, ReceiveInv
  <2>2. e \in 0 .. MaxTransferSize
    BY <1>3, <2>1, LaneFacts
  <2> QED BY <1>3, <2>1, <2>2, LaneFacts
<1>5. b \in Nat /\ b <= l.left /\ 0 \in Nat
  BY <1>4, SizesAssumption DEF SizesAssumption, Least
<1>6. /\ UNCHANGED <<connected, hello, outcome, result, phase, seen, coverage>> /\ SessionTypeOK'
      /\ moved' = [moved EXCEPT ![e] = moved[e] + b]
      /\ \A t \in Lanes \ {s} : lane'[t] = lane[t]
      /\ lane'[s] = IF l.left = b THEN [at |-> "extents", extent |-> 0, left |-> 0]
                                  ELSE [at |-> "payload", extent |-> e, left |-> l.left - b]
  BY <1>1, <1>2, <1>3, <1>4, <1>5, PassFacts
<1>7. PhaseInv' /\ HelloInv' /\ BoundInv' /\ OutcomeInv'
  BY <1>3, <1>6, LaneFrame
<1>8. SendInv'
  BY <1>2, <1>6 DEF SendInv
<1>9. /\ moved'[e] = moved[e] + b
      /\ \A n \in (0 .. MaxTransferSize) \ {e} : moved'[n] = moved[n]
  BY <1>4, <1>6
<1>10. \A t \in Lanes \ {s} : lane[t].at = "payload" => lane[t].extent # e
  BY <1>2, <1>3 DEF SessionInv, ReceiveInv
<1>11. \A n \in coverage : n \in 0 .. MaxTransferSize
  BY <1>3, <1>4, LaneFacts
<1>12. ReceiveInv'
  <2>1. \A n \in 0 .. MaxTransferSize : n \notin coverage' => moved'[n] = 0
    BY <1>2, <1>3, <1>4, <1>6, <1>9 DEF SessionInv, ReceiveInv
  <2>2. ASSUME NEW t \in Lanes, lane'[t].at = "payload"
        PROVE  /\ lane'[t].extent \in coverage
               /\ moved'[lane'[t].extent] + lane'[t].left = Length(lane'[t].extent, hello.total)
    <3>1. CASE t = s
      <4>1. l.left # b /\ lane'[s].extent = e /\ lane'[s].left = l.left - b
        BY <1>6, <2>2, <3>1
      <4>2. moved[e] + b + (l.left - b) = moved[e] + l.left
        BY <1>4, <1>5
      <4> QED BY <1>4, <1>9, <3>1, <4>1, <4>2
    <3>2. CASE t # s
      <4>1. lane'[t] = lane[t] /\ lane[t].extent # e
        BY <1>6, <1>10, <2>2, <3>2
      <4>2. /\ lane[t].extent \in coverage
            /\ moved[lane[t].extent] + lane[t].left = Length(lane[t].extent, hello.total)
        BY <1>2, <1>3, <2>2, <4>1 DEF SessionInv, ReceiveInv
      <4> QED BY <1>9, <1>11, <4>1, <4>2
    <3> QED BY <3>1, <3>2
  <2>3. ASSUME NEW r \in Lanes, NEW t \in Lanes,
               lane'[r].at = "payload", lane'[t].at = "payload", r # t
        PROVE  lane'[r].extent # lane'[t].extent
    <3>1. CASE r # s /\ t # s
      BY <1>2, <1>3, <1>6, <2>3, <3>1 DEF SessionInv, ReceiveInv
    <3>2. CASE r = s
      BY <1>6, <1>10, <2>3, <3>2
    <3>3. CASE t = s
      BY <1>6, <1>10, <2>3, <3>3
    <3> QED BY <3>1, <3>2, <3>3
  <2>4. ASSUME NEW n \in coverage
        PROVE  \/ moved'[n] = Length(n, hello.total)
               \/ \E t \in Lanes : lane'[t].at = "payload" /\ lane'[t].extent = n
               \/ \E t \in Lanes : lane'[t].at = "failed"
    <3>1. CASE n = e
      <4>1. CASE l.left = b
        BY <1>4, <1>9, <3>1, <4>1
      <4>2. CASE l.left # b
        BY <1>6, <3>1, <4>2
      <4> QED BY <4>1, <4>2
    <3>2. CASE n # e /\ \E t \in Lanes : Carries(t, n)
      <4>1. PICK t \in Lanes : lane[t].at = "payload" /\ lane[t].extent = n
        BY <3>2 DEF Carries
      <4>2. t # s
        BY <3>2, <4>1
      <4> QED BY <1>6, <4>1, <4>2
    <3>3. CASE \E t \in Lanes : lane[t].at = "failed"
      BY <1>2, <1>6, <3>3
    <3>4. CASE n # e /\ moved[n] = Length(n, hello.total)
      BY <1>9, <1>11, <3>4
    <3> QED BY <1>2, <1>3, <3>1, <3>2, <3>3, <3>4 DEF SessionInv, ReceiveInv
  <2> QED BY <1>4, <1>6, <2>1, <2>2, <2>3, <2>4 DEF ReceiveInv, Carries
<1> QED BY <1>6, <1>7, <1>8, <1>12 DEF SessionInv

\* A lane that fails, and one that fails before it has begun.
LEMMA LaneFailsKeeps ==
    ASSUME SessionInv, NEW s \in Lanes, LaneBreaks(s) \/ LaneLost(s)
    PROVE  SessionInv'
<1> DEFINE l == [Idle EXCEPT !.at = "failed"]
<1>1. /\ Live(s) \/ (Sending /\ lane[s].at = "none")
      /\ lane' = [lane EXCEPT ![s] = l]
      /\ UNCHANGED <<connected, hello, outcome, result, phase, seen, coverage, moved, progress>>
  BY DEF LaneBreaks, LaneLost, Fails, LaneGoes
<1>2. /\ l = [at |-> "failed", extent |-> 0, left |-> 0]
      /\ l \in [at : StreamStates, extent : Nat, left : Nat]
  BY DEF Idle, StreamStates
<1>3. Working /\ Working' /\ lane[s].at # "failed"
  BY <1>1, LiveWorks DEF Live, Working, Sending
<1>4. SessionTypeOK'
  BY <1>1, <1>2 DEF SessionInv, SessionTypeOK
<1>5. PhaseInv' /\ HelloInv' /\ BoundInv' /\ OutcomeInv'
  BY <1>1, <1>3, <1>4, LaneFrame
<1>6. ReceiveInv'
  BY <1>1, <1>2, <1>3, ReceiveQuiet
<1>7. SendInv'
  <2> SUFFICES ASSUME phase = "joining", hello.direction = "send", NEW t \in Lanes
               PROVE  SentBy(t)'
    BY <1>1 DEF SendInv
  <2>1. CASE t = s
    <3>1. lane'[t].at = "failed"
      BY <1>1, <1>2, <1>3, <2>1, LaneFacts
    <3> QED BY <3>1 DEF SentBy
  <2>2. CASE t # s
    <3>1. SentBy(t) /\ lane'[t] = lane[t]
      BY <1>1, <1>3, <2>2, LaneFacts DEF SessionInv, SendInv
    <3> QED BY <1>1, <1>3, <3>1, SendOther
  <2> QED BY <2>1, <2>2
<1> QED BY <1>4, <1>5, <1>6, <1>7 DEF SessionInv

-----------------------------------------------------------------------------
(* Steps of a lane that sends *)

\* No byte passes: the other lanes are where they were.
LEMMA SendStep ==
    ASSUME SessionInv, Sending, NEW s \in Lanes,
           NEW l \in [at : StreamStates, extent : Nat, left : Nat],
           lane' = [lane EXCEPT ![s] = l],
           UNCHANGED <<connected, hello, outcome, result, phase, seen, coverage, moved, progress>>,
           SentBy(s)'
    PROVE  SessionInv'
<1>1. Working /\ Working' /\ hello.direction = "send" /\ phase = "joining"
  BY DEF Sending, Working
<1>2. SessionTypeOK'
  BY DEF SessionInv, SessionTypeOK
<1>3. PhaseInv' /\ HelloInv' /\ BoundInv' /\ OutcomeInv'
  BY <1>1, <1>2, LaneFrame
<1>4. ReceiveInv'
  BY <1>1 DEF ReceiveInv
<1>5. SendInv'
  <2> SUFFICES ASSUME NEW t \in Lanes, t # s PROVE SentBy(t)'
    BY DEF SendInv
  <2>1. SentBy(t) /\ lane'[t] = lane[t]
    BY <1>1, LaneFacts DEF SessionInv, SendInv
  <2> QED BY <1>1, <2>1, SendOther
<1> QED BY <1>2, <1>3, <1>4, <1>5 DEF SessionInv

\* A lane that opens stands at its first extent, with nothing sent.
LEMMA OpenLaneKeeps ==
    ASSUME SessionInv, NEW s \in Lanes, OpenLane(s)
    PROVE  SessionInv'
<1> DEFINE l == [at |-> "extents", extent |-> s, left |-> 0]
<1>1. /\ Sending /\ lane[s].at = "none" /\ lane' = [lane EXCEPT ![s] = l]
      /\ UNCHANGED <<connected, hello, outcome, result, phase, seen, coverage, moved, progress>>
  BY DEF OpenLane, LaneGoes
<1>2. Working /\ hello.direction = "send" /\ phase = "joining"
  BY <1>1 DEF Sending, Working
<1>3. s \in Nat /\ s \in Mine(s) /\ l \in [at : StreamStates, extent : Nat, left : Nat]
  BY SizesAssumption, MineFirst DEF SizesAssumption, Lanes, StreamStates
<1>4. \A n \in Mine(s) \cap 0 .. MaxTransferSize : moved[n] = 0
  BY <1>1, <1>2 DEF SessionInv, SendInv, SentBy
<1>5. \A n \in Mine(s) : s <= n
  <2> SUFFICES ASSUME NEW n \in Mine(s) PROVE s <= n
    OBVIOUS
  <2>1. PICK k \in Nat : n = s + k * LaneCount
    BY DEF Mine
  <2>2. k * LaneCount \in Nat
    BY SizesAssumption DEF SizesAssumption
  <2> QED BY <1>3, <2>1, <2>2
<1>6. lane'[s] = l /\ moved' = moved /\ hello' = hello
  BY <1>1, <1>2, LaneFacts
<1>7. SentBy(s)'
  <2>1. \A n \in Mine(s) : ~(n < s) /\ n \in Nat
    BY <1>3, <1>5, MineIsNat
  <2> QED BY <1>3, <1>4, <1>6, <2>1 DEF SentBy
<1> QED BY <1>1, <1>3, <1>7, SendStep

\* A lane takes the extent it is at, which it has not begun.
LEMMA SendExtentKeeps ==
    ASSUME SessionInv, NEW s \in Lanes, SendExtent(s)
    PROVE  SessionInv'
<1> DEFINE e == lane[s].extent
           l == [lane[s] EXCEPT !.at = "payload", !.left = Length(e, hello.total)]
<1>1. /\ Sending /\ lane[s].at = "extents" /\ Starts(e, hello.total)
      /\ lane' = [lane EXCEPT ![s] = l]
      /\ UNCHANGED <<connected, hello, outcome, result, phase, seen, coverage, moved, progress>>
  BY DEF SendExtent, LaneGoes
<1>2. Working /\ hello.direction = "send" /\ phase = "joining"
  BY <1>1 DEF Sending, Working
<1>3. hello.total \in Nat /\ Extents(hello.total) \subseteq 0 .. MaxTransferSize
      /\ lane[s] \in [at : StreamStates, extent : Nat, left : Nat]
      /\ moved \in [0 .. MaxTransferSize -> Nat]
  BY <1>2, LaneFacts
<1>4. e \in Extents(hello.total) /\ e \in 0 .. MaxTransferSize
  BY <1>1, <1>3, StartsIsExtent
<1>5. Length(e, hello.total) \in Nat
  BY <1>3, <1>4, ExtentFacts
<1>6. /\ l \in [at : StreamStates, extent : Nat, left : Nat]
      /\ l.at = "payload" /\ l.extent = e /\ l.left = Length(e, hello.total)
  BY <1>3, <1>5 DEF StreamStates
<1>7. lane'[s] = l /\ moved' = moved /\ hello' = hello
  BY <1>1, <1>2, LaneFacts
<1>8. SentBy(s) /\ moved[e] = 0
  BY <1>1, <1>2, <1>4 DEF SessionInv, SendInv, SentBy
<1>9. moved[e] + Length(e, hello.total) = Length(e, hello.total)
  BY <1>5, <1>8
<1>10. SentBy(s)'
  BY <1>1, <1>4, <1>6, <1>7, <1>8, <1>9 DEF SentBy
<1> QED BY <1>1, <1>6, <1>10, SendStep

\* A lane ends when no extent of its own is left.
LEMMA SendEndKeeps ==
    ASSUME SessionInv, NEW s \in Lanes, SendEnd(s) \/ Acknowledged(s)
    PROVE  SessionInv'
<1>1. PICK a \in {"finished", "done"} :
        /\ Sending /\ lane' = [lane EXCEPT ![s] = [lane[s] EXCEPT !.at = a]]
        /\ UNCHANGED <<connected, hello, outcome, result, phase, seen, coverage, moved, progress>>
        /\ \/ lane[s].at = "extents" /\ ~Starts(lane[s].extent, hello.total)
           \/ lane[s].at = "finished"
  BY DEF SendEnd, Acknowledged, LaneGoes
<1> DEFINE l == [lane[s] EXCEPT !.at = a]
<1>2. Working /\ hello.direction = "send" /\ phase = "joining"
  BY <1>1 DEF Sending, Working
<1>3. lane[s] \in [at : StreamStates, extent : Nat, left : Nat]
  BY <1>2, LaneFacts
<1>4. /\ l \in [at : StreamStates, extent : Nat, left : Nat]
      /\ l.at = a /\ l.extent = lane[s].extent
  BY <1>3 DEF StreamStates
<1>5. lane'[s] = l /\ moved' = moved /\ hello' = hello
  BY <1>1, <1>2, LaneFacts
<1>6. SentBy(s)
  BY <1>2 DEF SessionInv, SendInv
<1>7. SentBy(s)'
  BY <1>1, <1>4, <1>5, <1>6 DEF SentBy
<1> QED BY <1>1, <1>4, <1>7, SendStep

\* Bytes that are sent make the extent whole or leave it with its lane.
LEMMA SendChunkKeeps ==
    ASSUME SessionInv, NEW s \in Lanes, SendChunk(s)
    PROVE  SessionInv'
<1> DEFINE l == lane[s]
           e == lane[s].extent
           b == Least(l.left, BlockSize)
<1>1. Sending /\ l.at = "payload" /\ Passes(s, b, e + LaneCount) /\ phase' = phase
  BY DEF SendChunk, Passes
<1>2. /\ Working /\ Working' /\ hello.direction = "send" /\ phase = "joining"
  BY <1>1 DEF Sending, Working
<1>3. hello.total \in Nat /\ Extents(hello.total) \subseteq 0 .. MaxTransferSize
      /\ l \in [at : StreamStates, extent : Nat, left : Nat] /\ l.left \in Nat /\ e \in Nat
      /\ moved \in [0 .. MaxTransferSize -> Nat]
  BY <1>2, LaneFacts
<1>4. SentBy(s) /\ e \in Mine(s) /\ e \in Extents(hello.total) /\ e \in 0 .. MaxTransferSize
      /\ moved[e] + l.left = Length(e, hello.total) /\ moved[e] \in Nat
  <2>1. SentBy(s) /\ e \in Mine(s) /\ e \in Extents(hello.total)
        /\ moved[e] + l.left = Length(e, hello.total)
    BY <1>1, <1>2 DEF SessionInv, SendInv, SentBy
  <2> QED BY <1>3, <2>1
<1>5. LaneCount \in Nat /\ LaneCount > 0 /\ e + LaneCount \in Nat /\ e + LaneCount \in Mine(s)
  BY <1>3, <1>4, MineNext, SizesAssumption DEF SizesAssumption
<1>6. b \in Nat /\ b <= l.left
  BY <1>3, SizesAssumption DEF SizesAssumption, Least
<1>7. /\ UNCHANGED <<connected, hello, outcome, result, phase, seen, coverage>> /\ SessionTypeOK'
      /\ moved' = [moved EXCEPT ![e] = moved[e] + b]
      /\ \A t \in Lanes \ {s} : lane'[t] = lane[t]
      /\ lane'[s] = IF l.left = b THEN [at |-> "extents", extent |-> e + LaneCount, left |-> 0]
                                  ELSE [at |-> "payload", extent |-> e, left |-> l.left - b]
  BY <1>1, <1>2, <1>4, <1>5, <1>6, PassFacts
<1>8. PhaseInv' /\ HelloInv' /\ BoundInv' /\ OutcomeInv'
  BY <1>2, <1>7, LaneFrame
<1>9. ReceiveInv'
  BY <1>2, <1>7 DEF ReceiveInv
<1>10. /\ moved'[e] = moved[e] + b
       /\ \A n \in (0 .. MaxTransferSize) \ {e} : moved'[n] = moved[n]
  BY <1>3, <1>4, <1>7
<1>11. /\ \A n \in Mine(s) \cap Extents(hello.total) : n < e => moved[n] = Length(n, hello.total)
       /\ \A n \in Mine(s) \cap 0 .. MaxTransferSize : n > e => moved[n] = 0
  BY <1>1, <1>4 DEF SentBy
<1>12. SentBy(s)'
  <2>1. CASE l.left = b
    <3>1. lane'[s].at = "extents" /\ lane'[s].extent = e + LaneCount
      BY <1>7, <2>1
    <3>2. ASSUME NEW n \in Mine(s) \cap Extents(hello.total), n < e + LaneCount
          PROVE  moved'[n] = Length(n, hello.total)
      <4>1. n \in Nat /\ n \in 0 .. MaxTransferSize
        BY <1>3, MineIsNat
      <4>2. ~(e < n)
        BY <1>3, <1>4, <1>5, <3>2, <4>1, MineApart
      <4>3. CASE n = e
        BY <1>4, <1>10, <2>1, <4>3
      <4>4. CASE n < e
        BY <1>3, <1>10, <1>11, <4>1, <4>4
      <4> QED BY <1>3, <4>1, <4>2, <4>3, <4>4
    <3>3. ASSUME NEW n \in Mine(s) \cap 0 .. MaxTransferSize, n > e
          PROVE  moved'[n] = 0
      BY <1>3, <1>10, <1>11, <3>3
    <3>4. /\ \A n \in Mine(s) \cap 0 .. MaxTransferSize : n > e + LaneCount => moved'[n] = 0
          /\ e + LaneCount \in 0 .. MaxTransferSize => moved'[e + LaneCount] = 0
      BY <1>3, <1>5, <3>3
    <3> QED BY <1>5, <1>7, <3>1, <3>2, <3>4 DEF SentBy
  <2>2. CASE l.left # b
    <3>1. lane'[s].at = "payload" /\ lane'[s].extent = e /\ lane'[s].left = l.left - b
      BY <1>7, <2>2
    <3>2. moved'[e] + (l.left - b) = Length(e, hello.total)
      BY <1>3, <1>4, <1>6, <1>10
    <3>3. /\ \A n \in Mine(s) \cap Extents(hello.total) : n < e => moved'[n] = Length(n, hello.total)
          /\ \A n \in Mine(s) \cap 0 .. MaxTransferSize : n > e => moved'[n] = 0
      BY <1>3, <1>10, <1>11
    <3> QED BY <1>4, <1>7, <3>1, <3>2, <3>3 DEF SentBy
  <2> QED BY <2>1, <2>2
<1>13. SendInv'
  <2> SUFFICES ASSUME NEW t \in Lanes, t # s PROVE SentBy(t)'
    BY <1>12 DEF SendInv
  <2>1. SentBy(t) /\ lane'[t] = lane[t]
    BY <1>2, <1>7 DEF SessionInv, SendInv
  <2>2. \A n \in Mine(t) \cap 0 .. MaxTransferSize : moved'[n] = moved[n]
    BY <1>4, <1>10, MineAlone
  <2> QED BY <1>2, <1>7, <2>1, <2>2, SendOther
<1> QED BY <1>7, <1>8, <1>9, <1>13 DEF SessionInv

-----------------------------------------------------------------------------
\* Every step of a lane keeps the invariant.
LEMMA LaneStepKeeps == SessionInv /\ (\E s \in Lanes : LaneStep(s)) => SessionInv'
<1> SUFFICES ASSUME SessionInv, NEW s \in Lanes, LaneStep(s) PROVE SessionInv'
  OBVIOUS
<1>1. CASE AcceptStream(s)
  BY <1>1, AcceptStreamKeeps
<1>2. CASE Chunk(s)
  BY <1>2, ChunkKeeps
<1>3. CASE LaneEnds(s)
  BY <1>3, LaneEndsKeeps
<1>4. CASE \E id \in Lanes : LaneHeader(s, id)
  BY <1>4, LaneHeaderKeeps
<1>5. CASE \E n \in Extents(hello.total) : ExtentHeader(s, n)
  BY <1>5, ExtentHeaderKeeps
<1>6. CASE OpenLane(s)
  BY <1>6, OpenLaneKeeps
<1>7. CASE SendExtent(s)
  BY <1>7, SendExtentKeeps
<1>8. CASE SendChunk(s)
  BY <1>8, SendChunkKeeps
<1>9. CASE SendEnd(s) \/ Acknowledged(s)
  BY <1>9, SendEndKeeps
<1>10. CASE LaneBreaks(s) \/ LaneLost(s)
  BY <1>10, LaneFailsKeeps
<1> QED BY <1>1, <1>2, <1>3, <1>4, <1>5, <1>6, <1>7, <1>8, <1>9, <1>10 DEF LaneStep

\* So does every step of a session.
LEMMA InvKept == SessionInv /\ [SessionNext]_sessionVars => SessionInv'
<1> SUFFICES ASSUME SessionInv, [SessionNext]_sessionVars PROVE SessionInv'
  OBVIOUS
<1>1. CASE Control
  BY <1>1, ControlKeeps, AcceptKeeps DEF Control
<1>2. CASE Authenticated \/ AuthenticationFails
  BY <1>2, TicketKeeps
<1>3. CASE AcceptFails \/ JoinFails
  BY <1>3, PayloadFailsKeeps DEF AcceptFails, JoinFails, Working
<1>4. CASE JoinAll \/ Report \/ ReportFails \/ Close \/ Lose
  BY <1>4, JoinAllKeeps, ReportKeeps, CloseKeeps, LoseKeeps
<1>5. CASE \E d \in {"receive", "send"}, total \in Totals, k \in Tokens : HelloArrives(d, total, k)
  BY <1>5, HelloKeeps
<1>6. CASE \E s \in Lanes : LaneStep(s)
  BY <1>6, LaneStepKeeps
<1>7. CASE UNCHANGED sessionVars
  <2>1. UNCHANGED <<connected, phase, hello, lane, seen, coverage, moved, progress, outcome, result>>
    BY <1>7 DEF sessionVars, payloadVars
  <2>2. SessionTypeOK' /\ PhaseInv' /\ HelloInv' /\ BoundInv'
    BY <2>1 DEF SessionInv, SessionTypeOK, PhaseInv, HelloInv, BoundInv, Before, Working, Fresh, Live
  <2>3. ReceiveInv' /\ SendInv' /\ OutcomeInv'
    BY <2>1 DEF SessionInv, ReceiveInv, SendInv, SentBy, Carries, OutcomeInv, Whole, Working
  <2> QED BY <2>2, <2>3 DEF SessionInv
<1> QED BY <1>1, <1>2, <1>3, <1>4, <1>5, <1>6, <1>7 DEF SessionNext, Ending

\* Every state of a session satisfies the invariant.
THEOREM SessionSound == SessionSpec => []SessionInv
<1>1. SessionInit => SessionInv
  BY InvInit
<1>2. SessionInv /\ [SessionNext]_sessionVars => SessionInv'
  BY InvKept
<1> QED BY <1>1, <1>2, PTL DEF SessionSpec

\* The type invariant of a session.
THEOREM SessionTypeCorrect == SessionSpec => []SessionTypeOK
<1>1. SessionInv => SessionTypeOK
  BY DEF SessionInv
<1> QED BY <1>1, SessionSound, PTL

\* A payload that is reported as accepted is there to the last byte, each extent
\* once, for every number of lanes, every extent and every size (transfer.rs
\* receive_memory, receive_lane, send_memory; coverage.rs).
THEOREM PayloadWhole == SessionSpec => []AcceptedIsWhole
<1>1. SessionInv => AcceptedIsWhole
  BY DEF SessionInv, OutcomeInv, Whole, AcceptedIsWhole
<1> QED BY <1>1, SessionSound, PTL

-----------------------------------------------------------------------------
(* The benchmark and its tickets *)

\* A ticket that is open has not been spent.
TicketInv ==
    /\ open \cap redeemed = {}
    /\ admitted \in [Tokens -> Nat]
    /\ OneTicketOneTransfer

-----------------------------------------------------------------------------
\* At the start no ticket is open and none is spent.
LEMMA TicketsInit == Init => TicketInv
BY DEF Init, Authority!Init, TicketInv, OneTicketOneTransfer

\* A transfer is admitted once: its ticket was open, so it was not spent.
LEMMA AdmitsOnce == ASSUME TicketInv, NEW k, Admits(k) PROVE TicketInv'
<1>1. /\ k \in open /\ k \notin redeemed
      /\ open' = open \ {k} /\ redeemed' = redeemed \cup {k}
      /\ admitted' = [admitted EXCEPT ![k] = admitted[k] + 1]
      /\ admitted \in [Tokens -> Nat]
      /\ \A t \in Tokens : admitted[t] = IF t \in redeemed THEN 1 ELSE 0
  BY DEF Admits, Authority!Redeem, TicketInv, OneTicketOneTransfer
<1>2. admitted' \in [Tokens -> Nat]
  <2>1. CASE k \in Tokens
    BY <1>1, <2>1
  <2>2. CASE k \notin Tokens
    <3>1. admitted' = admitted
      BY <1>1, <2>2
    <3> QED BY <1>1, <3>1
  <2> QED BY <2>1, <2>2
<1>3. ASSUME NEW t \in Tokens
      PROVE  admitted'[t] = IF t \in redeemed' THEN 1 ELSE 0
  <2>1. CASE t = k
    BY <1>1, <2>1
  <2>2. CASE t # k
    BY <1>1, <2>2
  <2> QED BY <2>1, <2>2
<1>4. open' \cap redeemed' = {}
  BY <1>1 DEF TicketInv
<1> QED BY <1>2, <1>3, <1>4 DEF TicketInv, OneTicketOneTransfer

\* What leaves the tickets alone, the refusal of one included.
LEMMA TicketsStay ==
    ASSUME TicketInv, UNCHANGED <<ticketVars, admitted>>
    PROVE  TicketInv'
BY DEF TicketInv, OneTicketOneTransfer, ticketVars

\* A ticket is granted under a name that was never used, and lapses unspent.
LEMMA TicketsMove ==
    ASSUME TicketInv, NEW k \in Tokens, Granted(k) \/ Lapsed(k)
    PROVE  TicketInv'
BY DEF TicketInv, OneTicketOneTransfer, Granted, Lapsed, Authority!Grant, Authority!Lapse

\* Every step of a request admits its transfer or leaves the tickets alone.
LEMMA RequestKeeps ==
    ASSUME TicketInv, NEW q \in Requests, RequestStep(q)
    PROVE  TicketInv'
<1>1. CASE Redeem(q)
  BY <1>1, AdmitsOnce DEF Redeem
<1>2. CASE TakePermit(q) \/ Busy(q) \/ RefuseTicket(q)
  BY <1>2, TicketsStay DEF TakePermit, Busy, RefuseTicket, Refuses
<1>3. CASE \E k \in Tokens, bytes \in RequestSizes : Arrive(q, k, bytes)
  BY <1>3, TicketsStay DEF Arrive
<1>4. CASE Move(q) \/ Stalled(q) \/ Refused(q) \/ Completed(q)
  BY <1>4, TicketsStay DEF Move, Stalled, Refused, Completed
<1> QED BY <1>1, <1>2, <1>3, <1>4 DEF RequestStep, Decide

\* So does every step of the composition.
LEMMA TicketsKept == TicketInv /\ [Next]_vars => TicketInv'
<1> SUFFICES ASSUME TicketInv, [Next]_vars PROVE TicketInv'
  OBVIOUS
<1>1. CASE SessionStep
  BY <1>1, AdmitsOnce, TicketsStay DEF SessionStep, Refuses
<1>2. CASE \E q \in Requests : RequestStep(q)
  BY <1>2, RequestKeeps
<1>3. CASE \E k \in Tokens : Granted(k) \/ Lapsed(k)
  BY <1>3, TicketsMove
<1>4. CASE UNCHANGED vars
  BY <1>4, TicketsStay DEF vars
<1> QED BY <1>1, <1>2, <1>3, <1>4 DEF Next

\* A ticket that is spent has admitted exactly one transfer, of the session or of
\* a request, for every number of requests, permits and tickets (transfer.rs
\* run_session, lna_http.rs route_request).
THEOREM TicketsAreSpentOnce == Spec => []OneTicketOneTransfer
<1>1. Init => TicketInv
  BY TicketsInit
<1>2. TicketInv /\ [Next]_vars => TicketInv'
  BY TicketsKept
<1>3. TicketInv => OneTicketOneTransfer
  BY DEF TicketInv
<1> QED BY <1>1, <1>2, <1>3, PTL DEF Spec

-----------------------------------------------------------------------------
\* A request moves no variable of the session.
LEMMA RequestsAreApart ==
    ASSUME NEW q \in Requests, RequestStep(q)
    PROVE  UNCHANGED sessionVars
BY DEF RequestStep, Decide, Arrive, TakePermit, Busy, Redeem, RefuseTicket, Move, Stalled,
       Refused, Completed, Becomes

\* A step of the composition is a step of the session or leaves it alone.
LEMMA SessionIsUsed == [Next]_vars => [SessionNext]_sessionVars
<1> SUFFICES ASSUME [Next]_vars PROVE [SessionNext]_sessionVars
  OBVIOUS
<1>1. CASE SessionStep
  BY <1>1 DEF SessionStep, SessionNext
<1>2. CASE \E q \in Requests : RequestStep(q)
  BY <1>2, RequestsAreApart
<1>3. CASE \E k \in Tokens : Granted(k) \/ Lapsed(k)
  BY <1>3 DEF Granted, Lapsed
<1>4. CASE UNCHANGED vars
  BY <1>4 DEF vars
<1> QED BY <1>1, <1>2, <1>3, <1>4 DEF Next

\* The session inside the composition is a session of MemoryTransfer: requests
\* and tickets can only keep it from being admitted.
THEOREM UsesSession == Spec => SessionSpec
<1>1. Init => SessionInit
  BY DEF Init
<1>2. [Next]_vars => [SessionNext]_sessionVars
  BY SessionIsUsed
<1> QED BY <1>1, <1>2, PTL DEF Spec, SessionSpec

\* What the benchmark reports as accepted is there (transfer.rs run_session).
THEOREM AcceptedStaysWhole == Spec => []AcceptedIsWhole
BY UsesSession, PayloadWhole, PTL
=============================================================================
