------------------------------ MODULE Benchmark ------------------------------
(* The two ways to a benchmark and the tickets they spend: the session of   *)
(* MemoryTransfer and the requests of the LNA server (lna_http.rs           *)
(* route_request, receive_benchmark, send_benchmark).  The tickets are what *)
(* TicketAuthority promises.                                                *)
EXTENDS MemoryTransfer

CONSTANTS
    Requests,      \* LNA connections
    RequestSizes,  \* bytes a request asks for; others are refused at the head
    ActiveLimit,   \* active_requests
    MaxPending     \* open tickets

VARIABLES
    request,  \* what each LNA connection does
    open, redeemed, lapsed, claims,
    admitted  \* transfers that a ticket admitted

ticketVars == <<open, redeemed, lapsed, claims>>
vars == <<sessionVars, request, ticketVars, admitted>>

Authority == INSTANCE OneTimeTickets

NoRequest == [at |-> "idle", token |-> "none", left |-> 0]

Init ==
    /\ SessionInit
    /\ Authority!Init
    /\ request = [q \in Requests |-> NoRequest]
    /\ admitted = [k \in Tokens |-> 0]

-----------------------------------------------------------------------------
(* Tickets *)

Granted(k) == Authority!Grant(k, {}) /\ UNCHANGED <<sessionVars, request, admitted>>
Lapsed(k)  == Authority!Lapse({k})   /\ UNCHANGED <<sessionVars, request, admitted>>

Admits(k) == Authority!Redeem(k, {}) /\ admitted' = [admitted EXCEPT ![k] = @ + 1]
Refuses(k) == k \notin open /\ UNCHANGED <<ticketVars, admitted>>

-----------------------------------------------------------------------------
(* The session *)

SessionStep ==
    \/ /\ \/ Control \/ Ending
          \/ \E d \in {"receive", "send"}, total \in Totals, k \in Tokens :
                 HelloArrives(d, total, k)
          \/ \E s \in Lanes : LaneStep(s)
       /\ UNCHANGED <<request, ticketVars, admitted>>
    \/ Authenticated /\ Admits(hello.token) /\ UNCHANGED request
    \/ AuthenticationFails /\ Refuses(hello.token) /\ UNCHANGED request

-----------------------------------------------------------------------------
(* A request *)

Becomes(q, r) == request' = [request EXCEPT ![q] = r] /\ UNCHANGED sessionVars
Active == {q \in Requests : request[q].at \in {"permitted", "refusing", "moving"}}

\* Its head is read, its size and its ticket are there.
Arrive(q, k, bytes) ==
    /\ request[q].at = "idle"
    /\ Becomes(q, [at |-> "routed", token |-> k, left |-> bytes])
    /\ UNCHANGED <<ticketVars, admitted>>

TakePermit(q) ==
    /\ request[q].at = "routed" /\ Cardinality(Active) < ActiveLimit
    /\ Becomes(q, [request[q] EXCEPT !.at = "permitted"])
    /\ UNCHANGED <<ticketVars, admitted>>

\* MUTANT of Busy: the ticket is consumed first
BusyAfterTicket(q) ==
    /\ request[q].at = "routed" /\ Cardinality(Active) >= ActiveLimit
    /\ Becomes(q, NoRequest)
    /\ \/ Authority!Redeem(request[q].token, {})
       \/ request[q].token \notin open /\ UNCHANGED ticketVars
    /\ UNCHANGED admitted

\* 503, and the ticket stays.
Busy(q) ==
    /\ request[q].at = "routed" /\ Cardinality(Active) >= ActiveLimit
    /\ Becomes(q, NoRequest)
    /\ UNCHANGED <<ticketVars, admitted>>

\* The first bytes of an upload may have come with its head.
Redeem(q) ==
    /\ request[q].at = "permitted" /\ Admits(request[q].token)
    /\ \E b \in 0 .. request[q].left :
           Becomes(q, [request[q] EXCEPT !.at = "moving", !.left = @ - b])

\* 401; the permit is held while the answer is written.
RefuseTicket(q) ==
    /\ request[q].at = "permitted" /\ Refuses(request[q].token)
    /\ Becomes(q, [request[q] EXCEPT !.at = "refusing"])

Refused(q) ==
    /\ request[q].at = "refusing"
    /\ Becomes(q, NoRequest) /\ UNCHANGED <<ticketVars, admitted>>

Move(q) ==
    /\ request[q].at = "moving"
    /\ \E b \in 1 .. request[q].left : Becomes(q, [request[q] EXCEPT !.left = @ - b])
    /\ UNCHANGED <<ticketVars, admitted>>

\* A piece did not pass within IO_TIMEOUT, or the connection broke.
Stalled(q) ==
    /\ request[q].at = "moving" /\ request[q].left > 0
    /\ Becomes(q, NoRequest) /\ UNCHANGED <<ticketVars, admitted>>

Completed(q) ==
    /\ request[q].at = "moving" /\ request[q].left = 0
    /\ Becomes(q, NoRequest) /\ UNCHANGED <<ticketVars, admitted>>

\* What the Agent does with a request and needs nobody for.
Decide(q) == TakePermit(q) \/ Busy(q) \/ Redeem(q) \/ RefuseTicket(q)

RequestStep(q) ==
    \/ \E k \in Tokens, bytes \in RequestSizes : Arrive(q, k, bytes)
    \/ Decide(q) \/ Move(q) \/ Stalled(q) \/ Refused(q) \/ Completed(q)

-----------------------------------------------------------------------------
Next ==
    \/ SessionStep
    \/ \E q \in Requests : RequestStep(q)
    \/ \E k \in Tokens : Granted(k) \/ Lapsed(k)

Spec == Init /\ [][Next]_vars

\* The Agent's own steps and its timers.  What the browser sends, and that it
\* breaks a stream, is not promised; nor that it takes an acknowledgement, a
\* result or a response, which are written without a time limit.
Rest == UNCHANGED <<request, ticketVars, admitted>>
FairSpec ==
    /\ Spec
    /\ WF_vars((NoHelloInTime \/ AcceptFails \/ JoinFails \/ JoinAll \/ ReportFails
                  \/ Close) /\ Rest)
    /\ WF_vars(Authenticated /\ Admits(hello.token) /\ UNCHANGED request)
    /\ WF_vars(/\ ~connected
               /\ \/ Decline /\ Rest
                  \/ AuthenticationFails /\ Refuses(hello.token) /\ UNCHANGED request)
    /\ \A s \in Lanes : WF_vars(LaneLost(s) /\ Rest)
    /\ \A q \in Requests : WF_vars(Decide(q)) /\ WF_vars(Stalled(q))

-----------------------------------------------------------------------------
\* A ticket that is spent has admitted exactly one transfer, of the session
\* or of a request: none is moved twice on one ticket, and a request that is
\* turned away because the lanes are busy keeps its ticket (transfer.rs
\* run_session, lna_http.rs route_request).
OneTicketOneTransfer ==
    \A k \in Tokens : admitted[k] = IF k \in redeemed THEN 1 ELSE 0

\* No request waits for its permit, its ticket or the bytes of its peer forever:
\* all of them pass, or their time limit ends it, whatever the browser does
\* (lna_http.rs receive_benchmark, send_benchmark).
Waiting(q) == request[q].at \in {"routed", "permitted"} \/ (request[q].at = "moving" /\ request[q].left > 0)
RequestEnds == \A q \in Requests : Waiting(q) ~> ~Waiting(q)
BenchmarkEnds == SessionEnds /\ RequestEnds
=============================================================================
