---------------------------- MODULE AgentServer ----------------------------
(* The life of a launched Agent (server.rs): the QUIC accept loop with its  *)
(* limits, the task of each connection up to its session, the launch        *)
(* timeout, the LNA HTTP server (lna_http.rs), and the way they all stop.   *)
(*                                                                          *)
(* What a session does is left to the modules that model it; here it is     *)
(* under way or over.  Time is what the launch needs of it: the launch      *)
(* token lives 120 s from a moment before the server starts, the timeout    *)
(* looks at it after 125 s.                                                 *)
EXTENDS Naturals, FiniteSets

CONSTANTS
    Connections,    \* QUIC connections at a time
    Addresses,      \* remote addresses
    PendingLimit,   \* connections the server takes, 4 * max_sessions + 16
    PerIpLimit,     \* of one address, 12
    MaxSessions,    \* benchmark sessions, and LNA benchmark requests
    FileSessions,   \* file sessions, 4
    Requests,       \* LNA connections at a time
    LnaLimit        \* LNA connections the server takes, 4 * max_sessions + 8

Routes == {"bridge", "transfer", "file"}
LimitOf == [bridge |-> 1, transfer |-> MaxSessions, file |-> FileSessions]

VARIABLES
    server,     \* where run_server is
    lost,       \* the QUIC endpoint has stopped by itself
    shutdown,   \* the value of the shutdown channel
    clock,      \* age of the launch token
    launch,     \* is it consumed
    timer,      \* the launch timeout task
    stage,      \* of each connection: where handle_incoming is
    address,    \* of each connection
    route,      \* of each connection
    pending,    \* permits taken of pending_sessions
    perIp,      \* connections counted per address
    taken,      \* permits taken per route
    lna,        \* where run of the LNA server is
    request,    \* of each LNA connection: what it does
    lnaTaken,   \* permits taken of its connections
    benchTaken  \* and of active_requests

lifeVars  == <<server, lost, shutdown>>
timeVars  == <<clock, launch, timer>>
taskVars  == <<stage, address, route>>
countVars == <<pending, perIp, taken>>
lnaVars   == <<lna, request, lnaTaken, benchTaken>>
vars == <<lifeVars, timeVars, taskVars, countVars, lnaVars>>

Nowhere == "none"

ASSUME LimitsAssumption ==
    /\ IsFiniteSet(Connections) /\ IsFiniteSet(Requests)
    /\ PendingLimit \in Nat /\ PerIpLimit \in Nat /\ LnaLimit \in Nat
    /\ MaxSessions \in Nat /\ FileSessions \in Nat
    /\ Nowhere \notin Addresses

Alive == server # "exited"

Init ==
    /\ server = "running" /\ lost = FALSE /\ shutdown = FALSE
    /\ clock = "valid" /\ launch = "fresh" /\ timer = "asleep"
    /\ stage = [c \in Connections |-> "none"]
    /\ address = [c \in Connections |-> Nowhere]
    /\ route = [c \in Connections |-> Nowhere]
    /\ pending = 0
    /\ perIp = [a \in Addresses |-> 0]
    /\ taken = [r \in Routes |-> 0]
    /\ lna = "running"
    /\ request = [q \in Requests |-> "none"]
    /\ lnaTaken = 0 /\ benchTaken = 0

-----------------------------------------------------------------------------
(* The launch *)

TimePasses ==
    /\ Alive
    /\ \/ clock = "valid" /\ clock' = "expired"
       \/ clock = "expired" /\ clock' = "overdue"
    /\ UNCHANGED <<lifeVars, launch, timer, taskVars, countVars, lnaVars>>

\* The task looks once, and what it found may be old when it acts on it.
TimeoutChecks ==
    /\ Alive /\ timer = "asleep" /\ clock = "overdue"
    /\ timer' = IF launch = "fresh" THEN "firing" ELSE "done"
    /\ UNCHANGED <<lifeVars, clock, launch, taskVars, countVars, lnaVars>>

TimeoutFires ==
    /\ Alive /\ timer = "firing"
    /\ timer' = "done"
    /\ shutdown' = TRUE
    /\ UNCHANGED <<server, lost, clock, launch, taskVars, countVars, lnaVars>>

-----------------------------------------------------------------------------
(* A QUIC connection: handle_incoming *)

\* The accept loop takes both permits or lets the connection go.
Accept(c, a) ==
    /\ server = "running"
    /\ stage[c] = "none"
    /\ pending < PendingLimit /\ perIp[a] < PerIpLimit
    /\ stage' = [stage EXCEPT ![c] = "handshake"]
    /\ address' = [address EXCEPT ![c] = a]
    /\ pending' = pending + 1
    /\ perIp' = [perIp EXCEPT ![a] = @ + 1]
    /\ UNCHANGED <<lifeVars, timeVars, route, taken, lnaVars>>

Released(c) == IF route[c] = Nowhere THEN taken ELSE [taken EXCEPT ![route[c]] = @ - 1]

\* MUTANT of TaskEnds: the place of a route is not given back
TaskKeepsRoute(c) ==
    /\ stage' = [stage EXCEPT ![c] = "none"]
    /\ address' = [address EXCEPT ![c] = Nowhere]
    /\ route' = [route EXCEPT ![c] = Nowhere]
    /\ pending' = pending - 1
    /\ perIp' = [perIp EXCEPT ![address[c]] = @ - 1]
    /\ UNCHANGED taken

\* The task drops its permits, on every path.
TaskEnds(c) ==
    /\ stage' = [stage EXCEPT ![c] = "none"]
    /\ address' = [address EXCEPT ![c] = Nowhere]
    /\ route' = [route EXCEPT ![c] = Nowhere]
    /\ pending' = pending - 1
    /\ perIp' = [perIp EXCEPT ![address[c]] = @ - 1]
    /\ taken' = Released(c)

\* The handshake fails or takes too long, a rejection has been sent, or the response of CONNECT
\* cannot be.
ConnectionFails(c) ==
    /\ Alive /\ stage[c] \in {"handshake", "refusing", "accepting"}
    /\ TaskEnds(c)
    /\ UNCHANGED <<lifeVars, timeVars, lnaVars>>

\* A wrong Origin or path, or no place on the route.
Reject(c) ==
    /\ Alive /\ stage[c] = "handshake"
    /\ stage' = [stage EXCEPT ![c] = "refusing"]
    /\ UNCHANGED <<lifeVars, timeVars, address, route, countVars, lnaVars>>

TakeRoute(c, r) ==
    /\ Alive /\ stage[c] = "handshake"
    /\ taken[r] < LimitOf[r]
    /\ stage' = [stage EXCEPT ![c] = "accepting"]
    /\ route' = [route EXCEPT ![c] = r]
    /\ taken' = [taken EXCEPT ![r] = @ + 1]
    /\ UNCHANGED <<lifeVars, timeVars, address, pending, perIp, lnaVars>>

SessionBegins(c) ==
    /\ Alive /\ stage[c] = "accepting"
    /\ stage' = [stage EXCEPT ![c] = "session"]
    /\ UNCHANGED <<lifeVars, timeVars, address, route, countVars, lnaVars>>

\* The hello of a Bridge session consumes the launch token.
Authenticate(c) ==
    /\ Alive /\ stage[c] = "session" /\ route[c] = "bridge"
    /\ launch = "fresh" /\ clock = "valid"
    /\ launch' = "used"
    /\ stage' = [stage EXCEPT ![c] = "owner"]
    /\ UNCHANGED <<lifeVars, clock, timer, address, route, countVars, lnaVars>>

\* A benchmark or file session ends with its task.
SessionEnds(c) ==
    /\ Alive /\ stage[c] = "session" /\ route[c] # "bridge"
    /\ TaskEnds(c)
    /\ UNCHANGED <<lifeVars, timeVars, lnaVars>>

\* MUTANT of BridgeEnds: the place of the Bridge is free as soon as its session is over
BridgeEndsFree(c) ==
    /\ Alive /\ stage[c] \in {"session", "owner"} /\ route[c] = "bridge"
    /\ stage' = [stage EXCEPT ![c] = "over"]
    /\ route' = [route EXCEPT ![c] = Nowhere]
    /\ taken' = [taken EXCEPT !["bridge"] = @ - 1]
    /\ UNCHANGED <<lifeVars, timeVars, address, pending, perIp, lnaVars>>

\* A Bridge session ends, authenticated or not, with or without an error.
BridgeEnds(c) ==
    /\ Alive /\ stage[c] \in {"session", "owner"} /\ route[c] = "bridge"
    /\ stage' = [stage EXCEPT ![c] = "over"]
    /\ UNCHANGED <<lifeVars, timeVars, address, route, countVars, lnaVars>>

\* MUTANT of BridgeIsOver: the task takes the end of its session for nothing special
BridgeIsOverQuietly(c) ==
    /\ Alive /\ stage[c] = "over"
    /\ TaskEnds(c)
    /\ UNCHANGED <<lifeVars, timeVars, lnaVars>>

\* The task still holds the only place when it looks at the launch token.
BridgeIsOver(c) ==
    /\ Alive /\ stage[c] = "over"
    /\ shutdown' = (shutdown \/ launch = "used")
    /\ TaskEnds(c)
    /\ UNCHANGED <<server, lost, timeVars, lnaVars>>

-----------------------------------------------------------------------------
(* run_server after its accept loop *)

LoopBreaks ==
    /\ server = "running" /\ shutdown
    /\ server' = "closing"
    /\ UNCHANGED <<lost, shutdown, timeVars, taskVars, countVars, lnaVars>>

\* endpoint.accept returns None
EndpointStops ==
    /\ server = "running"
    /\ server' = "closing"
    /\ lost' = TRUE
    /\ UNCHANGED <<shutdown, timeVars, taskVars, countVars, lnaVars>>

\* close, wait_idle: the connections are drained; their tasks find out by themselves.
EndpointIdle ==
    /\ server = "closing"
    /\ server' = "joining"
    /\ shutdown' = TRUE
    /\ UNCHANGED <<lost, timeVars, taskVars, countVars, lnaVars>>

\* The LNA task has returned; the runtime drops every other task.
Exit ==
    /\ server = "joining" /\ lna = "stopped"
    /\ server' = "exited"
    /\ UNCHANGED <<lost, shutdown, timeVars, taskVars, countVars, lnaVars>>

-----------------------------------------------------------------------------
(* The LNA server *)

LnaAccept(q) ==
    /\ lna = "running" /\ request[q] = "none"
    /\ lnaTaken < LnaLimit
    /\ request' = [request EXCEPT ![q] = "idle"]
    /\ lnaTaken' = lnaTaken + 1
    /\ UNCHANGED <<lifeVars, timeVars, taskVars, countVars, lna, benchTaken>>

\* No request within 30 s, a malformed or foreign one, an error, the end of the stream.
LnaCloses(q) ==
    /\ lna # "stopped" /\ request[q] # "none"
    /\ request' = [request EXCEPT ![q] = "none"]
    /\ lnaTaken' = lnaTaken - 1
    /\ benchTaken' = IF request[q] = "benchmark" THEN benchTaken - 1 ELSE benchTaken
    /\ UNCHANGED <<lifeVars, timeVars, taskVars, countVars, lna>>

\* route_request: the permit first, then the ticket; file requests have their own module.
LnaBenchmark(q) ==
    /\ lna # "stopped" /\ request[q] = "idle"
    /\ benchTaken < MaxSessions
    /\ request' = [request EXCEPT ![q] = "benchmark"]
    /\ benchTaken' = benchTaken + 1
    /\ UNCHANGED <<lifeVars, timeVars, taskVars, countVars, lna, lnaTaken>>

\* The ticket was refused, or the response is complete: the connection is kept alive.
LnaAnswered(q) ==
    /\ lna # "stopped" /\ request[q] = "benchmark"
    /\ request' = [request EXCEPT ![q] = "idle"]
    /\ benchTaken' = benchTaken - 1
    /\ UNCHANGED <<lifeVars, timeVars, taskVars, countVars, lna, lnaTaken>>

\* The shutdown signal, or accept fails and takes the LNA server with it.
LnaStops ==
    /\ lna = "running"
    /\ lna' = "aborting"
    /\ UNCHANGED <<lifeVars, timeVars, taskVars, countVars, request, lnaTaken, benchTaken>>

\* abort_all and join, or the JoinSet is dropped.
LnaAborted ==
    /\ lna = "aborting"
    /\ lna' = "stopped"
    /\ request' = [q \in Requests |-> "none"]
    /\ lnaTaken' = 0 /\ benchTaken' = 0
    /\ UNCHANGED <<lifeVars, timeVars, taskVars, countVars>>

-----------------------------------------------------------------------------
Launch == TimePasses \/ TimeoutChecks \/ TimeoutFires

Connection(c) ==
    \/ \E a \in Addresses : Accept(c, a)
    \/ ConnectionFails(c)
    \/ Reject(c)
    \/ \E r \in Routes : TakeRoute(c, r)
    \/ SessionBegins(c)
    \/ Authenticate(c)
    \/ SessionEnds(c)
    \/ BridgeEnds(c)
    \/ BridgeIsOver(c)

Stop == LoopBreaks \/ EndpointStops \/ EndpointIdle \/ Exit

Lna ==
    \/ \E q \in Requests :
        LnaAccept(q) \/ LnaCloses(q) \/ LnaBenchmark(q) \/ LnaAnswered(q)
    \/ LnaStops
    \/ LnaAborted

Next == Launch \/ (\E c \in Connections : Connection(c)) \/ Stop \/ Lna

Spec == Init /\ [][Next]_vars

\* Time passes, and the runtime runs what it can run.  Peers owe nothing: an authenticated page
\* may keep its session for ever.
Fairness ==
    /\ WF_vars(Launch)
    /\ \A c \in Connections : WF_vars(BridgeIsOver(c))
    /\ WF_vars(LoopBreaks)
    /\ WF_vars(EndpointIdle)
    /\ WF_vars(shutdown /\ LnaStops)
    /\ WF_vars(LnaAborted)
    /\ WF_vars(Exit)

FairSpec == Spec /\ Fairness

-----------------------------------------------------------------------------
(* Properties *)

Owned == \E c \in Connections : stage[c] = "owner"

TypeOK ==
    /\ server \in {"running", "closing", "joining", "exited"}
    /\ lost \in BOOLEAN /\ shutdown \in BOOLEAN
    /\ clock \in {"valid", "expired", "overdue"}
    /\ launch \in {"fresh", "used"}
    /\ timer \in {"asleep", "firing", "done"}
    /\ stage \in [Connections -> {"none", "handshake", "refusing", "accepting", "session", "owner",
                                  "over"}]
    /\ address \in [Connections -> Addresses \cup {Nowhere}]
    /\ route \in [Connections -> Routes \cup {Nowhere}]
    /\ pending \in 0 .. PendingLimit
    /\ perIp \in [Addresses -> 0 .. PerIpLimit]
    /\ taken \in [Routes -> Nat] /\ \A r \in Routes : taken[r] <= LimitOf[r]
    /\ lna \in {"running", "aborting", "stopped"}
    /\ request \in [Requests -> {"none", "idle", "benchmark"}]
    /\ lnaTaken \in 0 .. LnaLimit /\ benchTaken \in 0 .. MaxSessions

\* While the page that authenticated is connected, nobody stops the Agent: not a Bridge session
\* of somebody else that ends late, and not the launch timeout (handle_incoming, run_launched).
OwnerIsNotCutOff ==
    Owned => lost \/ (server = "running" /\ ~shutdown)

\* Every permit and every count belongs to a task that is still there: what is refused today can
\* be accepted tomorrow (IpConnectionTracker, handle_incoming, lna_http::run).
CountersExact ==
    /\ pending = Cardinality({c \in Connections : stage[c] # "none"})
    /\ \A a \in Addresses : perIp[a] = Cardinality({c \in Connections : address[c] = a})
    /\ \A r \in Routes :
        taken[r] = Cardinality({c \in Connections :
                     /\ route[c] = r
                     /\ stage[c] \in {"accepting", "session", "owner", "over"}})
    /\ lnaTaken = Cardinality({q \in Requests : request[q] # "none"})
    /\ benchTaken = Cardinality({q \in Requests : request[q] = "benchmark"})

\* An Agent nobody authenticates to, and one whose page has gone, ends (run_launched,
\* run_server).
AgentEnds ==
    <>(server = "exited") \/ []<>Owned
=============================================================================
