--------------------------- MODULE TicketAuthority ---------------------------
(***************************************************************************)
(* The launch token and the benchmark tickets of auth.rs. The Bridge asks  *)
(* for tickets while connections of both data planes present them. Every   *)
(* call reads the wall clock first and then enters the store, so calls act *)
(* on readings of the clock that others have overtaken, and the clock may  *)
(* be set back between two readings.                                       *)
(***************************************************************************)
EXTENDS Integers, FiniteSets

CONSTANTS
  Callers,     \* calls that may be under way at the same time
  Tokens,      \* random ticket tokens
  LaunchToken, \* the launch token
  WrongToken,  \* any token that was never issued
  MaxPending,  \* MAX_PENDING_TICKETS
  TTL,         \* TICKET_TTL
  LaunchExpiry,\* launch_expires_at_ms
  MaxTime      \* bound of the clock

ASSUME TokenAssumption ==
  /\ LaunchToken \notin Tokens /\ WrongToken \notin Tokens /\ LaunchToken # WrongToken
ASSUME LimitAssumption ==
  /\ MaxPending \in Nat \ {0} /\ TTL \in Nat
  /\ LaunchExpiry \in Nat /\ MaxTime \in Nat

VARIABLES
  now,        \* SystemTime::now, in the unit of TTL
  launchUsed, \* AuthorityInner.launch_used
  tickets,    \* AuthorityInner.tickets: the tokens pending
  expires,    \* expires_at_ms of every token issued
  issued,     \* every token issued
  call,       \* the calls under way: operation, token presented, clock read
  honoured,   \* how often a token was accepted
  launched    \* how often the launch token was accepted

store   == <<launchUsed, tickets, expires, issued>>
history == <<honoured, launched>>
vars == <<now, store, call, history>>

Time == 0 .. MaxTime
Idle == [op |-> "idle", token |-> WrongToken, at |-> 0]

-----------------------------------------------------------------------------
(* A call reads the clock, then does the rest under the lock.              *)

\* Vec::retain of the tickets that a clock reading has not passed.
Retained(at) == {k \in tickets : expires[k] >= at}

Read(c, op, token) ==
  /\ call[c] = Idle
  /\ call' = [call EXCEPT ![c] = [op |-> op, token |-> token, at |-> now]]
  /\ UNCHANGED <<now, store, history>>
BeginIssue(c)      == Read(c, "issue", WrongToken)
BeginConsume(c, k) == Read(c, "ticket", k)
BeginLaunch(c, k)  == Read(c, "launch", k)

Return(c) == call' = [call EXCEPT ![c] = Idle]

\* issue_ticket: forget what has expired, then refuse or push. The mutant
\* counts before it forgets.
IssueCountsFirst(c) ==
  LET at == call[c].at IN
  /\ call[c].op = "issue"
  /\ IF Cardinality(tickets) < MaxPending
       THEN \E k \in Tokens \ issued :
              /\ tickets' = Retained(at) \cup {k}
              /\ issued'  = issued \cup {k}
              /\ expires' = [expires EXCEPT ![k] = at + TTL]
       ELSE UNCHANGED <<tickets, issued, expires>>
  /\ Return(c)
  /\ UNCHANGED <<now, launchUsed, history>>
IssueTicket(c) ==
  LET at == call[c].at IN
  /\ call[c].op = "issue"
  /\ IF Cardinality(Retained(at)) < MaxPending
       THEN \E k \in Tokens \ issued :
              /\ tickets' = Retained(at) \cup {k}
              /\ issued'  = issued \cup {k}
              /\ expires' = [expires EXCEPT ![k] = at + TTL]
       ELSE tickets' = Retained(at) /\ UNCHANGED <<issued, expires>>
  /\ Return(c)
  /\ UNCHANGED <<now, launchUsed, history>>

\* consume_ticket: what was presented leaves the store, and so does what has
\* expired. One mutant accepts without removing, the other forgets every ticket
\* that expires with or before the one presented.
ConsumeAndKeep(c) ==
  LET k == call[c].token  at == call[c].at IN
  /\ call[c].op = "ticket"
  /\ tickets'  = Retained(at)
  /\ honoured' = [t \in Tokens |-> honoured[t] + IF t \in tickets /\ t = k /\ expires[t] >= at
                                                   THEN 1 ELSE 0]
  /\ Return(c)
  /\ UNCHANGED <<now, launchUsed, expires, issued, launched>>
ConsumeAndTruncate(c) ==
  LET k == call[c].token  at == call[c].at IN
  /\ call[c].op = "ticket"
  /\ tickets' = {t \in Retained(at) : k \in tickets => expires[t] > expires[k]}
  /\ honoured' = [t \in Tokens |-> honoured[t] + IF t \in tickets /\ t = k /\ expires[t] >= at
                                                   THEN 1 ELSE 0]
  /\ Return(c)
  /\ UNCHANGED <<now, launchUsed, expires, issued, launched>>
ConsumeTicket(c) ==
  LET k == call[c].token  at == call[c].at IN
  /\ call[c].op = "ticket"
  /\ tickets'  = Retained(at) \ {k}
  /\ honoured' = [t \in Tokens |-> honoured[t] + IF t \in tickets /\ t = k /\ expires[t] >= at
                                                   THEN 1 ELSE 0]
  /\ Return(c)
  /\ UNCHANGED <<now, launchUsed, expires, issued, launched>>

\* consume_launch_token: one compare_exchange decides. The mutant only stores.
LaunchStoresOnly(c) ==
  /\ call[c].op = "launch"
  /\ IF call[c].token = LaunchToken /\ call[c].at <= LaunchExpiry
       THEN launchUsed' = TRUE /\ launched' = launched + 1
       ELSE UNCHANGED <<launchUsed, launched>>
  /\ Return(c)
  /\ UNCHANGED <<now, tickets, expires, issued, honoured>>
ConsumeLaunch(c) ==
  /\ call[c].op = "launch"
  /\ IF call[c].token = LaunchToken /\ call[c].at <= LaunchExpiry /\ ~launchUsed
       THEN launchUsed' = TRUE /\ launched' = launched + 1
       ELSE UNCHANGED <<launchUsed, launched>>
  /\ Return(c)
  /\ UNCHANGED <<now, tickets, expires, issued, honoured>>

\* The wall clock moves on, or is set.
ClockChanges(m) ==
  /\ now' = m
  /\ UNCHANGED <<store, call, history>>

-----------------------------------------------------------------------------
Init ==
  /\ now \in Time
  /\ launchUsed = FALSE /\ tickets = {} /\ issued = {}
  /\ expires  = [k \in Tokens |-> 0]
  /\ call     = [c \in Callers |-> Idle]
  /\ honoured = [k \in Tokens |-> 0]
  /\ launched = 0

CallStep(c) ==
  \/ BeginIssue(c)
  \/ \E k \in Tokens \cup {WrongToken} : BeginConsume(c, k)
  \/ \E k \in {LaunchToken, WrongToken} : BeginLaunch(c, k)
  \/ IssueTicket(c)
  \/ ConsumeTicket(c)
  \/ ConsumeLaunch(c)

Next == (\E c \in Callers : CallStep(c)) \/ (\E m \in Time : ClockChanges(m))

Spec == Init /\ [][Next]_vars

-----------------------------------------------------------------------------
(* Properties.                                                             *)

\* Every variable has its type, and the store stays within its limit.
TypeOK ==
  /\ now \in Time
  /\ launchUsed \in BOOLEAN
  /\ tickets \subseteq issued /\ issued \subseteq Tokens
  /\ expires \in [Tokens -> Nat]
  /\ call \in [Callers ->
       [op : {"idle", "issue", "ticket", "launch"},
        token : Tokens \cup {LaunchToken, WrongToken}, at : Time]]
  /\ honoured \in [Tokens -> Nat]
  /\ launched \in Nat

\* However the calls of the two data planes overlap and however the clock is
\* set, a token is accepted at most once, only after it was issued, and not
\* again while it is pending; the launch token is accepted at most once.
AcceptedAtMostOnce ==
  /\ \A k \in Tokens :
       /\ honoured[k] <= 1
       /\ honoured[k] = 1 => k \in issued /\ k \notin tickets
  /\ launched <= 1
  /\ launched = 1 <=> launchUsed

\* At most MaxPending tickets are pending, also when the clock was set back and
\* what had expired counts again.
WithinLimit == Cardinality(tickets) <= MaxPending

\* A ticket leaves the store only by its own presentation or because the call
\* that removed it had read a clock past its expiry: presenting or issuing one
\* ticket never costs another.
OthersAreKept ==
  [][\A k \in tickets \ tickets' : \E c \in Callers :
       /\ call[c] # Idle /\ call'[c] = Idle
       /\ (call[c].op = "ticket" /\ call[c].token = k) \/ expires[k] < call[c].at]_vars

\* A full store frees itself: a refusal leaves MaxPending tickets of which none
\* had expired when the refused call read the clock.
RefusedOnlyWhenFull ==
  [][\A c \in Callers :
       call[c].op = "issue" /\ call'[c] = Idle /\ issued' = issued =>
         /\ Cardinality(tickets') >= MaxPending
         /\ \A k \in tickets' : expires[k] >= call[c].at]_vars

\* The authority keeps the promise of OneTimeTickets.
Promise == INSTANCE OneTimeTickets WITH
  open     <- tickets,
  redeemed <- {k \in Tokens : honoured[k] > 0},
  lapsed   <- {k \in issued \ tickets : honoured[k] = 0},
  claims   <- launched
PromiseKept == Promise!Spec
=============================================================================
