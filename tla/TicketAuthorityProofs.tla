------------------------ MODULE TicketAuthorityProofs ------------------------
(***************************************************************************)
(* Proofs about TicketAuthority, for any number of calls and tokens, any   *)
(* limit, any lifetime and any clock.                                      *)
(***************************************************************************)
EXTENDS TicketAuthority, FiniteSetTheorems, TLAPS

\* The strengthening: the store is finite, so that it can be counted.
IInv == TypeOK /\ IsFiniteSet(tickets) /\ AcceptedAtMostOnce /\ WithinLimit

\* No call or setting of the clock changes the store except the three that
\* enter it.
LEMMA StepCases ==
  ASSUME Next
  PROVE  \/ /\ UNCHANGED <<launchUsed, tickets, expires, issued, honoured, launched>>
            /\ \/ now' \in Time /\ UNCHANGED call
               \/ \E c \in Callers, op \in {"issue", "ticket", "launch"},
                     k \in Tokens \cup {LaunchToken, WrongToken} :
                    /\ UNCHANGED now /\ call[c] = Idle
                    /\ call' = [call EXCEPT ![c] = [op |-> op, token |-> k, at |-> now]]
         \/ \E c \in Callers : IssueTicket(c) \/ ConsumeTicket(c) \/ ConsumeLaunch(c)
<1>1. CASE \E m \in Time : ClockChanges(m)
  BY <1>1 DEF ClockChanges, store, history
<1>2. CASE \E c \in Callers : CallStep(c)
  <2>1. PICK c \in Callers : CallStep(c)
    BY <1>2
  <2>2. CASE BeginIssue(c)
    BY <2>2 DEF BeginIssue, Read, store, history
  <2>3. CASE \E k \in Tokens \cup {WrongToken} : BeginConsume(c, k)
    BY <2>3 DEF BeginConsume, Read, store, history
  <2>4. CASE \E k \in {LaunchToken, WrongToken} : BeginLaunch(c, k)
    BY <2>4 DEF BeginLaunch, Read, store, history
  <2> QED
    BY <2>1, <2>2, <2>3, <2>4 DEF CallStep
<1> QED
  BY <1>1, <1>2 DEF Next

\* A clock reading only ever forgets tickets.
LEMMA RetainedSubset ==
  ASSUME NEW at, TypeOK, IsFiniteSet(tickets), WithinLimit
  PROVE  /\ Retained(at) \subseteq tickets
         /\ IsFiniteSet(Retained(at))
         /\ Cardinality(Retained(at)) <= MaxPending
         /\ Cardinality(Retained(at)) \in Nat
<1>1. Retained(at) \subseteq tickets
  BY DEF Retained
<1>2. IsFiniteSet(Retained(at)) /\ Cardinality(Retained(at)) <= Cardinality(tickets)
  BY <1>1, FS_Subset
<1>3. Cardinality(tickets) \in Nat /\ Cardinality(Retained(at)) \in Nat
  BY <1>2, FS_CardinalityType
<1> QED
  BY <1>1, <1>2, <1>3, LimitAssumption DEF WithinLimit

\* The initial store is empty.
LEMMA InitHolds == Init => IInv
<1> SUFFICES ASSUME Init PROVE IInv
  OBVIOUS
<1>1. TypeOK
  <2>1. call \in [Callers -> [op : {"idle", "issue", "ticket", "launch"},
                              token : Tokens \cup {LaunchToken, WrongToken}, at : Time]]
    BY LimitAssumption DEF Init, Idle, Time
  <2> QED
    BY <2>1 DEF Init, TypeOK
<1>2. IsFiniteSet(tickets) /\ WithinLimit
  BY FS_EmptySet, LimitAssumption DEF Init, WithinLimit
<1>3. AcceptedAtMostOnce
  BY DEF Init, AcceptedAtMostOnce
<1> QED
  BY <1>1, <1>2, <1>3 DEF IInv

\* issue_ticket preserves the invariant: a fresh token was never accepted, and
\* it is pushed only below the limit.
LEMMA IssuePreserves ==
  ASSUME IInv, NEW c \in Callers, IssueTicket(c)
  PROVE  IInv'
<1> DEFINE at == call[c].at
<1> USE DEF IInv
<1>1. at \in Nat /\ TTL \in Nat
  BY LimitAssumption DEF TypeOK, Time
<1>2. call' \in [Callers -> [op : {"idle", "issue", "ticket", "launch"},
                             token : Tokens \cup {LaunchToken, WrongToken}, at : Time]]
  BY LimitAssumption DEF IssueTicket, Return, TypeOK, Idle, Time
<1>3. CASE Cardinality(Retained(at)) < MaxPending
  <2>1. PICK k \in Tokens \ issued :
          /\ tickets' = Retained(at) \cup {k}
          /\ issued'  = issued \cup {k}
          /\ expires' = [expires EXCEPT ![k] = at + TTL]
    BY <1>3 DEF IssueTicket
  <2>2. TypeOK'
    BY <1>1, <1>2, <2>1, RetainedSubset DEF TypeOK, IssueTicket, history
  <2>3. k \notin Retained(at)
    BY <2>1, RetainedSubset DEF TypeOK
  <2>4. IsFiniteSet(tickets') /\ Cardinality(tickets') = Cardinality(Retained(at)) + 1
    BY <2>1, <2>3, RetainedSubset, FS_AddElement
  <2>5. WithinLimit'
    BY <1>3, <2>4, RetainedSubset, LimitAssumption DEF WithinLimit
  <2>6. AcceptedAtMostOnce'
    BY <2>1, RetainedSubset DEF AcceptedAtMostOnce, IssueTicket, history, TypeOK
  <2> QED
    BY <2>2, <2>4, <2>5, <2>6
<1>4. CASE ~(Cardinality(Retained(at)) < MaxPending)
  <2>1. tickets' = Retained(at) /\ UNCHANGED <<issued, expires, now, launchUsed, history>>
    BY <1>4 DEF IssueTicket
  <2>2. TypeOK'
    BY <1>2, <2>1, RetainedSubset DEF TypeOK, history
  <2>3. IsFiniteSet(tickets') /\ WithinLimit'
    BY <2>1, RetainedSubset DEF WithinLimit
  <2>4. AcceptedAtMostOnce'
    BY <2>1, RetainedSubset DEF AcceptedAtMostOnce, history
  <2> QED
    BY <2>2, <2>3, <2>4
<1> QED
  BY <1>3, <1>4

\* consume_ticket preserves the invariant: what it accepts was pending, so it
\* had not been accepted before, and it is pending no more.
LEMMA ConsumePreserves ==
  ASSUME IInv, NEW c \in Callers, ConsumeTicket(c)
  PROVE  IInv'
<1> DEFINE at == call[c].at
           k  == call[c].token
<1> USE DEF IInv
<1>1. tickets' = Retained(at) \ {k} /\ tickets' \subseteq Retained(at)
  BY DEF ConsumeTicket
<1>2. UNCHANGED <<now, launchUsed, expires, issued, launched>>
  BY DEF ConsumeTicket
<1>3. \A t \in Tokens : honoured'[t] =
        honoured[t] + IF t \in tickets /\ t = k /\ expires[t] >= at THEN 1 ELSE 0
  BY DEF ConsumeTicket
<1>4. honoured' \in [Tokens -> Nat]
  BY DEF ConsumeTicket, TypeOK
<1>5. TypeOK'
  <2>1. call' \in [Callers -> [op : {"idle", "issue", "ticket", "launch"},
                               token : Tokens \cup {LaunchToken, WrongToken}, at : Time]]
    BY LimitAssumption DEF ConsumeTicket, Return, TypeOK, Idle, Time
  <2> QED
    BY <1>1, <1>2, <1>4, <2>1, RetainedSubset DEF TypeOK
<1>6. IsFiniteSet(tickets') /\ WithinLimit'
  <2>1. IsFiniteSet(tickets') /\ Cardinality(tickets') <= Cardinality(Retained(at))
    BY <1>1, RetainedSubset, FS_Subset
  <2>2. Cardinality(tickets') \in Nat
    BY <2>1, FS_CardinalityType
  <2> QED
    BY <2>1, <2>2, RetainedSubset, LimitAssumption DEF WithinLimit
<1>7. AcceptedAtMostOnce'
  <2>1. ASSUME NEW t \in Tokens
        PROVE  honoured'[t] <= 1 /\ (honoured'[t] = 1 => t \in issued' /\ t \notin tickets')
    <3>1. CASE t \in tickets
      <4>1. honoured[t] = 0
        BY <3>1 DEF AcceptedAtMostOnce, TypeOK
      <4> QED
        BY <1>1, <1>2, <1>3, <3>1, <4>1 DEF TypeOK, Retained
    <3>2. CASE t \notin tickets
      BY <1>1, <1>2, <1>3, <3>2, RetainedSubset DEF TypeOK, AcceptedAtMostOnce
    <3> QED
      BY <3>1, <3>2
  <2> QED
    BY <1>2, <2>1 DEF AcceptedAtMostOnce
<1> QED
  BY <1>5, <1>6, <1>7

\* consume_launch_token preserves the invariant.
LEMMA LaunchPreserves ==
  ASSUME IInv, NEW c \in Callers, ConsumeLaunch(c)
  PROVE  IInv'
<1> USE DEF IInv
<1>1. TypeOK'
  <2>1. call' \in [Callers -> [op : {"idle", "issue", "ticket", "launch"},
                               token : Tokens \cup {LaunchToken, WrongToken}, at : Time]]
    BY LimitAssumption DEF ConsumeLaunch, Return, TypeOK, Idle, Time
  <2>2. (launchUsed' = TRUE /\ launched' = launched + 1)
          \/ (launchUsed' = launchUsed /\ launched' = launched)
    BY DEF ConsumeLaunch
  <2>3. launchUsed' \in BOOLEAN
    BY <2>2 DEF TypeOK
  <2>4. launched' \in Nat
    BY <2>2 DEF TypeOK
  <2> QED
    BY <2>1, <2>3, <2>4 DEF ConsumeLaunch, TypeOK
<1>2. IsFiniteSet(tickets') /\ WithinLimit'
  BY DEF ConsumeLaunch, WithinLimit
<1>3. AcceptedAtMostOnce'
  BY DEF ConsumeLaunch, AcceptedAtMostOnce, TypeOK
<1> QED
  BY <1>1, <1>2, <1>3

\* Every step preserves the invariant.
LEMMA StepHolds == IInv /\ [Next]_vars => IInv'
<1> SUFFICES ASSUME IInv, [Next]_vars PROVE IInv'
  OBVIOUS
<1>1. CASE UNCHANGED vars
  BY <1>1 DEF IInv, vars, store, history, TypeOK, AcceptedAtMostOnce, WithinLimit
<1>2. CASE Next
  <2>1. CASE UNCHANGED <<launchUsed, tickets, expires, issued, honoured, launched>>
             /\ now' \in Time /\ UNCHANGED call
    BY <2>1 DEF IInv, TypeOK, AcceptedAtMostOnce, WithinLimit
  <2>2. ASSUME NEW c \in Callers, NEW op \in {"issue", "ticket", "launch"},
               NEW k \in Tokens \cup {LaunchToken, WrongToken},
               UNCHANGED <<launchUsed, tickets, expires, issued, honoured, launched, now>>,
               call' = [call EXCEPT ![c] = [op |-> op, token |-> k, at |-> now]]
        PROVE  IInv'
    BY <2>2 DEF IInv, TypeOK, AcceptedAtMostOnce, WithinLimit
  <2>3. ASSUME NEW c \in Callers, IssueTicket(c) \/ ConsumeTicket(c) \/ ConsumeLaunch(c)
        PROVE  IInv'
    BY <2>3, IssuePreserves, ConsumePreserves, LaunchPreserves
  <2> QED
    BY <1>2, <2>1, <2>2, <2>3, StepCases
<1> QED
  BY <1>1, <1>2

\* The invariant holds in every state of every behaviour.
THEOREM Inductive == Spec => []IInv
BY InitHolds, StepHolds, PTL DEF Spec

\* TicketAuthority is type correct.
THEOREM TypeCorrect == Spec => []TypeOK
<1>1. IInv => TypeOK
  BY DEF IInv
<1> QED
  BY <1>1, Inductive, PTL

\* No token is accepted twice, whatever the interleaving and the clock.
THEOREM AcceptedOnceOnly == Spec => []AcceptedAtMostOnce
<1>1. IInv => AcceptedAtMostOnce
  BY DEF IInv
<1> QED
  BY <1>1, Inductive, PTL

\* The store never exceeds its limit.
THEOREM StoreBounded == Spec => []WithinLimit
<1>1. IInv => WithinLimit
  BY DEF IInv
<1> QED
  BY <1>1, Inductive, PTL

-----------------------------------------------------------------------------
(* TicketAuthority implements OneTimeTickets.                              *)

\* The sets that the promise is about, as the state of the code gives them.
Redeemed == {k \in Tokens : honoured[k] > 0}
Lapsed   == {k \in issued \ tickets : honoured[k] = 0}

\* Accepted tokens were issued and are not pending; what is issued is open,
\* redeemed or lapsed.
LEMMA Partition ==
  ASSUME IInv
  PROVE  /\ issued = tickets \cup Redeemed \cup Lapsed
         /\ Redeemed \cap tickets = {}
BY DEF IInv, TypeOK, AcceptedAtMostOnce, Redeemed, Lapsed

\* The initial states of the code are those of the promise.
LEMMA PromiseInit == Init => Promise!Init
BY DEF Init, Promise!Init

\* The promise counts as the code does.
LEMMA SameCardinality == \A S : Promise!Cardinality(S) = Cardinality(S)
BY DEF Cardinality, IsFiniteSet, Promise!Cardinality, Promise!IsFiniteSet

\* issue_ticket forgets what expired and grants, or only forgets.
LEMMA IssueKeepsPromise ==
  ASSUME IInv, NEW c \in Callers, IssueTicket(c)
  PROVE  Promise!Next
<1> DEFINE at == call[c].at
<1>0. PICK L : L = tickets \ Retained(at)
  OBVIOUS
<1>1. tickets \ L = Retained(at) /\ L \in SUBSET tickets
  BY <1>0 DEF Retained
<1>2. UNCHANGED <<honoured, launched>>
  BY DEF IssueTicket, history
<1>3. \A t \in tickets : honoured[t] = 0
  BY DEF IInv, TypeOK, AcceptedAtMostOnce
<1>4. CASE Cardinality(Retained(at)) < MaxPending
  <2>1. PICK k \in Tokens \ issued :
          tickets' = Retained(at) \cup {k} /\ issued' = issued \cup {k}
    BY <1>4 DEF IssueTicket
  <2>2. k \notin tickets \cup Redeemed \cup Lapsed
    BY <2>1, Partition
  <2>3. Lapsed' = Lapsed \cup L
    BY <1>0, <1>2, <1>3, <2>1, Partition DEF Lapsed, Redeemed, Retained, IInv, TypeOK
  <2>4. Promise!Grant(k, L)
    BY <1>1, <1>2, <1>4, <2>1, <2>2, <2>3, SameCardinality DEF Promise!Grant, Lapsed, Redeemed
  <2> QED
    BY <1>1, <2>1, <2>4 DEF Promise!Next
<1>5. CASE ~(Cardinality(Retained(at)) < MaxPending)
  <2>1. tickets' = Retained(at) /\ UNCHANGED issued
    BY <1>5 DEF IssueTicket
  <2>2. Lapsed' = Lapsed \cup L
    BY <1>0, <1>2, <1>3, <2>1 DEF Lapsed, Retained, IInv, TypeOK
  <2>3. Promise!Lapse(L)
    BY <1>1, <1>2, <2>1, <2>2 DEF Promise!Lapse, Lapsed, Redeemed
  <2> QED
    BY <1>1, <2>3 DEF Promise!Next
<1> QED
  BY <1>4, <1>5

\* consume_ticket redeems what it accepts and lets the rest lapse.
LEMMA ConsumeKeepsPromise ==
  ASSUME IInv, NEW c \in Callers, ConsumeTicket(c)
  PROVE  Promise!Next
<1> DEFINE at == call[c].at
<1>0. PICK k : k = call[c].token
  OBVIOUS
<1> DEFINE Accepted == k \in tickets /\ expires[k] >= at
<1>1. tickets' = Retained(at) \ {k} /\ UNCHANGED <<issued, launched>>
  BY <1>0 DEF ConsumeTicket
<1>2. \A t \in tickets : honoured[t] = 0
  BY DEF IInv, TypeOK, AcceptedAtMostOnce
<1>3. tickets \subseteq Tokens /\ honoured \in [Tokens -> Nat]
  BY DEF IInv, TypeOK
<1>4. \A t \in Tokens : honoured'[t] =
        honoured[t] + IF t \in tickets /\ t = k /\ expires[t] >= at THEN 1 ELSE 0
  BY <1>0 DEF ConsumeTicket
<1>5. CASE Accepted
  <2>0. PICK L : L = tickets \ (Retained(at) \cup {k})
    OBVIOUS
  <2>1. tickets' = tickets \ (L \cup {k})
    BY <1>1, <2>0 DEF Retained
  <2>2. Redeemed' = Redeemed \cup {k}
    BY <1>3, <1>4, <1>5 DEF Redeemed
  <2>3. Lapsed' = Lapsed \cup L
    <3>1. \A t \in Tokens \ {k} : honoured'[t] = honoured[t]
      BY <1>3, <1>4
    <3>2. honoured'[k] # 0
      BY <1>2, <1>3, <1>4, <1>5
    <3> QED
      BY <1>1, <1>2, <1>5, <2>0, <2>1, <3>1, <3>2 DEF Lapsed, Retained, IInv, TypeOK
  <2>4. Promise!Redeem(k, L)
    BY <1>1, <1>5, <2>0, <2>1, <2>2, <2>3 DEF Promise!Redeem, Redeemed, Lapsed
  <2>5. k \in Tokens /\ L \in SUBSET tickets
    BY <1>3, <1>5, <2>0
  <2> QED
    BY <2>4, <2>5 DEF Promise!Next
<1>6. CASE ~Accepted
  <2>0. PICK L : L = tickets \ Retained(at)
    OBVIOUS
  <2>1. \A t \in Tokens : honoured'[t] = honoured[t]
    BY <1>3, <1>4, <1>6
  <2>2. tickets' = tickets \ L
    BY <1>1, <1>6, <2>0 DEF Retained
  <2>3. Redeemed' = Redeemed
    BY <2>1 DEF Redeemed
  <2>4. Lapsed' = Lapsed \cup L
    BY <1>1, <1>2, <2>0, <2>1, <2>2 DEF Lapsed, Retained, IInv, TypeOK
  <2>5. L \in SUBSET tickets
    BY <2>0
  <2>6. Promise!Lapse(L)
    BY <1>1, <2>2, <2>3, <2>4, <2>5 DEF Promise!Lapse, Redeemed, Lapsed
  <2> QED
    BY <2>5, <2>6 DEF Promise!Next
<1> QED
  BY <1>5, <1>6

\* consume_launch_token claims the launch or changes nothing.
LEMMA LaunchKeepsPromise ==
  ASSUME IInv, NEW c \in Callers, ConsumeLaunch(c)
  PROVE  Promise!Next \/ UNCHANGED Promise!ticketVars
BY DEF ConsumeLaunch, IInv, TypeOK, AcceptedAtMostOnce, Promise!Next, Promise!Claim,
   Promise!ticketVars

\* Every step of the code is a step of the promise or leaves it alone.
LEMMA PromiseStep ==
  IInv /\ [Next]_vars => [Promise!Next]_(Promise!ticketVars)
<1> SUFFICES ASSUME IInv, [Next]_vars
             PROVE  Promise!Next \/ UNCHANGED Promise!ticketVars
  OBVIOUS
<1>1. CASE UNCHANGED <<launchUsed, tickets, expires, issued, honoured, launched>>
  BY <1>1 DEF Promise!ticketVars
<1>2. ASSUME NEW c \in Callers, IssueTicket(c) \/ ConsumeTicket(c) \/ ConsumeLaunch(c)
      PROVE  Promise!Next \/ UNCHANGED Promise!ticketVars
  BY <1>2, IssueKeepsPromise, ConsumeKeepsPromise, LaunchKeepsPromise
<1>3. CASE UNCHANGED vars
  BY <1>1, <1>3 DEF vars, store, history
<1> QED
  BY <1>1, <1>2, <1>3, StepCases

\* The ticket authority implements OneTimeTickets: a ticket is granted within
\* the limit and redeemed at most once, the launch is claimed at most once.
THEOREM KeepsPromise == Spec => PromiseKept
<1>1. Init => Promise!Init
  BY PromiseInit
<1>2. IInv /\ [Next]_vars => [Promise!Next]_(Promise!ticketVars)
  BY PromiseStep
<1> QED
  BY <1>1, <1>2, Inductive, PTL DEF Spec, PromiseKept, Promise!Spec

\* Presenting or issuing one ticket never costs another.
THEOREM OthersKept == Spec => OthersAreKept
<1> DEFINE Kept ==
      \A k \in tickets \ tickets' : \E c \in Callers :
        /\ call[c] # Idle /\ call'[c] = Idle
        /\ (call[c].op = "ticket" /\ call[c].token = k) \/ expires[k] < call[c].at
<1>1. IInv /\ [Next]_vars => [Kept]_vars
  <2> SUFFICES ASSUME IInv, [Next]_vars, NEW k \in tickets \ tickets' PROVE
        \E c \in Callers :
          /\ call[c] # Idle /\ call'[c] = Idle
          /\ (call[c].op = "ticket" /\ call[c].token = k) \/ expires[k] < call[c].at
    OBVIOUS
  <2>1. PICK c \in Callers : IssueTicket(c) \/ ConsumeTicket(c)
    BY StepCases DEF vars, store, ConsumeLaunch
  <2>2. call[c] # Idle /\ call'[c] = Idle
    BY <2>1 DEF IssueTicket, ConsumeTicket, Return, Idle, IInv, TypeOK
  <2>3. call[c].at \in Nat /\ expires[k] \in Nat
    BY LimitAssumption DEF IInv, TypeOK, Time
  <2>4. (call[c].op = "ticket" /\ call[c].token = k) \/ expires[k] < call[c].at
    BY <2>1, <2>3 DEF IssueTicket, ConsumeTicket, Retained
  <2> QED
    BY <2>2, <2>4
<1> QED
  BY <1>1, Inductive, PTL DEF Spec, OthersAreKept

\* A refused call found the store full of tickets that had not expired by the clock it had read,
\* whatever other calls did in between (issue_ticket).
THEOREM RefusalsAreDue == Spec => RefusedOnlyWhenFull
<1> DEFINE Due ==
      \A c \in Callers :
        call[c].op = "issue" /\ call'[c] = Idle /\ issued' = issued =>
          /\ Cardinality(tickets') >= MaxPending
          /\ \A k \in tickets' : expires[k] >= call[c].at
<1>1. IInv /\ [Next]_vars => [Due]_vars
  <2> SUFFICES ASSUME IInv, [Next]_vars, NEW c \in Callers,
                      call[c].op = "issue", call'[c] = Idle, issued' = issued
               PROVE  /\ Cardinality(tickets') >= MaxPending
                      /\ \A k \in tickets' : expires[k] >= call[c].at
    OBVIOUS
  <2>1. call[c] # Idle
    BY DEF Idle
  <2>2. IssueTicket(c)
    <3>1. call \in [Callers -> [op : {"idle", "issue", "ticket", "launch"},
                                token : Tokens \cup {LaunchToken, WrongToken}, at : Time]]
      BY DEF IInv, TypeOK
    <3>2. Next /\ call' # call
      BY <2>1 DEF vars
    <3>3. ~ \E d \in Callers, op \in {"issue", "ticket", "launch"},
               k \in Tokens \cup {LaunchToken, WrongToken} :
              call[d] = Idle /\ call' = [call EXCEPT ![d] = [op |-> op, token |-> k, at |-> now]]
      BY <2>1, <3>1 DEF Idle
    <3>4. PICK d \in Callers : IssueTicket(d) \/ ConsumeTicket(d) \/ ConsumeLaunch(d)
      BY <3>2, <3>3, StepCases
    <3>5. d = c
      BY <2>1, <3>1, <3>4 DEF IssueTicket, ConsumeTicket, ConsumeLaunch, Return
    <3> QED BY <3>4, <3>5 DEF ConsumeTicket, ConsumeLaunch
  <2>3. ~(Cardinality(Retained(call[c].at)) < MaxPending) /\ tickets' = Retained(call[c].at)
    BY <2>2 DEF IssueTicket
  <2>4. Cardinality(Retained(call[c].at)) \in Nat
    BY RetainedSubset DEF IInv
  <2> QED BY <2>3, <2>4, LimitAssumption DEF Retained
<1> QED
  BY <1>1, Inductive, PTL DEF Spec, RefusedOnlyWhenFull
=============================================================================
