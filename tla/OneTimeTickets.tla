---------------------------- MODULE OneTimeTickets ----------------------------
(***************************************************************************)
(* What the ticket authority promises to the data planes: a ticket is      *)
(* granted once, is redeemed at most once, may lapse before that, and      *)
(* never more than MaxPending tickets are open; the launch is claimed once. *)
(***************************************************************************)
EXTENDS Naturals, FiniteSets

CONSTANTS
  Tokens,      \* one-time tokens
  MaxPending   \* tickets that may be open at the same time

VARIABLES
  open,      \* granted, neither redeemed nor lapsed
  redeemed,  \* honoured by a data plane
  lapsed,    \* forgotten
  claims     \* how often the launch was claimed

ticketVars == <<open, redeemed, lapsed, claims>>

Init == open = {} /\ redeemed = {} /\ lapsed = {} /\ claims = 0

\* Any operation may first let tickets lapse.
Lapse(L) ==
  /\ L \subseteq open
  /\ open'   = open \ L
  /\ lapsed' = lapsed \cup L
  /\ UNCHANGED <<redeemed, claims>>

Grant(k, L) ==
  /\ L \subseteq open
  /\ k \in Tokens \ (open \cup redeemed \cup lapsed)
  /\ Cardinality(open \ L) < MaxPending
  /\ open'   = (open \ L) \cup {k}
  /\ lapsed' = lapsed \cup L
  /\ UNCHANGED <<redeemed, claims>>

Redeem(k, L) ==
  /\ k \in open /\ L \subseteq open \ {k}
  /\ open'     = open \ (L \cup {k})
  /\ redeemed' = redeemed \cup {k}
  /\ lapsed'   = lapsed \cup L
  /\ UNCHANGED claims

Claim == claims = 0 /\ claims' = 1 /\ UNCHANGED <<open, redeemed, lapsed>>

Next ==
  \/ \E L \in SUBSET open : Lapse(L)
  \/ \E k \in Tokens, L \in SUBSET open : Grant(k, L) \/ Redeem(k, L)
  \/ Claim

Spec == Init /\ [][Next]_ticketVars
=============================================================================
