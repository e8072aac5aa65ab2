-------------------------- MODULE MCTicketAuthority --------------------------
(***************************************************************************)
(* Instances of TicketAuthority: a store of two tickets, tokens enough to   *)
(* fill it and be refused, and a clock that can pass every expiry.         *)
(***************************************************************************)
EXTENDS TicketAuthority, TLC

TicketSymmetry == Permutations(Callers) \cup Permutations(Tokens)
=============================================================================
