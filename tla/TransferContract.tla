--------------------------- MODULE TransferContract ---------------------------
(***************************************************************************)
(* What the file transfer manager promises about a transfer, without its   *)
(* requests, lanes, workers, completions and shutdown: one transfer in the *)
(* slot at a time; a file that gets its final name only when every segment *)
(* was accepted and keeps it; a cleanup that removes what has no final     *)
(* name; one event about the end. A rename may come after the transfer was *)
(* taken by somebody else; then the end is told as theirs.                 *)
(***************************************************************************)
EXTENDS Sequences

CONSTANTS
  Transfers,  \* transfer identifiers
  NoTransfer, \* an empty slot
  Segments    \* segments of a file

VARIABLES
  slot,     \* the transfer that is granted and not over
  stage,    \* "new", "open", or the way it left the slot
  accepted, \* the segments accepted
  file,     \* "none", "present" as .part, "removed", or "installed"
  told      \* the events published about its end

contractVars == <<slot, stage, accepted, file, told>>

Init ==
  /\ slot = NoTransfer
  /\ stage    = [t \in Transfers |-> "new"]
  /\ accepted = [t \in Transfers |-> {}]
  /\ file     = [t \in Transfers |-> "none"]
  /\ told     = [t \in Transfers |-> <<>>]

Grant(t, f) ==
  /\ slot = NoTransfer /\ stage[t] = "new"
  /\ slot'  = t
  /\ stage' = [stage EXCEPT ![t] = "open"]
  /\ file'  = [file  EXCEPT ![t] = f]
  /\ UNCHANGED <<accepted, told>>

Accept(t, s) ==
  /\ stage[t] # "new"
  /\ file[t] # "installed"
  /\ accepted' = [accepted EXCEPT ![t] = @ \cup {s}]
  /\ UNCHANGED <<slot, stage, file, told>>

Install(t) ==
  /\ file[t] = "present" /\ accepted[t] = Segments
  /\ file' = [file EXCEPT ![t] = "installed"]
  /\ UNCHANGED <<slot, stage, accepted, told>>

Complete(t) ==
  /\ slot = t /\ file[t] = "installed" /\ told[t] = <<>>
  /\ slot'  = NoTransfer
  /\ stage' = [stage EXCEPT ![t] = "complete"]
  /\ told'  = [told EXCEPT ![t] = <<"complete">>]
  /\ UNCHANGED <<accepted, file>>

Leave(t, how) ==
  /\ slot = t
  /\ slot'  = NoTransfer
  /\ stage' = [stage EXCEPT ![t] = how]
  /\ UNCHANGED <<accepted, file, told>>

\* The event that belongs to the way the transfer left the slot.
Event(how) ==
  CASE how = "cancel" -> <<"cancelled">>
    [] how = "fail"   -> <<"failed">>
    [] OTHER          -> <<>>

CleanUp(t) ==
  /\ stage[t] \in {"cancel", "fail", "close"} /\ told[t] = <<>>
  /\ file' = [file EXCEPT ![t] = IF @ = "present" THEN "removed" ELSE @]
  /\ told' = [told EXCEPT ![t] = Event(stage[t])]
  /\ UNCHANGED <<slot, stage, accepted>>

Next ==
  \E t \in Transfers :
    \/ \E f \in {"none", "present"} : Grant(t, f)
    \/ \E s \in Segments : Accept(t, s)
    \/ Install(t)
    \/ Complete(t)
    \/ \E how \in {"finish", "cancel", "fail", "close"} : Leave(t, how)
    \/ CleanUp(t)

Spec == Init /\ [][Next]_contractVars
=============================================================================
