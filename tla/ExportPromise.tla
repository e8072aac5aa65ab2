--------------------------- MODULE ExportPromise ---------------------------
(***************************************************************************)
(* What the page and the owner of the file are promised of exports: they   *)
(* run one at a time, the file changes only by a running export and at     *)
(* most once by each, and the outcome says truly whether it changed.       *)
(***************************************************************************)
EXTENDS FiniteSets

CONSTANTS Targets, NoTarget

VARIABLES
    running,   \* the export that runs, or NoTarget
    file,      \* whose export the file holds, NoTarget for the user's own content
    installed, \* the exports that replaced the file
    outcome    \* of every export that ended

promiseVars == <<running, file, installed, outcome>>

Init ==
    /\ running = NoTarget
    /\ file = NoTarget
    /\ installed = {}
    /\ outcome = [e \in Targets |-> "none"]

Begin(e) ==
    /\ running = NoTarget
    /\ outcome[e] = "none"
    /\ running' = e
    /\ UNCHANGED <<file, installed, outcome>>

Install(e) ==
    /\ running = e
    /\ e \notin installed
    /\ file' = e
    /\ installed' = installed \cup {e}
    /\ UNCHANGED <<running, outcome>>

End(e) ==
    /\ running = e
    /\ running' = NoTarget
    /\ \E verdict \in IF e \in installed THEN {"complete"} ELSE {"failed", "cancelled"} :
        outcome' = [outcome EXCEPT ![e] = verdict]
    /\ UNCHANGED <<file, installed>>

Next == \E e \in Targets : Begin(e) \/ Install(e) \/ End(e)

Spec == Init /\ [][Next]_promiseVars
=============================================================================
