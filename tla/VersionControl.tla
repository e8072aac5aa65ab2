--------------------------- MODULE VersionControl ---------------------------
(***************************************************************************)
(* The version control Bridge: one session, its registry of the open       *)
(* repository, its diffs and its export targets (VersionControlManager),   *)
(* and the export workers that write a diff to a file the user chose.      *)
(*                                                                         *)
(* The session handles one command at a time.  Beside it run the worker    *)
(* of an export (a blocking thread) and the task that awaits the worker,   *)
(* clears the active export and sends the event.  All share the registry   *)
(* behind one mutex, which prepare_export keeps during the save dialog.    *)
(***************************************************************************)
EXTENDS Naturals, Sequences, FiniteSets

CONSTANTS
    MaxRepositories, \* bound: repositories opened in a session
    MaxDiffs,        \* bound: diff sessions opened
    MaxTargets,      \* bound: export targets chosen
    MaxDiffSessions, \* diff sessions the registry keeps
    Chunks           \* writes an export takes

ASSUME BoundsAssumption ==
    /\ MaxRepositories \in Nat
    /\ MaxDiffs \in Nat
    /\ MaxTargets \in Nat
ASSUME MaxDiffSessionsAssumption == MaxDiffSessions \in Nat \ {0}
ASSUME ChunksAssumption == Chunks \in Nat \ {0}

\* The ids are random; here they are numbered in the order they are given out, 0 is none.
Repositories == 1 .. MaxRepositories
NoRepository == 0
Diffs == 1 .. MaxDiffs
Targets == 1 .. MaxTargets
NoTarget == 0

Backends == {"git", "svn"}

VARIABLES
    session,     \* "launching", "open", "ended" (registry shut down), "exited"
    bridge,      \* what the session task does: "idle", or a dialog: "folder", "save"
    repository,  \* the open repository, or NoRepository
    backend,     \* of the open repository, "none" without one
    opened,      \* repository ids given out
    compared,    \* diff ids given out
    candidates,  \* backends found in the chosen folder, waiting for a choice
    diffs,       \* keys of RepositoryState.diffs
    diffOrder,   \* RepositoryState.diff_order
    pending,     \* keys of pending_exports
    active,      \* active_export, or NoTarget
    target,      \* of every target: its repository, and whether it lies inside it
    allowed,     \* targets inside the repository that were confirmed as such
    stage,       \* of every target, see Stages
    cancelled,   \* the flag of every running export
    written,     \* writes in the file of an export, temporary or renamed
    temp,        \* targets whose temporary file exists
    destination, \* whose export the chosen file holds: NoTarget for the user's file
    result       \* of every export: what its worker returned

registryVars == <<repository, backend, opened, compared, candidates, diffs, diffOrder>>
exportVars == <<active, stage, cancelled, written, temp, destination, result>>
targetVars == <<pending, target, allowed>>
vars == <<session, bridge, registryVars, exportVars, targetVars>>

Running == {"queued", "writing", "retrying", "synced", "checked", "replaced", "failed"}
Stages == {"unused", "offered"} \cup Running \cup {"returned", "finished", "sent", "heard"}
Results == {"none", "complete", "failed", "cancelled"}

TypeOK ==
    /\ session \in {"launching", "open", "ended", "exited"}
    /\ bridge \in {"idle", "folder", "save"}
    /\ repository \in Repositories \cup {NoRepository}
    /\ backend \in Backends \cup {"none"}
    /\ opened \in 0 .. MaxRepositories
    /\ compared \in 0 .. MaxDiffs
    /\ candidates \subseteq Backends
    /\ diffs \subseteq Diffs
    /\ diffOrder \in Seq(Diffs)
    /\ pending \subseteq Targets
    /\ active \in Targets \cup {NoTarget}
    /\ target \in [Targets -> [repository : Repositories \cup {NoRepository}, inside : BOOLEAN]]
    /\ allowed \subseteq Targets
    /\ stage \in [Targets -> Stages]
    /\ cancelled \in [Targets -> BOOLEAN]
    /\ written \in [Targets -> 0 .. Chunks]
    /\ temp \subseteq Targets
    /\ destination \in Targets \cup {NoTarget}
    /\ result \in [Targets -> Results]

Init ==
    /\ session = "launching"
    /\ bridge = "idle"
    /\ repository = NoRepository
    /\ backend = "none"
    /\ opened = 0
    /\ compared = 0
    /\ candidates = {}
    /\ diffs = {}
    /\ diffOrder = <<>>
    /\ pending = {}
    /\ active = NoTarget
    /\ target = [e \in Targets |-> [repository |-> NoRepository, inside |-> FALSE]]
    /\ allowed = {}
    /\ stage = [e \in Targets |-> "unused"]
    /\ cancelled = [e \in Targets |-> FALSE]
    /\ written = [e \in Targets |-> 0]
    /\ temp = {}
    /\ destination = NoTarget
    /\ result = [e \in Targets |-> "none"]

-----------------------------------------------------------------------------
(* The session *)

\* The first connection passes the handshake, the Origin and path checks and the hello.
Connect ==
    /\ session = "launching"
    /\ session' = "open"
    /\ UNCHANGED <<bridge, registryVars, exportVars, targetVars>>

\* cancel_active_export
CancelActive == cancelled' = [e \in Targets |-> cancelled[e] \/ e = active]

\* What ends with the repository.
ForgetRepository ==
    /\ CancelActive
    /\ repository' = NoRepository
    /\ backend' = "none"
    /\ candidates' = {}
    /\ diffs' = {}
    /\ diffOrder' = <<>>
    /\ pending' = {}

\* The launch failed, or the session ended (an error, or the page closed it): SessionGuard
\* shuts the registry down.  A session in a dialog notices nothing.
EndSession ==
    /\ session \in {"launching", "open"}
    /\ bridge = "idle"
    /\ session' = "ended"
    /\ ForgetRepository
    /\ UNCHANGED <<bridge, opened, compared, target, allowed, active, stage, written, temp,
                   destination, result>>

\* The runtime is dropped: it waits for every blocking worker that has started.
Exit ==
    /\ session = "ended"
    /\ \A e \in Targets : stage[e] \notin Running \ {"queued"}
    /\ session' = "exited"
    /\ UNCHANGED <<bridge, registryVars, exportVars, targetVars>>

Idle == session = "open" /\ bridge = "idle"

-----------------------------------------------------------------------------
(* The registry *)

\* MUTANT of OpenBackend: the target that waits is kept
OpenBackendKeepsTarget(b) ==
    /\ opened < MaxRepositories
    /\ opened' = opened + 1
    /\ repository' = opened'
    /\ backend' = b
    /\ CancelActive
    /\ candidates' = {}
    /\ diffs' = {}
    /\ diffOrder' = <<>>
    /\ UNCHANGED pending

\* open_backend_locked: the overview is built first, and may fail.
OpenBackend(b) ==
    /\ opened < MaxRepositories
    /\ opened' = opened + 1
    /\ repository' = opened'
    /\ backend' = b
    /\ CancelActive
    /\ candidates' = {}
    /\ diffs' = {}
    /\ diffOrder' = <<>>
    /\ pending' = {}

SelectRepository ==
    /\ Idle
    /\ bridge' = "folder"
    /\ UNCHANGED <<session, registryVars, exportVars, targetVars>>

\* The dialog is dismissed, or the folder holds no working copy.
NothingSelected ==
    /\ bridge = "folder"
    /\ bridge' = "idle"
    /\ UNCHANGED <<session, registryVars, exportVars, targetVars>>

FolderSelected(detected) ==
    /\ bridge = "folder"
    /\ bridge' = "idle"
    /\ \/ /\ Cardinality(detected) > 1
          /\ candidates' = detected
          /\ UNCHANGED <<repository, backend, opened, diffs, diffOrder, pending, cancelled>>
       \/ \E b \in detected : detected = {b} /\ OpenBackend(b)
       \/ /\ Cardinality(detected) = 1
          /\ candidates' = {}
          /\ UNCHANGED <<repository, backend, opened, diffs, diffOrder, pending, cancelled>>
    /\ UNCHANGED <<session, compared, target, allowed, active, stage, written, temp, destination, result>>

OpenCandidate(b) ==
    /\ Idle
    /\ b \in candidates
    /\ \/ OpenBackend(b)
       \/ /\ candidates' = candidates \ {b}
          /\ UNCHANGED <<repository, backend, opened, diffs, diffOrder, pending, cancelled>>
    /\ UNCHANGED <<session, bridge, compared, target, allowed, active, stage, written, temp,
                   destination, result>>

CloseRepository ==
    /\ Idle
    /\ repository # NoRepository
    /\ ForgetRepository
    /\ UNCHANGED <<session, bridge, opened, compared, target, allowed, active, stage, written,
                   temp, destination, result>>

\* The oldest sessions give way until MaxDiffSessions are left.
OpenDiff ==
    LET order == Append(diffOrder, compared')
        surplus == Len(order) - MaxDiffSessions
        evicted == {order[i] : i \in 1 .. surplus}
    IN  /\ Idle
        /\ repository # NoRepository
        /\ compared < MaxDiffs
        /\ compared' = compared + 1
        /\ diffs' = (diffs \cup {compared'}) \ evicted
        /\ diffOrder' = IF surplus > 0 THEN SubSeq(order, surplus + 1, Len(order)) ELSE order
        /\ UNCHANGED <<session, bridge, repository, backend, opened, candidates, exportVars,
                       targetVars>>

-----------------------------------------------------------------------------
(* Export targets *)

\* prepare_export up to the dialog: the lock is taken and kept.
OpenSaveDialog ==
    /\ Idle
    /\ backend = "git"
    /\ diffs # {}
    /\ bridge' = "save"
    /\ UNCHANGED <<session, registryVars, exportVars, targetVars>>

SaveDismissed ==
    /\ bridge = "save"
    /\ bridge' = "idle"
    /\ UNCHANGED <<session, registryVars, exportVars, targetVars>>

\* A new target replaces the one that waits for its confirmation.
PathChosen(e, inside) ==
    /\ bridge = "save"
    /\ bridge' = "idle"
    /\ e = Cardinality({f \in Targets : stage[f] # "unused"}) + 1
    /\ stage' = [stage EXCEPT ![e] = "offered"]
    /\ target' = [target EXCEPT ![e] = [repository |-> repository, inside |-> inside]]
    /\ pending' = {e}
    /\ UNCHANGED <<session, registryVars, allowed, active, cancelled, written, temp, destination,
                   result>>

\* begin_export: one export at a time; the target is taken before it is judged.
ConfirmExport(e, allowInside) ==
    /\ Idle
    /\ active = NoTarget
    /\ e \in pending
    /\ pending' = pending \ {e}
    /\ IF /\ target[e].inside => allowInside
          /\ target[e].repository = repository
       THEN /\ active' = e
            /\ stage' = [stage EXCEPT ![e] = "queued"]
            /\ allowed' = IF target[e].inside THEN allowed \cup {e} ELSE allowed
       ELSE UNCHANGED <<active, stage, allowed>>
    /\ UNCHANGED <<session, bridge, registryVars, target, cancelled, written, temp, destination,
                   result>>

\* A pending target is dropped, a running one is flagged, any other is left alone.
CancelExport(e) ==
    /\ Idle
    /\ \/ /\ e \in pending
          /\ pending' = pending \ {e}
          /\ UNCHANGED cancelled
       \/ /\ e \notin pending
          /\ e = active
          /\ cancelled' = [cancelled EXCEPT ![e] = TRUE]
          /\ UNCHANGED pending
    /\ UNCHANGED <<session, bridge, registryVars, target, allowed, active, stage, written, temp,
                   destination, result>>

-----------------------------------------------------------------------------
(* The export worker: run_export *)

Alive == session # "exited"

Advance(e, from, to) ==
    /\ Alive
    /\ stage[e] = from
    /\ stage' = [stage EXCEPT ![e] = to]

CreateTemp(e) ==
    /\ Advance(e, "queued", "writing")
    /\ temp' = temp \cup {e}
    /\ UNCHANGED <<session, bridge, registryVars, targetVars, active, cancelled, written,
                   destination, result>>

CreateFails(e) ==
    /\ Advance(e, "queued", "failed")
    /\ UNCHANGED <<session, bridge, registryVars, targetVars, active, cancelled, written, temp,
                   destination, result>>

\* CancellableWriter::write
WriteChunk(e) ==
    /\ Advance(e, "writing", "writing")
    /\ ~cancelled[e]
    /\ written[e] < Chunks
    /\ written' = [written EXCEPT ![e] = @ + 1]
    /\ UNCHANGED <<session, bridge, registryVars, targetVars, active, cancelled, temp,
                   destination, result>>

\* A cancelled write reports Interrupted, which write_all takes as a request to try again.
\* The flag is never cleared, so no step leads on from "retrying".
WriteInterrupted(e) ==
    /\ Advance(e, "writing", "retrying")
    /\ cancelled[e]
    /\ written[e] < Chunks
    /\ UNCHANGED <<session, bridge, registryVars, targetVars, active, cancelled, written, temp,
                   destination, result>>

\* MUTANT of WorkFails: the error of the writer is dropped
WorkFailsSilently(e) ==
    /\ Advance(e, "writing", "synced")
    /\ UNCHANGED <<session, bridge, registryVars, targetVars, active, cancelled, written, temp,
                   destination, result>>

\* A source that cannot be read, a write, the flush or the sync.
WorkFails(e) ==
    /\ Advance(e, "writing", "failed")
    /\ UNCHANGED <<session, bridge, registryVars, targetVars, active, cancelled, written, temp,
                   destination, result>>

FlushAndSync(e) ==
    /\ Advance(e, "writing", "synced")
    /\ written[e] = Chunks
    /\ UNCHANGED <<session, bridge, registryVars, targetVars, active, cancelled, written, temp,
                   destination, result>>

CheckCancelled(e) ==
    /\ Advance(e, "synced", IF cancelled[e] THEN "failed" ELSE "checked")
    /\ UNCHANGED <<session, bridge, registryVars, targetVars, active, cancelled, written, temp,
                   destination, result>>

\* atomic_replace
ReplaceTarget(e) ==
    /\ Advance(e, "checked", "replaced")
    /\ destination' = e
    /\ temp' = temp \ {e}
    /\ UNCHANGED <<session, bridge, registryVars, targetVars, active, cancelled, written, result>>

ReplaceFails(e) ==
    /\ Advance(e, "checked", "failed")
    /\ UNCHANGED <<session, bridge, registryVars, targetVars, active, cancelled, written, temp,
                   destination, result>>

\* MUTANT of Complete: the flag is asked before the result
CompleteUnlessCancelled(e) ==
    /\ Advance(e, "replaced", "returned")
    /\ result' = [result EXCEPT ![e] = IF cancelled[e] THEN "cancelled" ELSE "complete"]
    /\ UNCHANGED <<session, bridge, registryVars, targetVars, active, cancelled, written, temp,
                   destination>>

Complete(e) ==
    /\ Advance(e, "replaced", "returned")
    /\ result' = [result EXCEPT ![e] = "complete"]
    /\ UNCHANGED <<session, bridge, registryVars, targetVars, active, cancelled, written, temp,
                   destination>>

\* MUTANT of CleanUp: only a cancelled export removes its temporary file
CleanUpCancelled(e) ==
    /\ Advance(e, "failed", "returned")
    /\ temp' = IF cancelled[e] THEN temp \ {e} ELSE temp
    /\ written' = [written EXCEPT ![e] = 0]
    /\ result' = [result EXCEPT ![e] = IF cancelled[e] THEN "cancelled" ELSE "failed"]
    /\ UNCHANGED <<session, bridge, registryVars, targetVars, active, cancelled, destination>>

\* remove_file, and the flag decides what the failure is called.
CleanUp(e) ==
    /\ Advance(e, "failed", "returned")
    /\ temp' = temp \ {e}
    /\ written' = [written EXCEPT ![e] = 0]
    /\ result' = [result EXCEPT ![e] = IF cancelled[e] THEN "cancelled" ELSE "failed"]
    /\ UNCHANGED <<session, bridge, registryVars, targetVars, active, cancelled, destination>>

-----------------------------------------------------------------------------
(* The task of spawn_export, and the event *)

\* MUTANT of FinishExport: the active export is not cleared
FinishForgets(e) ==
    /\ Advance(e, "returned", "finished")
    /\ bridge # "save"
    /\ UNCHANGED <<session, bridge, registryVars, targetVars, active, cancelled, written, temp,
                   destination, result>>

\* finish_export needs the lock, which a save dialog keeps.  The flag goes with its last owner.
FinishExport(e) ==
    /\ Advance(e, "returned", "finished")
    /\ bridge # "save"
    /\ active' = IF active = e THEN NoTarget ELSE active
    /\ cancelled' = [cancelled EXCEPT ![e] = FALSE]
    /\ UNCHANGED <<session, bridge, registryVars, targetVars, written, temp, destination, result>>

\* MUTANT of SendEvent: only success is announced
SendSuccess(e) ==
    /\ Advance(e, "finished", "sent")
    /\ result[e] = "complete"
    /\ UNCHANGED <<session, bridge, registryVars, targetVars, active, cancelled, written, temp,
                   destination, result>>

SendEvent(e) ==
    /\ Advance(e, "finished", "sent")
    /\ UNCHANGED <<session, bridge, registryVars, targetVars, active, cancelled, written, temp,
                   destination, result>>

ForwardEvent(e) ==
    /\ Idle
    /\ Advance(e, "sent", "heard")
    /\ UNCHANGED <<session, bridge, registryVars, targetVars, active, cancelled, written, temp,
                   destination, result>>

-----------------------------------------------------------------------------
SessionStep == Connect \/ EndSession \/ Exit

CommandStep ==
    \/ SelectRepository
    \/ NothingSelected
    \/ \E detected \in (SUBSET Backends) \ {{}} : FolderSelected(detected)
    \/ \E b \in Backends : OpenCandidate(b)
    \/ CloseRepository
    \/ OpenDiff
    \/ OpenSaveDialog
    \/ SaveDismissed
    \/ \E e \in Targets :
        \/ \E inside \in BOOLEAN : PathChosen(e, inside)
        \/ \E allowInside \in BOOLEAN : ConfirmExport(e, allowInside)
        \/ CancelExport(e)

\* The steps of a worker that needs no luck.
WorkerProgress(e) ==
    \/ CreateTemp(e)
    \/ WriteChunk(e)
    \/ WriteInterrupted(e)
    \/ FlushAndSync(e)
    \/ CheckCancelled(e)
    \/ ReplaceTarget(e)
    \/ Complete(e)
    \/ CleanUp(e)

WorkerFailure(e) == CreateFails(e) \/ WorkFails(e) \/ ReplaceFails(e)

ExportStep(e) ==
    \/ WorkerProgress(e)
    \/ WorkerFailure(e)
    \/ FinishExport(e)
    \/ SendEvent(e)
    \/ ForwardEvent(e)

Next == SessionStep \/ CommandStep \/ \E e \in Targets : ExportStep(e)

Spec == Init /\ [][Next]_vars

\* The blocking pool and the runtime run what can run.  select! picks a ready branch at random
\* and a dialog is modal, so a waiting event and a waiting lock come through again and again:
\* the strong fairness of ForwardEvent and FinishExport.  The user answers a dialog.
Fairness ==
    /\ WF_vars(Exit)
    /\ WF_vars(NothingSelected)
    /\ WF_vars(SaveDismissed)
    /\ \A e \in Targets :
        /\ WF_vars(WorkerProgress(e) \/ WorkerFailure(e))
        /\ SF_vars(FinishExport(e))
        /\ WF_vars(SendEvent(e))
        /\ SF_vars(ForwardEvent(e))

FairSpec == Spec /\ Fairness

-----------------------------------------------------------------------------
(* Safety *)

\* The active export is the one whose worker runs or has just returned: cancelling it, closing
\* the repository or opening another does not make room for a second worker (begin_export,
\* cancel_active_export, finish_export).
ActiveIffRunning ==
    \A e \in Targets : active = e <=> stage[e] \in Running \cup {"returned"}

\* The chosen file holds the user's content or every write of one export (run_export).
InstalledIsWhole ==
    destination # NoTarget => written[destination] = Chunks

\* An export inside the repository was confirmed as such (begin_export).
InsideIsConfirmed ==
    \A e \in Targets : destination = e /\ target[e].inside => e \in allowed

\* A temporary file is that of a worker on its way to rename or remove it, or that of a cancelled
\* export whose write is tried again for ever, which never removes it.  No export that returned
\* leaves one, and none that nobody cancelled gets into the endless retry (run_export, write_all).
TempHasWorker ==
    \A e \in temp :
        \/ stage[e] \in {"writing", "synced", "checked", "failed"}
        \/ stage[e] = "retrying" /\ cancelled[e]

\* A target that waits for confirmation is of the open repository, and it is the only one
\* (prepare_export, open_backend_locked, close_repository).
OfferIsCurrent ==
    /\ Cardinality(pending) <= 1
    /\ \A e \in pending :
        /\ stage[e] = "offered"
        /\ target[e].repository = repository
        /\ repository # NoRepository

\* What an export replaces was offered for the repository that is open, and confirmed as asked.
ConfirmedAsOffered == OfferIsCurrent /\ InsideIsConfirmed

\* The exports keep ExportPromise.
Promise == INSTANCE ExportPromise WITH
    running <- active,
    file <- destination,
    installed <- {e \in Targets : stage[e] = "replaced" \/ result[e] = "complete"},
    outcome <- [e \in Targets |->
                 IF stage[e] \in {"finished", "sent", "heard"} THEN result[e] ELSE "none"]

PromiseKept == Promise!Spec

-----------------------------------------------------------------------------
(* Liveness *)

\* An export that nobody cancels ends and makes room for the next one.
UncancelledExportEnds ==
    \A e \in Targets : active = e ~> active # e \/ cancelled[e]

\* Its outcome reaches the page, unless the session ends before.
OutcomeIsHeard ==
    \A e \in Targets : stage[e] = "finished" ~> stage[e] = "heard" \/ session # "open"
=============================================================================
