----------------------------- MODULE SvnCommand -----------------------------
(***************************************************************************)
(* The svn commands of svn_cli.rs: a child with piped output whose exit,   *)
(* standard output and standard error are awaited together under one time  *)
(* limit.  An operation runs at most two at a time, one per side of a      *)
(* preview.  svn itself owes nothing: it may hang, fail, write more than   *)
(* is read, or leave a process behind that keeps its pipes open.           *)
(***************************************************************************)
EXTENDS Naturals

CONSTANTS
    MaxPieces,   \* bound: pieces a child writes
    StdoutLimit, \* pieces of standard output that are accepted
    PipeSize     \* pieces a pipe holds

ASSUME CommandAssumption ==
    /\ MaxPieces \in Nat /\ StdoutLimit \in Nat
    /\ PipeSize \in Nat \ {0}

Sides == {"old", "new"}

VARIABLE command \* of each side: its command, see Commands

\* state: the future that runs the command; child: the process; good: its exit
\* status; wrote, pipe, got: pieces written, under way and read; held: another
\* process has the write ends too.
Commands ==
    [state : {"idle", "running", "killing", "ok", "failed"},
     child : {"none", "running", "exited"},
     good  : BOOLEAN,
     wrote : 0 .. MaxPieces,
     pipe  : 0 .. PipeSize,
     got   : 0 .. StdoutLimit,
     held  : BOOLEAN]

Rest == [state |-> "idle", child |-> "none", good |-> FALSE,
         wrote |-> 0, pipe |-> 0, got |-> 0, held |-> FALSE]
Failed == [Rest EXCEPT !.state = "failed"]
Doomed(r) == [Rest EXCEPT !.state = "killing", !.child = r.child]

CommandInit == command = [s \in Sides |-> Rest]

\* Command::spawn, which may fail.
Launch(s) ==
    /\ command[s].state = "idle"
    /\ command' = [command EXCEPT ![s] = [Rest EXCEPT !.state = "running", !.child = "running"]]
SpawnFails(s) ==
    /\ command[s].state = "idle"
    /\ command' = [command EXCEPT ![s] = Failed]

\* The caller has its answer, or drops the future that would give it, and with
\* it the child: kill_on_drop.  The mutant drops no more than the future.
DroppedAlone(r) == [Rest EXCEPT !.child = r.child]
Dropped(r) == Rest
Release(S) == command' = [s \in Sides |-> IF s \in S THEN Dropped(command[s]) ELSE command[s]]

-----------------------------------------------------------------------------
(* svn *)

ChildWrites(s) ==
    /\ command[s].child = "running"
    /\ command[s].wrote < MaxPieces /\ command[s].pipe < PipeSize
    /\ command' = [command EXCEPT ![s].wrote = @ + 1, ![s].pipe = @ + 1]

ChildExits(s) ==
    /\ command[s].child = "running"
    /\ \E g, h \in BOOLEAN :
        command' = [command EXCEPT ![s].child = "exited", ![s].good = g, ![s].held = h]

HolderLeaves(s) ==
    /\ command[s].held
    /\ command' = [command EXCEPT ![s].held = FALSE]

-----------------------------------------------------------------------------
(* run_command, run_streaming_command *)

\* read_limited, read_streamed: one piece more than the limit is an error.
ReadPiece(s) ==
    /\ command[s].state = "running" /\ command[s].pipe > 0
    /\ command' = IF command[s].got < StdoutLimit
                    THEN [command EXCEPT ![s].pipe = @ - 1, ![s].got = @ + 1]
                    ELSE [command EXCEPT ![s] = Doomed(@)]

\* Standard error is read beside it and has a limit of its own.
StderrTooLarge(s) ==
    /\ command[s].state = "running"
    /\ command[s].child = "running" \/ command[s].held
    /\ command' = [command EXCEPT ![s] = Doomed(@)]

\* tokio::time::timeout around all three.  The mutant has it around the wait.
TimeLimitOfWait(s) ==
    /\ command[s].state = "running" /\ command[s].child = "running"
    /\ command' = [command EXCEPT ![s] = Doomed(@)]
TimeLimit(s) ==
    /\ command[s].state = "running"
    /\ command' = [command EXCEPT ![s] = Doomed(@)]

\* terminate: Child::kill waits for the end.
Terminate(s) ==
    /\ command[s].state = "killing"
    /\ command' = [command EXCEPT ![s] = Failed]

\* The child has exited and both pipes are at their end.  The mutant takes what
\* has been read when the child exits.
AnswerAtExit(s) ==
    /\ command[s].state = "running" /\ command[s].child = "exited"
    /\ command' = [command EXCEPT ![s] = IF @.good THEN [@ EXCEPT !.state = "ok"] ELSE Failed]
Answer(s) ==
    /\ command[s].state = "running" /\ command[s].child = "exited"
    /\ command[s].pipe = 0 /\ ~command[s].held
    /\ command' = [command EXCEPT ![s] = IF @.good THEN [@ EXCEPT !.state = "ok"] ELSE Failed]

Svn(s) == ChildWrites(s) \/ ChildExits(s) \/ HolderLeaves(s)
Runner(s) == ReadPiece(s) \/ StderrTooLarge(s) \/ TimeLimit(s) \/ Terminate(s) \/ Answer(s)
CommandStep(s) == Svn(s) \/ Runner(s)

\* Any caller.
Caller ==
    \/ \E s \in Sides : Launch(s) \/ SpawnFails(s)
    \/ \E S \in SUBSET Sides : Release(S)

CommandSpec == CommandInit /\ [][Caller \/ \E s \in Sides : CommandStep(s)]_command

\* Only the Agent's own clock and its killing of a child are relied upon.
CommandFairness == \A s \in Sides : WF_command(TimeLimit(s) \/ Terminate(s))

-----------------------------------------------------------------------------
(* Properties *)

CommandTypeOK == command \in [Sides -> Commands]

\* An answer is all the command wrote, and the command succeeded: neither a limit nor the exit of
\* the child cuts it short (run_command, read_limited).
AnswerIsWhole ==
    \A s \in Sides :
        command[s].state = "ok" => command[s].good /\ command[s].got = command[s].wrote

\* No child runs that nobody waits for, whichever of the ways out its command took: an answer, an
\* error of either pipe, the time limit, or the failure of the other side (kill_on_drop,
\* terminate).
NoChildLeft ==
    \A s \in Sides :
        command[s].child = "running" => command[s].state \in {"running", "killing"}
=============================================================================
