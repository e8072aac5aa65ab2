------------------------- MODULE SvnRepositoryProofs --------------------------
(***************************************************************************)
(* Proofs about the working copy and the svn commands it runs.             *)
(*                                                                         *)
(* First one command, for every number of pieces a child writes, every     *)
(* limit, every size of a pipe and every caller: an answer is all the      *)
(* command wrote, and no child is left that nobody waits for. Then the     *)
(* operations of SvnRepository, which use the commands only as SvnCommand  *)
(* lets a caller: what is proved of the commands holds of the working copy. *)
(* Then the caches: what every operation of LruCache does to the total and  *)
(* the limits, for all entries and sizes.  Last the inductive invariant of  *)
(* the working copy: every cache is accounted, and nothing that is          *)
(* remembered, used or shown is older than the refresh before it.           *)
(***************************************************************************)
EXTENDS SvnRepository, WellFoundedInduction, TLAPS

CommandNext == Caller \/ \E s \in Sides : CommandStep(s)

\* What holds of the record of one command: nothing is lost between the child and
\* the reader until the command is given up; an answer has nothing under way; a
\* child that runs has a command that waits for it or kills it.
Conserved(r) == r.state \in {"running", "ok"} => r.got + r.pipe = r.wrote
Settled(r)   == r.state = "ok" => r.good /\ r.pipe = 0
Owned(r)     == r.child = "running" => r.state \in {"running", "killing"}
Sound(r) == r \in Commands /\ Conserved(r) /\ Settled(r) /\ Owned(r)

CommandInv == command \in [Sides -> Commands] /\ \A s \in Sides : Sound(command[s])

-----------------------------------------------------------------------------
(* The records that a step leaves behind *)

\* A command that was released, and one that has failed.
LEMMA SoundRest == Sound(Rest) /\ Sound(Failed)
<1>1. Rest \in Commands
  BY CommandAssumption DEF CommandAssumption, Rest, Commands
<1>2. Failed \in Commands
  BY <1>1 DEF Failed, Rest, Commands
<1>3. /\ Rest.state = "idle" /\ Rest.child = "none"
      /\ Failed.state = "failed" /\ Failed.child = "none"
  BY DEF Rest, Failed
<1> QED BY <1>1, <1>2, <1>3 DEF Sound, Conserved, Settled, Owned

\* A command that was started.
LEMMA SoundStart == Sound([Rest EXCEPT !.state = "running", !.child = "running"])
<1> DEFINE r == [Rest EXCEPT !.state = "running", !.child = "running"]
<1>1. Rest \in Commands
  BY SoundRest DEF Sound
<1>2. r \in Commands
  BY <1>1 DEF Rest, Commands
<1>3. /\ r.state = "running" /\ r.child = "running"
      /\ r.got = 0 /\ r.pipe = 0 /\ r.wrote = 0
  BY DEF Rest
<1> QED BY <1>2, <1>3 DEF Sound, Conserved, Settled, Owned

\* A command whose child is to be killed.
LEMMA SoundDoomed == \A r \in Commands : Sound(Doomed(r))
<1> SUFFICES ASSUME NEW r \in Commands PROVE Sound(Doomed(r))
  OBVIOUS
<1>1. Rest \in Commands
  BY SoundRest DEF Sound
<1>2. Doomed(r) \in Commands
  BY <1>1 DEF Doomed, Rest, Commands
<1>3. Doomed(r).state = "killing"
  BY DEF Doomed, Rest
<1> QED BY <1>2, <1>3 DEF Sound, Conserved, Settled, Owned

\* Whatever the step, it is enough that it leaves sound records.
LEMMA OneChanges ==
    ASSUME CommandInv, NEW s \in Sides, NEW r, Sound(r),
           command' = [command EXCEPT ![s] = r]
    PROVE  CommandInv'
BY DEF CommandInv, Sound

\* Callers that give their commands up leave the others as they were.
LEMMA SomeRest ==
    ASSUME CommandInv, NEW S \in SUBSET Sides, Release(S)
    PROVE  CommandInv'
<1>1. /\ command' \in [Sides -> Commands]
      /\ \A s \in Sides : command'[s] \in {Rest, command[s]}
  BY SoundRest DEF CommandInv, Release, Dropped, Sound
<1> QED BY <1>1, SoundRest DEF CommandInv

-----------------------------------------------------------------------------
(* The steps *)

\* What the child writes is still whole where it was.
LEMMA ChildWritesKeeps ==
    ASSUME CommandInv, NEW s \in Sides, ChildWrites(s)
    PROVE  CommandInv'
<1> DEFINE r == [command[s] EXCEPT !.wrote = @ + 1, !.pipe = @ + 1]
<1>1. /\ command \in [Sides -> Commands] /\ command[s] \in Commands
      /\ Sound(command[s])
  BY DEF CommandInv
<1>2. command' = [command EXCEPT ![s] = r]
  BY <1>1 DEF ChildWrites
<1>3. r \in Commands
  BY <1>1, CommandAssumption DEF ChildWrites, Commands, CommandAssumption
<1>4. /\ r.state = command[s].state /\ r.child = command[s].child /\ r.child = "running"
      /\ r.got = command[s].got
      /\ r.wrote = command[s].wrote + 1 /\ r.pipe = command[s].pipe + 1
      /\ command[s].got \in Nat /\ command[s].wrote \in Nat /\ command[s].pipe \in Nat
  BY <1>1, CommandAssumption DEF ChildWrites, Commands, CommandAssumption
<1>5. Sound(r)
  BY <1>1, <1>3, <1>4 DEF Sound, Conserved, Settled, Owned
<1> QED BY <1>2, <1>5, OneChanges

\* A child that exits leaves what it wrote.
LEMMA ChildExitsKeeps ==
    ASSUME CommandInv, NEW s \in Sides, ChildExits(s)
    PROVE  CommandInv'
<1>1. /\ command \in [Sides -> Commands] /\ command[s] \in Commands
      /\ Sound(command[s])
  BY DEF CommandInv
<1>2. PICK g \in BOOLEAN, h \in BOOLEAN :
        command' = [command EXCEPT ![s].child = "exited", ![s].good = g, ![s].held = h]
  BY DEF ChildExits
<1> DEFINE r == [command[s] EXCEPT !.child = "exited", !.good = g, !.held = h]
<1>3. command' = [command EXCEPT ![s] = r]
  BY <1>1, <1>2
<1>4. r \in Commands
  BY <1>1 DEF Commands
<1>5. /\ r.state = command[s].state /\ r.child = "exited"
      /\ r.got = command[s].got /\ r.wrote = command[s].wrote /\ r.pipe = command[s].pipe
      /\ r.state # "ok"
  BY <1>1 DEF ChildExits, Commands, Sound, Owned
<1>6. Sound(r)
  BY <1>1, <1>4, <1>5 DEF Sound, Conserved, Settled, Owned
<1> QED BY <1>3, <1>6, OneChanges

\* A process that lets go of the pipe changes nothing that was read.
LEMMA HolderLeavesKeeps ==
    ASSUME CommandInv, NEW s \in Sides, HolderLeaves(s)
    PROVE  CommandInv'
<1> DEFINE r == [command[s] EXCEPT !.held = FALSE]
<1>1. /\ command \in [Sides -> Commands] /\ command[s] \in Commands
      /\ Sound(command[s])
  BY DEF CommandInv
<1>2. command' = [command EXCEPT ![s] = r]
  BY <1>1 DEF HolderLeaves
<1>3. r \in Commands
  BY <1>1 DEF Commands
<1>4. /\ r.state = command[s].state /\ r.child = command[s].child
      /\ r.got = command[s].got /\ r.wrote = command[s].wrote /\ r.pipe = command[s].pipe
      /\ r.good = command[s].good
  BY <1>1 DEF Commands
<1>5. Sound(r)
  BY <1>1, <1>3, <1>4 DEF Sound, Conserved, Settled, Owned
<1> QED BY <1>2, <1>5, OneChanges

\* A command that is given up.
LEMMA DoomKeeps ==
    ASSUME CommandInv, NEW s \in Sides,
           command' = [command EXCEPT ![s] = Doomed(command[s])]
    PROVE  CommandInv'
<1>1. Sound(Doomed(command[s]))
  BY SoundDoomed DEF CommandInv
<1> QED BY <1>1, OneChanges

\* A piece that is read is counted once.
LEMMA ReadPieceKeeps ==
    ASSUME CommandInv, NEW s \in Sides, ReadPiece(s)
    PROVE  CommandInv'
<1> DEFINE r == [command[s] EXCEPT !.pipe = @ - 1, !.got = @ + 1]
<1>1. /\ command \in [Sides -> Commands] /\ command[s] \in Commands
      /\ Sound(command[s])
  BY DEF CommandInv
<1>2. CASE command[s].got < StdoutLimit
  <2>1. command' = [command EXCEPT ![s] = r]
    BY <1>1, <1>2 DEF ReadPiece
  <2>2. r \in Commands
    BY <1>1, <1>2, CommandAssumption DEF ReadPiece, Commands, CommandAssumption
  <2>3. /\ r.state = "running" /\ command[s].state = "running"
        /\ r.child = command[s].child /\ r.wrote = command[s].wrote
        /\ r.got = command[s].got + 1 /\ r.pipe = command[s].pipe - 1
        /\ command[s].got \in Nat /\ command[s].wrote \in Nat /\ command[s].pipe \in Nat
    BY <1>1, CommandAssumption DEF ReadPiece, Commands, CommandAssumption
  <2>4. Sound(r)
    BY <1>1, <2>2, <2>3 DEF Sound, Conserved, Settled, Owned
  <2> QED BY <2>1, <2>4, OneChanges
<1>3. CASE ~(command[s].got < StdoutLimit)
  BY <1>1, <1>3, DoomKeeps DEF ReadPiece
<1> QED BY <1>2, <1>3

\* An answer is given from what was read.
LEMMA AnswerKeeps ==
    ASSUME CommandInv, NEW s \in Sides, Answer(s)
    PROVE  CommandInv'
<1> DEFINE r == [command[s] EXCEPT !.state = "ok"]
<1>1. /\ command \in [Sides -> Commands] /\ command[s] \in Commands
      /\ Sound(command[s])
  BY DEF CommandInv
<1>2. CASE command[s].good
  <2>1. command' = [command EXCEPT ![s] = r]
    BY <1>1, <1>2 DEF Answer
  <2>2. r \in Commands
    BY <1>1 DEF Commands
  <2>3. /\ r.state = "ok" /\ command[s].state = "running"
        /\ r.child = "exited" /\ r.wrote = command[s].wrote
        /\ r.got = command[s].got /\ r.pipe = command[s].pipe /\ r.pipe = 0
    BY <1>1 DEF Answer, Commands
  <2>4. r.good
    BY <1>1, <1>2 DEF Commands
  <2>5. Sound(r)
    BY <1>1, <2>2, <2>3, <2>4 DEF Sound, Conserved, Settled, Owned
  <2> QED BY <2>1, <2>5, OneChanges
<1>3. CASE ~command[s].good
  <2>1. command' = [command EXCEPT ![s] = Failed]
    BY <1>1, <1>3 DEF Answer
  <2> QED BY <2>1, SoundRest, OneChanges
<1> QED BY <1>2, <1>3

\* The steps of the caller keep the invariant.
LEMMA CallerKeeps == CommandInv /\ Caller => CommandInv'
<1> SUFFICES ASSUME CommandInv, Caller PROVE CommandInv'
  OBVIOUS
<1>1. ASSUME NEW s \in Sides, Launch(s) PROVE CommandInv'
  BY <1>1, SoundStart, OneChanges DEF Launch
<1>2. ASSUME NEW s \in Sides, SpawnFails(s) PROVE CommandInv'
  BY <1>2, SoundRest, OneChanges DEF SpawnFails
<1>3. ASSUME NEW S \in SUBSET Sides, Release(S) PROVE CommandInv'
  BY <1>3, SomeRest
<1> QED BY <1>1, <1>2, <1>3 DEF Caller

\* Every step of one command keeps it.
LEMMA StepKeeps ==
    ASSUME CommandInv, NEW s \in Sides, CommandStep(s)
    PROVE  CommandInv'
<1>1. CASE ChildWrites(s)
  BY <1>1, ChildWritesKeeps
<1>2. CASE ChildExits(s)
  BY <1>2, ChildExitsKeeps
<1>3. CASE HolderLeaves(s)
  BY <1>3, HolderLeavesKeeps
<1>4. CASE ReadPiece(s)
  BY <1>4, ReadPieceKeeps
<1>5. CASE StderrTooLarge(s)
  BY <1>5, DoomKeeps DEF StderrTooLarge
<1>6. CASE TimeLimit(s)
  BY <1>6, DoomKeeps DEF TimeLimit
<1>7. CASE Terminate(s)
  BY <1>7, SoundRest, OneChanges DEF Terminate
<1>8. CASE Answer(s)
  BY <1>8, AnswerKeeps
<1> QED BY <1>1, <1>2, <1>3, <1>4, <1>5, <1>6, <1>7, <1>8 DEF CommandStep, Svn, Runner

-----------------------------------------------------------------------------
\* The strengthened invariant holds of every behaviour of the commands.
THEOREM CommandsSound == CommandSpec => []CommandInv
<1>1. CommandInit => CommandInv
  BY SoundRest DEF CommandInit, CommandInv, Sound
<1>2. CommandInv /\ [CommandNext]_command => CommandInv'
  <2> SUFFICES ASSUME CommandInv, [CommandNext]_command PROVE CommandInv'
    OBVIOUS
  <2>1. CASE UNCHANGED command
    BY <2>1 DEF CommandInv
  <2>2. CASE Caller
    BY <2>2, CallerKeeps
  <2>3. ASSUME NEW s \in Sides, CommandStep(s) PROVE CommandInv'
    BY <2>3, StepKeeps
  <2> QED BY <2>1, <2>2, <2>3 DEF CommandNext
<1> QED BY <1>1, <1>2, PTL DEF CommandSpec, CommandNext

\* Every record keeps its type, whatever the callers do.
THEOREM CommandTypeCorrect == CommandSpec => []CommandTypeOK
<1>1. CommandInv => CommandTypeOK
  BY DEF CommandInv, CommandTypeOK
<1> QED BY <1>1, CommandsSound, PTL

\* An answer is all that the command wrote (run_command, read_limited).
THEOREM AnswersAreWhole == CommandSpec => []AnswerIsWhole
<1>1. CommandInv => AnswerIsWhole
  <2> SUFFICES ASSUME CommandInv, NEW s \in Sides, command[s].state = "ok"
               PROVE  command[s].good /\ command[s].got = command[s].wrote
    BY DEF AnswerIsWhole
  <2>1. Sound(command[s])
    BY DEF CommandInv
  <2>2. command[s].good /\ command[s].pipe = 0
    BY <2>1 DEF Sound, Settled
  <2>3. command[s].got + command[s].pipe = command[s].wrote /\ command[s].got \in Nat
    BY <2>1, CommandAssumption DEF Sound, Conserved, Commands, CommandAssumption
  <2> QED BY <2>2, <2>3
<1> QED BY <1>1, CommandsSound, PTL

\* No child is left that nobody waits for (kill_on_drop, terminate).
THEOREM ChildrenAreOwned == CommandSpec => []NoChildLeft
<1>1. CommandInv => NoChildLeft
  BY DEF CommandInv, Sound, Owned, NoChildLeft
<1> QED BY <1>1, CommandsSound, PTL

-----------------------------------------------------------------------------
(* The working copy and its commands *)

\* What a step of the working copy is for its commands.
CommandUse == Caller \/ (\E s \in Sides : CommandStep(s)) \/ UNCHANGED command

\* A question to Subversion is a call of the command module.
LEMMA AskCalls == ASSUME NEW s \in Sides, Ask(s) PROVE Caller
BY DEF Ask, Caller

\* Taking its answer is one.
LEMMA AnsweredCalls == ASSUME NEW s \in Sides, Answered(s) PROVE Caller
<1>1. {s} \in SUBSET Sides /\ Release({s})
  BY DEF Answered
<1> QED BY <1>1 DEF Caller

\* The old side of a comparison is one of the two.
LEMMA Old == "old" \in Sides
BY DEF Sides

\* A request uses the commands as their module allows.
LEMMA RequestUses == Request => CommandUse
<1> SUFFICES ASSUME Request PROVE UNCHANGED command
  BY DEF CommandUse
<1>1. CASE BeginOverview
  BY <1>1 DEF BeginOverview
<1>2. CASE Refresh
  BY <1>2 DEF Refresh
<1>3. CASE ConnectHistory
  BY <1>3 DEF ConnectHistory
<1>4. ASSUME NEW r \in Ranges, NEW k \in Kinds, OpenDiff(r, k) PROVE UNCHANGED command
  BY <1>4 DEF OpenDiff
<1>5. ASSUME NEW i \in DOMAIN diffs, NEW mode \in {"full", "patch"},
             PreviewCached(i, mode) \/ BeginPreview(i, mode)
      PROVE  UNCHANGED command
  BY <1>5 DEF PreviewCached, BeginPreview
<1> QED BY <1>1, <1>2, <1>3, <1>4, <1>5 DEF Request

\* So does an overview,
LEMMA OverviewUses == Overview => CommandUse
<1> SUFFICES ASSUME Overview PROVE CommandUse
  OBVIOUS
<1>1. CASE AskHead \/ AskStatus
  BY <1>1, Old, AskCalls DEF AskHead, AskStatus, CommandUse
<1>2. CASE HeadAnswered \/ StatusAnswered
  BY <1>2, Old, AnsweredCalls DEF HeadAnswered, StatusAnswered, CommandUse
<1>3. CASE StatusCached
  BY <1>3 DEF StatusCached, CommandUse
<1> QED BY <1>1, <1>2, <1>3 DEF Overview

\* a comparison,
LEMMA ComparisonUses == Comparison => CommandUse
<1> SUFFICES ASSUME Comparison PROVE CommandUse
  OBVIOUS
<1>1. CASE AskSummary \/ AskPatch
  BY <1>1, Old, AskCalls DEF AskSummary, AskPatch, CommandUse
<1>2. CASE SummaryAnswered \/ PatchAnswered
  BY <1>2, Old, AnsweredCalls DEF SummaryAnswered, PatchAnswered, CommandUse
<1>3. CASE SummaryCached \/ PatchCached
  BY <1>3 DEF SummaryCached, PatchCached, CommandUse
<1> QED BY <1>1, <1>2, <1>3 DEF Comparison

\* a preview of one file,
LEMMA PreviewUses == Preview => CommandUse
<1> SUFFICES ASSUME Preview PROVE CommandUse
  OBVIOUS
<1>1. ASSUME NEW s \in Sides, ReadSide(s) PROVE CommandUse
  <2>1. Ask(s) \/ UNCHANGED command
    BY <1>1 DEF ReadSide
  <2> QED BY <2>1, AskCalls DEF CommandUse
<1>2. ASSUME NEW s \in Sides, SideAnswered(s) PROVE CommandUse
  BY <1>2, AnsweredCalls DEF SideAnswered, CommandUse
<1>3. CASE AskFilePatch
  BY <1>3, Old, AskCalls DEF AskFilePatch, CommandUse
<1>4. CASE FilePatchAnswered
  BY <1>4, Old, AnsweredCalls DEF FilePatchAnswered, CommandUse
<1>5. CASE PreviewReady \/ ReadUnversioned \/ PatchRetained \/ PatchTooLarge
  BY <1>5 DEF PreviewReady, ReadUnversioned, PatchRetained, PatchTooLarge, CommandUse
<1> QED BY <1>1, <1>2, <1>3, <1>4, <1>5 DEF Preview

\* and an operation that fails.
LEMMA FailureUses == OperationFails => CommandUse
<1> SUFFICES ASSUME OperationFails PROVE Caller
  BY DEF CommandUse
<1>1. Sides \in SUBSET Sides /\ Release(Sides)
  BY DEF OperationFails
<1> QED BY <1>1 DEF Caller

\* The working copy implements the commands: its initial states and its steps are theirs.
THEOREM UsesCommands == Spec => CommandSpec
<1>1. Init => CommandInit
  BY DEF Init
<1>2. [Next]_vars => [CommandNext]_command
  <2> SUFFICES ASSUME [Next]_vars PROVE CommandUse
    BY DEF CommandUse, CommandNext
  <2>1. CASE UNCHANGED vars
    BY <2>1 DEF vars, CommandUse
  <2>2. CASE Edit
    BY <2>2 DEF Edit, CommandUse
  <2>3. CASE Request
    BY <2>3, RequestUses
  <2>4. CASE Operation
    BY <2>4, OverviewUses, ComparisonUses, PreviewUses, FailureUses DEF Operation
  <2>5. ASSUME NEW s \in Sides, Command(s) PROVE CommandUse
    BY <2>5 DEF Command, CommandUse
  <2> QED BY <2>1, <2>2, <2>3, <2>4, <2>5 DEF Next
<1> QED BY <1>1, <1>2, PTL DEF Spec, CommandSpec, CommandNext

\* Every answer an operation takes is all that its command wrote, so no cache is filled with a
\* part of one (run_command, read_limited).
THEOREM AnswersStayWhole == Spec => []AnswerIsWhole
BY UsesCommands, AnswersAreWhole, PTL

\* Whichever way an operation ends, its children are waited for or killed (kill_on_drop).
THEOREM NoChildStays == Spec => []NoChildLeft
BY UsesCommands, ChildrenAreOwned, PTL

-----------------------------------------------------------------------------
(* Numbers *)

\* A set of numbers that is not empty has a least element.
LEMMA Least ==
  ASSUME NEW S \in SUBSET Nat, S # {}
  PROVE  \E x \in S : \A y \in S : x <= y
<1>1. PICK x \in S : \A y \in S : ~ (<<y, x>> \in OpToRel(<, Nat))
  BY NatLessThanWellFounded, WFMin
<1>2. \A y \in S : ~(y < x)
  BY <1>1 DEF OpToRel
<1>3. \A y \in S : x <= y
  BY <1>2
<1> QED BY <1>3

\* Induction over a set of numbers.
LEMMA SetInduction ==
  ASSUME NEW S \in SUBSET Nat, 0 \in S, \A n \in S : n + 1 \in S
  PROVE  S = Nat
<1> SUFFICES ASSUME Nat \ S # {} PROVE FALSE
  OBVIOUS
<1>1. PICK x \in Nat \ S : \A y \in Nat \ S : x <= y
  <2> DEFINE T == Nat \ S
  <2>1. T \in SUBSET Nat /\ T # {}
    OBVIOUS
  <2> HIDE DEF T
  <2>2. \E x \in T : \A y \in T : x <= y
    BY <2>1, Least
  <2> QED BY <2>2 DEF T
<1>2. x - 1 \in S
  BY <1>1
<1>3. (x - 1) + 1 = x
  BY <1>1
<1> QED BY <1>1, <1>2, <1>3

-----------------------------------------------------------------------------
(* Sums of sizes *)

\* f adds up the sizes of the first n entries.
IsSum(f, s, n) ==
  /\ f \in [0 .. n -> Nat] /\ f[0] = 0
  /\ \A i \in 1 .. n : f[i] = f[i - 1] + s[i].size

Sized(s) == \A i \in 1 .. Len(s) : s[i].size \in Nat

\* There is such a function, for every beginning of a sequence.
LEMMA SumExists ==
  ASSUME NEW s, Len(s) \in Nat, Sized(s)
  PROVE  \E f : IsSum(f, s, Len(s))
<1> DEFINE S == {n \in Nat : n <= Len(s) => \E f : IsSum(f, s, n)}
<1>1. 0 \in S
  <2>1. IsSum([i \in 0 .. 0 |-> 0], s, 0)
    BY DEF IsSum
  <2> QED BY <2>1
<1>2. ASSUME NEW n \in S PROVE n + 1 \in S
  <2> SUFFICES ASSUME n + 1 <= Len(s) PROVE \E f : IsSum(f, s, n + 1)
    OBVIOUS
  <2>1. PICK f : IsSum(f, s, n)
    OBVIOUS
  <2> DEFINE g == [i \in 0 .. n + 1 |-> IF i = n + 1 THEN f[n] + s[n + 1].size ELSE f[i]]
  <2>2. f[n] \in Nat /\ s[n + 1].size \in Nat
    BY <2>1 DEF IsSum, Sized
  <2>3. g \in [0 .. n + 1 -> Nat] /\ g[0] = 0
    BY <2>1, <2>2 DEF IsSum
  <2>4. ASSUME NEW i \in 1 .. n + 1 PROVE g[i] = g[i - 1] + s[i].size
    BY <2>1 DEF IsSum
  <2> HIDE DEF g
  <2>5. IsSum(g, s, n + 1)
    BY <2>3, <2>4 DEF IsSum
  <2> QED BY <2>5
<1> HIDE DEF S
<1>3. S = Nat
  <2>1. S \in SUBSET Nat
    BY DEF S
  <2> QED BY <1>1, <1>2, <2>1, SetInduction
<1> QED BY <1>3 DEF S

\* Sums is that function.
LEMMA SumsAddUp ==
  ASSUME NEW s, Len(s) \in Nat, Sized(s)
  PROVE  IsSum(Sums(s), s, Len(s))
<1> DEFINE R(f) == [n \in 0 .. Len(s) |-> IF n = 0 THEN 0 ELSE f[n - 1] + s[n].size]
<1>1. PICK f : IsSum(f, s, Len(s))
  BY SumExists
<1>2. f = R(f)
  BY <1>1 DEF IsSum
<1>3. Sums(s) = R(Sums(s))
  <2>1. Sums(s) = CHOOSE h : h = R(h)
    BY DEF Sums
  <2> HIDE DEF R
  <2> QED BY <1>2, <2>1
<1> DEFINE g == Sums(s)
<1> HIDE DEF g
<1>4. g = [n \in 0 .. Len(s) |-> IF n = 0 THEN 0 ELSE g[n - 1] + s[n].size]
  BY <1>3 DEF g
<1> HIDE DEF R
<1>5. g[0] = 0 /\ \A i \in 1 .. Len(s) : g[i] = g[i - 1] + s[i].size
  BY <1>4
<1> DEFINE S == {n \in Nat : n <= Len(s) => g[n] \in Nat}
<1>6. 0 \in S
  BY <1>5
<1>7. ASSUME NEW n \in S PROVE n + 1 \in S
  <2> SUFFICES ASSUME n + 1 <= Len(s) PROVE g[n + 1] \in Nat
    OBVIOUS
  <2>1. g[n] \in Nat /\ s[n + 1].size \in Nat
    BY DEF Sized
  <2>2. g[n + 1] = g[(n + 1) - 1] + s[n + 1].size
    BY <1>5
  <2> QED BY <2>1, <2>2
<1> HIDE DEF S
<1>8. S = Nat
  <2>1. S \in SUBSET Nat
    BY DEF S
  <2> QED BY <1>6, <1>7, <2>1, SetInduction
<1>9. \A n \in 0 .. Len(s) : g[n] \in Nat
  BY <1>8 DEF S
<1>10. g \in [0 .. Len(s) -> Nat]
  <2>1. DOMAIN g = 0 .. Len(s) /\ g = [n \in DOMAIN g |-> g[n]]
    BY <1>4
  <2> QED BY <1>9, <2>1
<1>11. IsSum(g, s, Len(s))
  BY <1>5, <1>10 DEF IsSum
<1> QED BY <1>11 DEF g

\* There is no other.
LEMMA SumUnique ==
  ASSUME NEW s, Len(s) \in Nat, Sized(s), NEW f, IsSum(f, s, Len(s))
  PROVE  \A n \in 0 .. Len(s) : Sums(s)[n] = f[n]
<1> DEFINE g == Sums(s)
<1>1. IsSum(g, s, Len(s))
  BY SumsAddUp
<1> HIDE DEF g
<1> DEFINE S == {n \in Nat : n <= Len(s) => g[n] = f[n]}
<1>2. 0 \in S
  BY <1>1 DEF IsSum
<1>3. ASSUME NEW n \in S PROVE n + 1 \in S
  <2> SUFFICES ASSUME n + 1 <= Len(s) PROVE g[n + 1] = f[n + 1]
    OBVIOUS
  <2>1. n + 1 \in 1 .. Len(s) /\ g[n] = f[n] /\ (n + 1) - 1 = n
    OBVIOUS
  <2>2. g[n + 1] = g[n] + s[n + 1].size /\ f[n + 1] = f[n] + s[n + 1].size
    BY <1>1, <2>1 DEF IsSum
  <2> QED BY <2>1, <2>2
<1> HIDE DEF S
<1>4. S = Nat
  <2>1. S \in SUBSET Nat
    BY DEF S
  <2> QED BY <1>2, <1>3, <2>1, SetInduction
<1>5. \A n \in 0 .. Len(s) : g[n] = f[n]
  BY <1>4 DEF S
<1> QED BY <1>5 DEF g

-----------------------------------------------------------------------------
(* What is added, taken out and evicted, and the sums *)

Entries(K, V) == [key : K, value : V, size : Nat]

\* No key occurs twice.
Apart(s) == \A i, j \in 1 .. Len(s) : i # j => s[i].key # s[j].key

\* The sum of all.
Sum(s) == Sums(s)[Len(s)]

\* Entries have sizes.
LEMMA EntriesSized ==
  ASSUME NEW K, NEW V, NEW s \in Seq(Entries(K, V))
  PROVE  Len(s) \in Nat /\ Sized(s) /\ \A i \in 1 .. Len(s) : s[i] \in Entries(K, V)
<1>1. \A i \in 1 .. Len(s) : s[i] \in Entries(K, V)
  OBVIOUS
<1>2. Sized(s)
  BY <1>1 DEF Sized, Entries
<1> QED BY <1>1, <1>2

\* Sums are numbers, and they grow.
LEMMA SumNat ==
  ASSUME NEW s, Len(s) \in Nat, Sized(s)
  PROVE  /\ \A n \in 0 .. Len(s) : Sums(s)[n] \in Nat /\ Sum(s) \in Nat
         /\ Sums(s)[0] = 0
BY SumsAddUp DEF IsSum, Sum

\* Nothing holds nothing.
LEMMA EmptySum == Sum(<<>>) = 0 /\ Apart(<<>>) /\ Sized(<<>>)
<1>1. Len(<<>>) = 0 /\ Sized(<<>>) /\ Apart(<<>>)
  BY DEF Sized, Apart
<1> QED BY <1>1, SumNat DEF Sum

\* One more at the end.
LEMMA AppendSum ==
  ASSUME NEW K, NEW V, NEW s \in Seq(Entries(K, V)), NEW e \in Entries(K, V)
  PROVE  Sum(Append(s, e)) = Sum(s) + e.size
<1> DEFINE n == Len(s)
           t == Append(s, e)
           f == [i \in 0 .. n + 1 |-> IF i = n + 1 THEN Sums(s)[n] + e.size ELSE Sums(s)[i]]
<1>1. t \in Seq(Entries(K, V)) /\ Len(t) = n + 1 /\ n \in Nat /\ t[n + 1] = e
      /\ \A i \in 1 .. n : t[i] = s[i]
  OBVIOUS
<1>2. Sized(t) /\ Sized(s)
  BY <1>1, EntriesSized
<1>3. IsSum(Sums(s), s, n)
  BY <1>1, <1>2, SumsAddUp
<1>4. e.size \in Nat
  BY DEF Entries
<1> HIDE DEF t, n
<1>5. f \in [0 .. n + 1 -> Nat] /\ f[0] = 0
  BY <1>1, <1>3, <1>4 DEF IsSum
<1>6. ASSUME NEW i \in 1 .. n + 1 PROVE f[i] = f[i - 1] + t[i].size
  <2>1. CASE i = n + 1
    BY <1>1, <2>1
  <2>2. CASE i \in 1 .. n
    <3>1. f[i] = Sums(s)[i] /\ f[i - 1] = Sums(s)[i - 1]
      BY <1>1, <2>2
    <3>2. t[i] = s[i] /\ Sums(s)[i] = Sums(s)[i - 1] + s[i].size
      BY <1>1, <1>3, <2>2 DEF IsSum
    <3> QED BY <3>1, <3>2
  <2> QED BY <1>1, <2>1, <2>2
<1>7. f[n + 1] = Sums(s)[n] + e.size
  BY <1>1
<1> HIDE DEF f
<1>8. IsSum(f, t, Len(t))
  BY <1>1, <1>5, <1>6 DEF IsSum
<1>9. Sums(t)[n + 1] = f[n + 1]
  BY <1>1, <1>2, <1>8, SumUnique
<1> QED BY <1>1, <1>7, <1>9 DEF Sum, t, n

\* Without the i-th.
Without(s, i) == [j \in 1 .. Len(s) - 1 |-> s[IF j < i THEN j ELSE j + 1]]

\* What is left when one entry is taken out, as a sequence,
LEMMA WithoutFacts ==
  ASSUME NEW K, NEW V, NEW s \in Seq(Entries(K, V)), NEW i \in 1 .. Len(s)
  PROVE  /\ Without(s, i) \in Seq(Entries(K, V))
         /\ Len(Without(s, i)) = Len(s) - 1
         /\ \A j \in 1 .. Len(s) - 1 : Without(s, i)[j] = s[IF j < i THEN j ELSE j + 1]
<1>1. Len(s) - 1 \in Nat
  OBVIOUS
<1>2. \A j \in 1 .. Len(s) - 1 : s[IF j < i THEN j ELSE j + 1] \in Entries(K, V)
  BY EntriesSized
<1>3. Without(s, i) \in [1 .. Len(s) - 1 -> Entries(K, V)]
  BY <1>2 DEF Without
<1>4. Without(s, i) \in Seq(Entries(K, V)) /\ Len(Without(s, i)) = Len(s) - 1
  BY <1>1, <1>3
<1> QED BY <1>4 DEF Without

\* and its sum.
LEMMA WithoutSum ==
  ASSUME NEW K, NEW V, NEW s \in Seq(Entries(K, V)), NEW i \in 1 .. Len(s)
  PROVE  Sum(Without(s, i)) = Sum(s) - s[i].size
<1> DEFINE n == Len(s)
           t == Without(s, i)
           f == [j \in 0 .. n - 1 |-> IF j < i THEN Sums(s)[j] ELSE Sums(s)[j + 1] - s[i].size]
<1>1. t \in Seq(Entries(K, V)) /\ Len(t) = n - 1 /\ n \in Nat /\ i \in 1 .. n
      /\ \A j \in 1 .. n - 1 : t[j] = s[IF j < i THEN j ELSE j + 1]
  BY WithoutFacts
<1>2. Sized(t) /\ Sized(s)
  BY <1>1, EntriesSized
<1>3. IsSum(Sums(s), s, n)
  BY <1>1, <1>2, SumsAddUp
<1> HIDE DEF t, n
<1> DEFINE g == Sums(s)
<1> HIDE DEF g
<1>4. /\ \A j \in 0 .. n : g[j] \in Nat
      /\ g[0] = 0 /\ \A j \in 1 .. n : g[j] = g[j - 1] + s[j].size
  BY <1>3 DEF IsSum, g
<1>5. s[i].size \in Nat
  BY <1>1, <1>2 DEF Sized, n
<1>6. f = [j \in 0 .. n - 1 |-> IF j < i THEN g[j] ELSE g[j + 1] - s[i].size]
  BY DEF g
<1> HIDE DEF f
<1>7. ASSUME NEW j \in 1 .. n - 1 PROVE f[j] = f[j - 1] + t[j].size
  <2>1. CASE j < i
    <3>1. f[j] = g[j] /\ f[j - 1] = g[j - 1]
      BY <1>1, <1>6, <2>1
    <3>2. t[j] = s[j] /\ j \in 1 .. n
      BY <1>1, <2>1
    <3>3. g[j] = g[j - 1] + s[j].size
      BY <1>4, <3>2
    <3> QED BY <3>1, <3>2, <3>3
  <2>2. CASE j = i
    <3>1. f[j] = g[j + 1] - s[i].size /\ f[j - 1] = g[j - 1]
      BY <1>1, <1>6, <2>2
    <3>2. g[j + 1] = g[j] + s[j + 1].size /\ g[j] = g[j - 1] + s[j].size /\ t[j] = s[j + 1]
      <4>1. g[(j + 1)] = g[(j + 1) - 1] + s[j + 1].size
        BY <1>1, <1>4
      <4> QED BY <1>1, <1>4, <2>2, <4>1
    <3>3. g[j - 1] \in Nat /\ s[j + 1].size \in Nat
      BY <1>1, <1>2, <1>4 DEF Sized, n
    <3> QED BY <1>5, <2>2, <3>1, <3>2, <3>3
  <2>3. CASE j > i
    <3>1. f[j] = g[j + 1] - s[i].size /\ f[j - 1] = g[j] - s[i].size
      BY <1>1, <1>6, <2>3
    <3>2. g[j + 1] = g[j] + s[j + 1].size /\ t[j] = s[j + 1]
      <4>1. g[(j + 1)] = g[(j + 1) - 1] + s[j + 1].size
        BY <1>1, <1>4
      <4> QED BY <1>1, <2>3, <4>1
    <3>3. g[j] \in Nat /\ s[j + 1].size \in Nat
      BY <1>1, <1>2, <1>4 DEF Sized, n
    <3> QED BY <1>5, <3>1, <3>2, <3>3
  <2> QED BY <1>1, <2>1, <2>2, <2>3
<1>8. f[0] = 0
  BY <1>1, <1>4, <1>6
<1>9. f \in [0 .. n - 1 -> Nat]
  <2> DEFINE S == {j \in Nat : j <= n - 1 => f[j] \in Nat}
  <2>1. 0 \in S
    BY <1>8
  <2>2. ASSUME NEW j \in S PROVE j + 1 \in S
    <3> SUFFICES ASSUME j + 1 <= n - 1 PROVE f[j + 1] \in Nat
      OBVIOUS
    <3>1. f[j] \in Nat /\ j + 1 \in 1 .. n - 1 /\ (j + 1) - 1 = j
      BY <1>1
    <3>2. f[j + 1] = f[j] + t[j + 1].size
      BY <1>7, <3>1
    <3>3. t[j + 1].size \in Nat
      BY <1>1, <1>2, <3>1 DEF Sized
    <3> QED BY <3>1, <3>2, <3>3
  <2> HIDE DEF S
  <2>3. S = Nat
    <3>1. S \in SUBSET Nat
      BY DEF S
    <3> QED BY <2>1, <2>2, <3>1, SetInduction
  <2>4. ASSUME NEW j \in 0 .. n - 1 PROVE f[j] \in Nat
    <3>1. j \in Nat /\ j <= n - 1
      BY <1>1
    <3>2. j \in S
      BY <2>3, <3>1
    <3> QED BY <3>1, <3>2 DEF S
  <2> QED BY <1>6, <2>4
<1>10. IsSum(f, t, Len(t))
  BY <1>1, <1>7, <1>8, <1>9 DEF IsSum
<1>11. Sums(t)[n - 1] = f[n - 1]
  BY <1>1, <1>2, <1>10, SumUnique
<1>12. f[n - 1] = g[n] - s[i].size
  <2>1. CASE n - 1 < i
    <3>1. n = i /\ f[n - 1] = g[n - 1]
      BY <1>1, <1>6, <2>1
    <3>2. g[n] = g[n - 1] + s[n].size /\ g[n - 1] \in Nat
      BY <1>1, <1>4
    <3> QED BY <1>5, <3>1, <3>2
  <2>2. CASE n - 1 >= i
    BY <1>1, <1>6, <2>2
  <2> QED BY <1>1, <2>1, <2>2
<1> QED BY <1>1, <1>11, <1>12 DEF Sum, t, n, g

\* Without the first n.
LEMMA RestFacts ==
  ASSUME NEW K, NEW V, NEW s \in Seq(Entries(K, V)), NEW n \in 0 .. Len(s)
  PROVE  LET t == SubSeq(s, n + 1, Len(s))
         IN  /\ t \in Seq(Entries(K, V)) /\ Len(t) = Len(s) - n
             /\ \A j \in 1 .. Len(s) - n : t[j] = s[j + n]
<1> DEFINE t == SubSeq(s, n + 1, Len(s))
<1>1. t \in Seq(Entries(K, V)) /\ Len(t) = Len(s) - n
  OBVIOUS
<1>2. \A j \in 1 .. Len(s) - n : t[j] = s[j + n]
  OBVIOUS
<1> QED BY <1>1, <1>2

\* Its sum is what the first n do not hold.
LEMMA RestSum ==
  ASSUME NEW K, NEW V, NEW s \in Seq(Entries(K, V)), NEW n \in 0 .. Len(s)
  PROVE  Sum(SubSeq(s, n + 1, Len(s))) = Sum(s) - Sums(s)[n]
<1> DEFINE t == SubSeq(s, n + 1, Len(s))
           g == Sums(s)
           m == Len(s) - n
           f == [j \in 0 .. m |-> g[j + n] - g[n]]
<1>1. t \in Seq(Entries(K, V)) /\ Len(t) = m /\ \A j \in 1 .. m : t[j] = s[j + n]
  BY RestFacts
<1>2. Sized(t) /\ Sized(s) /\ Len(s) \in Nat
  BY <1>1, EntriesSized
<1> HIDE DEF t, g
<1>3. /\ \A j \in 0 .. Len(s) : g[j] \in Nat
      /\ \A j \in 1 .. Len(s) : g[j] = g[j - 1] + s[j].size
  BY <1>2, SumsAddUp DEF IsSum, g
<1>4. m \in Nat /\ f[0] = 0 /\ f[m] = g[Len(s)] - g[n]
  BY <1>2, <1>3
<1>5. ASSUME NEW j \in 1 .. m PROVE f[j] = f[j - 1] + t[j].size
  <2>1. f[j] = g[j + n] - g[n] /\ f[j - 1] = g[(j - 1) + n] - g[n]
    OBVIOUS
  <2>2. g[j + n] = g[(j + n) - 1] + s[j + n].size
    BY <1>2, <1>3
  <2>3. (j + n) - 1 = (j - 1) + n
    BY <1>2
  <2>4. t[j].size = s[j + n].size /\ t[j].size \in Nat
    BY <1>1, <1>2 DEF Sized
  <2>5. g[(j - 1) + n] \in Nat /\ g[n] \in Nat
    BY <1>2, <1>3
  <2> QED BY <2>1, <2>2, <2>3, <2>4, <2>5
<1>6. DOMAIN f = 0 .. m /\ f = [j \in DOMAIN f |-> f[j]]
  OBVIOUS
<1> HIDE DEF f
<1>7. f \in [0 .. m -> Nat]
  <2> HIDE DEF m
  <2> DEFINE S == {j \in Nat : j <= m => f[j] \in Nat}
  <2>1. 0 \in S
    BY <1>4
  <2>2. ASSUME NEW j \in S PROVE j + 1 \in S
    <3> SUFFICES ASSUME j + 1 <= m PROVE f[j + 1] \in Nat
      OBVIOUS
    <3>1. f[j] \in Nat /\ j + 1 \in 1 .. m /\ (j + 1) - 1 = j
      BY <1>4
    <3>2. f[j + 1] = f[j] + t[j + 1].size
      BY <1>5, <3>1
    <3>3. t[j + 1].size \in Nat
      BY <1>1, <1>2, <3>1 DEF Sized
    <3> QED BY <3>1, <3>2, <3>3
  <2> HIDE DEF S
  <2>3. S = Nat
    <3>1. S \in SUBSET Nat
      BY DEF S
    <3> QED BY <2>1, <2>2, <3>1, SetInduction
  <2>4. \A j \in 0 .. m : f[j] \in Nat
    BY <2>3, <1>4 DEF S
  <2> QED BY <1>6, <2>4
<1> HIDE DEF m
<1>8. IsSum(f, t, Len(t))
  BY <1>1, <1>4, <1>5, <1>7 DEF IsSum
<1>9. Sums(t)[m] = f[m]
  BY <1>1, <1>2, <1>4, <1>8, SumUnique
<1> QED BY <1>1, <1>4, <1>9 DEF Sum, t, g

-----------------------------------------------------------------------------
(* The operations of a cache *)

Caches(K, V) == [entries : Seq(Entries(K, V)), bytes : Nat]

\* What a cache holds.
Held(cache) == {cache.entries[i] : i \in 1 .. Len(cache.entries)}

\* The total is right, and no key is held twice.
Exact(cache) == cache.bytes = Sum(cache.entries) /\ Apart(cache.entries)

\* That, and the limits, are what a cache owes.
LEMMA AccountedParts ==
  ASSUME NEW K, NEW V, NEW c \in Caches(K, V), NEW items, NEW limit
  PROVE  Accounted(c, items, limit) <=> Exact(c) /\ c.bytes <= limit /\ Len(c.entries) <= items
<1>1. c.entries \in Seq(Entries(K, V))
  BY DEF Caches
<1>2. DOMAIN c.entries = 1 .. Len(c.entries)
  BY <1>1
<1> QED BY <1>2 DEF Accounted, Exact, Sum, Apart

\* An empty cache owes nothing.
LEMMA EmptySound ==
  ASSUME NEW K, NEW V, NEW items \in Nat, NEW limit \in Nat
  PROVE  /\ EmptyCache \in Caches(K, V) /\ Accounted(EmptyCache, items, limit)
         /\ Held(EmptyCache) = {}
<1>1. EmptyCache \in Caches(K, V)
  BY DEF EmptyCache, Caches
<1>2. EmptyCache.entries = <<>> /\ EmptyCache.bytes = 0 /\ Len(<<>>) = 0
  BY DEF EmptyCache
<1>3. Held(EmptyCache) = {}
  BY <1>2 DEF Held
<1>4. Exact(EmptyCache)
  BY <1>2, EmptySum DEF Exact
<1> QED BY <1>1, <1>2, <1>3, <1>4, AccountedParts

\* A key that is held has a place.
LEMMA PlaceFacts ==
  ASSUME NEW K, NEW V, NEW c \in Caches(K, V), NEW k \in Keys(c)
  PROVE  /\ Place(c, k) \in 1 .. Len(c.entries)
         /\ Entry(c, k).key = k
         /\ Entry(c, k) \in Held(c) /\ Entry(c, k) \in Entries(K, V)
<1>1. c.entries \in Seq(Entries(K, V))
  BY DEF Caches
<1>2. DOMAIN c.entries = 1 .. Len(c.entries)
  BY <1>1
<1>3. \E i \in DOMAIN c.entries : c.entries[i].key = k
  BY DEF Keys
<1>4. Place(c, k) \in DOMAIN c.entries /\ c.entries[Place(c, k)].key = k
  BY <1>3 DEF Place
<1> QED BY <1>1, <1>2, <1>4, EntriesSized DEF Entry, Held

\* What is not held is not among the others.
LEMMA OthersFacts ==
  ASSUME NEW K, NEW V, NEW c \in Caches(K, V), Apart(c.entries), NEW k
  PROVE  LET t == Others(c, k)
         IN  /\ t \in Seq(Entries(K, V)) /\ Apart(t)
             /\ \A i \in 1 .. Len(t) : t[i] \in Held(c) /\ t[i].key # k
             /\ Len(t) = IF k \in Keys(c) THEN Len(c.entries) - 1 ELSE Len(c.entries)
             /\ Sum(t) = IF k \in Keys(c) THEN Sum(c.entries) - Entry(c, k).size
                                          ELSE Sum(c.entries)
<1> DEFINE s == c.entries
<1>1. s \in Seq(Entries(K, V)) /\ DOMAIN s = 1 .. Len(s) /\ Len(s) \in Nat
  BY DEF Caches
<1>2. CASE k \notin Keys(c)
  <2>1. Others(c, k) = s
    BY <1>2 DEF Others
  <2>2. \A i \in 1 .. Len(s) : s[i] \in Held(c) /\ s[i].key # k
    BY <1>1, <1>2 DEF Held, Keys
  <2> QED BY <1>1, <1>2, <2>1, <2>2
<1>3. CASE k \in Keys(c)
  <2> DEFINE p == Place(c, k)
             t == Others(c, k)
  <2>1. p \in 1 .. Len(s) /\ s[p].key = k /\ Entry(c, k) = s[p]
    BY <1>3, PlaceFacts DEF Entry
  <2>2. t = Without(s, p)
    BY <1>3 DEF Others, Without
  <2> HIDE DEF p, t, s
  <2>3. /\ t \in Seq(Entries(K, V)) /\ Len(t) = Len(s) - 1
        /\ \A j \in 1 .. Len(s) - 1 : t[j] = s[IF j < p THEN j ELSE j + 1]
    BY <1>1, <2>1, <2>2, WithoutFacts
  <2>4. Sum(t) = Sum(s) - s[p].size
    BY <1>1, <2>1, <2>2, WithoutSum
  <2> DEFINE q(j) == IF j < p THEN j ELSE j + 1
  <2>5. \A j \in 1 .. Len(t) : q(j) \in 1 .. Len(s) /\ q(j) # p /\ t[j] = s[q(j)]
    BY <1>1, <2>1, <2>3
  <2>6. \A i, j \in 1 .. Len(t) : i # j => q(i) # q(j)
    BY <1>1, <2>1, <2>3
  <2> HIDE DEF q
  <2>7. Apart(s)
    BY DEF s
  <2>8. Apart(t)
    BY <2>5, <2>6, <2>7 DEF Apart
  <2>9. \A j \in 1 .. Len(t) : t[j] \in Held(c) /\ t[j].key # k
    BY <2>1, <2>5, <2>7 DEF Apart, Held, s
  <2> QED BY <1>3, <2>1, <2>3, <2>4, <2>8, <2>9 DEF t, s
<1> QED BY <1>2, <1>3

\* An entry at the end.
LEMMA AppendFacts ==
  ASSUME NEW K, NEW V, NEW s \in Seq(Entries(K, V)), Apart(s), NEW e \in Entries(K, V),
         \A i \in 1 .. Len(s) : s[i].key # e.key
  PROVE  LET t == Append(s, e)
         IN  /\ t \in Seq(Entries(K, V)) /\ Apart(t) /\ Len(t) = Len(s) + 1
             /\ \A i \in 1 .. Len(t) : t[i] = e \/ \E j \in 1 .. Len(s) : t[i] = s[j]
<1> DEFINE t == Append(s, e)
<1>1. /\ t \in Seq(Entries(K, V)) /\ Len(t) = Len(s) + 1 /\ Len(s) \in Nat
      /\ \A i \in 1 .. Len(s) : t[i] = s[i]
      /\ t[Len(s) + 1] = e
  OBVIOUS
<1> HIDE DEF t
<1>2. \A i \in 1 .. Len(t) : i = Len(s) + 1 \/ i \in 1 .. Len(s)
  BY <1>1
<1>3. Apart(t)
  BY <1>1, <1>2 DEF Apart
<1>4. \A i \in 1 .. Len(t) : t[i] = e \/ \E j \in 1 .. Len(s) : t[i] = s[j]
  BY <1>1, <1>2
<1> QED BY <1>1, <1>3, <1>4 DEF t

\* A hit moves an entry and changes nothing else.
LEMMA TouchedKeeps ==
  ASSUME NEW K, NEW V, NEW c \in Caches(K, V), NEW items \in Nat, NEW limit \in Nat,
         Accounted(c, items, limit), NEW k \in Keys(c)
  PROVE  /\ Touched(c, k) \in Caches(K, V)
         /\ Accounted(Touched(c, k), items, limit)
         /\ Held(Touched(c, k)) \subseteq Held(c)
<1> DEFINE t == Others(c, k)
           e == Entry(c, k)
           u == Append(t, e)
<1>1. Exact(c) /\ c.bytes <= limit /\ Len(c.entries) <= items
  BY AccountedParts
<1>2. c.entries \in Seq(Entries(K, V)) /\ Len(c.entries) \in Nat /\ c.bytes \in Nat
  BY DEF Caches
<1>3. Touched(c, k) = [entries |-> u, bytes |-> c.bytes]
  <2>1. \A x : [c EXCEPT !.entries = x] = [entries |-> x, bytes |-> c.bytes]
    BY DEF Caches
  <2> QED BY <2>1 DEF Touched
<1>4. e \in Entries(K, V) /\ e \in Held(c) /\ e.key = k
  BY PlaceFacts
<1>5. /\ t \in Seq(Entries(K, V)) /\ Apart(t)
      /\ \A i \in 1 .. Len(t) : t[i] \in Held(c) /\ t[i].key # k
      /\ Len(t) = Len(c.entries) - 1 /\ Sum(t) = Sum(c.entries) - e.size
  BY <1>1, OthersFacts DEF Exact
<1> HIDE DEF t, e
<1>6. /\ u \in Seq(Entries(K, V)) /\ Apart(u) /\ Len(u) = Len(t) + 1
      /\ \A i \in 1 .. Len(u) : u[i] = e \/ \E j \in 1 .. Len(t) : u[i] = t[j]
  BY <1>4, <1>5, AppendFacts
<1>7. Sum(u) = Sum(t) + e.size
  BY <1>4, <1>5, AppendSum
<1>8. Sum(c.entries) \in Nat /\ e.size \in Nat
  BY <1>2, <1>4, EntriesSized, SumNat DEF Entries
<1> HIDE DEF u
<1>9. Sum(u) = Sum(c.entries) /\ Len(u) = Len(c.entries)
  BY <1>2, <1>5, <1>6, <1>7, <1>8
<1> DEFINE d == Touched(c, k)
<1>10. d.entries = u /\ d.bytes = c.bytes /\ d \in Caches(K, V)
  BY <1>2, <1>3, <1>6 DEF Caches
<1> HIDE DEF d
<1>11. Exact(d)
  BY <1>1, <1>6, <1>9, <1>10 DEF Exact
<1>12. Accounted(d, items, limit)
  BY <1>1, <1>9, <1>10, <1>11, AccountedParts
<1>13. Held(d) \subseteq Held(c)
  <2> SUFFICES ASSUME NEW i \in 1 .. Len(u) PROVE u[i] \in Held(c)
    BY <1>10 DEF Held
  <2>1. CASE u[i] = e
    BY <1>4, <2>1
  <2>2. ASSUME NEW j \in 1 .. Len(t), u[i] = t[j] PROVE u[i] \in Held(c)
    BY <1>5, <2>2
  <2> QED BY <1>6, <2>1, <2>2
<1> QED BY <1>10, <1>12, <1>13 DEF d

\* A removal takes its entry, if there is one, and no other.
LEMMA PurgedKeeps ==
  ASSUME NEW K, NEW V, NEW c \in Caches(K, V), NEW items \in Nat, NEW limit \in Nat,
         Accounted(c, items, limit), NEW k
  PROVE  /\ Purged(c, k) \in Caches(K, V)
         /\ Accounted(Purged(c, k), items, limit)
         /\ Held(Purged(c, k)) \subseteq Held(c)
         /\ \A e \in Held(Purged(c, k)) : e.key # k
<1> DEFINE t == Others(c, k)
           d == Purged(c, k)
           n == IF k \in Keys(c) THEN Entry(c, k).size ELSE 0
<1>1. Exact(c) /\ c.bytes <= limit /\ Len(c.entries) <= items
  BY AccountedParts
<1>2. c.entries \in Seq(Entries(K, V)) /\ Len(c.entries) \in Nat /\ c.bytes \in Nat
  BY DEF Caches
<1>3. n \in Nat
  BY PlaceFacts DEF Entries
<1>4. d.entries = t /\ d.bytes = c.bytes - n /\ d = [entries |-> t, bytes |-> d.bytes]
  BY <1>2 DEF Purged
<1>5. /\ t \in Seq(Entries(K, V)) /\ Apart(t)
      /\ \A i \in 1 .. Len(t) : t[i] \in Held(c) /\ t[i].key # k
      /\ Len(t) <= Len(c.entries)
  BY <1>1, <1>2, OthersFacts DEF Exact
<1>6. Sum(t) = Sum(c.entries) - n
  <2>1. Sum(c.entries) \in Nat
    BY <1>2, EntriesSized, SumNat
  <2>2. Sum(t) = IF k \in Keys(c) THEN Sum(c.entries) - Entry(c, k).size ELSE Sum(c.entries)
    BY <1>1, OthersFacts DEF Exact
  <2> QED BY <2>1, <2>2
<1> HIDE DEF t, d, n
<1>7. Sum(t) \in Nat
  BY <1>5, EntriesSized, SumNat
<1>8. d.bytes = Sum(t) /\ d.bytes <= limit /\ Len(t) <= items
  BY <1>1, <1>2, <1>3, <1>4, <1>5, <1>6 DEF Exact
<1>9. Len(t) \in Nat
  BY <1>5
<1>10. d \in Caches(K, V)
  BY <1>4, <1>5, <1>7, <1>8 DEF Caches
<1>11. Exact(d)
  BY <1>4, <1>5, <1>8 DEF Exact
<1>12. Accounted(d, items, limit)
  BY <1>4, <1>8, <1>10, <1>11, AccountedParts
<1>13. Held(d) \subseteq Held(c) /\ \A e \in Held(d) : e.key # k
  BY <1>4, <1>5 DEF Held
<1> QED BY <1>10, <1>12, <1>13 DEF d

\* What leaves with the oldest entries.
LEMMA EvictedKeeps ==
  ASSUME NEW K, NEW V, NEW c \in Caches(K, V), Exact(c), NEW n \in 0 .. Len(c.entries)
  PROVE  /\ Evicted(c, n) \in Caches(K, V)
         /\ Exact(Evicted(c, n))
         /\ Held(Evicted(c, n)) \subseteq Held(c)
         /\ Len(Evicted(c, n).entries) = Len(c.entries) - n
         /\ n = Len(c.entries) => Evicted(c, n).bytes = 0
<1> DEFINE s == c.entries
           t == SubSeq(s, n + 1, Len(s))
           d == Evicted(c, n)
<1>1. s \in Seq(Entries(K, V)) /\ Len(s) \in Nat /\ n \in 0 .. Len(s)
  BY DEF Caches
<1>2. d.entries = t /\ d.bytes = c.bytes - Sums(s)[n] /\ d = [entries |-> t, bytes |-> d.bytes]
  BY DEF Evicted
<1> HIDE DEF t, d, s
<1>3. /\ t \in Seq(Entries(K, V)) /\ Len(t) = Len(s) - n
      /\ \A j \in 1 .. Len(s) - n : t[j] = s[j + n]
  BY <1>1, RestFacts DEF t
<1>4. Sum(t) = Sum(s) - Sums(s)[n]
  BY <1>1, RestSum DEF t
<1>5. Sum(t) \in Nat /\ Len(t) \in Nat
  BY <1>3, EntriesSized, SumNat
<1>6. d.bytes = Sum(t)
  BY <1>2, <1>4 DEF Exact, s
<1>7. d \in Caches(K, V)
  BY <1>2, <1>3, <1>5, <1>6 DEF Caches
<1>8. \A j \in 1 .. Len(t) : j + n \in 1 .. Len(s) /\ t[j] = s[j + n]
  BY <1>1, <1>3
<1>9. \A i, j \in 1 .. Len(t) : i # j => i + n # j + n
  BY <1>1, <1>5
<1>10. Apart(t)
  BY <1>8, <1>9 DEF Apart, Exact, s
<1>11. Exact(d)
  BY <1>2, <1>6, <1>10 DEF Exact
<1>12. Held(d) \subseteq Held(c)
  BY <1>2, <1>8 DEF Held, s
<1>13. n = Len(s) => d.bytes = 0
  <2>1. Sum(s) \in Nat
    BY <1>1, EntriesSized, SumNat
  <2> QED BY <1>4, <1>6, <2>1 DEF Sum
<1> QED BY <1>2, <1>3, <1>7, <1>11, <1>12, <1>13 DEF d, s

\* The loop of insert ends with room for the new entry.
LEMMA RoomFacts ==
  ASSUME NEW K, NEW V, NEW c \in Caches(K, V), Exact(c),
         NEW items \in Nat \ {0}, NEW limit \in Nat, NEW size \in Nat, size <= limit
  PROVE  LET room == RoomFor(c, size, items, limit)
         IN  /\ room \in Caches(K, V) /\ Exact(room) /\ Held(room) \subseteq Held(c)
             /\ Len(room.entries) < items /\ room.bytes + size <= limit
<1> DEFINE count   == Len(c.entries)
           fits(n) == Fits(c, n, size, items, limit)
           Few(n)  == (fits(n) \/ n = count) /\ \A m \in 0 .. n - 1 : ~fits(m)
           few     == CHOOSE n \in 0 .. count : Few(n)
<1>1. count \in Nat
  BY DEF Caches
<1>2. RoomFor(c, size, items, limit) = Evicted(c, few)
  BY DEF RoomFor
<1>3. fits(count)
  <2>1. count \in 0 .. count /\ Evicted(c, count).bytes = 0 /\ count - count = 0
    BY <1>1, EvictedKeeps
  <2> QED BY <2>1 DEF Fits
<1> HIDE DEF fits, count
<1>4. \E n \in 0 .. count : Few(n)
  <2> DEFINE S == {n \in 0 .. count : fits(n)}
  <2>1. S \in SUBSET Nat /\ count \in S
    BY <1>1, <1>3
  <2>2. \A n \in S : n \in 0 .. count /\ fits(n)
    OBVIOUS
  <2>3. \A n \in 0 .. count : fits(n) => n \in S
    OBVIOUS
  <2> HIDE DEF S
  <2>4. PICK n \in S : \A m \in S : n <= m
    BY <2>1, Least
  <2>5. ASSUME NEW m \in 0 .. n - 1 PROVE ~fits(m)
    <3>1. m \in 0 .. count /\ m < n /\ n \in Nat
      BY <1>1, <2>2
    <3> QED BY <2>3, <2>4, <3>1
  <2> QED BY <2>2, <2>5
<1>5. few \in 0 .. count /\ Few(few)
  BY <1>4
<1> HIDE DEF few
<1>6. fits(few)
  BY <1>3, <1>5
<1> DEFINE room == Evicted(c, few)
<1>7. few \in 0 .. Len(c.entries)
  BY <1>5 DEF count
<1>8. /\ room \in Caches(K, V) /\ Exact(room) /\ Held(room) \subseteq Held(c)
      /\ Len(room.entries) = Len(c.entries) - few
  BY <1>7, EvictedKeeps
<1>9. Len(room.entries) < items /\ room.bytes + size <= limit
  BY <1>6, <1>8 DEF fits, count, Fits
<1> QED BY <1>2, <1>8, <1>9

\* Whatever is inserted, the total stays the sum of the entries, both limits are kept, and nothing
\* else is held than before (PreviewCache::insert, SourceCache::insert, SvnPatchCache::insert).
THEOREM InsertionIsAccounted ==
  ASSUME NEW K, NEW V, NEW c \in Caches(K, V), NEW items \in Nat \ {0}, NEW limit \in Nat,
         Accounted(c, items, limit), NEW k \in K, NEW v \in V, NEW size \in Nat
  PROVE  LET d == Inserted(c, k, v, size, items, limit)
         IN  /\ d \in Caches(K, V) /\ Accounted(d, items, limit)
             /\ Held(d) \subseteq Held(c) \cup {[key |-> k, value |-> v, size |-> size]}
<1> DEFINE d == Inserted(c, k, v, size, items, limit)
           e == [key |-> k, value |-> v, size |-> size]
<1>1. CASE size > limit
  <2>1. d = c
    BY <1>1 DEF Inserted
  <2> QED BY <2>1
<1>2. CASE ~(size > limit)
  <2> DEFINE p == Purged(c, k)
             room == RoomFor(p, size, items, limit)
             u == Append(room.entries, e)
  <2>1. d = [entries |-> u, bytes |-> room.bytes + size]
    BY <1>2 DEF Inserted
  <2>2. /\ p \in Caches(K, V) /\ Accounted(p, items, limit)
        /\ Held(p) \subseteq Held(c) /\ \A x \in Held(p) : x.key # k
    BY PurgedKeeps
  <2> HIDE DEF p
  <2>3. Exact(p)
    BY <2>2, AccountedParts
  <2>4. /\ room \in Caches(K, V) /\ Exact(room) /\ Held(room) \subseteq Held(p)
        /\ Len(room.entries) < items /\ room.bytes + size <= limit
    <3>1. size <= limit
      BY <1>2
    <3> QED BY <2>2, <2>3, <3>1, RoomFacts
  <2> HIDE DEF room
  <2>5. room.entries \in Seq(Entries(K, V)) /\ room.bytes \in Nat /\ Len(room.entries) \in Nat
    BY <2>4 DEF Caches
  <2>6. e \in Entries(K, V) /\ e.key = k /\ e.size = size
    BY DEF Entries
  <2>7. \A i \in 1 .. Len(room.entries) : room.entries[i] \in Held(p)
    BY <2>4 DEF Held
  <2>8. \A i \in 1 .. Len(room.entries) : room.entries[i].key # e.key
    BY <2>2, <2>6, <2>7
  <2> HIDE DEF e
  <2>9. /\ u \in Seq(Entries(K, V)) /\ Apart(u) /\ Len(u) = Len(room.entries) + 1
        /\ \A i \in 1 .. Len(u) : u[i] = e \/ \E j \in 1 .. Len(room.entries) : u[i] = room.entries[j]
    <3>1. Apart(room.entries)
      BY <2>4 DEF Exact
    <3>2. room.entries \in Seq(Entries(K, V)) /\ e \in Entries(K, V)
      BY <2>5, <2>6
    <3> QED BY <2>8, <3>1, <3>2, AppendFacts
  <2>10. Sum(u) = Sum(room.entries) + size
    BY <2>5, <2>6, AppendSum
  <2> HIDE DEF u
  <2>11. d.entries = u /\ d.bytes = room.bytes + size
    BY <2>1
  <2>12. d \in Caches(K, V)
    BY <2>1, <2>5, <2>9 DEF Caches
  <2> HIDE DEF d
  <2>13. Exact(d)
    BY <2>4, <2>9, <2>10, <2>11 DEF Exact
  <2>14. d.bytes <= limit /\ Len(d.entries) <= items
    BY <2>4, <2>5, <2>9, <2>11
  <2>15. Accounted(d, items, limit)
    BY <2>12, <2>13, <2>14, AccountedParts
  <2>16. Held(d) \subseteq Held(c) \cup {e}
    <3> SUFFICES ASSUME NEW i \in 1 .. Len(u) PROVE u[i] \in Held(c) \cup {e}
      BY <2>11 DEF Held
    <3>1. ASSUME NEW j \in 1 .. Len(room.entries), u[i] = room.entries[j] PROVE u[i] \in Held(c)
      BY <2>2, <2>7, <3>1
    <3> QED BY <2>9, <3>1
  <2> QED BY <2>12, <2>15, <2>16 DEF d, e
<1> QED BY <1>1, <1>2

-----------------------------------------------------------------------------
(* What the working copy remembers                                         *)

SourceNames == {"r1", "r2", "working"}
Patches     == [at : Versions, body : {"retained", "deferred", "large"}]
Modes       == {"full", "patch"}
DiffSessions ==
  [range : Ranges, file : Kinds, since : Versions, previews : Caches(Modes, Versions)]

\* Without an operation op.range and op.file may be anything.
Ops ==
  [kind   : {"none", "overview", "connect", "open", "full", "patch"},
   step   : {"none", "head", "status", "summary", "patch", "file", "sides"},
   range  : Ranges \cup {NoOp.range}, file : Kinds \cup {NoOp.file}, diff : Nat,
   began  : Versions, oldest : Versions, size : Nat,
   side   : [Sides -> {"todo", "asked", "done"}]]

VersionInv == edits \in Versions /\ refreshed \in Versions /\ refreshed <= edits

\* No answer that is remembered is older than the refresh.
AnswerInv ==
  /\ status \subseteq Versions /\ \A v \in status : refreshed <= v
  /\ summary \in [Ranges -> SUBSET Versions]
  /\ \A r \in Ranges : \A v \in summary[r] : refreshed <= v

PatchInv ==
  /\ patches \in Caches(Ranges, Patches) /\ Accounted(patches, PatchItems, PatchLimit)
  /\ \A e \in Held(patches) : refreshed <= e.value.at

\* What is kept over a refresh is of numbered revisions.
SourceInv ==
  /\ sources \in Caches(SourceNames, Versions) /\ Accounted(sources, SourceItems, SourceLimit)
  /\ \A e \in Held(sources) : IF e.key = "working" THEN refreshed <= e.value ELSE e.value = Timeless

\* A diff keeps the previews that are no older than the refresh before it.
SessionSound(d) ==
  /\ d \in DiffSessions /\ d.since <= refreshed
  /\ Accounted(d.previews, PreviewItems, PreviewLimit)
  /\ \A e \in Held(d.previews) : d.since <= e.value
DiffInv == diffs \in Seq(DiffSessions) /\ \A i \in 1 .. Len(diffs) : SessionSound(diffs[i])

\* A side is asked for exactly while its command has not been released.
SideInv == \A s \in Sides : op.side[s] = "asked" <=> command[s].state # "idle"

\* The steps an operation of each kind takes, and what it needs for them.
StepInv ==
  /\ op.kind = "none" => op = NoOp
  /\ op.step = "sides" => op.kind = "full"
  /\ op.step = "file" => op.kind = "patch"
  /\ op.step \in {"head", "status"} => op.kind \in {"overview", "connect", "open"}
  /\ op.step \in {"summary", "patch"} => op.kind = "open"
  /\ op.step # "sides" => op.side["new"] = "todo" /\ op.side["old"] # "done"
  /\ op.kind \in Modes => op.diff \in 1 .. Len(diffs)
  /\ op.kind \in {"open", "full", "patch"} => op.range \in Ranges /\ op.file \in Kinds

\* What is asked for is not remembered yet, and a side that is asked for is of a numbered revision.
AskedInv ==
  /\ op.side["old"] = "asked" =>
      /\ op.step = "status" => status = {}
      /\ op.step = "summary" => summary[op.range] = {}
      /\ op.step = "patch" => op.range \notin Keys(patches)
      /\ op.step = "file" => op.file # "unversioned"
  /\ op.step = "sides" =>
      \A s \in Sides : op.side[s] = "asked" => Source(s) \notin {"empty", "working"}

\* Nothing an operation has used or is reading is older than the refresh.
FreshInv ==
  /\ refreshed <= op.oldest
  /\ \A s \in Sides : op.side[s] = "asked" => refreshed <= op.began

OpInv == op \in Ops /\ SideInv /\ StepInv /\ AskedInv /\ FreshInv

RepositoryInv == VersionInv /\ AnswerInv /\ PatchInv /\ SourceInv /\ DiffInv /\ OpInv /\ ~stale

-----------------------------------------------------------------------------
(* The operation under way *)

\* Versions are numbers, and Timeless is the last.
LEMMA VersionFacts ==
  /\ MaxEdits \in Nat /\ Timeless \in Versions /\ 0 \in Versions
  /\ \A v \in Versions : v \in Nat /\ v <= Timeless
BY LimitAssumption DEF LimitAssumption, Versions, Timeless

\* The older of two versions.
LEMMA OlderFacts ==
  ASSUME NEW a \in Versions, NEW b \in Versions
  PROVE  Older(a, b) \in Versions /\ \A r \in Nat : r <= a /\ r <= b => r <= Older(a, b)
BY DEF Older

\* The record between two operations.
LEMMA NoOpFacts ==
  /\ NoOp \in Ops
  /\ NoOp.kind = "none" /\ NoOp.step = "none" /\ NoOp.oldest = Timeless
  /\ \A s \in Sides : NoOp.side[s] = "todo"
<1>1. NoOp.kind = "none" /\ NoOp.step = "none" /\ NoOp.oldest = Timeless /\ NoOp.diff = 0
      /\ NoOp.began = 0 /\ NoOp.size = 0 /\ NoOp.side = [s \in Sides |-> "todo"]
  BY DEF NoOp
<1>2. NoOp = [kind |-> NoOp.kind, step |-> NoOp.step, range |-> NoOp.range, file |-> NoOp.file,
              diff |-> NoOp.diff, began |-> NoOp.began, oldest |-> NoOp.oldest,
              size |-> NoOp.size, side |-> NoOp.side]
  BY DEF NoOp
<1>3. NoOp \in Ops
  BY <1>1, <1>2, VersionFacts DEF Ops
<1> QED BY <1>1, <1>3

\* Both sides by name.
LEMMA BothSides == Sides = {"old", "new"} /\ "old" \in Sides /\ "new" \in Sides
BY DEF Sides

\* An operation that is over leaves no command.
LEMMA OverSound ==
  ASSUME op' = NoOp, \A s \in Sides : command'[s].state = "idle", VersionInv'
  PROVE  OpInv'
<1>1. op' \in Ops /\ op'.kind = "none" /\ op'.step = "none" /\ op'.oldest = Timeless
      /\ \A s \in Sides : op'.side[s] = "todo"
  BY NoOpFacts
<1>2. refreshed' <= Timeless
  BY VersionFacts DEF VersionInv
<1> QED BY <1>1, <1>2, BothSides DEF OpInv, SideInv, StepInv, AskedInv, FreshInv, Modes

\* Between two operations no command runs.
LEMMA RestIsQuiet ==
  ASSUME OpInv, op.kind = "none"
  PROVE  op = NoOp /\ \A s \in Sides : command[s].state = "idle"
<1>1. op = NoOp
  BY DEF OpInv, StepInv
<1> QED BY <1>1, NoOpFacts DEF OpInv, SideInv

\* Outside the two sides of a preview, the new side has no command.
LEMMA OneCommand ==
  ASSUME OpInv, op.step # "sides"
  PROVE  command["new"].state = "idle"
BY BothSides DEF OpInv, SideInv, StepInv

\* What an answer releases.
LEMMA AnsweredFacts ==
  ASSUME NEW s \in Sides, Answered(s), OpInv
  PROVE  /\ op.side[s] = "asked" /\ refreshed <= op.began
         /\ command'[s].state = "idle"
         /\ \A u \in Sides \ {s} : command'[u] = command[u]
<1>1. command'[s] = Rest /\ \A u \in Sides \ {s} : command'[u] = command[u]
  BY DEF Answered, Release, Dropped
<1>2. op.side[s] = "asked"
  BY DEF Answered, OpInv, SideInv
<1> QED BY <1>1, <1>2 DEF Rest, OpInv, FreshInv

\* After an answer to the only command none is left.
LEMMA AnsweredLast ==
  ASSUME Answered("old"), OpInv, op.step # "sides"
  PROVE  \A s \in Sides : command'[s].state = "idle"
BY BothSides, AnsweredFacts, OneCommand

\* What a command has read is no older than the refresh before its operation.
LEMMA ReadFacts ==
  ASSUME OpInv, VersionInv, refreshed <= op.began, NEW timely \in BOOLEAN, NEW v \in Read(timely)
  PROVE  v \in Versions /\ refreshed <= v
<1>1. op.began \in Versions /\ edits \in Versions /\ refreshed \in Versions
  BY DEF OpInv, Ops, VersionInv
<1>2. v \in op.began .. edits \/ v = Timeless
  BY DEF Read
<1> QED BY <1>1, <1>2, VersionFacts DEF Versions

\* A question.
LEMMA AskFacts ==
  ASSUME NEW s \in Sides, Ask(s), OpInv, CommandTypeOK
  PROVE  /\ op.side[s] # "asked"
         /\ command'[s].state # "idle" /\ \A u \in Sides \ {s} : command'[u] = command[u]
         /\ op' = [op EXCEPT !.began = edits, !.side = [op.side EXCEPT ![s] = "asked"]]
<1>1. command \in [Sides -> Commands]
  BY DEF CommandTypeOK
<1>2. command[s].state = "idle"
  BY DEF Ask, Launch, SpawnFails
<1>3. op.side[s] # "asked"
  BY <1>2 DEF OpInv, SideInv
<1>4. command'[s].state # "idle"
  BY <1>1 DEF Ask, Launch, SpawnFails, Failed, Rest
<1>5. \A u \in Sides \ {s} : command'[u] = command[u]
  BY <1>1 DEF Ask, Launch, SpawnFails
<1>6. op' = [op EXCEPT !.began = edits, !.side = [op.side EXCEPT ![s] = "asked"]]
  BY DEF Ask, OpInv, Ops
<1> QED BY <1>3, <1>4, <1>5, <1>6

\* Asking keeps the operation sound when the answer is not remembered.
LEMMA AskKeeps ==
  ASSUME NEW s \in Sides, Ask(s), OpInv, VersionInv, CommandTypeOK,
         op.step \notin {"sides", "none"} => s = "old", op.step # "none",
         UNCHANGED <<refreshed, edits, diffs, status, summary>>,
         op.step = "status" => status = {},
         op.step = "summary" => summary[op.range] = {},
         op.step = "patch" => op.range \notin Keys(patches'),
         op.step = "file" => op.file # "unversioned",
         op.step = "sides" => Source(s) \notin {"empty", "working"}
  PROVE  OpInv'
<1>1. /\ op.side[s] # "asked"
      /\ command'[s].state # "idle" /\ \A u \in Sides \ {s} : command'[u] = command[u]
      /\ op' = [op EXCEPT !.began = edits, !.side = [op.side EXCEPT ![s] = "asked"]]
  BY AskFacts
<1>2. op \in Ops
  BY DEF OpInv
<1>3. /\ op' \in Ops
      /\ op'.kind = op.kind /\ op'.step = op.step /\ op'.range = op.range /\ op'.file = op.file
      /\ op'.diff = op.diff /\ op'.oldest = op.oldest /\ op'.began = edits
      /\ op'.side = [op.side EXCEPT ![s] = "asked"]
  BY <1>1, <1>2 DEF Ops, VersionInv
<1>4. op.side \in [Sides -> {"todo", "asked", "done"}]
  BY <1>2 DEF Ops
<1>5. op'.side[s] = "asked" /\ \A u \in Sides \ {s} : op'.side[u] = op.side[u]
  BY <1>3, <1>4
<1>6. SideInv'
  BY <1>1, <1>5 DEF OpInv, SideInv
<1>7. op.kind # "none"
  BY NoOpFacts DEF OpInv, StepInv
<1>8. StepInv'
  BY <1>3, <1>5, <1>7, BothSides DEF OpInv, StepInv
<1>9. AskedInv'
  <2>1. op.step = "sides" => \A u \in Sides : op'.side[u] = "asked" => Source(u) \notin {"empty", "working"}
    BY <1>5 DEF OpInv, AskedInv
  <2>2. \A u : Source(u)' = Source(u)
    BY <1>3 DEF Source
  <2> QED BY <1>3, <2>1, <2>2 DEF AskedInv
<1>10. FreshInv'
  BY <1>3, <1>5 DEF OpInv, FreshInv, VersionInv
<1> QED BY <1>3, <1>6, <1>8, <1>9, <1>10 DEF OpInv

\* An operation goes on to its next step with what it has used.
LEMMA UsedKeeps ==
  ASSUME OpInv, VersionInv, NEW v \in Versions, refreshed <= v,
         NEW step \in {"status", "summary", "patch"},
         op.step \in {"head", "status", "summary"},
         step = "status" \/ op.kind = "open",
         op' = [Used(v) EXCEPT !.step = step],
         \A s \in Sides : command'[s].state = "idle",
         UNCHANGED <<refreshed, edits, diffs>>
  PROVE  OpInv'
<1>1. op \in Ops /\ op.oldest \in Versions /\ op.side \in [Sides -> {"todo", "asked", "done"}]
  BY DEF OpInv, Ops
<1>2. Older(op.oldest, v) \in Versions /\ refreshed <= Older(op.oldest, v)
  BY <1>1, OlderFacts, VersionFacts DEF OpInv, FreshInv, VersionInv
<1>3. op' = [op EXCEPT !.oldest = Older(op.oldest, v), !.step = step,
                       !.side = [op.side EXCEPT !["old"] = "todo"]]
  BY <1>1 DEF Used, Ops
<1>4. /\ op' \in Ops
      /\ op'.kind = op.kind /\ op'.step = step /\ op'.range = op.range
      /\ op'.file = op.file /\ op'.diff = op.diff /\ op'.oldest = Older(op.oldest, v)
      /\ op'.side = [op.side EXCEPT !["old"] = "todo"]
  <2> DEFINE old   == Older(op.oldest, v)
             sides == [op.side EXCEPT !["old"] = "todo"]
  <2>1. old \in Versions /\ sides \in [Sides -> {"todo", "asked", "done"}]
    BY <1>1, <1>2
  <2>2. op' = [op EXCEPT !.oldest = old, !.step = step, !.side = sides]
    BY <1>3
  <2> HIDE DEF old, sides
  <2>3. op' \in Ops /\ op'.kind = op.kind /\ op'.step = step /\ op'.range = op.range
        /\ op'.file = op.file /\ op'.diff = op.diff /\ op'.oldest = old /\ op'.side = sides
    BY <1>1, <2>1, <2>2 DEF Ops
  <2> QED BY <2>3 DEF old, sides
<1>5. op.side["new"] = "todo" /\ op.kind \in {"overview", "connect", "open"}
  BY DEF OpInv, StepInv
<1>6. \A s \in Sides : op'.side[s] = "todo"
  BY <1>1, <1>4, <1>5, BothSides
<1>7. SideInv' /\ AskedInv'
  BY <1>6, BothSides DEF SideInv, AskedInv
<1>8. StepInv'
  BY <1>4, <1>5, <1>6, BothSides DEF OpInv, StepInv, Modes
<1>9. FreshInv'
  BY <1>2, <1>4, <1>6 DEF FreshInv
<1> QED BY <1>4, <1>7, <1>8, <1>9 DEF OpInv

\* A side of the file is read.
LEMMA SideDoneKeeps ==
  ASSUME OpInv, VersionInv, NEW s \in Sides, op.step = "sides",
         NEW v \in Versions, refreshed <= v, SideDone(s, v), Size(Source(s), v) \in Nat,
         command'[s].state = "idle", \A u \in Sides \ {s} : command'[u] = command[u],
         UNCHANGED <<refreshed, diffs>>
  PROVE  OpInv'
<1> DEFINE old   == Older(op.oldest, v)
           size  == op.size + Size(Source(s), v)
           sides == [op.side EXCEPT ![s] = "done"]
<1>1. /\ op \in Ops /\ op.oldest \in Versions /\ op.size \in Nat
      /\ op.side \in [Sides -> {"todo", "asked", "done"}]
  BY DEF OpInv, Ops
<1>2. old \in Versions /\ refreshed <= old
  BY <1>1, OlderFacts, VersionFacts DEF OpInv, FreshInv, VersionInv
<1>3. size \in Nat /\ sides \in [Sides -> {"todo", "asked", "done"}]
  BY <1>1
<1>4. op' = [op EXCEPT !.oldest = old, !.size = size, !.side = sides]
  BY <1>1 DEF SideDone, Ops
<1>5. sides[s] = "done" /\ \A u \in Sides \ {s} : sides[u] = op.side[u]
  BY <1>1
<1> HIDE DEF old, size, sides
<1>6. /\ op' \in Ops /\ op'.kind = op.kind /\ op'.step = op.step /\ op'.range = op.range
      /\ op'.file = op.file /\ op'.diff = op.diff /\ op'.began = op.began /\ op'.oldest = old /\ op'.side = sides
  BY <1>1, <1>2, <1>3, <1>4 DEF Ops
<1>7. SideInv'
  BY <1>5, <1>6 DEF OpInv, SideInv
<1>8. op.kind = "full"
  BY DEF OpInv, StepInv
<1>9. StepInv'
  BY <1>6, <1>8 DEF OpInv, StepInv, Modes
<1>11. AskedInv'
  <2>1. \A u \in Sides : op'.side[u] = "asked" => Source(u) \notin {"empty", "working"}
    BY <1>5, <1>6 DEF OpInv, AskedInv
  <2>2. \A u : Source(u)' = Source(u)
    BY <1>6 DEF Source
  <2> QED BY <1>6, <2>1, <2>2 DEF AskedInv
<1>10. FreshInv'
  BY <1>2, <1>5, <1>6 DEF OpInv, FreshInv
<1> QED BY <1>6, <1>7, <1>9, <1>10, <1>11 DEF OpInv

\* What a step leaves alone keeps its part.
LEMMA Frames ==
  /\ VersionInv /\ UNCHANGED <<edits, refreshed>> => VersionInv'
  /\ AnswerInv /\ UNCHANGED <<refreshed, status, summary>> => AnswerInv'
  /\ PatchInv /\ UNCHANGED <<refreshed, patches>> => PatchInv'
  /\ SourceInv /\ UNCHANGED <<refreshed, sources>> => SourceInv'
  /\ DiffInv /\ UNCHANGED <<refreshed, diffs>> => DiffInv'
BY DEF VersionInv, AnswerInv, PatchInv, SourceInv, DiffInv, SessionSound

\* A reply that is new enough leaves nothing stale.
LEMMA DoneFresh ==
  ASSUME NEW since \in Nat, NEW oldest \in Nat, since <= oldest, ~stale, Done(since, oldest)
  PROVE  ~stale' /\ op' = NoOp
<1>1. ~(oldest < since)
  OBVIOUS
<1>2. op' = NoOp /\ stale' = (stale \/ oldest < since)
  BY DEF Done
<1> QED BY <1>1, <1>2, Zenon

-----------------------------------------------------------------------------
(* The requests *)

\* An operation that begins has used nothing and asked for nothing.
LEMMA BeginSound ==
  ASSUME op' \in Ops, \A s \in Sides : op'.side[s] = "todo", op'.oldest = Timeless,
         op'.kind # "none",
         op'.step = "sides" => op'.kind = "full",
         op'.step = "file" => op'.kind = "patch",
         op'.step \in {"head", "status"} => op'.kind \in {"overview", "connect", "open"},
         op'.step \in {"summary", "patch"} => op'.kind = "open",
         op'.kind \in Modes => op'.diff \in 1 .. Len(diffs'),
         op'.kind \in {"open", "full", "patch"} => op'.range \in Ranges /\ op'.file \in Kinds,
         \A s \in Sides : command'[s].state = "idle", VersionInv'
  PROVE  OpInv'
<1>1. refreshed' <= Timeless
  BY VersionFacts DEF VersionInv
<1> QED BY <1>1, BothSides DEF OpInv, SideInv, StepInv, AskedInv, FreshInv

\* An overview, a refresh or a connection begins.
LEMMA BeginOverviewKeeps ==
  ASSUME OpInv, VersionInv', UNCHANGED command,
         NEW kind \in {"overview", "connect"}, NEW step \in {"status", "head"},
         Begin([NoOp EXCEPT !.kind = kind, !.step = step])
  PROVE  OpInv'
<1>1. \A s \in Sides : command[s].state = "idle"
  BY RestIsQuiet DEF Begin
<1>2. op' = [NoOp EXCEPT !.kind = kind, !.step = step]
  BY DEF Begin
<1>3. /\ op' \in Ops /\ op'.kind = kind /\ op'.step = step /\ op'.oldest = Timeless
      /\ \A s \in Sides : op'.side[s] = "todo"
  BY <1>2, NoOpFacts DEF Ops
<1> QED BY <1>1, <1>3, BeginSound DEF Modes

\* A comparison begins.
LEMMA OpenDiffKeeps ==
  ASSUME OpInv, VersionInv', NEW r \in Ranges, NEW k \in Kinds, OpenDiff(r, k)
  PROVE  OpInv'
<1> DEFINE step == IF ReadsWorking(r) THEN "status" ELSE "summary"
<1>1. \A s \in Sides : command'[s].state = "idle"
  BY RestIsQuiet DEF OpenDiff, Begin
<1>2. op' = [NoOp EXCEPT !.kind = "open", !.range = r, !.file = k, !.step = step]
  BY DEF OpenDiff, Begin
<1>3. step \in {"status", "summary"}
  OBVIOUS
<1> HIDE DEF step
<1>4. /\ op' \in Ops /\ op'.kind = "open" /\ op'.step = step /\ op'.range = r /\ op'.file = k
      /\ op'.oldest = Timeless /\ \A s \in Sides : op'.side[s] = "todo"
  BY <1>2, <1>3, NoOpFacts DEF Ops
<1> QED BY <1>1, <1>3, <1>4, BeginSound DEF Modes

\* A preview begins.
LEMMA BeginPreviewKeeps ==
  ASSUME OpInv, DiffInv, VersionInv', NEW i \in DOMAIN diffs, NEW mode \in Modes, BeginPreview(i, mode)
  PROVE  OpInv'
<1> DEFINE step == IF mode = "full" THEN "sides" ELSE "file"
           d == diffs[i]
<1>1. \A s \in Sides : command'[s].state = "idle"
  BY RestIsQuiet DEF BeginPreview, Begin
<1>2. op' = [NoOp EXCEPT !.kind = mode, !.step = step, !.range = d.range, !.file = d.file, !.diff = i]
  BY DEF BeginPreview, Begin
<1>3. step \in {"sides", "file"} /\ (step = "sides" => mode = "full") /\ (step = "file" => mode = "patch")
  BY DEF Modes
<1>4. i \in 1 .. Len(diffs) /\ d \in DiffSessions
  BY DEF DiffInv
<1>5. d.range \in Ranges /\ d.file \in Kinds /\ i \in Nat
  BY <1>4 DEF DiffSessions
<1> HIDE DEF step, d
<1>6. /\ op' \in Ops /\ op'.kind = mode /\ op'.step = step /\ op'.range = d.range
      /\ op'.file = d.file /\ op'.diff = i /\ op'.oldest = Timeless /\ \A s \in Sides : op'.side[s] = "todo"
  BY <1>2, <1>3, <1>5, NoOpFacts DEF Ops, Modes
<1>7. UNCHANGED diffs
  BY DEF BeginPreview
<1> QED BY <1>1, <1>3, <1>4, <1>5, <1>6, <1>7, BeginSound DEF Modes

\* A refresh empties the caches of what the user may have changed.
LEMMA RefreshKeeps ==
  ASSUME RepositoryInv, Refresh
  PROVE  RepositoryInv'
<1>1. VersionInv'
  <2>1. edits \in Versions /\ edits \in Nat
    BY VersionFacts DEF RepositoryInv, VersionInv
  <2>2. edits' = edits /\ refreshed' = edits
    BY DEF Refresh
  <2> QED BY <2>1, <2>2 DEF VersionInv
<1>2. OpInv'
  BY <1>1, BeginOverviewKeeps DEF RepositoryInv, Refresh
<1>3. AnswerInv'
  BY DEF Refresh, Invalidate, AnswerInv
<1>4. PatchInv'
  BY EmptySound, LimitAssumption DEF Refresh, Invalidate, PatchInv, LimitAssumption
<1>5. SourceInv'
  <2>1. /\ sources \in Caches(SourceNames, Versions)
        /\ Accounted(sources, SourceItems, SourceLimit)
        /\ SourceItems \in Nat /\ SourceLimit \in Nat
    BY LimitAssumption DEF RepositoryInv, SourceInv, LimitAssumption
  <2>2. sources' = Purged(sources, "working")
    BY DEF Refresh, Invalidate
  <2>3. /\ sources' \in Caches(SourceNames, Versions)
        /\ Accounted(sources', SourceItems, SourceLimit)
        /\ Held(sources') \subseteq Held(sources)
        /\ \A e \in Held(sources') : e.key # "working"
    BY <2>1, <2>2, PurgedKeeps
  <2> QED BY <2>3 DEF RepositoryInv, SourceInv
<1>6. DiffInv'
  <2>1. refreshed \in Nat /\ refreshed' \in Nat /\ refreshed <= refreshed' /\ UNCHANGED diffs
    BY VersionFacts DEF Refresh, RepositoryInv, VersionInv
  <2>2. \A i \in 1 .. Len(diffs) : diffs[i].since \in Nat
    BY VersionFacts DEF RepositoryInv, DiffInv, SessionSound, DiffSessions
  <2> QED BY <2>1, <2>2 DEF RepositoryInv, DiffInv, SessionSound
<1>7. ~stale'
  BY DEF Refresh, Begin, RepositoryInv
<1> QED BY <1>1, <1>2, <1>3, <1>4, <1>5, <1>6, <1>7 DEF RepositoryInv

\* A preview that is kept is shown again.
LEMMA PreviewCachedKeeps ==
  ASSUME RepositoryInv, NEW i \in DOMAIN diffs, NEW mode \in Modes, PreviewCached(i, mode)
  PROVE  RepositoryInv'
<1> DEFINE d == diffs[i]
           c == d.previews
           t == Touched(c, mode)
           e == [d EXCEPT !.previews = t]
<1>1. i \in 1 .. Len(diffs) /\ diffs \in Seq(DiffSessions) /\ SessionSound(d) /\ d \in DiffSessions
  BY DEF RepositoryInv, DiffInv, SessionSound
<1>2. /\ c \in Caches(Modes, Versions) /\ Accounted(c, PreviewItems, PreviewLimit)
      /\ mode \in Keys(c) /\ PreviewItems \in Nat /\ PreviewLimit \in Nat
      /\ d.since \in Versions
  BY <1>1, LimitAssumption DEF SessionSound, DiffSessions, PreviewCached, LimitAssumption
<1>3. /\ t \in Caches(Modes, Versions) /\ Accounted(t, PreviewItems, PreviewLimit)
      /\ Held(t) \subseteq Held(c)
  BY <1>2, TouchedKeeps
<1>4. Entry(c, mode) \in Held(c) /\ Entry(c, mode).value \in Versions
  BY <1>2, PlaceFacts DEF Entries
<1>5. diffs' = [diffs EXCEPT ![i] = e]
  BY <1>1 DEF PreviewCached
<1>6. Done(d.since, Entry(c, mode).value)
  BY DEF PreviewCached
<1>7. d.since <= Entry(c, mode).value
  BY <1>1, <1>4 DEF SessionSound
<1> HIDE DEF t, c
<1>8. e \in DiffSessions /\ e.since = d.since /\ e.previews = t
  BY <1>1, <1>3 DEF DiffSessions
<1>9. \A v : v \in Held(t) => e.since <= v.value
  BY <1>1, <1>3, <1>8 DEF SessionSound, c
<1> HIDE DEF d, e
<1>10. UNCHANGED <<edits, refreshed, status, summary, patches, sources, command>> /\ op.kind = "none"
  BY DEF PreviewCached, cacheVars
<1>11. SessionSound(e)
  BY <1>1, <1>3, <1>8, <1>9 DEF SessionSound
<1>12. DiffInv'
  BY <1>1, <1>5, <1>8, <1>10, <1>11 DEF RepositoryInv, DiffInv, SessionSound
<1>13. VersionInv' /\ AnswerInv' /\ PatchInv' /\ SourceInv'
  BY <1>10, Frames DEF RepositoryInv
<1>14. ~stale' /\ op' = NoOp
  BY <1>2, <1>4, <1>6, <1>7, DoneFresh, VersionFacts DEF RepositoryInv
<1>15. OpInv'
  BY <1>10, <1>13, <1>14, RestIsQuiet, OverSound DEF RepositoryInv
<1> QED BY <1>12, <1>13, <1>14, <1>15 DEF RepositoryInv

\* Every request.
LEMMA RequestKeeps ==
  ASSUME RepositoryInv, Request
  PROVE  RepositoryInv'
<1>1. CASE BeginOverview \/ ConnectHistory
  <2>1. VersionInv' /\ AnswerInv' /\ PatchInv' /\ SourceInv' /\ DiffInv'
    BY <1>1, Frames DEF RepositoryInv, BeginOverview, ConnectHistory, cacheVars
  <2>2. OpInv' /\ ~stale'
    BY <1>1, <2>1, BeginOverviewKeeps DEF RepositoryInv, BeginOverview, ConnectHistory, Begin
  <2> QED BY <2>1, <2>2 DEF RepositoryInv
<1>2. CASE Refresh
  BY <1>2, RefreshKeeps
<1>3. ASSUME NEW r \in Ranges, NEW k \in Kinds, OpenDiff(r, k) PROVE RepositoryInv'
  <2>1. VersionInv' /\ AnswerInv' /\ PatchInv' /\ SourceInv' /\ DiffInv'
    BY <1>3, Frames DEF RepositoryInv, OpenDiff, cacheVars
  <2>2. OpInv' /\ ~stale'
    BY <1>3, <2>1, OpenDiffKeeps DEF RepositoryInv, OpenDiff, Begin
  <2> QED BY <2>1, <2>2 DEF RepositoryInv
<1>4. ASSUME NEW i \in DOMAIN diffs, NEW mode \in {"full", "patch"}, BeginPreview(i, mode)
      PROVE  RepositoryInv'
  <2>1. VersionInv' /\ AnswerInv' /\ PatchInv' /\ SourceInv' /\ DiffInv'
    BY <1>4, Frames DEF RepositoryInv, BeginPreview, cacheVars
  <2>2. OpInv' /\ ~stale'
    BY <1>4, <2>1, BeginPreviewKeeps DEF RepositoryInv, BeginPreview, Begin, Modes
  <2> QED BY <2>1, <2>2 DEF RepositoryInv
<1>5. ASSUME NEW i \in DOMAIN diffs, NEW mode \in {"full", "patch"}, PreviewCached(i, mode)
      PROVE  RepositoryInv'
  BY <1>5, PreviewCachedKeeps DEF Modes
<1> QED BY <1>1, <1>2, <1>3, <1>4, <1>5 DEF Request

-----------------------------------------------------------------------------
(* The answers to svn status and svn diff --summarize *)

\* A question about the working copy keeps the invariant, when the caches are left alone.
LEMMA AskStepKeeps ==
  ASSUME RepositoryInv, CommandTypeOK, Ask("old"), op.step \in {"head", "status", "summary", "patch"},
         UNCHANGED <<edits, refreshed, cacheVars, diffs>>,
         op.step = "status" => status = {},
         op.step = "summary" => summary[op.range] = {},
         op.step = "patch" => op.range \notin Keys(patches)
  PROVE  RepositoryInv'
<1>1. VersionInv' /\ AnswerInv' /\ PatchInv' /\ SourceInv' /\ DiffInv'
  BY Frames DEF RepositoryInv, cacheVars
<1>2. OpInv'
  BY BothSides, AskKeeps DEF RepositoryInv, cacheVars
<1>3. ~stale'
  BY DEF Ask, RepositoryInv
<1> QED BY <1>1, <1>2, <1>3 DEF RepositoryInv

\* overview, connect_history and open_diff go on with a status that is new enough.
LEMMA AfterStatusKeeps ==
  ASSUME OpInv, VersionInv, ~stale, op.step = "status", NEW v \in Versions, refreshed <= v,
         AfterStatus(v), \A s \in Sides : command'[s].state = "idle",
         UNCHANGED <<edits, refreshed, diffs>>
  PROVE  OpInv' /\ ~stale'
<1>1. CASE op.kind = "open"
  <2>1. op' = [Used(v) EXCEPT !.step = "summary"] /\ stale' = stale
    BY <1>1 DEF AfterStatus
  <2> QED BY <1>1, <2>1, UsedKeeps
<1>2. CASE op.kind # "open"
  <2>1. Done(refreshed, v)
    BY <1>2 DEF AfterStatus
  <2>2. refreshed \in Nat /\ v \in Nat
    BY VersionFacts DEF VersionInv
  <2>3. ~stale' /\ op' = NoOp
    BY <2>1, <2>2, DoneFresh
  <2>4. VersionInv'
    BY Frames
  <2> QED BY <2>3, <2>4, OverSound
<1> QED BY <1>1, <1>2

\* The head, and the status.
LEMMA OverviewKeeps ==
  ASSUME RepositoryInv, CommandTypeOK, Overview
  PROVE  RepositoryInv'
<1> USE DEF RepositoryInv
<1>1. CASE AskHead \/ AskStatus
  BY <1>1, AskStepKeeps DEF AskHead, AskStatus, At
<1>2. CASE HeadAnswered
  <2>1. op.step = "head" /\ Answered("old") /\ UNCHANGED <<edits, refreshed, cacheVars, diffs, stale>>
    BY <1>2 DEF HeadAnswered, At
  <2>2. op' = [Used(Timeless) EXCEPT !.step = "status"]
    BY <1>2 DEF HeadAnswered
  <2>3. \A s \in Sides : command'[s].state = "idle"
    BY <2>1, AnsweredLast
  <2>4. refreshed <= Timeless
    BY VersionFacts DEF VersionInv
  <2>5. OpInv'
    BY <2>1, <2>2, <2>3, <2>4, VersionFacts, UsedKeeps
  <2> QED BY <2>1, <2>5, Frames DEF cacheVars
<1>3. CASE StatusCached
  <2>1. PICK v \in status : AfterStatus(v)
    BY <1>3 DEF StatusCached
  <2>2. op.step = "status" /\ UNCHANGED <<edits, refreshed, cacheVars, diffs, command>>
    BY <1>3 DEF StatusCached, At
  <2>3. v \in Versions /\ refreshed <= v /\ status # {}
    BY <2>1 DEF AnswerInv
  <2>4. op.side["old"] # "asked"
    BY <2>2, <2>3 DEF OpInv, AskedInv
  <2>5. \A s \in Sides : command'[s].state = "idle"
    BY <2>2, <2>4, BothSides, OneCommand DEF OpInv, SideInv
  <2>6. OpInv' /\ ~stale'
    BY <2>1, <2>2, <2>3, <2>5, AfterStatusKeeps
  <2> QED BY <2>2, <2>6, Frames DEF cacheVars
<1>4. CASE StatusAnswered
  <2>1. PICK v \in Read(TRUE) : status' = {v} /\ AfterStatus(v)
    BY <1>4 DEF StatusAnswered
  <2>2. op.step = "status" /\ Answered("old")
        /\ UNCHANGED <<edits, refreshed, summary, patches, sources, diffs>>
    BY <1>4 DEF StatusAnswered, At
  <2>3. v \in Versions /\ refreshed <= v
    BY <2>1, <2>2, BothSides, AnsweredFacts, ReadFacts
  <2>4. \A s \in Sides : command'[s].state = "idle"
    BY <2>2, AnsweredLast
  <2>5. OpInv' /\ ~stale'
    BY <2>1, <2>2, <2>3, <2>4, AfterStatusKeeps
  <2>6. AnswerInv'
    BY <2>1, <2>2, <2>3 DEF AnswerInv
  <2> QED BY <2>2, <2>5, <2>6, Frames
<1> QED BY <1>1, <1>2, <1>3, <1>4 DEF Overview

-----------------------------------------------------------------------------
(* The answers to svn diff *)

\* A new session is empty; the oldest one may leave.
LEMMA OpenedKeeps ==
  ASSUME RepositoryInv, op.step = "patch", NEW v \in Versions, refreshed <= v,
         Opened(v), \A s \in Sides : command'[s].state = "idle", UNCHANGED <<edits, refreshed>>
  PROVE  OpInv' /\ DiffInv' /\ ~stale'
<1> DEFINE d == [range |-> op.range, file |-> op.file, since |-> refreshed, previews |-> EmptyCache]
           all == Append(diffs, d)
           n == IF Len(all) > MaxDiffSessions THEN 2 ELSE 1
<1>1. op.range \in Ranges /\ op.file \in Kinds /\ op.oldest \in Versions /\ refreshed <= op.oldest
  BY DEF RepositoryInv, OpInv, StepInv, FreshInv, Ops
<1>2. refreshed \in Versions /\ refreshed \in Nat
  BY VersionFacts DEF RepositoryInv, VersionInv
<1>3. SessionSound(d)
  <2>1. PreviewItems \in Nat /\ PreviewLimit \in Nat
    BY LimitAssumption DEF LimitAssumption
  <2>2. /\ EmptyCache \in Caches(Modes, Versions) /\ Held(EmptyCache) = {}
        /\ Accounted(EmptyCache, PreviewItems, PreviewLimit)
    BY <2>1, EmptySound
  <2>3. d \in DiffSessions
    BY <1>1, <1>2, <2>2 DEF DiffSessions
  <2> QED BY <1>2, <2>2, <2>3 DEF SessionSound
<1>4. diffs \in Seq(DiffSessions) /\ \A i \in 1 .. Len(diffs) : SessionSound(diffs[i])
  BY DEF RepositoryInv, DiffInv
<1>5. d \in DiffSessions
  BY <1>3 DEF SessionSound
<1>6. diffs' = SubSeq(all, n, Len(all)) /\ Done(refreshed, Older(op.oldest, v))
  BY DEF Opened
<1> HIDE DEF d
<1>7. /\ all \in Seq(DiffSessions) /\ Len(all) = Len(diffs) + 1 /\ Len(diffs) \in Nat
      /\ \A i \in 1 .. Len(diffs) : all[i] = diffs[i]
      /\ all[Len(diffs) + 1] = d
  BY <1>4, <1>5
<1> HIDE DEF all
<1>8. \A i \in 1 .. Len(all) : SessionSound(all[i])
  <2> SUFFICES ASSUME NEW i \in 1 .. Len(all) PROVE SessionSound(all[i])
    OBVIOUS
  <2>1. i = Len(diffs) + 1 \/ i \in 1 .. Len(diffs)
    BY <1>7
  <2> QED BY <1>3, <1>4, <1>7, <2>1
<1>9. n \in {1, 2} /\ n <= Len(all) + 1
  BY <1>7
<1> HIDE DEF n
<1>10. /\ SubSeq(all, n, Len(all)) \in Seq(DiffSessions)
       /\ \A i \in 1 .. Len(SubSeq(all, n, Len(all))) :
            i + n - 1 \in 1 .. Len(all) /\ SubSeq(all, n, Len(all))[i] = all[i + n - 1]
  BY <1>7, <1>9
<1>11. \A i \in 1 .. Len(diffs') : SessionSound(diffs'[i])
  BY <1>6, <1>8, <1>10
<1>12. DiffInv'
  BY <1>6, <1>10, <1>11 DEF DiffInv, SessionSound
<1>13. Older(op.oldest, v) \in Nat /\ refreshed <= Older(op.oldest, v)
  BY <1>1, <1>2, OlderFacts, VersionFacts
<1>14. ~stale' /\ op' = NoOp
  BY <1>2, <1>6, <1>13, DoneFresh DEF RepositoryInv
<1>15. OpInv'
  BY <1>14, Frames, OverSound DEF RepositoryInv
<1> QED BY <1>12, <1>14, <1>15

\* The answers of the summary, remembered or new.
LEMMA SummaryKeeps ==
  ASSUME RepositoryInv, CommandTypeOK, SummaryCached \/ AskSummary \/ SummaryAnswered
  PROVE  RepositoryInv'
<1> USE DEF RepositoryInv
<1>0. op.step = "summary" /\ op.kind = "open" /\ op.range \in Ranges
  BY DEF SummaryCached, AskSummary, SummaryAnswered, At, OpInv, StepInv
<1>1. CASE AskSummary
  BY <1>1, AskStepKeeps DEF AskSummary, At
<1>2. CASE SummaryCached
  <2>1. PICK v \in summary[op.range] : AfterSummary(v)
    BY <1>2 DEF SummaryCached
  <2>2. UNCHANGED <<edits, refreshed, cacheVars, diffs, command>>
    BY <1>2 DEF SummaryCached
  <2>3. v \in Versions /\ refreshed <= v /\ summary[op.range] # {}
    BY <1>0, <2>1 DEF AnswerInv
  <2>4. op.side["old"] # "asked"
    BY <1>0, <2>3 DEF OpInv, AskedInv
  <2>5. \A s \in Sides : command'[s].state = "idle"
    BY <1>0, <2>2, <2>4, BothSides, OneCommand DEF OpInv, SideInv
  <2>6. op' = [Used(v) EXCEPT !.step = "patch"] /\ stale' = stale
    BY <2>1 DEF AfterSummary
  <2>7. OpInv'
    BY <1>0, <2>2, <2>3, <2>5, <2>6, UsedKeeps
  <2> QED BY <2>2, <2>6, <2>7, Frames DEF cacheVars
<1>3. CASE SummaryAnswered
  <2>1. PICK v \in Read(ReadsWorking(op.range)) :
            summary' = [summary EXCEPT ![op.range] = {v}] /\ AfterSummary(v)
    BY <1>3 DEF SummaryAnswered
  <2>2. Answered("old") /\ UNCHANGED <<edits, refreshed, status, patches, sources, diffs>>
    BY <1>3 DEF SummaryAnswered
  <2>3. v \in Versions /\ refreshed <= v
    <3>1. ReadsWorking(op.range) \in BOOLEAN
      BY DEF ReadsWorking
    <3> QED BY <2>1, <2>2, <3>1, BothSides, AnsweredFacts, ReadFacts
  <2>4. \A s \in Sides : command'[s].state = "idle"
    BY <1>0, <2>2, AnsweredLast
  <2>5. op' = [Used(v) EXCEPT !.step = "patch"] /\ stale' = stale
    BY <2>1 DEF AfterSummary
  <2>6. OpInv'
    BY <1>0, <2>2, <2>3, <2>4, <2>5, UsedKeeps
  <2>7. AnswerInv'
    BY <2>1, <2>2, <2>3 DEF AnswerInv
  <2> QED BY <2>2, <2>5, <2>6, <2>7, Frames
<1> QED BY <1>1, <1>2, <1>3

\* The patch that is remembered, or a new one.
LEMMA PatchKeeps ==
  ASSUME RepositoryInv, CommandTypeOK, PatchCached \/ AskPatch \/ PatchAnswered
  PROVE  RepositoryInv'
<1> USE DEF RepositoryInv
<1>0. op.step = "patch" /\ op.kind = "open" /\ op.range \in Ranges
  BY DEF PatchCached, AskPatch, PatchAnswered, At, OpInv, StepInv
<1>1. /\ patches \in Caches(Ranges, Patches) /\ Accounted(patches, PatchItems, PatchLimit)
      /\ PatchItems \in Nat \ {0} /\ PatchItems \in Nat /\ PatchLimit \in Nat
  BY LimitAssumption DEF PatchInv, LimitAssumption
<1>2. CASE AskPatch
  BY <1>2, AskStepKeeps DEF AskPatch, At
<1>3. CASE PatchCached
  <2>1. /\ op.range \in Keys(patches) /\ patches' = Touched(patches, op.range)
        /\ Opened(Entry(patches, op.range).value.at)
        /\ UNCHANGED <<edits, refreshed, status, summary, sources, command>>
    BY <1>3 DEF PatchCached
  <2>2. /\ patches' \in Caches(Ranges, Patches) /\ Accounted(patches', PatchItems, PatchLimit)
        /\ Held(patches') \subseteq Held(patches)
    BY <1>1, <2>1, TouchedKeeps
  <2>3. PatchInv'
    BY <2>1, <2>2 DEF PatchInv
  <2>4. Entry(patches, op.range) \in Held(patches) /\ Entry(patches, op.range) \in Entries(Ranges, Patches)
    BY <1>1, <2>1, PlaceFacts
  <2> DEFINE v == Entry(patches, op.range).value.at
  <2>5. v \in Versions /\ refreshed <= v
    BY <2>4 DEF PatchInv, Entries, Patches
  <2>6. op.side["old"] # "asked"
    BY <1>0, <2>1 DEF OpInv, AskedInv
  <2>7. \A s \in Sides : command'[s].state = "idle"
    BY <1>0, <2>1, <2>6, BothSides, OneCommand DEF OpInv, SideInv
  <2> HIDE DEF v
  <2>8. Opened(v)
    BY <2>1 DEF v
  <2>9. OpInv' /\ DiffInv' /\ ~stale'
    BY <1>0, <2>1, <2>5, <2>7, <2>8, OpenedKeeps
  <2> QED BY <2>1, <2>3, <2>9, Frames
<1>4. CASE PatchAnswered
  <2>1. PICK v \in Read(ReadsWorking(op.range)), body \in {"retained", "deferred", "large"} :
            /\ patches' = Inserted(patches, op.range, [at |-> v, body |-> body],
                                   IF body = "retained" THEN 1 ELSE 0, PatchItems, PatchLimit)
            /\ Opened(v)
    BY <1>4 DEF PatchAnswered
  <2>2. Answered("old") /\ UNCHANGED <<edits, refreshed, status, summary, sources>>
    BY <1>4 DEF PatchAnswered
  <2>3. v \in Versions /\ refreshed <= v
    <3>1. ReadsWorking(op.range) \in BOOLEAN
      BY DEF ReadsWorking
    <3> QED BY <2>1, <2>2, <3>1, BothSides, AnsweredFacts, ReadFacts
  <2>4. \A s \in Sides : command'[s].state = "idle"
    BY <1>0, <2>2, AnsweredLast
  <2>5. OpInv' /\ DiffInv' /\ ~stale'
    BY <1>0, <2>1, <2>2, <2>3, <2>4, OpenedKeeps
  <2> DEFINE value == [at |-> v, body |-> body]
             size == IF body = "retained" THEN 1 ELSE 0
  <2>6. value \in Patches /\ value.at = v /\ size \in Nat
    BY <2>3 DEF Patches
  <2>7. patches' = Inserted(patches, op.range, value, size, PatchItems, PatchLimit)
    BY <2>1
  <2> HIDE DEF value, size
  <2>8. /\ patches' \in Caches(Ranges, Patches) /\ Accounted(patches', PatchItems, PatchLimit)
        /\ Held(patches') \subseteq Held(patches) \cup {[key |-> op.range, value |-> value, size |-> size]}
    BY <1>0, <1>1, <2>6, <2>7, InsertionIsAccounted
  <2>9. PatchInv'
    BY <2>2, <2>3, <2>6, <2>8 DEF PatchInv
  <2> QED BY <2>2, <2>5, <2>9, Frames
<1> QED BY <1>2, <1>3, <1>4

\* Every step of a comparison.
LEMMA ComparisonKeeps ==
  ASSUME RepositoryInv, CommandTypeOK, Comparison
  PROVE  RepositoryInv'
BY SummaryKeeps, PatchKeeps DEF Comparison

-----------------------------------------------------------------------------
(* The sides of a preview *)

\* What a side is read from.
LEMMA SourceFacts ==
  ASSUME RepositoryInv, op.step = "sides", NEW s \in Sides
  PROVE  /\ Source(s) \in SourceNames \cup {"empty"}
         /\ \A v \in Versions : Size(Source(s), v) \in Nat
<1>1. op.range \in Ranges
  BY DEF RepositoryInv, OpInv, StepInv
<1>2. OldSource[op.range] \in SourceNames /\ NewSource[op.range] \in SourceNames
  BY <1>1, RangeAssumption DEF RangeAssumption, OldSource, NewSource, SourceNames
<1>3. Source(s) \in SourceNames \cup {"empty"}
  BY <1>2 DEF Source
<1>4. \A v \in Versions : Size(Source(s), v) \in Nat
  BY <1>3, VersionFacts DEF Size
<1> QED BY <1>3, <1>4

\* A source that is read is remembered.
LEMMA RememberKeeps ==
  ASSUME SourceInv, NEW src \in SourceNames, NEW v \in Versions, Size(src, v) \in Nat,
         IF src = "working" THEN refreshed <= v ELSE v = Timeless,
         Remember(src, v), UNCHANGED refreshed
  PROVE  SourceInv'
<1> DEFINE e == [key |-> src, value |-> v, size |-> Size(src, v)]
<1>1. /\ sources \in Caches(SourceNames, Versions) /\ Accounted(sources, SourceItems, SourceLimit)
      /\ SourceItems \in Nat \ {0} /\ SourceLimit \in Nat
  BY LimitAssumption DEF SourceInv, LimitAssumption
<1>2. sources' = Inserted(sources, src, v, Size(src, v), SourceItems, SourceLimit)
  BY DEF Remember
<1>3. /\ sources' \in Caches(SourceNames, Versions) /\ Accounted(sources', SourceItems, SourceLimit)
      /\ Held(sources') \subseteq Held(sources) \cup {e}
  BY <1>1, <1>2, InsertionIsAccounted
<1>4. e.key = src /\ e.value = v
  OBVIOUS
<1> HIDE DEF e
<1> QED BY <1>3, <1>4 DEF SourceInv

\* One side is read: it is empty, remembered, a file, or the answer of a command.
LEMMA ReadSideKeeps ==
  ASSUME RepositoryInv, CommandTypeOK, NEW s \in Sides, ReadSide(s)
  PROVE  RepositoryInv'
<1> USE DEF RepositoryInv
<1> DEFINE src == Source(s)
<1>1. /\ op.step = "sides" /\ op.side[s] = "todo"
      /\ UNCHANGED <<edits, refreshed, status, summary, patches, diffs>>
  BY DEF ReadSide, At
<1>2. command[s].state = "idle"
  BY <1>1 DEF OpInv, SideInv
<1>3. src \in SourceNames \cup {"empty"} /\ \A v \in Versions : Size(src, v) \in Nat
  BY <1>1, SourceFacts
<1>4. VersionInv' /\ AnswerInv' /\ PatchInv' /\ DiffInv'
  BY <1>1, Frames
<1>5. /\ sources \in Caches(SourceNames, Versions) /\ Accounted(sources, SourceItems, SourceLimit)
      /\ SourceItems \in Nat /\ SourceLimit \in Nat
  BY LimitAssumption DEF SourceInv, LimitAssumption
<1>6. refreshed <= Timeless /\ edits \in Versions /\ refreshed <= edits
  BY VersionFacts DEF VersionInv
<1>7. ASSUME NEW v \in Versions, refreshed <= v, SideDone(s, v), UNCHANGED command PROVE OpInv'
  BY <1>1, <1>2, <1>3, <1>7, SideDoneKeeps
<1> HIDE DEF src
<1>8. CASE src = "empty" /\ SideDone(s, Timeless) /\ UNCHANGED <<sources, command, stale>>
  <2>1. OpInv'
    BY <1>6, <1>7, <1>8, VersionFacts
  <2> QED BY <1>1, <1>4, <1>8, <2>1, Frames
<1>9. CASE /\ src \in Keys(sources) /\ sources' = Touched(sources, src)
           /\ SideDone(s, Entry(sources, src).value) /\ UNCHANGED <<command, stale>>
  <2> DEFINE e == Entry(sources, src)
  <2>1. e \in Held(sources) /\ e \in Entries(SourceNames, Versions)
    BY <1>5, <1>9, PlaceFacts
  <2>2. e.value \in Versions /\ refreshed <= e.value
    BY <1>6, <2>1 DEF SourceInv, Entries
  <2>3. OpInv'
    BY <1>7, <1>9, <2>2
  <2>4. /\ sources' \in Caches(SourceNames, Versions) /\ Accounted(sources', SourceItems, SourceLimit)
        /\ Held(sources') \subseteq Held(sources)
    BY <1>5, <1>9, TouchedKeeps
  <2>5. SourceInv'
    BY <1>1, <2>4 DEF SourceInv
  <2> QED BY <1>4, <1>9, <2>3, <2>5
<1>10. CASE src = "working" /\ Remember(src, edits) /\ SideDone(s, edits) /\ UNCHANGED <<command, stale>>
  <2>1. OpInv'
    BY <1>6, <1>7, <1>10
  <2>2. src \in SourceNames /\ Size(src, edits) \in Nat
    BY <1>3, <1>6, <1>10 DEF SourceNames
  <2>3. SourceInv'
    BY <1>1, <1>6, <1>10, <2>2, RememberKeeps
  <2> QED BY <1>4, <1>10, <2>1, <2>3
<1>11. CASE src \notin Keys(sources) \cup {"empty", "working"} /\ Ask(s) /\ UNCHANGED sources
  <2>1. OpInv' /\ ~stale'
    BY <1>1, <1>11, AskKeeps DEF Ask, src
  <2> QED BY <1>1, <1>4, <1>11, <2>1, Frames
<1> QED BY <1>8, <1>9, <1>10, <1>11 DEF ReadSide, src

\* The command of a side has answered.
LEMMA SideAnsweredKeeps ==
  ASSUME RepositoryInv, NEW s \in Sides, SideAnswered(s)
  PROVE  RepositoryInv'
<1> USE DEF RepositoryInv
<1>1. /\ op.step = "sides" /\ Answered(s) /\ Remember(Source(s), Timeless) /\ SideDone(s, Timeless)
      /\ UNCHANGED <<edits, refreshed, status, summary, patches, diffs, stale>>
  BY DEF SideAnswered, At
<1>2. /\ Source(s) \in SourceNames \cup {"empty"} /\ Size(Source(s), Timeless) \in Nat
      /\ refreshed <= Timeless
  BY <1>1, SourceFacts, VersionFacts DEF VersionInv
<1>3. op.side[s] = "asked" /\ command'[s].state = "idle"
      /\ \A u \in Sides \ {s} : command'[u] = command[u]
  BY <1>1, AnsweredFacts
<1>4. Source(s) \in SourceNames /\ Source(s) # "working"
  BY <1>1, <1>2, <1>3 DEF OpInv, AskedInv
<1>5. SourceInv'
  BY <1>1, <1>2, <1>4, VersionFacts, RememberKeeps
<1>6. OpInv'
  BY <1>1, <1>2, <1>3, VersionFacts, SideDoneKeeps
<1> QED BY <1>1, <1>5, <1>6, Frames

\* The preview that is kept and shown.
LEMMA PreviewedKeeps ==
  ASSUME RepositoryInv, NEW mode \in Modes, op.kind = mode, NEW v \in Versions, refreshed <= v,
         NEW size \in Nat, Previewed(mode, v, size), \A s \in Sides : command'[s].state = "idle",
         UNCHANGED <<edits, refreshed>>
  PROVE  OpInv' /\ DiffInv' /\ ~stale'
<1> DEFINE i == op.diff
           d == diffs[i]
           c == d.previews
           t == Inserted(c, mode, v, size, PreviewItems, PreviewLimit)
           e == [d EXCEPT !.previews = t]
<1>1. /\ i \in 1 .. Len(diffs) /\ diffs \in Seq(DiffSessions)
      /\ SessionSound(d) /\ d \in DiffSessions
  BY DEF RepositoryInv, OpInv, StepInv, DiffInv, SessionSound
<1>2. /\ c \in Caches(Modes, Versions) /\ Accounted(c, PreviewItems, PreviewLimit)
      /\ PreviewItems \in Nat \ {0} /\ PreviewLimit \in Nat
      /\ d.since \in Versions /\ d.since <= refreshed
  BY <1>1, LimitAssumption DEF SessionSound, DiffSessions, LimitAssumption
<1>3. /\ t \in Caches(Modes, Versions) /\ Accounted(t, PreviewItems, PreviewLimit)
      /\ Held(t) \subseteq Held(c) \cup {[key |-> mode, value |-> v, size |-> size]}
  BY <1>2, InsertionIsAccounted
<1>4. d.since \in Nat /\ v \in Nat /\ refreshed \in Nat /\ d.since <= v
  BY <1>2, VersionFacts DEF RepositoryInv, VersionInv
<1>5. diffs' = [diffs EXCEPT ![i] = e] /\ Done(d.since, v)
  BY <1>1 DEF Previewed
<1> HIDE DEF t, i
<1>6. e \in DiffSessions /\ e.since = d.since /\ e.previews = t
  BY <1>1, <1>3 DEF DiffSessions
<1>7. \A x \in Held(t) : d.since <= x.value
  BY <1>1, <1>3, <1>4 DEF SessionSound
<1> HIDE DEF c, d, e
<1>8. SessionSound(e)
  BY <1>2, <1>3, <1>6, <1>7 DEF SessionSound
<1>9. DiffInv'
  BY <1>1, <1>5, <1>6, <1>8 DEF RepositoryInv, DiffInv, SessionSound
<1>10. ~stale' /\ op' = NoOp
  BY <1>4, <1>5, DoneFresh DEF RepositoryInv
<1>11. OpInv'
  BY <1>10, Frames, OverSound DEF RepositoryInv
<1> QED BY <1>9, <1>10, <1>11

\* A hit in the patches of the repository.
LEMMA PatchHitKeeps ==
  ASSUME PatchInv, op.range \in Keys(patches), patches' = Touched(patches, op.range), UNCHANGED refreshed
  PROVE  PatchInv' /\ Entry(patches, op.range).value.at \in Versions
         /\ refreshed <= Entry(patches, op.range).value.at
<1>1. /\ patches \in Caches(Ranges, Patches) /\ Accounted(patches, PatchItems, PatchLimit)
      /\ PatchItems \in Nat /\ PatchLimit \in Nat
  BY LimitAssumption DEF PatchInv, LimitAssumption
<1>2. /\ patches' \in Caches(Ranges, Patches) /\ Accounted(patches', PatchItems, PatchLimit)
      /\ Held(patches') \subseteq Held(patches)
  BY <1>1, TouchedKeeps
<1>3. Entry(patches, op.range) \in Held(patches) /\ Entry(patches, op.range) \in Entries(Ranges, Patches)
  BY <1>1, PlaceFacts
<1> QED BY <1>2, <1>3 DEF PatchInv, Entries, Patches

\* The patch of one file, from the whole patch or from a command of its own.
LEMMA FilePatchKeeps ==
  ASSUME RepositoryInv, CommandTypeOK,
         ReadUnversioned \/ PatchRetained \/ PatchTooLarge \/ AskFilePatch \/ FilePatchAnswered
  PROVE  RepositoryInv'
<1> USE DEF RepositoryInv
<1>0. op.step = "file" /\ op.kind = "patch" /\ op.range \in Ranges /\ op.kind \in Modes
      /\ UNCHANGED <<edits, refreshed, status, summary, sources>>
  BY DEF ReadUnversioned, PatchRetained, PatchTooLarge, AskFilePatch, FilePatchAnswered, At,
         OpInv, StepInv, Modes, cacheVars
<1>1. VersionInv' /\ AnswerInv' /\ SourceInv'
  BY <1>0, Frames
<1>2. CASE ReadUnversioned
  <2>1. op.file = "unversioned" /\ PatchShown(edits) /\ UNCHANGED <<patches, command>>
    BY <1>2 DEF ReadUnversioned, cacheVars
  <2>2. \A s \in Sides : command'[s].state = "idle"
    BY <1>0, <2>1, BothSides, OneCommand DEF OpInv, SideInv, AskedInv
  <2>3. edits \in Versions /\ refreshed <= edits
    BY DEF VersionInv
  <2>4. Previewed("patch", edits, 1) /\ "patch" \in Modes
    BY <2>1 DEF PatchShown, Modes
  <2>5. OpInv' /\ DiffInv' /\ ~stale'
    BY <1>0, <2>2, <2>3, <2>4, PreviewedKeeps
  <2> QED BY <1>0, <1>1, <2>1, <2>5, Frames
<1>3. CASE PatchRetained
  <2> DEFINE v == Entry(patches, op.range).value.at
  <2>1. /\ Quiet /\ op.range \in Keys(patches) /\ patches' = Touched(patches, op.range)
        /\ PatchShown(v) /\ UNCHANGED command
    BY <1>3 DEF PatchRetained
  <2>2. PatchInv' /\ v \in Versions /\ refreshed <= v
    BY <1>0, <2>1, PatchHitKeeps
  <2>3. \A s \in Sides : command'[s].state = "idle"
    BY <2>1 DEF Quiet
  <2> HIDE DEF v
  <2>4. Previewed("patch", v, 1) /\ "patch" \in Modes
    BY <2>1 DEF PatchShown, Modes
  <2>5. OpInv' /\ DiffInv' /\ ~stale'
    BY <1>0, <2>2, <2>3, <2>4, PreviewedKeeps
  <2> QED BY <1>1, <2>2, <2>5
<1>4. CASE PatchTooLarge
  <2>1. /\ Quiet /\ op.range \in Keys(patches) /\ patches' = Touched(patches, op.range)
        /\ op' = NoOp /\ UNCHANGED <<stale, diffs, command>>
    BY <1>4 DEF PatchTooLarge
  <2>2. PatchInv' /\ DiffInv'
    BY <1>0, <2>1, PatchHitKeeps, Frames
  <2>3. OpInv'
    BY <1>1, <2>1, OverSound DEF Quiet
  <2> QED BY <1>1, <2>1, <2>2, <2>3
<1>5. CASE AskFilePatch
  <2>1. /\ op.file # "unversioned" /\ Ask("old") /\ UNCHANGED diffs
        /\ patches' = IF op.range \in Keys(patches) THEN Touched(patches, op.range) ELSE patches
    BY <1>5 DEF AskFilePatch
  <2>2. PatchInv'
    BY <1>0, <2>1, PatchHitKeeps, Frames
  <2>3. OpInv'
    BY <1>0, <2>1, BothSides, AskKeeps
  <2>4. ~stale' /\ DiffInv'
    BY <1>0, <2>1, Frames DEF Ask
  <2> QED BY <1>1, <2>2, <2>3, <2>4
<1>6. CASE FilePatchAnswered
  <2>1. PICK v \in Read(ReadsWorking(op.range)) : PatchShown(v)
    BY <1>6 DEF FilePatchAnswered
  <2>2. Answered("old") /\ UNCHANGED patches
    BY <1>6 DEF FilePatchAnswered, cacheVars
  <2>3. v \in Versions /\ refreshed <= v
    <3>1. ReadsWorking(op.range) \in BOOLEAN
      BY DEF ReadsWorking
    <3> QED BY <2>1, <2>2, <3>1, BothSides, AnsweredFacts, ReadFacts
  <2>4. \A s \in Sides : command'[s].state = "idle"
    BY <1>0, <2>2, AnsweredLast
  <2>5. Previewed("patch", v, 1) /\ "patch" \in Modes
    BY <2>1 DEF PatchShown, Modes
  <2>6. OpInv' /\ DiffInv' /\ ~stale'
    BY <1>0, <2>3, <2>4, <2>5, PreviewedKeeps
  <2> QED BY <1>0, <1>1, <2>2, <2>6, Frames
<1> QED BY <1>2, <1>3, <1>4, <1>5, <1>6

\* Every step of a preview.
LEMMA PreviewKeeps ==
  ASSUME RepositoryInv, CommandTypeOK, Preview
  PROVE  RepositoryInv'
<1>1. CASE PreviewReady
  <2> USE DEF RepositoryInv
  <2>1. /\ op.step = "sides" /\ \A s \in Sides : op.side[s] = "done"
        /\ Previewed("full", op.oldest, op.size)
        /\ UNCHANGED <<edits, refreshed, cacheVars, command>>
    BY <1>1 DEF PreviewReady, At
  <2>2. op.kind = "full" /\ "full" \in Modes /\ op.oldest \in Versions /\ op.size \in Nat
        /\ refreshed <= op.oldest
    BY <2>1 DEF OpInv, StepInv, FreshInv, Ops, Modes
  <2>3. \A s \in Sides : command'[s].state = "idle"
    BY <2>1 DEF OpInv, SideInv
  <2>4. OpInv' /\ DiffInv' /\ ~stale'
    BY <2>1, <2>2, <2>3, PreviewedKeeps
  <2> QED BY <2>1, <2>4, Frames DEF cacheVars
<1> QED BY <1>1, ReadSideKeeps, SideAnsweredKeeps, FilePatchKeeps DEF Preview

-----------------------------------------------------------------------------
(* Every step *)

\* An operation that fails drops what still runs, and remembers nothing.
LEMMA FailureKeeps ==
  ASSUME RepositoryInv, OperationFails
  PROVE  RepositoryInv'
<1> USE DEF RepositoryInv
<1>1. Release(Sides) /\ op' = NoOp /\ UNCHANGED <<stale, edits, refreshed, cacheVars, diffs>>
  BY DEF OperationFails
<1>2. \A s \in Sides : command'[s].state = "idle"
  BY <1>1 DEF Release, Dropped, Rest
<1>3. VersionInv' /\ AnswerInv' /\ PatchInv' /\ SourceInv' /\ DiffInv'
  BY <1>1, Frames DEF cacheVars
<1> QED BY <1>1, <1>2, <1>3, OverSound

\* What the operation can see of a command that goes on is that it is there.
LEMMA CommandKeeps ==
  ASSUME RepositoryInv, CommandTypeOK, NEW s \in Sides, Command(s)
  PROVE  RepositoryInv'
<1> USE DEF RepositoryInv
<1>1. UNCHANGED <<edits, refreshed, cacheVars, diffs, op, stale>> /\ CommandStep(s)
  BY DEF Command
<1>2. command \in [Sides -> Commands]
  BY DEF CommandTypeOK
<1>3. \A u \in Sides : command'[u].state = "idle" <=> command[u].state = "idle"
  <2>1. CASE ChildWrites(s)
    BY <1>2, <2>1 DEF ChildWrites, Commands
  <2>2. CASE ChildExits(s)
    <3>1. PICK g \in BOOLEAN, h \in BOOLEAN :
            command' = [command EXCEPT ![s] = [command[s] EXCEPT !.child = "exited", !.good = g, !.held = h]]
      BY <1>2, <2>2 DEF ChildExits
    <3> DEFINE r == [command[s] EXCEPT !.child = "exited", !.good = g, !.held = h]
    <3>2. r.state = command[s].state
      BY <1>2 DEF Commands
    <3> HIDE DEF r
    <3> QED BY <1>2, <3>1, <3>2 DEF r
  <2>3. CASE HolderLeaves(s)
    BY <1>2, <2>3 DEF HolderLeaves, Commands
  <2>4. CASE Runner(s)
    BY <1>2, <2>4 DEF Runner, ReadPiece, StderrTooLarge, TimeLimit, Terminate, Answer, Doomed, Failed,
                      Rest, Commands
  <2> QED BY <1>1, <2>1, <2>2, <2>3, <2>4 DEF CommandStep, Svn
<1>4. VersionInv' /\ AnswerInv' /\ PatchInv' /\ SourceInv' /\ DiffInv'
  BY <1>1, Frames DEF cacheVars
<1>5. OpInv'
  BY <1>1, <1>3 DEF OpInv, SideInv, StepInv, AskedInv, FreshInv, Source, cacheVars
<1> QED BY <1>1, <1>4, <1>5

\* The user saves a file.
LEMMA EditKeeps ==
  ASSUME RepositoryInv, Edit
  PROVE  RepositoryInv'
<1> USE DEF RepositoryInv
<1>1. edits < MaxEdits /\ edits' = edits + 1
      /\ UNCHANGED <<refreshed, cacheVars, diffs, op, stale, command>>
  BY DEF Edit
<1>2. VersionInv'
  BY <1>1, VersionFacts DEF VersionInv, Versions
<1>3. AnswerInv' /\ PatchInv' /\ SourceInv' /\ DiffInv'
  BY <1>1, Frames DEF cacheVars
<1>4. OpInv'
  BY <1>1 DEF OpInv, SideInv, StepInv, AskedInv, FreshInv, Source, cacheVars
<1> QED BY <1>1, <1>2, <1>3, <1>4

\* In the beginning nothing is remembered.
LEMMA InitRemembersNothing ==
  ASSUME Init
  PROVE  RepositoryInv
<1>1. VersionInv
  BY VersionFacts DEF Init, VersionInv
<1>2. AnswerInv
  BY DEF Init, AnswerInv
<1>3. PatchInv /\ SourceInv
  BY EmptySound, LimitAssumption DEF Init, PatchInv, SourceInv, LimitAssumption
<1>4. DiffInv
  BY DEF Init, DiffInv
<1>5. op = NoOp /\ ~stale /\ \A s \in Sides : command[s].state = "idle"
  BY DEF Init, CommandInit, Rest
<1>6. refreshed = 0 /\ refreshed <= Timeless
  BY VersionFacts DEF Init
<1>7. OpInv
  BY <1>5, <1>6, NoOpFacts, BothSides DEF OpInv, SideInv, StepInv, AskedInv, FreshInv, Modes
<1> QED BY <1>1, <1>2, <1>3, <1>4, <1>5, <1>7 DEF RepositoryInv

\* Every step keeps what the working copy remembers sound.
LEMMA StepRemembers ==
  ASSUME RepositoryInv, CommandTypeOK, [Next]_vars
  PROVE  RepositoryInv'
<1>1. CASE UNCHANGED vars
  BY <1>1 DEF vars, cacheVars, RepositoryInv, VersionInv, AnswerInv, PatchInv, SourceInv, DiffInv,
              SessionSound, OpInv, SideInv, StepInv, AskedInv, FreshInv, Source
<1>2. CASE Next
  BY <1>2, EditKeeps, RequestKeeps, OverviewKeeps, ComparisonKeeps, PreviewKeeps, FailureKeeps,
     CommandKeeps DEF Next, Operation
<1> QED BY <1>1, <1>2

-----------------------------------------------------------------------------
(* What the working copy remembers, at all times *)

\* The inductive invariant, for all limits, all ranges and kinds of files, and all commands.
THEOREM RepositorySound == Spec => []RepositoryInv
<1>1. Spec => []CommandTypeOK
  BY UsesCommands, CommandTypeCorrect, PTL
<1>2. Init => RepositoryInv
  BY InitRemembersNothing
<1>3. RepositoryInv /\ CommandTypeOK /\ [Next]_vars => RepositoryInv'
  BY StepRemembers
<1> QED BY <1>1, <1>2, <1>3, PTL DEF Spec

\* The running total of every cache is the sum of its entries and both limits are kept, through
\* hits, insertions, evictions and refreshes (PreviewCache, SourceCache, SvnPatchCache).
THEOREM CachesStayAccounted == Spec => []CachesAccounted
<1>1. RepositoryInv => CachesAccounted
  <2> SUFFICES ASSUME RepositoryInv PROVE CachesAccounted
    OBVIOUS
  <2>1. Accounted(sources, SourceItems, SourceLimit) /\ Accounted(patches, PatchItems, PatchLimit)
    BY DEF RepositoryInv, SourceInv, PatchInv
  <2>2. DOMAIN diffs = 1 .. Len(diffs) /\ \A i \in 1 .. Len(diffs) : SessionSound(diffs[i])
    BY DEF RepositoryInv, DiffInv
  <2>3. \A i \in DOMAIN diffs : Accounted(diffs[i].previews, PreviewItems, PreviewLimit)
    BY <2>2 DEF SessionSound
  <2> QED BY <2>1, <2>3 DEF CachesAccounted
<1> QED BY <1>1, RepositorySound, PTL

\* The page is never shown what is older than the refresh its overview or its diff follows
\* (invalidate_status_cache, clear_working).
THEOREM ShownAfterRefresh == Spec => []FreshAfterRefresh
<1>1. RepositoryInv => FreshAfterRefresh
  BY DEF RepositoryInv, FreshAfterRefresh
<1> QED BY <1>1, RepositorySound, PTL
=============================================================================
