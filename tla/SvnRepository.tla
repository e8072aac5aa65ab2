---------------------------- MODULE SvnRepository ----------------------------
(***************************************************************************)
(* A Subversion working copy in the version control Bridge                 *)
(* (svn_repository.rs): what it remembers of it, the diff sessions, and    *)
(* the operations that fill the caches with the answers of svn commands.   *)
(*                                                                         *)
(* The registry is locked for a whole operation, so one runs at a time;    *)
(* the user edits the working copy meanwhile.  The working copy is its     *)
(* version; everything read of it carries the version that was read, and   *)
(* what is read of numbered revisions never grows old.                     *)
(***************************************************************************)
EXTENDS SvnCommand, LruCache, Integers, FiniteSets

CONSTANTS
    Ranges,          \* revision pairs the page compares, of OldSource
    Kinds,           \* of the one file: "changed", "unversioned", "deleted"
    MaxEdits,        \* bound: edits of the working copy
    SourceItems, SourceLimit,   \* SOURCE_CACHE_MAX_ITEMS, _LIMIT
    PatchItems, PatchLimit,     \* PATCH_CACHE_MAX_ITEMS, _LIMIT
    PreviewItems, PreviewLimit, \* PREVIEW_CACHE_MAX_ITEMS, _LIMIT
    MaxDiffSessions  \* diff sessions the registry keeps

\* The base against the working copy, an older revision against it, and two revisions.
OldSource == [local |-> "r2", since |-> "r1", span |-> "r1"]
NewSource == [local |-> "working", since |-> "working", span |-> "r2"]
ReadsWorking(r) == NewSource[r] = "working"

ASSUME RangeAssumption == Ranges \subseteq DOMAIN OldSource
ASSUME KindAssumption == Kinds \subseteq {"changed", "unversioned", "deleted"}
ASSUME LimitAssumption ==
    /\ MaxEdits \in Nat
    /\ {SourceItems, PatchItems, PreviewItems, MaxDiffSessions} \subseteq Nat \ {0}
    /\ {SourceLimit, PatchLimit, PreviewLimit} \subseteq Nat

Versions == 0 .. MaxEdits
Timeless == MaxEdits \* counts as the newest
Older(a, b) == IF a < b THEN a ELSE b

VARIABLES
    edits,     \* the version of the working copy
    refreshed, \* its version when the caches were last cleared
    status,    \* status_cache, at most one answer
    summary,   \* diff_summary_cache, at most one answer of every range
    patches,   \* patch_cache
    sources,   \* source_cache
    diffs,     \* the diff sessions, oldest first
    op,        \* the operation under way, see Operations
    stale      \* has a reply shown what is older than the refresh it follows

cacheVars == <<status, summary, patches, sources>>
vars == <<edits, refreshed, cacheVars, diffs, op, stale, command>>

\* diff: the session of a preview; began: the version when its command was started; oldest: the
\* oldest version it has used; side: what try_join has done of either side.
Operations ==
    [kind   : {"none", "overview", "connect", "open", "full", "patch"},
     step   : {"none", "head", "status", "summary", "patch", "file", "sides"},
     range  : Ranges, file : Kinds, diff : 0 .. MaxDiffSessions,
     began  : Versions, oldest : Versions, size : Nat,
     side   : [Sides -> {"todo", "asked", "done"}]]

NoOp == [kind |-> "none", step |-> "none", range |-> CHOOSE r \in Ranges : TRUE,
         file |-> CHOOSE k \in Kinds : TRUE, diff |-> 0, began |-> 0, oldest |-> Timeless,
         size |-> 0, side |-> [s \in Sides |-> "todo"]]

Init ==
    /\ edits = 0 /\ refreshed = 0
    /\ status = {} /\ summary = [r \in Ranges |-> {}]
    /\ patches = EmptyCache /\ sources = EmptyCache
    /\ diffs = <<>>
    /\ op = NoOp /\ stale = FALSE
    /\ CommandInit

-----------------------------------------------------------------------------
(* Parts of the operations *)

Quiet == \A s \in Sides : command[s].state = "idle"
At(step) == op.step = step
Begin(record) == op.kind = "none" /\ op' = record /\ UNCHANGED stale

\* The reply follows a refresh at version since, and the oldest thing it shows is of another.
Done(since, oldest) == op' = NoOp /\ stale' = (stale \/ oldest < since)

\* A command of the operation: started, answered with what it read meanwhile, or failed.
Ask(s) ==
    /\ Launch(s) \/ SpawnFails(s)
    /\ op' = [op EXCEPT !.began = edits, !.side[s] = "asked"]
    /\ UNCHANGED stale
Answered(s) == command[s].state = "ok" /\ Release({s})
Read(timely) == IF timely THEN op.began .. edits ELSE {Timeless}
Used(v) == [op EXCEPT !.oldest = Older(@, v), !.side["old"] = "todo"]

\* What a side of the file is read from.
Source(s) ==
    IF s = "old" THEN IF op.file = "unversioned" THEN "empty" ELSE OldSource[op.range]
                 ELSE IF op.file = "deleted" THEN "empty" ELSE NewSource[op.range]

\* Any error ends the operation and drops what still runs; so does an answer that does not parse
\* and a file that turns out binary.
OperationFails ==
    /\ op.kind # "none"
    /\ \/ \E s \in Sides : command[s].state \in {"failed", "ok"}
       \/ /\ At("sides") /\ op.side["old"] # "todo"
          /\ \E s \in Sides : op.side[s] = "done" \/ Source(s) = "working"
       \/ At("file") /\ op.file = "unversioned"
    /\ Release(Sides)
    /\ op' = NoOp
    /\ UNCHANGED <<stale, edits, refreshed, cacheVars, diffs>>

\* overview and connect_history end with the status; open_diff goes on with the summary.
AfterStatus(v) ==
    IF op.kind = "open" THEN op' = [Used(v) EXCEPT !.step = "summary"] /\ UNCHANGED stale
                        ELSE Done(refreshed, v)

\* open_diff: a new session, and the oldest one leaves.
Opened(v) ==
    LET all == Append(diffs, [range |-> op.range, file |-> op.file, since |-> refreshed,
                              previews |-> EmptyCache])
    IN  /\ diffs' = SubSeq(all, IF Len(all) > MaxDiffSessions THEN 2 ELSE 1, Len(all))
        /\ Done(refreshed, Older(op.oldest, v))

\* A preview is shown, and kept by its session.
Previewed(mode, v, n) ==
    /\ diffs' = [diffs EXCEPT ![op.diff].previews =
                    Inserted(@, mode, v, n, PreviewItems, PreviewLimit)]
    /\ Done(diffs[op.diff].since, v)

-----------------------------------------------------------------------------
(* The user *)

Edit ==
    /\ edits < MaxEdits /\ edits' = edits + 1
    /\ UNCHANGED <<refreshed, cacheVars, diffs, op, stale, command>>

-----------------------------------------------------------------------------
(* overview, refresh, connect_history *)

BeginOverview ==
    /\ Begin([NoOp EXCEPT !.kind = "overview", !.step = "status"])
    /\ UNCHANGED <<edits, refreshed, cacheVars, diffs, command>>

\* invalidate_status_cache; entries of numbered revisions stay.  The mutant forgets the sources.
InvalidateAnswers ==
    /\ status' = {} /\ summary' = [r \in Ranges |-> {}] /\ patches' = EmptyCache
    /\ sources' = sources
Invalidate ==
    /\ status' = {} /\ summary' = [r \in Ranges |-> {}] /\ patches' = EmptyCache
    /\ sources' = Purged(sources, "working")

Refresh ==
    /\ Begin([NoOp EXCEPT !.kind = "overview", !.step = "status"])
    /\ Invalidate
    /\ refreshed' = edits
    /\ UNCHANGED <<edits, diffs, command>>

\* The user has agreed to the connection.
ConnectHistory ==
    /\ Begin([NoOp EXCEPT !.kind = "connect", !.step = "head"])
    /\ UNCHANGED <<edits, refreshed, cacheVars, diffs, command>>

AskHead ==
    /\ At("head") /\ Quiet /\ Ask("old")
    /\ UNCHANGED <<edits, refreshed, cacheVars, diffs>>
HeadAnswered ==
    /\ At("head") /\ Answered("old")
    /\ op' = [Used(Timeless) EXCEPT !.step = "status"]
    /\ UNCHANGED <<edits, refreshed, cacheVars, diffs, stale>>

\* status
StatusCached ==
    /\ At("status") /\ \E v \in status : AfterStatus(v)
    /\ UNCHANGED <<edits, refreshed, cacheVars, diffs, command>>
AskStatus ==
    /\ At("status") /\ status = {} /\ Quiet /\ Ask("old")
    /\ UNCHANGED <<edits, refreshed, cacheVars, diffs>>
StatusAnswered ==
    /\ At("status") /\ Answered("old")
    /\ \E v \in Read(TRUE) : status' = {v} /\ AfterStatus(v)
    /\ UNCHANGED <<edits, refreshed, summary, patches, sources, diffs>>

-----------------------------------------------------------------------------
(* open_diff *)

OpenDiff(r, k) ==
    /\ k = "unversioned" => ReadsWorking(r)
    /\ Begin([NoOp EXCEPT !.kind = "open", !.range = r, !.file = k,
                          !.step = IF ReadsWorking(r) THEN "status" ELSE "summary"])
    /\ UNCHANGED <<edits, refreshed, cacheVars, diffs, command>>

\* diff_summary
AfterSummary(v) == op' = [Used(v) EXCEPT !.step = "patch"] /\ UNCHANGED stale
SummaryCached ==
    /\ At("summary") /\ \E v \in summary[op.range] : AfterSummary(v)
    /\ UNCHANGED <<edits, refreshed, cacheVars, diffs, command>>
AskSummary ==
    /\ At("summary") /\ summary[op.range] = {} /\ Quiet /\ Ask("old")
    /\ UNCHANGED <<edits, refreshed, cacheVars, diffs>>
SummaryAnswered ==
    /\ At("summary") /\ Answered("old")
    /\ \E v \in Read(ReadsWorking(op.range)) :
        summary' = [summary EXCEPT ![op.range] = {v}] /\ AfterSummary(v)
    /\ UNCHANGED <<edits, refreshed, status, patches, sources, diffs>>

\* load_patch: the parser keeps the body of a file, or leaves it to a later command, or finds it
\* too large.
PatchCached ==
    /\ At("patch") /\ op.range \in Keys(patches)
    /\ patches' = Touched(patches, op.range)
    /\ Opened(Entry(patches, op.range).value.at)
    /\ UNCHANGED <<edits, refreshed, status, summary, sources, command>>
AskPatch ==
    /\ At("patch") /\ op.range \notin Keys(patches) /\ Quiet /\ Ask("old")
    /\ UNCHANGED <<edits, refreshed, cacheVars, diffs>>
PatchAnswered ==
    /\ At("patch") /\ Answered("old")
    /\ \E v \in Read(ReadsWorking(op.range)), body \in {"retained", "deferred", "large"} :
        /\ patches' = Inserted(patches, op.range, [at |-> v, body |-> body],
                               IF body = "retained" THEN 1 ELSE 0, PatchItems, PatchLimit)
        /\ Opened(v)
    /\ UNCHANGED <<edits, refreshed, status, summary, sources>>

-----------------------------------------------------------------------------
(* preview: both sides at once *)

\* The file grows by a unit with every edit.
Size(src, v) == CASE src = "empty" -> 0 [] src = "working" -> 1 + v [] OTHER -> 1

PreviewCached(i, mode) ==
    /\ op.kind = "none" /\ mode \in Keys(diffs[i].previews)
    /\ diffs' = [diffs EXCEPT ![i].previews = Touched(@, mode)]
    /\ Done(diffs[i].since, Entry(diffs[i].previews, mode).value)
    /\ UNCHANGED <<edits, refreshed, cacheVars, command>>

BeginPreview(i, mode) ==
    /\ mode \notin Keys(diffs[i].previews)
    /\ Begin([NoOp EXCEPT !.kind = mode, !.step = IF mode = "full" THEN "sides" ELSE "file",
                          !.range = diffs[i].range, !.file = diffs[i].file, !.diff = i])
    /\ UNCHANGED <<edits, refreshed, cacheVars, diffs, command>>

SideDone(s, v) ==
    op' = [op EXCEPT !.oldest = Older(@, v), !.size = @ + Size(Source(s), v), !.side[s] = "done"]
Remember(src, v) ==
    sources' = Inserted(sources, src, v, Size(src, v), SourceItems, SourceLimit)

\* read_source, up to the command; the sides are polled in order.
ReadSide(s) ==
    /\ At("sides") /\ op.side[s] = "todo"
    /\ s = "new" => op.side["old"] # "todo"
    /\ LET src == Source(s) IN
        \/ /\ src = "empty"
           /\ SideDone(s, Timeless) /\ UNCHANGED <<sources, command, stale>>
        \/ /\ src \in Keys(sources)
           /\ sources' = Touched(sources, src)
           /\ SideDone(s, Entry(sources, src).value) /\ UNCHANGED <<command, stale>>
        \/ /\ src = "working" /\ src \notin Keys(sources)
           /\ Remember(src, edits)
           /\ SideDone(s, edits) /\ UNCHANGED <<command, stale>>
        \/ /\ src \notin Keys(sources) \cup {"empty", "working"}
           /\ Ask(s) /\ UNCHANGED sources
    /\ UNCHANGED <<edits, refreshed, status, summary, patches, diffs>>

SideAnswered(s) ==
    /\ At("sides") /\ Answered(s)
    /\ Remember(Source(s), Timeless)
    /\ SideDone(s, Timeless)
    /\ UNCHANGED <<edits, refreshed, status, summary, patches, diffs, stale>>

PreviewReady ==
    /\ At("sides") /\ \A s \in Sides : op.side[s] = "done"
    /\ Previewed("full", op.oldest, op.size)
    /\ UNCHANGED <<edits, refreshed, cacheVars, command>>

-----------------------------------------------------------------------------
(* patch_preview *)

\* The size of a patch is not the size of its file.
PatchShown(v) == Previewed("patch", v, 1)

ReadUnversioned ==
    /\ At("file") /\ op.file = "unversioned"
    /\ PatchShown(edits)
    /\ UNCHANGED <<edits, refreshed, cacheVars, command>>

\* read_patch: what the whole patch kept of the file, or a command for the file alone.
PatchRetained ==
    /\ At("file") /\ op.file # "unversioned" /\ Quiet
    /\ op.range \in Keys(patches) /\ Entry(patches, op.range).value.body = "retained"
    /\ patches' = Touched(patches, op.range)
    /\ PatchShown(Entry(patches, op.range).value.at)
    /\ UNCHANGED <<edits, refreshed, status, summary, sources, command>>
PatchTooLarge ==
    /\ At("file") /\ op.file # "unversioned" /\ Quiet
    /\ op.range \in Keys(patches) /\ Entry(patches, op.range).value.body = "large"
    /\ patches' = Touched(patches, op.range)
    /\ op' = NoOp
    /\ UNCHANGED <<stale, edits, refreshed, status, summary, sources, diffs, command>>
AskFilePatch ==
    /\ At("file") /\ op.file # "unversioned" /\ Quiet
    /\ op.range \in Keys(patches) => Entry(patches, op.range).value.body = "deferred"
    /\ patches' = IF op.range \in Keys(patches) THEN Touched(patches, op.range) ELSE patches
    /\ Ask("old")
    /\ UNCHANGED <<edits, refreshed, status, summary, sources, diffs>>
FilePatchAnswered ==
    /\ At("file") /\ Answered("old")
    /\ \E v \in Read(ReadsWorking(op.range)) : PatchShown(v)
    /\ UNCHANGED <<edits, refreshed, cacheVars>>

-----------------------------------------------------------------------------
Overview == AskHead \/ HeadAnswered \/ StatusCached \/ AskStatus \/ StatusAnswered
Comparison ==
    \/ SummaryCached \/ AskSummary \/ SummaryAnswered
    \/ PatchCached \/ AskPatch \/ PatchAnswered
Preview ==
    \/ \E s \in Sides : ReadSide(s) \/ SideAnswered(s)
    \/ PreviewReady
    \/ ReadUnversioned \/ PatchRetained \/ PatchTooLarge \/ AskFilePatch \/ FilePatchAnswered

\* An operation goes on.
Operation == Overview \/ Comparison \/ Preview \/ OperationFails

Command(s) == CommandStep(s) /\ UNCHANGED <<edits, refreshed, cacheVars, diffs, op, stale>>

Request ==
    \/ BeginOverview \/ Refresh \/ ConnectHistory
    \/ \E r \in Ranges, k \in Kinds : OpenDiff(r, k)
    \/ \E i \in DOMAIN diffs, mode \in {"full", "patch"} : PreviewCached(i, mode) \/ BeginPreview(i, mode)

Next == Edit \/ Request \/ Operation \/ \E s \in Sides : Command(s)

Spec == Init /\ [][Next]_vars

\* The blocking thread of an operation goes on, and the clock of its commands; svn need not.
Fairness ==
    /\ WF_vars(Operation)
    /\ CommandFairness

FairSpec == Spec /\ Fairness

-----------------------------------------------------------------------------
(* Properties *)

\* Whatever is opened, hit, evicted and cleared, every cache knows what it holds: its running
\* total is the sum of its entries, and both limits are kept (PreviewCache, SourceCache,
\* SvnPatchCache).
CachesAccounted ==
    /\ Accounted(sources, SourceItems, SourceLimit)
    /\ Accounted(patches, PatchItems, PatchLimit)
    /\ \A i \in DOMAIN diffs : Accounted(diffs[i].previews, PreviewItems, PreviewLimit)

\* What the page is shown is never older than the refresh it follows: an overview follows the last
\* one, a preview the last one before its diff was opened.  No cache outlives a refresh with what
\* the user has changed since (invalidate_status_cache, clear_working).
FreshAfterRefresh == ~stale

\* An operation ends, whatever svn does, so the lock of the registry comes back (run_command,
\* run_streaming_command).
OperationEnds == op.kind # "none" ~> op.kind = "none"
=============================================================================
