----------------------------- MODULE ResultPages -----------------------------
(***************************************************************************)
(* Lists the version control Bridge hands out in pages: the history of a   *)
(* Subversion working copy, the history of a Git repository, and the files *)
(* of a diff.  The page asks for a part with a cursor and a limit; the     *)
(* reply says where the next part begins and whether there is one.         *)
(* Subversion's cursor is a revision, and its replies have the length the  *)
(* request asks for, whether a control frame holds them or not; the others *)
(* count, and their replies are cut to what a frame holds.                 *)
(***************************************************************************)
EXTENDS Integers, Sequences, FiniteSets

CONSTANTS
    Listings,   \* of "svn", "git", "files"
    MaxEntries, \* bound: revisions, commits, files
    MaxLimit,   \* bound: the limit a request names
    PageLimit,  \* MAX_HISTORY_PAGE, MAX_FILE_PAGE
    FetchLimit, \* SVN_HISTORY_FETCH_LIMIT
    Sizes,      \* of an item in a reply
    Budget,     \* CONTROL_RESPONSE_BUDGET
    FrameLimit  \* MAX_FRAME_BYTES

ASSUME ListingAssumption == Listings \subseteq {"svn", "git", "files"}
ASSUME PageAssumption ==
    /\ {MaxEntries, MaxLimit, PageLimit, Budget} \subseteq Nat \ {0}
    /\ FetchLimit \in Nat \ {0, 1}
    /\ Sizes \subseteq Nat
    /\ FrameLimit \in Nat /\ Budget <= FrameLimit

Entries == 1 .. MaxEntries

VARIABLES
    listing,  \* what is read
    youngest, \* newest revision, last file
    relevant, \* revisions that touch the working copy, commits a reference leads to, files
    matching, \* entries that match the query
    size,     \* of every entry, in a reply
    head,     \* history_head_revision, 0 while not connected
    reader,   \* of the page: "new", "reading", "done", "failed"
    skip,     \* its cursor
    shown,    \* how often it has seen every entry
    wanted,   \* what matched when it began
    changed   \* what has become of the list since: "no", "grown", or "shrunk"

sourceVars == <<listing, youngest, relevant, matching, size, head>>
readerVars == <<reader, skip, shown, wanted, changed>>
pageVars == <<sourceVars, readerVars>>

\* What is in S up to n, in the order of the list: histories show the newest first.
Lists(kind, S) ==
    LET list[n \in 0 .. MaxEntries] ==
            IF n = 0 THEN <<>>
            ELSE IF n \notin S THEN list[n - 1]
            ELSE IF kind = "files" THEN Append(list[n - 1], n) ELSE <<n>> \o list[n - 1]
    IN  list
Ordered(S) == Lists(listing, S)[MaxEntries]
Prefix(n, q) == SubSeq(q, 1, IF n < Len(q) THEN n ELSE Len(q))
Clamp(n, low, high) == IF n < low THEN low ELSE IF n > high THEN high ELSE n

PagesInit ==
    /\ listing \in Listings
    /\ youngest \in Entries
    /\ relevant \in SUBSET Entries
    /\ listing = "git" => youngest = MaxEntries
    /\ matching \in SUBSET Entries
    /\ listing = "files" => relevant = Entries /\ matching = Entries
    /\ size \in [Entries -> Sizes]
    /\ head = 0
    /\ reader = "new" /\ skip = 0
    /\ shown = [e \in Entries |-> 0]
    /\ wanted = {} /\ changed = "no"

-----------------------------------------------------------------------------
(* The repository *)

\* Revisions are only added.
Commit ==
    /\ listing = "svn" /\ youngest < MaxEntries
    /\ youngest' = youngest + 1
    /\ UNCHANGED <<listing, relevant, matching, size, head, readerVars>>

\* References of the Git repository move: a commit, a fetch or a stash lets the walk meet more
\* commits, a reset, a deleted branch or a popped stash fewer.  Commits are numbered in the
\* order of the walk; one that changes its place disappears and appears.
Appears(e) ==
    /\ listing = "git" /\ e \notin relevant
    /\ relevant' = relevant \cup {e}
    /\ changed' = IF changed = "no" THEN "grown" ELSE changed
    /\ UNCHANGED <<listing, youngest, matching, size, head, reader, skip, shown, wanted>>

Disappears(e) ==
    /\ listing = "git" /\ e \in relevant
    /\ relevant' = relevant \ {e}
    /\ changed' = "shrunk"
    /\ UNCHANGED <<listing, youngest, matching, size, head, reader, skip, shown, wanted>>

\* connect_history asks for the newest revision once; the page may ask again.
ConnectHistory ==
    /\ listing = "svn" /\ head # youngest
    /\ head' = youngest
    /\ UNCHANGED <<listing, youngest, relevant, matching, size, readerVars>>

Listed == relevant \cap 1 .. (IF listing = "svn" THEN head ELSE youngest)

\* The page begins a list.
Open ==
    /\ reader # "reading"
    /\ reader' = "reading" /\ skip' = 0
    /\ shown' = [e \in Entries |-> 0]
    /\ wanted' = Listed \cap matching
    /\ changed' = "no"
    /\ UNCHANGED sourceVars

\* The page is handed those of the items that are in S.
Shows(items, S) ==
    shown' = [e \in Entries |->
                shown[e] + Cardinality({i \in DOMAIN items : items[i] = e /\ e \in S})]
\* The size of every beginning of a reply with those of the items that are in S.
SizeUpTo(items, S) ==
    LET sum[n \in 0 .. Len(items)] ==
            IF n = 0 THEN 0 ELSE sum[n - 1] + (IF items[n] \in S THEN size[items[n]] ELSE 0)
    IN  sum
Turn(next, more) == skip' = next /\ reader' = IF more THEN "reading" ELSE "done"

-----------------------------------------------------------------------------
(* Subversion: history *)

\* Without a connection there is no history.
NotConnected ==
    /\ reader = "reading" /\ listing = "svn" /\ head = 0
    /\ Turn(skip, FALSE)
    /\ UNCHANGED <<sourceVars, shown, wanted, changed>>

\* svn log from the cursor down, one entry more than the page takes.
Log(n) == Prefix(n + 1, Ordered(relevant \cap 1 .. (IF skip = 0 THEN head ELSE skip)))

\* The next cursor lies below the last entry.
CursorBelow(page) == IF page = <<>> THEN 0 ELSE page[Len(page)] - 1

\* The session ends, and the repository with its history_head_revision goes with it.
SessionEnds == reader' = "failed" /\ head' = 0 /\ UNCHANGED <<skip, shown>>

\* The page is not cut: write_frame refuses a reply that is too large, and that error ends the
\* session.
SvnPage(limit) ==
    LET n     == Clamp(limit, 1, FetchLimit - 1)
        page  == Prefix(n, Log(n))
        next  == CursorBelow(page)
    IN  /\ reader = "reading" /\ listing = "svn" /\ head # 0
        /\ IF SizeUpTo(page, matching)[Len(page)] > FrameLimit
             THEN SessionEnds
             ELSE /\ Shows(page, matching)
                  /\ Turn(next, Len(Log(n)) > n /\ next > 0)
                  /\ UNCHANGED head
        /\ UNCHANGED <<listing, youngest, relevant, matching, size, wanted, changed>>

-----------------------------------------------------------------------------
(* bounded_page *)

Fits(items, n) == SizeUpTo(items, Entries)[n] <= Budget

\* The bisection: low fits, high + 1 does not, until they meet.
Halved(items, range) ==
    LET middle == range.low + (range.high - range.low + 1) \div 2
    IN  IF range.low >= range.high THEN range
        ELSE IF Fits(items, middle) THEN [range EXCEPT !.low = middle]
                                    ELSE [range EXCEPT !.high = middle - 1]
Bisection(items) ==
    LET range[n \in 0 .. Len(items)] ==
            IF n = 0 THEN [low |-> 1, high |-> Len(items) - 1] ELSE Halved(items, range[n - 1])
    IN  range
Longest(items) == Bisection(items)[Len(items)].low

\* fit_page_prefix: everything, or the longest part that fits, or nothing if the first item alone
\* is too large, which is an error.  The mutant hands out an empty page instead.
FitAtAnyPrice(items) ==
    IF Fits(items, Len(items)) THEN Len(items)
    ELSE IF ~Fits(items, 1) THEN 0 ELSE Longest(items)
Fit(items) ==
    IF Fits(items, Len(items)) THEN Len(items)
    ELSE IF ~Fits(items, 1) THEN -1 ELSE Longest(items)

\* The part that fits, with more to come when it is a part or when there was more before.  The
\* mutant forgets that the page was cut.
CutPage(items, further) ==
    LET keep == Fit(items)
    IN  IF keep = -1
          THEN reader' = "failed" /\ UNCHANGED <<skip, shown>>
          ELSE Shows(Prefix(keep, items), Entries) /\ Turn(skip + keep, further)
BoundedPage(items, further) ==
    LET keep == Fit(items)
    IN  IF keep = -1
          THEN reader' = "failed" /\ UNCHANGED <<skip, shown>>
          ELSE /\ Shows(Prefix(keep, items), Entries)
               /\ Turn(skip + keep, further \/ keep < Len(items))

\* Git: the walk skips what matched before the cursor; one commit more than the page takes says
\* whether there is more.
GitPage(limit) ==
    LET n    == Clamp(limit, 1, PageLimit)
        walk == Ordered(Listed \cap matching)
        read == Prefix(n + 1, SubSeq(walk, skip + 1, Len(walk)))
    IN  /\ reader = "reading" /\ listing = "git"
        /\ BoundedPage(Prefix(n, read), Len(read) > n)
        /\ UNCHANGED <<sourceVars, wanted, changed>>

\* diff_files
FilesPage(limit) ==
    LET n   == Clamp(limit, 1, PageLimit)
        all == Ordered(Listed)
    IN  /\ reader = "reading" /\ listing = "files"
        /\ LET items == Prefix(n, SubSeq(all, skip + 1, Len(all)))
           IN  BoundedPage(items, skip + Len(items) < Len(all))
        /\ UNCHANGED <<sourceVars, wanted, changed>>

-----------------------------------------------------------------------------
Page(limit) == SvnPage(limit) \/ GitPage(limit) \/ FilesPage(limit)
Request == NotConnected \/ \E limit \in 0 .. MaxLimit : Page(limit)

PagesNext ==
    \/ Commit \/ ConnectHistory \/ Open \/ Request
    \/ \E e \in Entries : Appears(e) \/ Disappears(e)

PagesSpec == PagesInit /\ [][PagesNext]_pageVars
\* The page goes on asking while there is more.
FairPages == PagesSpec /\ WF_pageVars(Request)

-----------------------------------------------------------------------------
(* Properties *)

PagesTypeOK ==
    /\ listing \in Listings
    /\ youngest \in Entries /\ relevant \subseteq Entries /\ matching \subseteq Entries
    /\ size \in [Entries -> Sizes]
    /\ head \in 0 .. MaxEntries
    /\ reader \in {"new", "reading", "done", "failed"}
    /\ skip \in Nat /\ shown \in [Entries -> Nat]
    /\ wanted \subseteq Entries /\ changed \in {"no", "grown", "shrunk"}

NothingMissed == reader = "done" /\ changed # "shrunk" => \A e \in wanted : shown[e] > 0
NothingTwice == changed = "no" => \A e \in Entries : shown[e] <= 1

\* Whatever limits the page names and wherever a reply is cut: who follows the cursor to the end
\* has seen everything that matched when he began, and nothing twice.  In the history of
\* Subversion also while revisions arrive.  A count of commits skips some once commits have
\* disappeared before it and repeats some once others have appeared, so for Git the first holds
\* unless something has disappeared, the second while nothing has changed
\* (SvnRepository::history, RepositoryReader::history, bounded_page).
EachShownOnce == NothingMissed /\ NothingTwice

\* Who follows the cursor comes to an end, or to an item no frame can hold (fit_page_prefix).
ReadingEnds == reader = "reading" ~> reader # "reading"
=============================================================================
