# WinriseF Agent: a TLA+ verification project

WinriseF Agent is a local helper program that a web page starts through a
launch URL. It runs one QUIC server and one LNA HTTP listener, talks to the page over one *Bridge* (a WebTransport session with a
command stream), and moves data over two *planes*: LNA HTTP requests and
WebTransport connections. This directory holds TLA+ modules translated from its
Rust source, the TLC instances that check them, and TLAPS proofs about them.
Paths below are relative to `src/`; `agent/` stands for
`crates/winrisef-agent/src/`, `core/` for `crates/winrisef-core/src/`.

## 1. Inventory

| Component | Source | State it keeps | Operations | Talks to |
|---|---|---|---|---|
| File transfer manager | `agent/file_transfer.rs`, `agent/file_transfer/positional_io.rs` | `ManagerInner` (slot `active`, registry `selected`); per transfer the `ActiveTransfer` (resource, tokens, `cancelled`, last activity) and its `SegmentTracker` | select, release, create send, prepare receive, begin/commit/drop a lease, begin connection, complete, finish, cancel, fail, cancel_all | called by Bridge, both planes, shutdown; publishes events to the Bridge |
| Transfer over LNA HTTP | `agent/file_http.rs` | a six-permit semaphore, one blocking worker per request | GET/PUT segment, POST complete | manager, buffer pool |
| Transfer over WebTransport | `agent/file_webtransport.rs` | lanes of a connection in a `JoinSet` | authenticate, extents, payload-complete, `complete` | manager, buffer pool |
| Bridge session | `agent/bridge.rs` | one task: the half-read frame, a broadcast receiver, `endpoint_snapshot` | commands, events, endpoint changes, close | manager, tickets, endpoint watcher |
| QUIC server, launch life cycle | `agent/server.rs`, `agent/main.rs`, `agent/bootstrap.rs`, `agent/cli.rs` | connection counters, accept loop | accept, route, launch timeout, shutdown | every session |
| Launch token and tickets | `agent/auth.rs` | launch token state, at most 64 pending tickets | consume launch token, issue and consume ticket | Bridge, LNA, benchmark |
| Launch, public IPv6 firewall | `agent/launch.rs`, `agent/firewall.rs` | the answer to the one request for rules | look at the network, ask for rules once, set the policy | endpoint policy, endpoint watcher |
| Endpoint publication | `agent/network_endpoints.rs` | the policy: state of the public IPv6 endpoints | discover, watch, set, publish | Bridge, firewall |
| LNA listener | `agent/lna_http.rs` | connection permits | accept, keep-alive, route, benchmark upload/download | tickets, HTTP plane |
| Benchmark | `agent/transfer.rs`, `agent/metrics.rs`; its LNA side in `agent/lna_http.rs` | per session its lanes, `seen_lanes`, coverage and progress; `active_requests` | run_session, receive and send lanes; benchmark requests | tickets, core |
| Buffer pool | `core/buffer_pool.rs` | free list, allocation count | acquire, drop | both planes, benchmark |
| Coverage and scheduler | `core/coverage.rs`, `core/scheduler.rs` | bitmap, next block | record, is_complete, next | benchmark |
| Version control Bridge | `agent/version_control_bridge.rs` and its directory, `agent/version_control_io.rs`, `agent/version_control_helpers.rs` | registry of repositories, targets and the one active export | prepare, begin, cancel, finish export; queries | dialogs, export writer |
| Version control server | `agent/version_control_server.rs` | accept loop | accept, shutdown | version control Bridge |
| Git history, diff, export | `crates/winrisef-version-control/src/` | none between calls | page history, diff, archive | Git library |
| Subversion | `agent/svn_cli.rs`, `agent/svn_repository.rs`, `agent/svn_patch.rs`, paging in `agent/version_control_bridge/` | a child per command; the status, summary, patch and source caches, the history head; the previews of a diff session | run with timeout and output bound; overview, refresh, connect_history, history, open_diff, preview | version control Bridge, `svn` |
| Single instance, certificates, dialogs, protocol registration, diagnostics, wire formats, platform | the remaining files | none, or the operating system's | | |

`PROJECT.json` lists the same parts with what is modelled of each and why the
rest is not.

### How the parts interact

- **Shared state.** The Bridge task, every LNA request, every lane, every
  completion and the shutdown share `ManagerInner` behind one mutex and the
  `SegmentTracker` of a transfer behind another. No lock is held over an await or
  a file operation, so everything between two locks can interleave.
- **Blocking workers.** A file is read and written on blocking threads that own
  the lease of their segment. They outlive the request or the lane that started
  them.
- **Events.** Progress and terminal events go to the Bridge through a broadcast
  channel; the Bridge forwards them while it is not busy with a command.
- **Shutdown.** The end of the Bridge session ends the accept loop, which cancels
  what is still in the slot; then the runtime is dropped.

### What is hard, and what makes each part correct

| Part | Hard behaviour | Correct when |
|---|---|---|
| Manager | completion, cancel, failing requests, finish and shutdown race for one transfer; a late failure of an earlier transfer meets the next one | the slot is exact; one terminal event; what is installed is whole and final; no `.part` without owner |
| HTTP plane | a request times out while its worker writes; POST complete must wait for everything in flight, earlier transfers included | leases exact; a completion is exclusive |
| WebTransport plane | one of many lanes fails; connections outlive their transfer; a silent peer | a lease never gets stuck; only a silent peer keeps the file of a cancelled transfer |
| Bridge | a dialog blocks the only task; branches of a select cut each other off; ends with or without error | every command is answered before a clean end; cleanup finishes; the end of the Bridge ends the process |
| Tickets | two planes consume one ticket; the pending limit; expiry | a ticket is honoured at most once, before it expires |
| Server | nested limits with early returns; launch timeout and a foreign Bridge session against a late launch | permits come back; the page that authenticated is not cut off; the Agent ends |
| Firewall, endpoints | the network changes between discovery, policy, answer and comparison | no public address before its rules; the published endpoints are right in the end |
| Buffer pool | waiting acquirers, cancelled waits, drops on other threads | never more buffers than the capacity; no lost wake-up |
| Version control export | dialog under a lock, cancel against replace | at most one export; target whole or untouched |
| Subversion | a child that hangs, floods its pipes or leaves a process behind; two sides of a preview, one failing; a working copy that is edited while it is read | an answer is whole; no child stays; every operation ends; a refresh reaches every cache |
| Pages | replies cut to the frame after the page was read, or too large for it; lists that change between two requests | everything once as far as the cursor allows, and an end |
| Benchmark | extents covered before their bytes come, dealt to lanes in any way; one lane fails while others wait; two planes and one ticket | what is accepted is whole; one ticket, one transfer; nobody waits for ever |

The hazards behind this table are listed one by one, at their lines, in
`PROJECT.json` under `hazards`, with the properties that would catch them.

## 2. Plan

Order of work; each module is parameterised by CONSTANTS with named assumptions,
has one action per operation and uses no RECURSIVE operator if it is to be proved
about.

| # | Module | What | Abstract specification / proof | State |
|---|---|---|---|---|
| 1 | `NativeTransfer` | manager, both planes, completion, shutdown | type, safety and action properties proved in `NativeTransferProofs` | done |
| 2 | `TransferContract` | what the manager promises of a transfer | implemented by `NativeTransfer`: checked, and proved in `NativeTransferProofs` | done |
| 3 | `TicketAuthority`, `OneTimeTickets` | launch token and tickets; the promise they keep | safety and refinement checked, and proved in `TicketAuthorityProofs` | done |
| 4 | `SegmentPipeline`, `SegmentLease` | task, worker and channels behind one lease | the pipeline implements the lease `NativeTransfer` assumes: checked, and proved in `SegmentPipelineProofs` | done |
| 5 | `TransferBuffers` | the lazy buffer pool of a transfer | checked, and proved in `SegmentPipelineProofs` | done |
| 6 | `VersionControl`, `ExportPromise` | registry, dialogs, export workers, end of the session | the exports keep the promise: checked, and proved in `VersionControlProofs` | done |
| 7 | `BridgeSession` | the select loop with framing, events and endpoint changes; firewall task; endpoint policy | checked; safety proved in `BridgeSessionProofs` | done |
| 8 | `AgentServer` | launch timeout, admission, LNA server, shutdown order | checked; safety proved in `AgentServerProofs` | done |
| 9 | `SvnCommand`, `LruCache`, `SvnRepository` | the svn children; what a working copy remembers and the operations that fill it | `SvnRepository` implements `CommandSpec`; proved in `SvnRepositoryProofs` | done |
| 10 | `ResultPages` | histories and file lists in pages | checked; proved in `VersionControlProofs` | done |
| 11 | `MemoryTransfer`, `Benchmark` | the benchmark session with its coverage; tickets, LNA requests and session together | `Benchmark` implements `SessionSpec`; proved in `BenchmarkProofs` | done |

Composition. The modules meet at few points, and each of them takes the other's
behaviour as the widest choice it can make: `NativeTransfer` treats the life of a
lease as `SegmentLease`, which `SegmentPipeline` is shown to implement;
`TransferBuffers` takes requests and orphaned workers from `NativeTransfer`;
`BridgeSession` says when a command is read and answered, `NativeTransfer` what
it does; `AgentServer` knows of a session only that it begins and ends, and what
the end of the Bridge session means, which is `StopServer` and `Exit` of
`NativeTransfer`. `SvnRepository` EXTENDS `SvnCommand` and `LruCache`: its
operations are the callers of the commands and the users of the caches. `Benchmark`
EXTENDS `MemoryTransfer` and adds the LNA requests that compete for the tickets of
`OneTimeTickets`, the promise that `TicketAuthority` is shown to keep.

## 3. How the modules correspond to the code

Every definition has its lines in `PROJECT.json` under `map`. What follows is the
reading of the code behind them.

**`NativeTransfer`.** `active` and `selected` are `ManagerInner`; `seg` is
`SegmentTracker.states`; `io` and `pos` are what the owner of a `SegmentLease`
does with it; `conn` and `lnaFailing` are the connection tasks and the LNA requests
that are about to fail; `comp` is a `complete_receive_transfer` under way; `part` is
the file on disk; `taker`, `settled` and `terminal` are who took the transfer out
of the slot, whether their cleanup is done, and what was published. A step is a
section under one lock, or one file operation. The lookups, `validate_*` and
`reserve` at the beginning of a request are one step, because nothing between them
is visible to anyone; the cancelled flag is set with `take_active`; the cleanup
after a take (`Settle`) is a step of its own, because everybody else can come
between. A completion is three steps: coverage confirmed, file replaced, transfer
taken. A command that is refused changes nothing and is a stutter. An aborted lane
leaves its lease to its worker, but a lane that already has its lease back may
still commit it. A block that was written just before `touch` finds the transfer
cancelled is given up with the lease. When the LNA server ends it aborts its tasks wherever they
wait: a request leaves its lease to its worker (`RequestAborted`), a failing one no
longer takes its transfer with it (`FailureAborted`). `Exit` waits for the synchronous sections
under way, since the runtime joins the blocking tasks when it is dropped.

**`TransferContract`** is the same transfer without requests, lanes, workers or
shutdown: a grant, accepted segments, an installation that needs all of them, one
way out of the slot, one cleanup, one event. It allows the installation after the
transfer was taken by somebody else, because the code does it (section 7).

**`TicketAuthority`.** `now_ms` and the section under the lock are two steps of a
call, with every other call and any change of the clock between them; the clock may
be set back. Fresh tokens are distinct.

**`SegmentPipeline`.** Producer, consumer, payload channel and the channel of
empty buffers, for a download and an upload, with the depths of both planes. The task
may be dropped at any await, a lane with its connection and a request with the LNA
server (`TaskAborted`).
`SegmentLease` is its abstraction; `NativeTransfer`'s `StreamBlock`,
`WorkerReturns`, `WorkerFails`, `RequestBreaks` and `OrphanEnds` are its steps.

**`TransferBuffers`.** `PoolState.allocated` and `available`, the requests or lanes
that acquire, and the workers that outlive them.

**`VersionControl`.** `repository`, `backend`, `diffs`, `pending` and `active` are
`ManagerState`; `candidates`, the dialogs and `bridge` belong to the one
session task; `stage` is where the worker of an export is. Identifiers are numbered
in the order they are issued. `prepare_export` keeps the registry locked over its
dialog (`"save"`), `select_repository` does not (`"folder"`). A cancelled writer
answers `Interrupted`, which `write_all` repeats (`WriteInterrupted`): there is no
way out of `"retrying"`. `remove_file` of the temporary file is assumed to succeed.

**`BridgeSession`.** A frame is three pieces: the first byte of its length, the rest
of the length, the body. `partial` is what the `read_frame` under way holds;
`DropRead` is what `select!` does to it when another branch wins. A lost first byte
shifts what is taken for a length, and the rest of a length with the first byte of a
body can pass for a long frame (`"swallowing"`). `published` is two steps, the
discovery and the reading of the policy, and `maintain_public_ipv6_firewall` looks
and decides in two steps as well, with the network free to change anywhere.

**`AgentServer`.** One connection task from the accept loop to the drop of its
permits; the launch timeout, which looks and acts in two steps; the end of a Bridge
session, which looks at the launch token before its permit is dropped; the accept
loop, `close`, `wait_idle` and the join of the LNA task. Only the launched mode is
modelled. The clock is the age of the launch token: `valid`, `expired` (120 s),
`overdue` (125 s).

**`SvnCommand`.** `run_command` and `run_streaming_command`: the child, its exit, its
two pipes and the time limit, which are awaited together. A piece more than the limit
is an error; a caller that drops the future takes the child with it
(`kill_on_drop`, `Dropped`); an answer needs the exit and the end of the pipes, which
another process may hold (`held`). Output is counted in pieces.

**`LruCache`.** The three caches with a running total: an insert replaces, evicts
the least recently used entries until both limits hold, and refuses what is larger
than the whole cache. `Sums` holds the sums of the first entries; the total of a cache is
kept beside them, as in the code, and is compared with them.

**`SvnRepository`.** A working copy is its version, `edits`; what is read of it
carries the version that was read, anything between the start of the command and its
answer; what is read of numbered revisions is `Timeless`. One operation runs at a
time, because the registry stays locked; the two sides of a preview are polled in
their order and run together. `refreshed` is the version when the caches were last
cleared, and `since` what it was when a diff was opened. The XML and the patch are
data: of a patch it matters whether its body was kept, left to a later command, or
found too large.

**`ResultPages`.** The cursor of Subversion is a revision below which `svn log` goes
on; those of Git and of the files of a diff count. `fit_page_prefix` is its bisection
over the sizes of the items. A reply of Subversion is not cut: if it is larger than a
frame, `write_frame` fails and the session ends (`SessionEnds`). `matching` is what the
query finds. Subversion only adds revisions (`Commit`); in Git, references move, and the
walk meets more commits or fewer (`Appears`, `Disappears`). A commit that changes its
place in the walk disappears and appears.

**`MemoryTransfer`.** `run_session` from the control stream to the drain. `seen`,
`coverage` and `progress` are `seen_lanes`, `CoverageTracker` and `Progress`; `moved`
is what really passed of every extent, which the code does not keep: the properties
compare the two. A receiving session takes extents in any order on any lane, a sending
one deals extent n to lane n modulo `LaneCount`. Dropping the `JoinSet` ends every lane.

**`Benchmark`.** Beside the session, the LNA requests: the permit, the ticket, then the
bytes, each with the answer when it is not there. The permit is held while a refusal
of the ticket is written.

## 4. What is checked

| Run | What it asks | Properties |
|---|---|---|
| `handover` | two transfers follow each other through the slot: exclusive completion, leases, a clean exit, and `TransferContract` | `ExitIsClean`, `CompletionIsExclusive`, `ReservedIffLeased`, `ContractKept` |
| `planes` | one transfer with three segments on either plane: what is installed is whole and final, every `.part` has an owner, only a silent peer keeps the file of a cancelled transfer, the end of the Bridge ends the process | `InstalledIsWhole`, `PartHasOwner`, `InstalledIsFrozen`, `OnlyPeersKeepHandle`, `BridgeEndStopsAgent` |
| `tickets` | two calls at a time on three tickets under a moving clock, and `OneTimeTickets` | `AcceptedAtMostOnce`, `OthersAreKept`, `RefusedOnlyWhenFull`, `PromiseKept` |
| `pipeline` | wholeness, buffers, the ends of both halves, and `SegmentLease` | `CommittedIsWhole`, `BuffersAccounted`, `BothHalvesEnd`, `LeaseLife` |
| `buffers` | the pool is never exhausted by its users | `NeverExhausted` |
| `version_control` | whole file, temporary files, confirmed overwrite, outcomes, and `ExportPromise` | `InstalledIsWhole`, `TempHasWorker`, `ConfirmedAsOffered`, `PromiseKept`, `UncancelledExportEnds`, `OutcomeIsHeard` |
| `bridge` | no public address before its rules, endpoints that converge | `PublicOnlyAuthorized`, `EndpointsConverge` |
| `server` | exact permits, the owner is not cut off, the Agent ends | `OwnerIsNotCutOff`, `CountersExact`, `AgentEnds` |
| `svn` | overviews, refreshes, diffs and previews of a working copy that is edited meanwhile: whole answers, no child left, caches that know what they hold, nothing older than the refresh, an end | `AnswerIsWhole`, `NoChildLeft`, `CachesAccounted`, `FreshAfterRefresh`, `OperationEnds` |
| `pages` | who follows the cursor comes to an end, and has seen everything once unless the list of Git has changed | `EachShownOnce`, `ReadingEnds` |
| `benchmark` | what is accepted is whole, one ticket admits one transfer, nobody waits for the browser for ever | `AcceptedIsWhole`, `OneTicketOneTransfer`, `BenchmarkEnds` |
| `finding_frame_cut` | a statement of the protocol that the code breaks (section 7) | `WholeFramesAreRead` |

**Bounds.**

- `handover` has two transfers of one segment with one block, one connection of one
  lane and two LNA permits: two transfers are what "the next one in the slot" needs,
  and the hazards there are about who holds the slot, not about segments.
- `planes` has one transfer, three segments, two connections of two lanes, of which
  connection 0 uses both and connection 1 one: a completion has to count segments
  of another connection, and a connection fails with a second lane at work. One block
  per segment is enough there because `SegmentPipeline` has three, and because the
  proofs hold for every number.
- Expiry is explored in `handover`, as the 120 s that later activity revives; the 12 h
  that nothing revives look like one that lapses again, and the proofs have both.
- Six permits are two; a completion that needs all of them meets a request that
  holds one.
- `tickets` has two callers, three tokens and a limit of two, so that the limit is
  reached and passed after an expiry; time is 0 to 2 with a life of 1.
- `buffers` has five users with two permits, so that requests wait for a permit while
  orphaned workers hold buffers.
- `version_control` has two repositories, two diffs, two targets and one diff session,
  so that everything is replaced once; one write per export, cut short or not.
- `bridge` has one command, an event channel of one, and two changes of the network,
  there and back.
- `server` has three connections of two addresses for two places, one place per
  address and per route, and two LNA connections for one benchmark permit: every
  limit is reached.
- `svn` has one edit, which may come before, in and after anything; commands that write
  up to two pieces where one is accepted; caches of one or two entries, so that every
  insert may evict; a comparison with the working copy and one of two revisions; one
  diff session, so that the next one replaces it. The proofs have any number of pieces.
- `pages` has three entries, limits up to four, a budget that holds two small items and
  no large one, a frame of one unit more, and any number of changes: pages are cut in
  their middle and at their first item, sent whole, and refused by `write_frame`.
- `benchmark` has two lanes and extents of two units in transfers of one, five and six
  units, of which five are allowed: the last extent is shorter, a lane has two extents
  or none, and one size is refused. One ticket, two requests, one permit. Coverage,
  lanes and tickets are proved for every number.

Deadlock is checked in `handover`, `planes`, `tickets`, `pipeline`, `svn`, `pages` and
`benchmark`. It is not in `buffers`, where a transfer that was taken and whose users
have ended stops; nor in `version_control`, `bridge` and `server`, where the process or
the session ends.

## 5. Fairness

- **The Agent** (`AgentFairness`): synchronous sections, cleanups, orphaned workers,
  completions and the shutdown are run by the runtime. Every block of an LNA request is
  read or written under a limit of 120 s, so the worker of such a request goes on or
  fails. Nothing is assumed of a peer, and the waits that have no limit are left without
  fairness (`AwaitsPeer`): a lane of a WebTransport connection, for every block
  (`agent/file_webtransport.rs:316`, `:358`), and the head of an LNA answer
  (`write_response`, `agent/file_http.rs:288`, `agent/lna_http.rs:780`), which a download
  writes before its first block. QUIC notices a connection that is dead (keep-alive 5 s,
  idle limit 30 s, `agent/tuning.rs:42`), not one that is silent.
- `SegmentPipeline` assumes a peer that moves or fails only for LNA (depth 2).
- `VersionControl`: workers run, dialogs are answered. `ForwardEvent` and
  `FinishExport` are strongly fair: `select!` takes a ready branch at random, and
  the registry lock is free again and again because its dialog is modal.
- `BridgeSession`: the runtime runs the firewall task, users answer dialogs, the
  page reads what is written; `EndpointsNoticed` is strongly fair by the random
  choice of `select!`.
- `AgentServer`: time passes and the runtime runs its own tasks. Peers owe nothing:
  an authenticated page may stay for ever.
- `SvnRepository`: the blocking thread of the operation goes on, the clock of a command
  runs, a child that was killed is gone, and what was written can be read. `svn` owes
  nothing.
- `ResultPages`: the page asks on while there is more, whatever happens to the list.
- `Benchmark`: the Agent's own steps and its time limits. The browser sends nothing it
  does not want to, and nothing promises that it reads: acknowledgements, results and
  responses are written without a time limit, so no property counts on them.

## 6. What is proved

The theorems hold for every value of the constants that the named assumptions
allow (`ShapeAssumption`, `SlotAssumption`, `SourceAssumption`; `TokenAssumption`,
`LimitAssumption`; `LimitsAssumption`; `CommandAssumption`; `SizesAssumption`;
`PipelineAssumption`; `BufferAssumption`; `BoundsAssumption`, `MaxDiffSessionsAssumption`,
`ChunksAssumption`; `AddressAssumption`, `CapacityAssumption`; `RangeAssumption`,
`KindAssumption`; `ListingAssumption`, `PageAssumption`): any number of transfers,
segments, blocks, connections, lanes, permits, tickets, callers, pieces, extents,
repositories, diffs, targets, addresses, events, edits, cached entries, list entries, limits
and sizes.

**`NativeTransferProofs`.** No property of `NativeTransfer` is inductive by itself:
that an installed file is whole needs that a completion found full coverage, that a
completed segment stays completed, and that what is completed was written to its end
by the only owner of its lease. The inductive invariant `IInv` has eight parts, each
with a lemma for `Init` and one for a step, and later parts use earlier ones:

| Part | What it adds |
|---|---|
| `TypeOK` | types; a worker never passes the end of its segment |
| `LeaseInv` | reserved if and only if leased; what was handed back or accepted is whole |
| `EntryInv` | an identifier that was never issued has no state |
| `SlotInv` | the slot is exact, and empty while the save dialog is open |
| `CompletionInv` | a completion, or an installed file, has full coverage; `complete` only after the rename |
| `OutcomeInv` | only the taker cleans up and publishes, once |
| `ShutdownInv` | one cancel at a time keeps the Bridge busy; a stopping Agent has an empty slot |
| `ExclusionInv` | a completion with all permits excludes leases and failing requests of every transfer |

From `IInv` follow `TypeCorrect`, `InstalledWhole`, `SlotExact`, `LeasesExact`,
`OutcomeUnique`, `PartsOwned`, `CompletionExclusive`, `ExitClean`, and the action
properties `InstalledFrozen`, `AcceptedAtMostOnce`, `SlotHandedOver`.

`KeepsContract`: `NativeTransfer` implements
`TransferContract`. Each action is a step of the contract or leaves its variables
alone; `IInv` supplies what the guards of the contract ask for (the coverage behind
`Install`, the empty `told` before `CleanUp` and `Complete`).

**`TicketAuthorityProofs`.** The invariant is `TypeOK`, a finite store, the counters
of accepted tokens, and the limit. From it: `TypeCorrect`, `AcceptedOnceOnly`,
`StoreBounded`, `OthersKept`, and `KeepsPromise`, the refinement of `OneTimeTickets`.
`RefusalsAreDue` is a fact of one step: the clock the caller read decides what is
expired, and nothing comes between that and the count, as both are under the lock.

**`AgentServerProofs`.** `ServerInv` has three parts: the life of the Agent, the tasks
of connections with what they hold, the LNA connections. The counts are cardinalities of
the sets of tasks that hold something; a task gives back on every path what its stage
says it has. `OwnerStays` needs the counts: there is one place for the Bridge, so no other
Bridge session can end late and stop the Agent (`OneBridge`), and the timeout fires only
for a token that is fresh and out of its life. From it: `ServerTypeCorrect`,
`CountersAreExact`, `OwnerStays`.

**`SvnRepositoryProofs`.** The invariant is a soundness of every
command by itself (what was read and what is in the pipe is what was written; an answer
is all of it; a child is there only while its command is running or killing), and every
step changes the commands of one caller only. `AnswersAreWhole`, `ChildrenAreOwned`; then
`UsesCommands`, that the repository uses commands only in this way, so both hold of it:
`AnswersStayWhole`, `NoChildStays`.

What the working copy remembers is proved in two parts. First the caches alone: `Sums` is
the one function that adds up the sizes (`SumsAddUp`, `SumUnique`), by induction over the
set of numbers for which that holds (`SetInduction`, from the least element of what would be
left), so the sum after an append, a removal and an eviction is known, and with it every
operation of `LruCache`: `InsertionIsAccounted` and the lemmas before it. Then
`RepositoryInv`. That a reply is no older than its refresh is not inductive: it needs that
every entry of every cache is new enough (`AnswerInv`, `PatchInv`, `SourceInv`, where what
survives a refresh is of numbered revisions; `DiffInv`, against the refresh before the diff),
and so that what is being read is (`FreshInv`), which holds because a refresh starts only when
no operation runs and no command is left (`SideInv`, `StepInv`). `AskedInv` says that a
command is never for a side that is the working copy: those are read at once. From it:
`RepositorySound`, `CachesStayAccounted`, `ShownAfterRefresh`.

**`BenchmarkProofs`.** `AcceptedIsWhole` is far from inductive, since a receiving
session marks an extent as covered when its header comes. `ReceiveInv` says that a covered
extent is whole or exactly one lane carries the rest of it (or a lane has failed, and the
payload with it); `SendInv` says up to which of its own extents a lane is through, and
the lemmas about `Mine` that the extents of the lanes are apart and together all of them.
From `SessionInv`: `SessionTypeCorrect`, `PayloadWhole`.

`UsesSession`: the session beside requests and tickets is a session
of `MemoryTransfer`, so `AcceptedStaysWhole`. `TicketsAreSpentOnce` from the fact that an
open ticket was never spent.

**`SegmentPipelineProofs`.** That a committed lease is whole needs more than counts: the
blocks that arrived are 0, 1, 2, ..., those in the payload channel and in the hand of
the consumer are the next ones, and the count of the producer is ahead by exactly
these (`OrderInv`, `PosInv`). `ChannelInv` has every buffer in one place, and none in a channel whose
receiver is gone; `PlaceInv` says what the end of one half means for the other. From these:
`PipelineSound`, `CommittedLeaseIsWhole`, `NoBufferIsLost`, and `PipelineImplementsLease`,
the refinement of `SegmentLease`: a step of the worker moves the lease on, every other step
leaves it alone.

The pool of a transfer is sized for the users it admits, so `NeverExhausted` is about who
may hold what. `PermitInv`: over LNA those with a permit and those whose worker survived its
request are never more than the permits, because a failing request closes the transfer
before it gives its permit back. `CountInv` counts the buffers in use as the users with one
plus those with two. `PoolSound`, `PoolNeverExhausted`.

**`VersionControlProofs`.** `FileInv` says what each stage of an export implies: from `"synced"`
on everything is written; a temporary file exists only while its worker is before the
rename; a worker that has returned has its result. `RetryInv` adds that a worker which
repeats its write for ever was cancelled, so `TempsAreOwned` says that nobody else leaves a
temporary file behind. Beside it, the targets are given out in
order, at most one target waits and it is of the open repository (`OfferInv`), one export is
active (`ActiveIffRunning`), and a target inside the repository was allowed before its
worker began (`InsideInv`). From `ExportsSound`: `VariablesTyped`, `DiffsAreAccounted`,
`OneExportRuns`, `InstalledStaysWhole`, `TempsAreOwned`, `ConfirmedAsAsked`, and
`KeepsPromise`, the refinement of `ExportPromise`.

The same module has the pages. First the algorithms, by `SetInduction` again: `Lists` lists a
set, newest first or in its order (`ListsList`), and a larger set only moves things down the
list (`LaterInMore`); a part that does not fit does not fit with more behind it (`FitsLess`);
every halving keeps an end that fits and one that does not, and there are more halvings than
needed (`BisectionGoesOn`, `HalvedBounds`), so `FitIsLongest`: what is kept is the longest part
that fits, and a page is refused only for its first item. Then the reader. `EachShownOnce` needs
what the cursor separates: where it counts, everything unseen is behind it as long as nothing has
disappeared from the list, and while nothing has changed everything behind it is unseen
(`CountedInv`); where it is a revision, what is unseen is no newer and what was seen is newer,
whatever is committed (`RevisionInv`). Hence `PagesSound` and `EachIsShownOnce`, for every size
of a page and of a frame; a session that `write_frame` ends is not one that was read to the end.

**`BridgeSessionProofs`.** The policy and the addresses are read in different steps, so
`PublicOnlyAuthorized` needs that every snapshot on its way was made under a policy that
came after the answer (`AuthInv`). `FrameInv` counts the pieces taken against the frames
answered, which holds also after a frame was cut off; `AlignedInv` says that without such a
cut the reader stands where a frame begins. From `BridgeSound`: `BridgeTyped`,
`PublicAddressesWait`, `RulesAskedOnce`, `EveryAnswerHasItsFrame`, and `CleanEndIsSeen`.

**Only model-checked.** All liveness: properties under fairness and `ENABLED` are out of
TLAPS's reach, as are RECURSIVE operators (the modules have none). Every invariant and every
action property that a passing run checks is also proved.

## 7. Where code and documentation disagree

`finding_frame_cut`: an event or an endpoint notice that wins the `select!` of the Bridge
drops a half-read frame, and the rest of it is taken for a frame of its own. The run
shows a shortest behaviour.

More disagreements have no run of their own; the models contain the behaviour, and the
properties say how far it goes:

- A cancel between the coverage check and the rename of a completion
  (`agent/file_transfer.rs:474`) is published as `cancelled`, and the file is installed
  all the same. `docs/native-file-v1.md:32` deletes the `.part` of a cancelled transfer,
  and `:79` makes the transfer invalid at once. `TransferContract` allows it;
  `InstalledIsFrozen` and `InstalledIsWhole` hold of such a file too.
- `finish-send-transfer` with the identifier of a receive transfer takes it out of the
  slot before it looks at its direction (`agent/file_transfer.rs:485`); the `.part` stays,
  which `docs/native-file-v1.md:114` rules out. It is the exception in `PartHasOwner`.
- A cancelled transfer whose peer stays connected and silent keeps its file handle: a
  lane of a connection waits without a limit (`agent/file_webtransport.rs:316`), a download
  without one for the head of its answer (`agent/file_http.rs:288`), and the cancelled flag
  is only looked at between two blocks. `docs/native-file-v1.md:114` says that cancelling
  must release the handles (取消、失败 … 必须释放句柄). `OnlyPeersKeepHandle` says that
  nothing else does: no orphaned worker, no completion, no failing connection, and no request
  between two of its blocks. The stronger property, that the handle is released, does not
  hold of the model or of the code.
- A cancelled export whose writer is not done repeats an interrupted write for ever
  (`agent/version_control_bridge.rs:952`). Its temporary file, its place and the process
  stay; `docs/version-control-v2.md:43` has the file cleaned on cancellation.
  `UncancelledExportEnds` and `TempHasWorker` are about the others: an export that nobody
  cancelled ends and never gets into this loop, and one that has returned has left no file.
- The pages of a Subversion history are not reduced. One that is larger than 64 KiB makes
  `write_frame` fail (`agent/version_control_io.rs:61`), and the session ends with its
  repository. `docs/version-control-v2.md:18` says that history pages are reduced until they
  fit; those of Git and of files are. In `SvnPage` the reader fails, and `NothingMissed`
  asks nothing of a reader that fails.

Observations, most of them where no document says otherwise:

- A connection that breaks after its payload leaves the transfer in the slot; an idle
  or expired transfer also stays there until its owner or the shutdown takes it.
- Activity on an authenticated connection revives a transfer whose 120 s are over.
- Lanes go on reserving extents after their transfer was finished or cancelled, until
  `touch` stops them; nothing they do reaches an installed file (`InstalledIsFrozen`).
- What changes between the launch callback and the hello is never pushed; a response
  that carries a newer snapshot leaves `endpoint_snapshot` alone, so a change back is
  not pushed either. `EndpointsConverge` is therefore about `endpoint_snapshot`.
- One failing accept ends the LNA server; the Agent goes on without it.
- The launch timeout checks and then sends. The token (120 s) is out of its life by
  then (125 s), so `OwnerIsNotCutOff` holds.
- A Git history counts what matched before the cursor (`history.rs:108`). Commits that appear
  while it is read show entries twice; commits that disappear (a reset, a deleted branch, a
  popped stash) make it skip as many that were never shown. `EachShownOnce` promises neither
  then. An item that no frame can hold blocks the pages behind it.
- `svn diff -r` and `svn cat -r` contact the repository without `connect_history`. A
  refresh reads neither the revision of the working copy nor the newest one again.
- `diff_summary_cache` has no bound. After an eviction, the patch of a file may be newer
  than the list of its diff.
- A benchmark that fails closes its connection right after its result, which may not
  arrive. A peer that stalls on a live WebTransport connection is bounded by QUIC only.
- The answers of the LNA server are written without a time limit, the refusal of a ticket
  with the permit in hand; after an error answer a kept connection takes the rest of the
  body for the next head.

## 8. What is left out

- In `NativeTransfer`: progress events, a failing clock or random source, poisoned
  locks, the formats of requests and frames.
- In `VersionControl`: queries, pages and file selection, which change no state; the
  lag of the event channel.
- In `SvnRepository`: what the XML and the patches say, and so the parsers; the
  history, which `ResultPages` has.
- In `ResultPages`: how a diff is made; the files of a diff do not change while it is open.
- In `MemoryTransfer` and `Benchmark`: the fixed token of the manual mode, metrics,
  encodings. `ExtentScheduler` is used by nothing but its own test.
- The progress of lanes that commit at once: it is only shown, and no document promises
  its order.
- In `BridgeSession`: the content of commands and answers; the fallback poll, which
  only adds notices; events are published to the session only while it listens; the
  world stops with the session.
- In `AgentServer`: the manual mode, the certificate, binding, a start that fails;
  file requests of the LNA server, which `NativeTransfer` and `TransferBuffers` have.
- Not modelled: single instance, protocol registration, certificates, diagnostics and
  tuning, wire formats (fixed encodings, or one call into the operating system);
  traversal and diff of Git objects (the Git library's, without state of their own) and
  the parsing of Subversion output (pure functions over text).
