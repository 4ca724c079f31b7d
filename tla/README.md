# LuminaCode in TLA+

Specifications of LuminaCode's concurrent and durable parts, the TLC models
that check them on small instances, and proofs, checked by TLAPS, of their main
safety properties for every value of the constants. Paths are relative to the
repository (`src/`).

    tlc -workers 2 -config ToolExecutor.cfg MCToolExecutor
    tlapm ToolExecutorProofs.tla

## The system

LuminaCode is a coding agent: a Go daemon that serves sessions over WebSocket
RPC, and a terminal client in TypeScript.

* A **session** has a controller in the daemon (`backend/session.go`), which
  accepts one submit at a time, and an engine (`agent/`) that runs it: a run is a
  loop of turns, each of which prepares the context window, streams a response
  from a model and executes the tools it asks for. Everything durable about a
  session is an append to its event **journal** (`session/`, `harness/`); after a
  crash the journal is recovered by closing what was open.
* A run may start **background tasks** (sub-agents with runs of their own),
  **shell commands**, and calls to **MCP servers**; its **file tools** share the
  workspace with all of them and with other programs. **Agent Teams** are
  sessions of several agents that delegate to each other.
* The **Memory Fabric** turns conversations into evidence, documents and claims,
  in SQLite or in PostgreSQL, through durable jobs and an outbox.
* In a **cluster** a session is owned by one instance at a time, by a Redis lease
  with a fencing token that PostgreSQL checks on every write; events travel from
  an outbox to the connections of all instances.
* Durable data also **moves**: a legacy directory into the layered AppRoot,
  session files into a journal, local stores into the cluster.

The parts meet at a few places, and the modules follow these: `AgentRun` (the
phases and waits of a run), `ToolExecutor` (the tools of a turn) and `AgentTurn`
(the turns of a run) are three views of one engine; `SubmitRun` is the session
from the RPC to the journal, for which `SessionOwnership` adds the cluster and
`SessionGateway` with `TerminalClient` the two ends of the wire. The modules of
one run are composed where they share state (`TerminalClient` extends
`SessionGateway`, `AgentTurn` extends `ContextWindow` and `ModelStream`, both
memory engines extend `MemoryStore`); independent components of one run are
separate scenes of its MC module, told apart by the variable `opt`.

## Modules and the code they model

| module | code | state | actions |
|---|---|---|---|
| `AgentRun` | `agent/run_state.go`, `agent/runtime_state.go` | phase, run record, contexts, tickets of permission requests, `AfterFunc` callbacks | one per method under `AgentRuntime.mu`, one per step outside it (callbacks, a goroutine that wakes) |
| `ToolExecutor` | `agent/tools_executor.go`, `permission_resolver.go`, `executeAndCommitTools` | slots, counters, the list each goroutine is launching, journal of each call | critical sections of `e.mu` and what lies between them; thread 0 drives the turn, thread c is `executeOne` of call c |
| `TaskRuntime` | `agent/task_runtime.go`, `agent_tool.go`, `child_admission.go` | task records, `childCounts`, goroutines, timers, notifications, the stack of `CleanupScope` | critical sections of `rt.mu` |
| `SubmitRun` | `backend/session.go`, `agent/query_engine.go`, `loop.go`, `runtime_events.go`, `session/runtime_recovery.go`, `ui/runtime.go` | three goroutines per call, recorder, reserved run ids, stored results, journal | steps of each goroutine, Abort, Clear, crash, each append of a recovery |
| `SessionOwnership` | `backend/cluster_router.go`, `cluster/redis.go`, `session/postgres_repository.go`, `backend/session.go` | owner key and fence counter, session row and journal, leases, controllers, requests | each Redis or PostgreSQL call, each step of `OpenRuntime`; expiry, drain, crash |
| `TeamSession` | `team/session.go`, `persistence.go`, `tools.go`, `loader.go` | team loops, agent runs, A2A tasks, contract, verdicts, claims on files, permissions | steps of the loops and of the two goroutines of a delegated task; Abort, release, restart |
| `ContextWindow` | `agentContext/`, `agent/messages.go`, `normalize.go` | (operators) | the four levels of compaction, repair and layout of a request |
| `ModelStream` | `api/retry.go`, `fallback.go`, `client.go` | the request of each run, cooldowns, exhausted quota | attempts, backoff, fallback |
| `AgentTurn` | `agent/loop.go`, `context_runtime.go`, `output_recovery.go`, `ptl_recovery.go` | committed snapshot, draft of each run, retry counters | steps of `queryLoop`, its recoveries, forked skills, manual compaction, Reset, restart |
| `SessionHistory` | `sessionmemory/store.go` | stored turns, job queue, commits, marks | ingest, worker, eviction, restart |
| `MemoryExtraction` | `agent/memory_extraction.go`, `memory_fabric_runtime.go` | cursor, batches, extraction goroutine, stored evidence | scheduling, appends, cursor advance, cancel, flush, Reset, Shutdown |
| `MemoryStore` | shared by the engines: tables, index, jobs, calls in flight | | |
| `MemoryFabric` | `memory/fabric.go`, `ingest.go`, `nodes.go`, `conflicts.go`, `governance.go`, `semantic.go`, `jobs.go`, `chunks.go`, `retrieval_sidecar.go` | ledger, outbox, index database, sidecar | transactions of the SQLite engine |
| `MemoryPostgres` | `memory/postgres_fabric.go` | the same tables, leased jobs | transactions of the PostgreSQL engine |
| `MemoryIndex` | the abstract contract of ledger, index and marks | | |
| `SessionGateway` | `backend/daemon.go`, `daemon_app.go`, `event_hub.go`, `bridge.go`, `session.go` | connections, requests, the submit goroutine, prompts, shutdown | serving a request, pushes, ways to stop |
| `TerminalClient` | `frontend/src/rpc.ts`, `tui.ts` | pending calls, phase of the connection, recovery, input lock | receive, reconnect, recover, user calls |
| `EventOutbox` | `backend/event_relay.go`, `cluster_router.go`, `cluster/redis.go`, `session/postgres_repository.go` | rows, claims, messages on the way, what each hub has pushed | append, relay, claim, publish, mark, expiry, crash |
| `AppRootLayout` | `apppaths/migrate.go`, `layout.go`, `layout_cli.go` | places on disk, lock, plan, backup | each file operation, undo, crash |
| `SessionFiles` | `session/store.go`, `runtime_migration.go` | the files of a save by generation, journal | each file written, conversion, crash |
| `StoreTransfer` | `session/cluster_migration.go`, `memory/migration.go`, `main.go` | the facts of each side, lease, import row, marker | steps of import and export, writers of both sides, crash |
| `FileTools` | `tools/builtin.go`, `registry.go` | the file, each agent's view, calls | each access to the disk, foreign writes |
| `ShellTasks` | `tools/bash/background.go`, `process_tree_unix.go`, `builtin.go` | task records, processes, runners, cancels | start, wait, kill, `Cancel`, `WaitFor` |
| `McpClient` | `mcp/client.go`, `transport.go`, `protocol.go` | connection, requests, inbox, server | send, receive, time limits, ping, what a server may do |
| `McpTrust` | `tools/mcp.go`, `mcp/config.go` | configuration, trust record, engines | load, ask, grant, register again, edits of the files |
| `PermissionQueue` | `agent/session_permissions.go`, `ui/runtime.go` | queue, forwarders, presentations, handler | publish, forward, present, defer, bind |

`PROJECT.json` maps every definition to the lines it translates. Data is
abstracted to what the properties tell apart: a message is who wrote it and
which calls and results it carries, a file is a version number, an event of the
memory a model value. Faults the code handles (a failing append or file
operation, a lost connection, an expiring lease, a crash) are actions, within a
bound that the MC module or the cfg names. Faulty variants of an operation
(commented as such) stand before it; each shows that a property notices the bug.

## Runs

Every run is exhaustive for its instance. The faults of an instance are bounded,
not their places: each may strike at any step.

| run | instance | shows |
|---|---|---|
| `agent_run` | 2 runs, 2 permission requests, one Reset or Restore (`MaxGen`), 3 pieces of work | `WaitersReachable`: whoever sleeps in `AwaitPermission` has its request still pending or its answer in the channel, but for a run that began inside a Reset (see below). `AbortFencesRecovery`: an aborted request is not started again by the timeout finalizer. |
| `tool_turn` | turns of two calls with one failing append and of three with none, over the tool kinds; `SafeLimit` 2 | `ExclusiveAlone`, `OneExecution` (launched and journaled once, whichever of several goroutines launches), `TurnEnds`. |
| `task_runtime` | 2 workers, limit 2, in three uses: a scope that is cleaned up, a Reset, a TaskWait | `NoOrphans`, `ResetRetiresTasks`, `OutcomeReachesParent`. |
| `owner` | 2 instances, 2 requests, both may crash and one may drain, with and without a create | `LogByFence`: the journal is ordered by fence token. `OneOwnerClosesRun`. |
| `submit` | 2 calls (a retry or two commands), one may be forwarded and disconnect, one turn per run with one retry, 2 troubles (storage error, Abort, Clear, crash) | `ValidRuns` (what `harness.ValidateInvariants` demands), `RunsDontOverlap`, `OneRunPerCommand`. |
| `team` | a leader and two members, two loops and two delegated tasks, five scenes | `TasksAttended`: an open task has a goroutine that will finish it, unless that panicked. `CompletionJustified`: a completion was validated on the gate's own record, and that record still holds when it is marked, unless something came between the two. `SendsReturn`, `CancelledLoopsEnd`. |
| `memory` | scenes of one configuration each, with 2 callers, 1 or 2 workers, up to 3 events and 3 claims | `IndexContract`: the SQLite engine implements `MemoryIndex` (refinement). `SlotKeepsClaim` (claims of one slot, some of which end before others begin, never cancel each other out), `RecallExact`, `DoneMeansIndexed`. |
| `memory_uncertain` | the adjudication scene of the PostgreSQL engine | a violation, see below. |
| `turn` | nine scenes of the loop (compaction, over-long requests, provider errors, failing providers, truncated output, sessions, skills) and of the two workers behind it (history, evidence) | `ToolResultsReachModel`, `CurrentRequestKept`, `OutputFromOneAttempt`, `RunsEnd`. `HistoryHasNoGap`: what is deleted, or behind the mark of the last commit, was summarised, or came after its turn was read (a later round of the turn, or a turn that Clear numbered again). |
| `delivery` | scenes of the client (up to 3 sockets, 2 attempts to reconnect) and of the outbox (2 instances, 2 events, a queue of one, hubs that remember one event or both) | `OncePerConnection`, `ShutdownJustified`, `RequestsSettle`, `InputReturns`, `OutboxDrains`. |
| `relocate` | 2 migrating processes, 3 tries, 2 troubles; 2 saves and 2 crashes; 2 facts per side, 2 attempts | `NothingLost`, `LayoutCommitsWhole`, `ImportIsWhole` (a journal that replaced a session's files begins with the messages, the state and the recovery data of its last save, from the moment it is there), `MarkerMeansCopied`. |
| `workspace` | 3 file calls and 2 foreign writes; 2 commands, one in the background; 2 MCP calls, a ping and a piece of noise; 2 engines and an edited configuration; 3 requests over 2 runs | `StaleEditRefused`, `ShellOutcomeStands`, `ApprovedAsShown`, `RequestsKept`, `McpCallsReturn`. |

*Why the bounds are enough to be interesting.* A race in this code is between a
few steps of two actors, so two of everything that races (requests, calls,
instances, workers, runs), and one or two faults, reach all pairs; where a
third matters it is there (three calls in a turn, three sockets, three file
calls). Limits (`SafeLimit`, `QueueMax`, `SeenLimits`, `BatchLimit`, `QueueSize`,
`MaxBackgroundTasks`) are small enough to be reached. Weights of messages are
chosen so that each level of compaction is needed in some state. What the proofs
below cover does not depend on any bound. Deadlock is not checked: sessions,
clients and migrations may rest, and the liveness properties say what must not.

*Fairness.* Goroutines that can take a step take it in the end, timers run out,
and a lost connection is noticed: weak fairness of the steps of executors
(`FairSpec` of `ToolExecutor`), team loops and calls, the client's event loop,
the daemon's handlers, the outbox loops, and the callers of an MCP server; of
the run loops and cooldowns in `turn`. No fairness is assumed of users, models,
peers, servers, crashes or other programs. `RequestsSettle` and `OutboxDrains` need
that losses are finitely many, which the bound on faults gives;
`McpCallsReturn` that the server reads its standard input (a write to a full
pipe holds the transport's mutex, and neither a deadline nor `Close` gets past
it); `InputReturns` is claimed while the connection holds, and for the turn's
tools `TurnEnds` excludes a tool that never returns and that nothing aborts.

*The violation.* `memory_uncertain` checks what `README.md:168-170` says of
ambiguous cases ("remain pending or use the configured adjudicator").
`PostgresFabric.resolveConflict` marks every claim that is not a winner
superseded and the conflict active whatever the verdict says, and an uncertain
verdict has no winners: all claims of the slot are lost to recall. The SQLite
engine leaves them as they are, and `SlotKeepsClaim` holds there.

## Proofs

The theorems hold for every value of the constants that the modules' named
assumptions allow; these say only that the constants have their types (a limit
is a natural number, a model value is in none of the sets beside it). Each
theorem is of the form `Spec => []P`: an inductive invariant is established by
`Init` and kept by every action, and implies `P`.

| module | theorems |
|---|---|
| `AgentRunProofs` | `TypeCorrect`, `WaitsPublished`, `SendNeverBlocks`, `CancellationDominates`, `OneTerminal`, `OwnCancellation`, `NoLostWakeup` (`WaitersReachable`), `NoLateGrant`, `NoRecoveryAfterAbort` (`AbortFencesRecovery`) |
| `ToolExecutorProofs` | `ExecutorInvariant`, `ExclusiveCallsRunAlone` (`ExclusiveAlone`), `CallsExecuteOnce` (`OneExecution`) |
| `TaskRuntimeSteps`, `TaskRuntimeProofs` | `RuntimeInvariant`, `TypeCorrect`, `ChildCountsExact`, `NoOrphanTasks` (`NoOrphans`), `ResetRetires` (`ResetRetiresTasks`), `OutcomesReachParent` (`OutcomeReachesParent`) |
| `SessionOwnershipProofs` | `FencingInvariant`, `TypeCorrect`, `FencedJournal` (`LogByFence`), `OneWriter`, `EntriesWatched`, `OneClosing` (`OneOwnerClosesRun`) |
| `SubmitRunTypes`, `SubmitRunProofs` | `TypeCorrect`, `RecorderOwned`, `CommandRunsOnce` (`OneRunPerCommand`), `ResetIsFence`, `RunsInTurn` (`RunsDontOverlap`), `RunsValid` (`ValidRuns`) |
| `WorkspaceProofs` | `StaleEditsRefused` (`StaleEditRefused`), `ShellOutcomesStand` (`ShellOutcomeStands`), `ServersApprovedAsShown` (`ApprovedAsShown`) |

*The arguments.*

* **A run and its waits.** That a sleeping goroutine is not forgotten needs to
  know that a run exists exactly when the phase is not idle, that its token, record
  and snapshot agree on the generation (`RunRecord`), that a cancellation
  callback runs only for a context that is done (`HookAfterDone`), what an Abort
  leaves on the run it found (`AbortMark`), and that a live run between a
  Reset's Abort and its Lock began there (`GapRuns`). The action properties
  (`CancellationDominates`, `OneTerminal`, `NoLateGrant`, `AbortFencesRecovery`)
  follow from the same invariant.
* **The tools of a turn.** `launch` takes a slot in one critical section and
  counts an exclusive call in another, with a journal append between them, and
  several goroutines launch. The invariant says which calls have been launched
  (`Ordered`: those that `canStartImmediately` allowed then and that only later
  denials or aborts could overtake), that each is on the list of one thread
  (`Launches`), what permission resolution has decided (`Decided`), and that a
  call finished for the others that still runs was aborted with everything else
  or denied (`Overtaken`). Every action is first reduced to what it does to
  slots, threads and journal (`Advance`), and the invariant is proved from that.
* **Background tasks.** The goroutine of each worker is where its record says
  (`GoroutinesMatch`), `childCounts` is the number of children (`CountsExact`, by
  the library's theorems on cardinality), each frame of `CleanupScope` lists what
  is left of its scope (`CleanupInv`), Shutdown has listed every live worker of
  an earlier epoch (`ResetInv`), and an outcome not yet delivered is in the
  notification queue, in a waiter's snapshot or still to be published (`Owed`).
* **Ownership.** A fence token belongs to one instance (`OneHolder`), the row's
  token bounds what was written and what was bound (`FenceBounds`), the events of
  a run come from its controller or from a recovery that scanned after its start
  (`RunEvents`), and until a later token is bound a run that a recovery is about
  to close was closed under that recovery's token, if at all (`Recovering`). The
  environment assumption, in `Acquire`, is that Redis keeps the fence counter.
* **Submit to journal.** Results are stored before their run starts and never
  replaced (`Stored`, `OneStart`); one call at a time holds the submission slot
  (`OneHolder`), and a call that runs and is not cancelled has the live run of
  the present generation, or began inside a Reset (`Fenced`): `ResetIsFence`
  says of all others that they start nothing in the conversation after the
  Reset, and `OneHolder` is why even such a call finds no other active run. An open run of the journal is
  the recorder's or one that recovery has yet to close (`OpenKnown`). For
  `ValidRuns`: run ids come from the reservation of a submitted call or are
  minted for the call that uses them (`Minted`), one that is handed out has no
  start yet (`Unused`), and what the recorder or a recovery will end was started
  and not ended (`Unended`).
* **Shared tools.** `FileInv`: the view a call is about to stamp, or has been
  judged by, is of all that others wrote before. `ShellInv`: task, process,
  runner, cancel and waiter of one command fit together (`Sound`), also when a
  file could not be written. `TrustInv`:
  every fingerprint on record, in a grant or in what an engine read was there at
  first or was granted (`Covered`).

*Only model-checked.* Liveness (`TurnEnds`, `SendsReturn`, `CancelledLoopsEnd`,
`RunsEnd`, `RequestsSettle`, `InputReturns`, `OutboxDrains`, `McpCallsReturn`):
fairness and `ENABLED` are beyond the prover. Properties of models whose steps
are computed by recursive operators or by filters and folds over sequences (the
context window, the plan of a migration, the frames of a memory call, the queue
of permission requests): what such an operator returns for every input needs
induction over data, whose theorems take an operator as a parameter and cannot
be instantiated here. These are `ToolResultsReachModel`, `CurrentRequestKept`,
`OutputFromOneAttempt`, `HistoryHasNoGap`, the four properties of `memory`, the four of
`relocate`, and `RequestsKept`. `TasksAttended`, `CompletionJustified`,
`OncePerConnection` and `ShutdownJustified` are checked by TLC only.

## What the models say about the code

Behaviour of the code that the models contain and that a reader of the
properties should know; no property claims the contrary.

* **A Reset and a run that begins inside it.** `AgentRuntime.Reset` aborts, and
  takes the lock again to clear the state and append `session.reset`
  (`agent/runtime_state.go:510-527`). A run that begins between the two is not
  cancelled. If it waits for a permission, its request is forgotten without an
  answer, and only its own context ends the wait (`slipped` in
  `WaitersReachable`). Its run and its steps are journaled after
  `session.reset`, in the new conversation (`slipped` in `ResetFences`); its
  recorder may stay open when its loop finds the run gone.
* **Runs and tools.** `TaskWait` may sleep although all its children are stable
  when the last one became so between its check and its wait. A call denied
  after `maybeDrain` launched it runs on beside an exclusive one, and its denial
  and its end are both journaled (the exception in `ExclusiveAlone`, and why
  `OneExecution` counts terminals of exclusive calls only). After a failed
  append in `BeginRun` the recorder counts a run as active that was never
  journaled; a loop that returns without a done event (context limit reached)
  leaves the recorder open, and later submits fail with "run is already
  active". A crash between the stored result of a submit and the start of its
  goroutine (`backend/session.go:599`) leaves a command that counts as accepted
  and never runs. `session.reset` hides a run that was open before it from
  recovery. The run of a forwarded submit is cancelled when the forwarding
  caller leaves.
* **Turns.** The turn counter is never reset between runs. A continuation
  prompt counts as the current user message, so the real request may be folded
  into a summary. Micro-compaction clears all but the last of several results
  the model has not seen. A stream that breaks off after output does not fall
  back; an escalated retry drops text already shown. One failed summary at
  automatic compaction ends the run although the request might fit.
* **History and evidence.** `RecordSessionMemory` runs after each round of tools
  (`agent/loop.go:932`), so messages of a turn that arrive after its commit are
  in no commit and may be evicted. Clear numbers the turns from the start again
  and keeps the mark, so turns up to the mark are never committed although they
  may be evicted (`sessionmemory/store.go:729-733`). Both are the exception
  (`late`) in `HistoryHasNoGap`. A mark read before a worker's
  failure may commit turns again. `Engine.Reset` resets the runtime before it
  flushes, so the flush reads an empty state and what was not yet extracted is
  not stored (`agent/memory_extraction.go:261`).
* **Teams.** `CompleteTask` validates under one hold of the lock and marks the
  run complete under another, after the artifacts were exported
  (`team/session.go:1969`, `1985`). In between a gate may submit a failing
  verdict, a write may invalidate a passing one, the contract may be extended,
  or an Abort and the next Submit may clear all of it: then a run is marked
  complete that `.Lumina/TEAM/product-development/completion-policy.md:3-7`
  ("The Team Leader may complete the team run only when all required conditions
  are true") would not allow, in the last case by the call of another run. These
  calls are the exception (`overtaken`) in `CompletionJustified`. The audit is skipped while the snapshot of the workspace is empty;
  Abort frees the session while the old loop lives; a second verdict of a gate
  agent finishes its next task; a dispatch that was queued starts under the next
  run's context; a panic in the inner goroutine leaves its A2A task open.
* **Memory.** `SlotKeepsClaim` is about losing the claims of a slot. It does not
  say that a superseded claim stays so, and in the SQLite engine it may not: a verdict
  computed before another one was applied is applied after it
  (`memory/conflicts.go:285`), and sets every member of its conflict anew.
  Changing the SQLite model deletes all vectors, and those of nodes
  and chunks are not enqueued again. Chunk documents survive a Forget. A restart
  within a lease leaves jobs running. A sidecar sync that failed can leave a
  removal and a missed addition that cancel out in the count check, which is the
  precondition of `RecallExact`. An event that is pending when the index is read
  and projected before the overlay is read is missed by that Search. In
  PostgreSQL a compile job that is done or running absorbs later events, and a
  purged and appended event may keep a done job without spans.
* **Delivery.** After a disconnect that loses the idle status the client keeps
  its input locked until it is aborted; after a panic the frame says that input
  is disabled until the next run. `handlePush` takes the durable path for protocol
  version 2 while the daemon writes 3 (`frontend/src/rpc.ts:222`,
  `backend/bridge.go:195`), so gaps are not noticed. A submit directly after the
  idle push may be refused as busy. A permission request lost with a connection
  is not shown again. Locally only submits are idempotent.
* **Moves.** A crash leaves the migration lock, which must be removed by hand. A
  crash between the two writes of `rewriteManagedMCP` leaves the old path in the
  configuration; one in the middle of a fallback copy makes reruns report a
  conflict. Opening a project creates the directory that makes a later
  `BindLegacyProject` refuse. A crash between a cluster import and its marker
  leaves both sides writable, and a local append then makes the import fail for
  good; a live local daemon can append between checksum and marker.
* **Workspace.** The errors of writing a background command's output or its
  report of a timeout or crash are ignored (`tools/bash/background.go:347`): a
  task may be completed or failed with no file. A foreign write between `read_file`'s read and its Stat, or during
  an edit, is stamped as seen; one between an edit's read and its write is lost.
  Killing a shell does not close a pipe its descendants hold, for which `Wait`
  waits. The cancellation of any stdio MCP call disconnects the server for the
  rest of the session; a failed initialize leaves the process running. After a
  grant all MCP clients are started anew and the first ones are not
  disconnected; two sessions that record approvals at once may lose one.

## Assumptions of the models

Mutexes make a critical section one step; a transaction of SQLite or PostgreSQL,
a Redis script and the rename of a file are atomic; Redis keeps the fence counter.
One process at a time writes a session's files, except where a module names a
second writer. The file system's modification times tell versions apart. Several
rewritten files are restored in one step when a layout migration is undone. A
team's `validateCompletion`, which holds two locks one after the other, is one
step. The race of `Cancel`'s read of
`cmd.Process` with `cmd.Start` is a choice: it may find nothing to kill.

Some neighbouring steps of one goroutine are one action, because nothing the
properties look at can come between them or because what comes between only
fails: `SubmitMessage`'s `beginExecution` and `commitUserTurn`
(`agent/query_engine.go:146`, `235`); registering a connection with the daemon
and with its hub (`backend/daemon.go:345`, `348`); the idle heartbeat's count and
its request to stop (`backend/daemon.go:490-497`), so a terminal that connects
between the two, and is then disconnected, is not in the model; SIGTERM, five
seconds and SIGKILL (`tools/bash/process_tree_unix.go:24-29`). A local session
that is loaded during a cluster import may get a snapshot appended between
checksum and copy (`session/cluster_migration.go:121`); that makes the import
fail, and is left out. A write to an MCP server's standard input is instantaneous
(`mcp/transport.go:77-85`; see Fairness), and an HTTP body with the id of another
request (`mcp/client.go:253-263`) is not offered. A response without text and
calls, which `queryLoop` commits like any other (`agent/loop.go:838-878`), is not
offered. `SessionRuntime.Reset`, which aborts the children of a session and empties its
permission queue (`agent/runtime_state.go:836-849`), is not among the actions of
`PermissionQueue`: its sessions are not reset.

## Not modelled

Ranking and prompts of memory search, local inference, parsing of skills and
configuration, permission patterns, command classification and sandboxes, wire
formats, authentication, rendering, the command line, maintenance, and the
benchmarks: pure data, text or best-effort I/O (the components of `PROJECT.json`
marked `not_modelled` say which and why). Of modelled components, the parts left
out are named in their notes: alias proposals, quarantined drafts and the
circuit breaker of the memory, worktrees of background tasks, the team's files
on disk and its templates, menus and panes of the client, permission bits of
migrated files.
