# HanaAgent in TLA+

HanaAgent is a personal agent: a local server that runs agent sessions, background tasks and
automations for one user, with a desktop client, a command line and plugins around it. This
directory specifies the parts of it whose correctness depends on the order of things: several
calls or processes that share state, code that awaits and goes on with what it read before,
crashes between two writes, timers and retries. The modules are translated from the code. TLC
checks them on small instances; TLAPS proves the main theorems for every value of the constants.

Paths below are relative to the repository. Sections: 1 inventory, 2 modules, 3 runs,
4 proofs, 5 findings, 6 limits, 7 plan.

## 1. Inventory

One server process (`server/`, `core/`, `lib/`, `hub/`) owns one data home. It is one JavaScript
thread: code between two `await`s runs undisturbed, and everything that is interesting happens
around the `await`s, in callbacks, and across crashes. Components, with the status each has here
(M modelled, P planned in section 7, – left out; `PROJECT.json` gives the reasons):

| component | state | operations | interacts with | hard behaviour | correct when | |
|---|---|---|---|---|---|---|
| data epochs: `core/data-epoch-*.ts`, gate in `server/index.ts`, `cli/data.ts` | stamp, transition journal, checkpoints, audit, the stores | start-up gate, transition, restore, prune | every persistent store, launch dialog | death between any two durable writes; several builds and processes on one home; reruns | no build runs on data it cannot read, and an interrupted change can be undone | M |
| deferred results: `lib/deferred-result-store.ts`, `-coordinator.ts`, `lib/extensions/deferred-result-ext.ts` | task records, in-flight deliveries, retry timer | defer, settle, deliver, suppress, retry, clean up | background tools, sessions, bridges, turn actions | results that meet a delivery, a stop, a discarded branch or a crash | an outcome reaches its parent once; a suppressed one never | M |
| session runtimes: `core/session-coordinator.ts`, `core/session-teardown.ts`, `core/desktop-session-submit.ts` | runtimes by session, focus, loads and prompts in progress | load, switch, reload, prompt, deliver, stop, hibernate, discard, evict | agent SDK, UI, deferred results, bridges | all of these at once | one writer per session file; a turn keeps its runtime; a stop stops | M |
| task registry: `lib/task-registry.ts` | tasks, schedules, timers | register, update, complete, abort, schedule, run | plugins, subagents | a schedule changed during its run; saves that fail; restart | a task in progress can be stopped; one run of a schedule at a time | M |
| automations: `lib/desk/cron-*.ts`, `hub/scheduler.ts` | jobs with revisions, run log | edit, check, run, time out, record | agents, studio | timeout races the answer; edits in a run | one run per due time; an edit is not overwritten | M |
| session loops: `lib/loop/*.ts` | loop status, alarm, turn marks | start, stop, pause, resume, wake, complete | sessions, deferred results | commands during a delivery; retries; restart | a running loop falls silent from named causes only; its alarm has a timer | M |
| agent review: `lib/agent-review/turn-coordinator.ts` | review by parent session | start, cancel | sessions | cancel at each await; a new review after it | a review keeps prompts away; a cancelled one does not speak | M |
| stream store: `server/session-stream-store.ts` | bounded event buffer | begin, append, finish, resume | WebSocket clients | reconnects against trimming and turn ends | a client shows each event once and knows when it has missed some | M |
| confirmations: `lib/confirm-store.ts`, `lib/approval-gateway.ts` | pending confirmations, timers | create, resolve, time out, abort | tools, UI | answer against timeout and abort | settled exactly once | P |
| collaboration drafts: `lib/session-collab/draft-store.ts` | drafts with apply closures | create, fork, apply, discard | sessions | half-applied drafts, forks | no draft is applied twice | P |
| session branches: `core/session-turn-actions.ts`, `core/session-branch-head.ts`, `lib/session-jsonl.ts` | tree of a session file, branch head | turn, record, regenerate, edit, retry, undo, reopen | runtimes, deferred results | a step of several fails, and the undoing of them; death between two writes; turns while a retry is prepared | a reopening shows the branch the session was on; outcomes are told where their call is | M |
| session manifest: `core/session-manifest/*.ts` | session ids and locators (SQLite) | create, move, archive, delete, migrate | file system, coordinator | files moved while loaded | one id per file, current locators | P |
| compaction: `core/session-compactor.ts` | session history, caches | compact | runtimes, model | turns while a model is awaited | no entry is lost | P |
| subagents: `lib/tools/subagent-tool.ts`, `lib/subagent-*.ts` | runs, threads, the line of each thread | dispatch, reply, close, fork, abort | task registry, deferred results, sessions | a stop at each await of a run; forks; death between two stores | one run at a time in a child session; the stores agree; a stopped run is no success | M |
| workflows: `lib/workflow/*.ts` | runs, journals | run, resume | subagents | restart in a run | a finished step is not run again | P |
| memory: `lib/memory/*.ts` | summaries, cursors | tick, compile, reflect | sessions, models | retries after failures | each turn is counted once | P |
| bridges: `lib/bridge/*.ts` | per-chat queues, platform clients | receive, debounce, send, reconnect | chat platforms, sessions | ordering across reconnects | messages of a chat stay in order | P |
| MCP: `core/mcp/*.ts` | connections, authorisation | connect, call, reconnect | external servers | reconnect races | one connection per server | P |
| resource watches, search limiter | watchers, slots | acquire, release | file system, providers | asynchronous start, cool-down | counts match the holders | P |
| event bus: `hub/event-bus.ts` | subscribers, handlers | emit, request | everything | time-outs | with its callers | P |
| activity hub, notifications | projections of other records | – | UI | – | – | – |
| plugins: `core/plugin-manager.ts` | loaded code and registrations | load, unload | the registries above | – | – | – |
| terminals, processes, browser, sandbox | child processes | spawn, read, kill | operating system | – | – | – |
| migrations: `core/migrations.ts` | files | rewrite | stores | modelled as edges of DataEpoch | – | – |
| engine, agents, models, preferences | configuration | read, write | – | – | – | – |
| routes, desktop, CLI, shared schemas, build | – | transport, display | – | – | – | – |

The hazards of the code, each at the line where it bites, are listed in `PROJECT.json`
("hazards") with the properties that cover them; those without one say where they are planned.

The components modelled so far meet at a few places. A deferred result that wakes an agent
is a `deliver` call of `SessionRuntime`: it loads the session and runs a turn on it, and while it
does, `DeferredResults` holds the task in flight. A turn that is stopped in `SessionRuntime`
fences the open tasks of its session in `DeferredResults` (`AbortTurn`). The wake of a desktop loop
in `SessionLoop` is a `deliver` call too, and the "live background work" for which it forgoes an
alarm are, among others, open tasks of `DeferredResults`. A subagent run is a task of the registry
and of `DeferredResults`; `SubagentRuns` holds what the three stores say of it side by side, because
what one settlement writes to all three is the point. A stop of the parent session in
`SessionRuntime` is `StopParent` there, `StopSession` in `TaskRegistry` and `StopsTurn` in
`AgentReview`. What a turn says reaches the screen through `TurnStream`. The retry of a turn in `SessionBranches` is
`DiscardBranch` of `DeferredResults`, its turns are those of `SessionRuntime`, which may let go of the runtime between
them. Each module has the others as environment; none composes them.

## 2. Modules

A component has a module with its state and actions (`X.tla`), a module that instantiates it
for TLC (`MCX.tla`; four small ones share `MCBackground.tla`) and, when something is proved of it, a
module with its theorems (`XProofs.tla`; `BackgroundProofs.tla` has those of all four). Operators marked *Mutant of*
are wrong versions of the definition that follows, the bugs the properties are tried against;
no action uses them. `PROJECT.json` ("map") gives the source lines of every definition.

### DataEpoch

A *data epoch* is the version of the formats of a data home. A build starts on a home through a
gate, raises the epoch by a journalled transition that first checkpoints the affected stores, and
an operator undoes a transition with `hana data restore`.

*State.* `stamp` (`data-epoch.json`: the minimum build allowed in, and the committed epoch),
`journal` (`data-epoch-transition.json`, in its forward or its restore shape), `disk` (what each
store holds), `checkpoints`, `trail` (audit line and receipt of a restore), `litter` (the
temporary file of an interrupted metadata write), and the program counters of the three processes
`kernel`, `restorer` and `pruner`. Kernel counters are named after the fault-injection points of
`core/data-epoch-coordinator.ts`.

*Actions.* One per durable write of `runDataEpochStartup` and its transition (`prepared`,
`checkpoint_complete`, barrier, each migration, `validated`, committed stamp, journal removal), of
`restoreDataEpoch` (journal, each store with its quarantine and copy, reconciliation, metadata,
audit, receipt) and of the retention pass, plus user writes, launches of any build, and the death
of each process between any two of them, in the middle of a store's rewriting included.

*Abstraction.* The content of a store is the set of migrations applied to it and a revision for
the user's data; a file comparison by size becomes the operator constant `SizeOf`. Stores are
migrated and restored in any order (the code has a fixed one). Metadata writes are atomic
(temporary file, fsync, rename). Left out: power loss that undoes unsynced copies, metadata
corrupted by anything but these processes, the window between a pruner's read and its deletions
against several pruners, the disk-space and checksum errors of a checkpoint (all are the same
failure).

*Switches.* `Serial`: the operator does not overlap kernel, restore and prune. `InOrder`: only the
transition the stamp lies in is restored. `AllowDowngrade`: builds are launched with the override.
The code enforces neither of the first two; section 5 says what happens without them.

### EpochHome, DataEpochHome

`EpochHome` is what the data-epoch protection promises: a home that is at every moment whole and in one
format. It is numbered (`Number`), edited in its format (`Edit`), saved in parts (`Save`, `Forget`), goes up
in one step that keeps the user's data (`GoUp`) and goes back in one step to what was saved (`GoBack`).
It has no journal, barrier, crash or half-written store. `DataEpochHome` shows `DataEpoch` to
implement it (`ImplementsHome`): a store *covered* by the journal counts as what the checkpoint holds of
it (from the complete checkpoint of a transition until the stamp commits it, and all through a
restore), any other as what is on disk; the epoch is the committed one, or in a restore the one it goes back
to; the homes kept are the published checkpoints. So a transition happens, as the user sees it, when its stamp
is committed, and a restore when its journal is written, whatever dies before or after.

### DeferredResults

A background task is registered with the session that started it; when it ends, its outcome is told
to that session: by the coordinator (a message that triggers a turn of the agent, or one that only
the UI sees), by the extension's scan at session start, or by a bridge.

*State.* `task` and `disk` (the store's records in memory and as last saved), `flight`
(`_inFlight`, with the stage a delivery awaits in and the attempt it is for), `bridge` (the bridge
manager's cache of deliveries), `session`, `scan` (the extension's 500 ms timer) and ghosts: `told`
(attempts whose outcome was put to the recipient), `doubt` (told, but the delivery failed or was
cut off, so telling again is justified) and `twice` (told again without that).

*Actions.* Registering, settling, retrying and cleaning up a task; `Tick*`, `Load*`, `Send*` for the
three awaits of a delivery with their failures; suppression by task, by branch, by an aborted turn,
by an archived session; the scan and its timer; flushing to disk; crash and restart. Settling runs
the store's callbacks synchronously, so the start of a delivery is part of the settling step, as in
the code.

*Outside `src/`, by how it is used.* `sendCustomMessage` with `triggerTurn` returns when the turn is
over; a message queued as follow-up counts as told; whether the SDK emits `session_start` to the
extension is the constant `SessionScans`. `deferred:retry` is a public bus operation, so retries
come from any plugin at any time; `RetryMidDelivery` says whether also while a delivery is under
way. The bridge's cache expires at any time (ten minutes in the code). A branch retry that is rolled
back restores its records within one step; clones made by a fork are left out.

### Mailbox, DeferredMailbox

`Mailbox` is what who waits for an outcome is promised, with no coordinator, bridge, session or timer. Each task has a *letter*: it is
issued (`Issue`), becomes due when the outcome is there (`Settle`), goes with a courier or is handed over at once (`Attend`), arrives
or comes back (`Arrive`, `ComeBack`), and is closed (`Close`) or turns out not to have arrived (`Fail`); it may be silenced (`Silence`),
and thrown away when it is finished (`ThrowAway`). What is handed over is due, and has not been handed over before, unless that is in
doubt; what is closed was handed over beyond doubt; what is silenced is handed over no more. A crash takes every letter back to what
was saved of it. `DeferredMailbox` shows `DeferredResults` to implement it (`ImplementsMailbox`): the letter is the
record, its state what status, mark and fence say together; a courier is a delivery that loads the session; what is issued, told and in doubt are the
counters and ghosts of `DeferredResults`. Each action of `Mailbox` is needed: without any one of them TLC finds a step that the others do not allow.
One thing the mailbox allows that a reader would not expect: a letter that was silenced and thrown away while a courier was on its way with it arrives
(`Arrive`), because `shouldDeliver` finds no fence where it finds no record.

### SessionRuntime

A *runtime* is the SDK's session object: it holds a session's JSONL file open and appends to it.

*State.* `entry` (`_sessions`), `of` and `alive` (which file a runtime writes, and whether it is
disposed), `session` and `path` (the focus), `inFlight` (`_ensureSessionLoadedInFlight`),
`controller` (`_prePromptAbortControllers`) and `op`, the calls in progress: each awaiting call is a
process, its record holds the local variables that survive an `await`, and a step is the code
between two of them. Two ghosts: `chosen`, where the last switch went, and `marks`, which tell of a turn that
its runtime was taken by an eviction or a discard while its input was prepared, or by a reload (`robbed`), that
another prompt replaced its abort controller (`bare`), or that it ran beside a prompt in preparation (`beside`).

*Actions.* `AttachCall`/`EnsureLoaded`, `SwitchWarm`/`SwitchCold`, `ReloadCall`; the stages of a
load (`LoadReady`, `LoadCreated`, `LoadRegistered`, `LoadEvicts`, `LoadOver`, `LoadFails`);
`Hibernate`, `Discard`, `Stop` and the ends of their teardowns; and three ways to a turn:
`submit` (the desktop's submission), `direct` (`session:send`, which does not look for a turn in
progress first) and `deliver` (a background message).

*Switches.* `Overlap` bounds which loads run together: `"any"`, `"sessions"` (a switch or reload
does not meet another load of the same session) or `"none"`. `SlowTeardown`: some
`session_shutdown` handler awaits something. The handlers in this repository are synchronous;
those of plugins may not be.

*Abstraction.* Sessions are keyed by session id and their locators are current. `lastTouchedAt`
orders the cache arbitrarily. Hibernation may be asked for at any time its guard allows (in the code,
a timer under memory pressure). Left out: the metadata kept of a hibernated session, its guards on
pending deferred results and on a compaction, the await of an agent switch, sidecar files, and what
the background teardown after a forced release still does. `createSession` does not fail once it has
pointed the focus at the new runtime: both awaits that follow are caught there.

### SessionLoop

A *loop* has a session's agent work on by itself: the agent sets an alarm, or one is set at the end
of each turn, and every alarm delivers a message that starts a turn.

*State.* `loop` is the stored record (status, pause reason, turns, failures, alarm slot) with what the
two services hold in memory beside it (the timer, the deferral count, the pending and active marks,
the flags of the current turn); `call` are the deliveries that await, each of a command or of a wake
with its number of tries; `session` is the target: desktop or bridge, resolvable, busy and with
whose run, before, in or after a turn; `used` counts commands and crashes.

*Actions.* The commands `Start`, `Resume`, `Stop`, `Pause` and the tools `ToolSchedule`,
`ToolComplete`; the alarm (`Fire`), its retry delays (`Retry`), the awaited parts of a delivery
(`Send`, `RunEnds`); the bus events `TurnStart`, `MessageError`, `TurnEnd`; the environment
(`OtherRun`, `OtherRunEnds`, `WorkBegins`, `WorkEnds`, `Reset`); `Crash` and `Boot`.

*Abstraction.* Every map of the code is keyed by session, so one loop stands for all. Delays are left
out: an armed timer fires at any moment. Pause reasons are the spent budget and any other. Chat
notices are left out. A busy answer comes without a real wait and belongs to the attempt's step.

*Outside the modelled files, by how they are used.* The SDK's run and turn events come from the
environment; a message queued as follow-up gets a turn; whether the desktop session says it still
streams at a turn's end is nondeterministic. A process starts with no loop or over a running one.

### SessionBranches

A session's file only grows: every entry names the one it follows, and a turn that is regenerated or edited stays
in the file, off the branch that counts.

*State.* `file` (the entries with their parents), `head` (the row of the manifest store: a leaf and the last entry seen
when it was written), `runtime` (the leaf of its manager, the last entry this knows, the turn under way), `retry` (the
retry of a user's turn between its reading of the branch and its commit, with the manager it keeps), `notice` (the tasks
told and those fenced, with the fences not saved yet). `chapter` is history: what reopening may show, and which of the
exceptions has happened.

*Actions.* `Opens`, `ReadsBranch`, `LetsGo`; `UserTurnStarts`, `Answers`, `TurnEnds`, `Records`, `Tells`; the retry with
`RetryBegins`, `RetryGivenUp` and the ends of its commit: `RetryCommits`, `RetryDies`, `RetryRefused`, and
`RetryIsUndone`, in which each of the writes that undo it may fail in turn; `BranchCrash`. `Projected` is the
decision which branch of a file is the current one.

*Abstraction.* An entry is its kind, its parent and the task it starts or tells of. A commit is synchronous in the code and one
step here, with the death of the server at each of its durable writes. Outside `src/`: the SDK's manager appends to its
leaf and writes the entry to the file before it returns, and an append that throws has added nothing. Left out: forks, sessions
without a head or without ids, compaction, branch summaries, what a prompt is made of, outcomes only the UI sees, and the derived memory that
a retry invalidates last (its failure is a failing step like the others).

`MCSessionBranches` has `SessionBranches` and `DeferredResults` side by side, each behaviour one of a single component
(`part`).

### TurnStream

What the agent says in one session, on its way to the window that shows it.

*State.* On the server `run` (the prompt under way), `store` (the stream: its id, the next number, the first it
still keeps, whether it is live) and `disk` (the events whose turn the session file holds); `wire` with the
messages on the connection in both directions; in the window `client` (what it remembers of the stream, and
its "thinking" mark), `screen` (what it shows, and what it was shown twice) and `rebuild` (the rebuild of the
transcript it is in). `harm` notes what has gone wrong, by name.

*Actions.* The server's handlers `StartPrompt`, `TurnStart`, `Emit`, `TurnEnd`, `SdkStops`, `EndPrompt`, `Notice`
and `Answer` (the reply to a resume request); the faults `Drop`, `ServerNotices`, `Evict`, `Restart`,
`FetchFails`; the client's `Reconnect`, `ReceiveStatus`, `ReceiveEvent`, `ReceiveResume`, `FetchReads`,
`RebuildEnds`.

*Abstraction.* One session, the one on screen; an event is its number, and the limit on bytes is
one on events; a turn is on disk when it ends; the SDK's stream starts with its status. A rebuild that
a later one supersedes does not apply late. The window's promises are made until one of the things in `harm`
breaks them: an answer lost, a start not seen, a background outcome not seen, a status thrown away during a
rebuild, a stream forgotten by the server, a turn cut by a restart, a fetch that failed, a connection dropped during
a rebuild. The outcome that is not seen is the one broadcast while the window is disconnected and marked as idle: only
a marked window asks for its stream when it reconnects, so nothing asks for this one.
`HoleIsBeingClosed` and `TranscriptComplete` excuse all of them, `ShownOnce` only a connection dropped during a rebuild, `MarkHonest` and
`ThinkingEnds` the few they name.

### Automations

*State.* `job` (the file: enabled, revision, cursor, whether an `at` is over), `check` (the jobs the check under way
listed and has left, and the one it awaits), `lock` (`_executingJobs`), `exec` (executions in
progress, one that was timed out included) and the history `past`.

*Actions.* The user's `AddJob`, `RemoveJob`, `EditJob`, `RescheduleJob`, `ToggleJob`, `SwitchJob` at any moment;
`TimeComes`; the scheduler's `CheckStarts`, `PassesOver`, `Refuses`, `Starts`, `TimesOut`, `CheckEnds`; `RunEnds`,
right or wrong, aborted or not; `SchedulerCrash`. The record of a run is guarded by the revision it started
with, as `markRun` is; writing the log line may fail, and then the code's catch marks the run as failed.

*Abstraction.* One studio; times are "not set", "ahead" or "due". The head of the loop, which is synchronous in the code,
is a step per job, which only adds interleavings. Left out: recovery of a damaged file, imported jobs,
suggestion receipts.

### TaskRegistry

*State.* `handler` (none, one that aborts, one that also runs), `task`, `sched`, `timer` (set, or cut to the
longest delay a timer takes), `running` (runs in flight by the kind of record they hold), `saved` (the
file) and the history `story`.

*Actions.* `RegisterTask`, `UpdateTask`, `EndTask`, `AbortTask`, `CancelTask`, `RemoveTask`, `StopSession`;
`RegisterHandler`, `UnregisterHandler`; `Schedule`, `Unschedule`, `TimePasses`, `TimerFires`, `NoRunner`,
`RunIsOver`; `Restart`. Every change may fail to be saved. A run holds the record it was started with,
and its end writes that one back.

*Abstraction.* One type of task and one parent session. Payloads and tasks that are not to be saved are left out.

### AgentReview

*State.* `pending` (the review that holds the session), `review` (the records and how far `runReview` has got with
each), `stopping` (cancels that await the abort of the reviewer's session), `slot` (who has a submission
to the session under way) and the history `tale`.

*Actions.* `StartsReview`, `ReviewerCreated`, `ReviewFails`, `LateAbortReturns`, `ReviewerAnswers`,
`ReviewedTurnEnds`; the stops `StopsReview` (a cancel) and `StopsTurn` (a stop of the session's turn), with `StopReturns` and
`StopThrows`; the submissions of others, `PlainTurnStarts`, `TurnStreams`, `PlainTurnEnds`.

*Abstraction.* One reviewed session. What is answered is left out; whether anything was is not.

### SubagentRuns

*State.* `run` (how far each run has got, its thread, whom it waits for), `thread` (the thread store), `chain` (the
last in the line of each thread), `copying` (threads a fork copies), `record` (what the deferred-result
store, the run store and the task registry say of each run), `disk` (the files of the deferred results, of the run store
and of the threads; the registry's is not needed, see below) and the history `account`. The run store and the thread store write their file in the call that changes
them, and throw when they cannot; the deferred results are written by a timer, a second later.

*Actions.* `Dispatch` (a new thread), `Reply`, and their registration that throws half-way (`GoesNowhere`); `CloseThread`;
the stages of `executeIsolated`: `ThreadTurn`, `ChildReady`, `ChildFails`, `PromptRuns`, `ChildEnds`, `ChildStops`; `Settles`, which is the whole of
what happens once it returns: the `.then` tells the deferred results, the run store and the thread, gets as far as `n`, and if a write threw the `.catch` tells the
same three of a failure, as far as `m`; `RunTimesOut`, `AbortRun`, `StopParent`, `AgentDeleted`, `ForkStarts`,
`ForkEnds`; `Flush`, which is the timer of the deferred results, and the whole file that a change in another session writes; `SubagentCrash`, at any moment
and also within a settlement, from what is on disk then. Every synchronous write may throw.

*Abstraction.* A turn of a thread and a settlement follow in the tick in which they are due (`Calm`), since the
code reaches them through resolved promises only. Time-outs are recorded as failed. A task of the registry is taken for written
when it changes. `MaxUpsets` bounds aborts, stops, deletions of the agent, writes that throw and crashes, together. Left out: the
limit of 20 over all sessions, the target's side of a fork, the UI's hub, a thread store whose repair cannot be saved at startup, and
a death within the tick in which a `.catch` makes up for a write that threw.

### MCBackground

`Automations`, `TaskRegistry`, `AgentReview` and `SubagentRuns` share no state and call none of each other. Their
variables and actions have names of their own, so that one module instantiates all four, and each of
its behaviours is one of a single component (`part`).

## 3. Runs

The runs check the properties that are not proved, and of those that are the ones a hazard of the code turns on.
The type invariants of the modules with proofs and the properties marked † in section 4 held on these instances too, before they
were proved for all; no run repeats them.

### DataEpoch (epoch 2 rewrites one store, epoch 3 both)

| run | instance | shows |
|---|---|---|
| `epoch_operator` | 3 epochs, 3 transitions, 2 stores, 1 revision, serial, in order | `BarrierCovers`, `CheckpointKept`; the refinement `ImplementsHome` |
| `epoch_rerun` | 2 epochs, 1 transition, 1 store, the downgrade override allowed, with fairness | an interrupted restore that is rerun finishes (`RestoreFinishes`); no kernel passes the journal of an interrupted transition (`GateHonoursJournal`) |

Three epochs are the least with a migration path of two edges, with a store on one edge and one on
both; three transitions allow an upgrade, its restore and another upgrade over the retained
checkpoints (the code keeps two, so the third is pruned against). One user revision tells a store
written after an upgrade from its checkpoint. The liveness run is smaller because a tableau is
built over it; one store already dies at every step of a restore, and whether a restore finishes
does not depend on how often it has happened before. *Fairness* (`FairSpec`): strong fairness of
each step of a restore, its start included, because the restore may die before any of them and is
rerun by the operator who wants his data back; weak fairness of the gate refusing or opening and of
a retention pass ending. Nothing obliges a process to die or not to. In this run every
migration changes the size of the store it rewrites (`DistinctSize`); section 5 says what happens otherwise.

### DeferredResults, SessionBranches

| run | instance | shows |
|---|---|---|
| `outcomes_and_branches` | outcomes: a task of the agent, one of the UI, one of a bridge; any two registrations between them, two crashes | types, `ImplementsMailbox`, `NothingToldTwice` |
| | branches: a file of six entries, two crashes or failing writes | types, `ReopeningShowsTheBranch`, `FencedIsDiscarded`, `OutcomesMeetTheirCall` |
| `deferred_live` | a task of the agent and one of another session, or a bridge's task (the constraint `Apart` keeps it to itself); two registrations, one crash, scans (own and stray), retries at any time, clean-ups, with fairness | `FencedStaysSilent`, `OutcomeReachesParent` |

Tasks share only the session and the timer, so two registrations meet every interaction: two tasks
beside each other, or one task twice, which tells its attempts apart. The second crash hits what the
first restart redid. `MaxAttempt` bounds the registrations of one task, `MaxMade` those of all.
*Fairness* (`LiveSpec`): strong fairness of the retry timer picking a task up, of a load and of a
send succeeding. The timer is re-armed while anything is undelivered; loads and sends may fail any
number of times but not for ever. Liveness of a UI-only task is stated by the same property and is
not run.

Six entries are a turn whose answer starts a task, the marker and the input of its retry, and two of what follows: a turn
that continues the wrong branch, a record, or an outcome that is told. Two mishaps are a step of a commit that fails
with one of those that undo it, or a failure and a crash after it. Each exception that the properties name
is needed: without any one of them the property fails (section 5).

### SessionRuntime

| run | instance | shows |
|---|---|---|
| `runtime_writers` | 2 sessions, cache of 1, 2 calls, every kind of call | `OneWriter`, `TurnKeepsRuntime`, `StopIsFinal` |
| `runtime_joined` | 1 session, 3 calls: attach, submit, switch, reload, discard; with fairness and without symmetry | `JoinedReleased` |
| `runtime_ghost` | 2 sessions, cache of 2, 3 calls that load; loads overlap as they please | violation of `OneWriter`, section 5 |
| `runtime_refocus` | 2 sessions, cache of 2, 2 calls: attach and switch | violation of `FocusKept`, section 5 |

A cache of one with two sessions makes every second load evict (the code has 20). Two calls race
at every await; stops, discards of a running session and switches to a loaded one do not await and
come on top of the two. Three calls of one session are a load, one that waits for it and one that takes the session away from both.
Sessions, runtimes and calls are interchangeable, so the safety runs use their
symmetry. `Overlap` is `"sessions"` except in `runtime_ghost`. `TurnKeepsRuntime` and `StopIsFinal` are checked with every kind of call, evictions
and `session:send` included; what the code does wrong is in their statements, as the marks of section 2, and not in the instance. Each mark is needed:
without any one of them the property it is in fails.
*Fairness* (`LiveSpec`): strong fairness of the steps of a load, weak fairness of the ends of teardowns. An agent gets ready,
the SDK answers or fails, handlers return. Strong, because in the model a teardown of another call comes between two steps
of a load any number of times, while in the code one that does not await is no turn of the event loop.

### SessionLoop

| run | instance | shows |
|---|---|---|
| `loop_silence` | desktop and bridge targets, two deliveries, three commands, one crash; limits of two turns, two failures, one retry, one deferral | `AlarmIsArmed`, `SilenceHasACause` |

Two deliveries are a wake that retries while another fires or a command is delivered. Three commands
put a stop or a pause between two starts or resumptions. Limits of two and one are the least at which
a count is both below its limit and at it (the code has larger ones); deliveries are
interchangeable. The crash may find anything under way, and what the restart makes of it runs on
with the commands that are left. There is no liveness run: a loop that may fall silent is not live, so
`SilenceHasACause` says instead which steps may silence it, and a step that is not one of its four
causes never does. Each of the four is needed: without any one of them the property fails.

### TurnStream

| run | instance | shows |
|---|---|---|
| `stream_resume` | streams that keep 1 event, turns of 1 text event, 3 streams, 1 background outcome, 2 drops, 1 other fault, three spent at most (a fault counts for two), with fairness | types, `HoleIsBeingClosed`, `TranscriptComplete`, `MarkHonest`, `ShownOnce`, `ThinkingEnds` |
| `stream_thinking` | the same with 1 drop and no other fault | violation of `NeverStuckThinking`, section 5 |

A stream that keeps one event is trimmed by the second, and a turn with its status and end has more than two,
so every resumption may come too late. Three streams are a prompt of two turns and one that
follows; the second drop hits what the first resumption asked for. The constraint `Promised` ends a
behaviour after the harms that free the window of the promises at stake (a stream forgotten, a drop while
rebuilding, a status discarded, an outcome unseen); what holds after them is left to the proofs, which have no bounds
and no constraint. `Remembered`, the constraint of the second run, lets a discarded status pass, which its
violation needs. *Fairness*: the socket reconnects for ever, what is on a connection is received and answered, fetches
return and rebuilds end, and the end of a run is told; a run need not end.

### Automations, TaskRegistry, AgentReview, SubagentRuns

| run | part | instance | shows |
|---|---|---|---|
| `background` | automations | two jobs, one of a single run; two revisions, two crashes or lost log lines | types, `OneExecution`, `RunsAgainForACause`, `EditStands`, `StartsWhatIsDue`, `DueIsServed` |
| | tasks, schedules | two tasks; one schedule with two runs in flight; two restarts or failed saves | `OneRunAtATime`, `DueIsRun` |
| | reviews | three reviews, two stops, a submission of somebody else, an abort that throws | `StoppedIsSilent`, `SessionReleased` |
| | subagents | three runs, one new thread at a time; three upsets with one run, one with two, none with three (aborts, stops, deletions, writes that throw, crashes) | `OneRunPerThread`, `OutcomesAgree`, `StoppedNeverSucceeds`, `PutAwayStaysAway`, `RunsSettle` |

Two jobs are one that is awaited and one behind it. A schedule is alone with its timer and handler, so one
stands for all; two runs in flight are one too many. The third review is the one that a late release of
the first, met by the second, can hurt. Three runs of a thread are one that works and two in line, and an end in the middle of it
is what a chain gets wrong. The constraint `Apart` keeps tasks and schedules in different
behaviours, which meet only in the file, has the runs of subagents begin in a fixed order, since they are
alike, and allows a run by itself three upsets (`MostUpsets`): a stop or an abort, a crash in the second before the flush, and the stop that
follows it. The action constraint `FlushedInTime` lets the timer write only while the process can still die, since nothing else reads the files.
The bounds keep the run within minutes; the theorems on subagents have none. *Fairness*: the minute's check and its timeout go on and executions
end; timers fire; sessions are created or not, agents answer or fail, turns end, aborts return or throw; a
child session that is told to stop stops, and a run's time is up one day. A handler's run of a schedule need
not end, nor a child session by itself.

## 4. Proofs

TLAPS proves the following from the constants' assumptions alone; those marked * also assume
something of the switches of section 2, named below the table.

| module | theorem | says |
|---|---|---|
| `DataEpochProofs` | `TypeCorrect` | `TypeOK`, whatever the operator does |
| | `Invariance`* | the inductive invariant `IInv` |
| | `BarrierHolds`* | `BarrierCovers`: while data needs a newer build, the stamp says so |
| | `JournalRecognised`* | `JournalMatchesStamp`†: an interrupted transition is read as incomplete, not corrupt |
| | `WayBack`* | `CheckpointKept`: the checkpoint that undoes it is there |
| | `StampNeverSlips`* | `StampLoweredOnlyByRestore`†, an action property |
| | `JournalIsHonoured`* | `GateHonoursJournal`, an action property: the gate opens past no interrupted transition |
| `DataEpochHomeProofs` | `HomeFitting`* | the invariant `Fitting`: what each store holds at each moment |
| | `HomeImplemented`* | `ImplementsHome`: `DataEpoch` implements `EpochHome` |
| | `SteadyHolds`* | `SteadyHome`†: a home over no journal is whole and in one format |
| | `OwnFormatHolds`* | `RunningReadsOwnFormat`† |
| `DeferredResultsProofs` | `DeferredTypes` | `TypeOK` |
| | `MarkIsEarned`* | `MarkedMeansTold`†, without retries in the middle of a delivery |
| | `FenceIsFinal` | `FenceHolds`†, an action property |
| | `FenceSilences` | `FencedStaysSilent`, an action property |
| | `ToldOnce`* | `NothingToldTwice`: told again only after a telling that failed or was cut off |
| | `MailboxImplemented`* | `ImplementsMailbox`: store, coordinator and bridge implement `Mailbox` |
| `SessionRuntimeProofs` | `RuntimeTypes` | `TypeOK` |
| | `OneWriterHolds`* | `OneWriter` |
| | `TurnsKeepTheirRuntime`* | `TurnKeepsRuntime`: a turn loses its runtime only to a stop, or for a cause that is marked |
| | `StopsAreFinal`* | `StopIsFinal`: a stopped turn does not run on, unless a second prompt was there |
| `SessionLoopProofs` | `TypeCorrect` | `TypeOK` |
| | `SlotIsArmed` | `AlarmIsArmed`: an alarm of a running loop has its timer |
| | `FailuresBounded` | `FailuresBelowLimit`† |
| | `SilenceIsCaused` | `SilenceHasACause`, an action property |
| `TurnStreamProofs` | `StreamIsTyped` | `TypeOK` |
| | `NothingShownTwice` | `ShownOnce`: nothing of a turn still going is shown twice |
| | `QuietMarkIsHonest` | `MarkHonest`: when all is quiet, "thinking" means that a run is under way |
| | `HoleIsClosed` | `HoleIsBeingClosed`: a gap on screen is never silent |
| | `TranscriptIsComplete` | `TranscriptComplete`: when all is quiet the screen shows every turn of the file |
| `BackgroundProofs` | `AutomationsAreTyped` | `AutomationsTypeOK` |
| | `NoJobTwiceAtOnce` | `OneExecution` |
| | `AgainForACause` | `RunsAgainForACause` |
| | `EditsStand` | `EditStands` |
| | `OnlyTheDueStarts` | `StartsWhatIsDue`, an action property |
| | `AgentReviewTyped` | `AgentReviewTypeOK` |
| | `ReviewsHoldTheSession` | `HoldsTheSession`†: a review that goes on keeps prompts away |
| | `StoppedReviewsAreSilent` | `StoppedIsSilent` |
| | `ReviewsEndWithAnOutcome` | `EndsWithAnOutcome`† |
| | `TaskRegistryTyped` | `TaskRegistryTypeOK` |
| | `ActiveTasksCanBeStopped` | `ActiveCanBeStopped`† |
| | `SchedulesRunAlone` | `OneRunAtATime` |
| | `OnceMeansOnce` | `OnceRunsOnce`† |
| | `RemovedStaysRemoved` | `GoneStaysGone`† |
| | `SubagentTyped` | `SubagentTypeOK` |
| | `OneRunAtATimePerThread` | `OneRunPerThread`: one run, or a fork, in a child session |
| | `StoresAgree` | `OutcomesAgree`: both stores say the same of a run that is over, unless a write threw or the flush was cut off |
| | `StopsHold` | `StoppedNeverSucceeds`: through every crash and failing write |
| | `ThreadsStayAway` | `PutAwayStaysAway` |
| | `IdleThreadsAreSettled` | `IdleIsSettled`† |
| | `ClosedThreadsStayClosed` | `ClosedStaysClosed`†, an action property |
| `SessionBranchesProofs` | `TypesHold` | `TypesOK` |
| | `ReopeningIsTrue` | `ReopeningShowsTheBranch`: a reopened session is on the branch it was on |
| | `FencesStayOff` | `FencedIsDiscarded`: a fenced task has its call off the branch |
| | `OutcomesAreMet` | `OutcomesMeetTheirCall`, an action property |

*DataEpoch.* `BarrierCovers` alone is not inductive: a migration may only run because the barrier
was raised, which is known from the journal's phase, which is only right because no other process
wrote it. `IInv` adds what each process's counter says of stamp, journal and checkpoint, what the
stores not yet migrated or restored hold, and that retained checkpoints hold the format of their
`from` epoch. `Discipline` is `Serial /\ InOrder`: with an overlap or a restore out of order the
invariant is false (section 5).

*DataEpochHome.* `IInv` bounds the formats that may be met; the refinement needs each store exactly.
`Fitting` adds that the home as the user has it and every checkpoint are whole and in one format
(`HomeFits`, `CheckpointsFit`), that the stores of a transition are as the checkpoint holds them until the barrier and from
then on between the two formats, with the user's data unchanged (`TransitionFits`), which kernel may run on what
(`RunningFits`), and that a store a restore has put back holds what was saved or an edit of it
(`RestoreFits`). One lemma per action shows that `Fitting` is kept and that the step is one of
`EpochHome` or shows the user nothing. Besides `Discipline` these theorems assume `~AllowDowngrade`: a build that the override lets in writes
its own format into the home, as it is meant to.

*DeferredResults.* `FenceInv` says that a fenced record has an outcome and counts as delivered, in
memory and on disk; every step that could lift the fence or tell the outcome asks for a record that
does not. `MarkInv` adds to the types `Recorded` (a mark in memory or on disk has been told, or is a
fence's) and `UnderWay` (a delivery of the coordinator or the bridge belongs to the current
registration, and past its send what it sends has been told). A retry in the middle of a delivery
breaks `UnderWay`, so `MarkIsEarned` assumes `RetryMidDelivery = FALSE`. `ToldOnce` follows the attempts instead of the marks: `OnceInv` says
that a delivery which still loads is of an attempt nobody has heard of, and that one which was heard of, and whose telling
is not in doubt, is marked, unless its delivery is still sending or the bridge has it. It assumes
also `SessionScans = FALSE`: the fallback's scan looks at no flight and tells beside the coordinator (section 5). `MailboxImplemented` needs, besides these, `Way`:
a delivery under way is of a record that is not marked, what it sends is not in doubt, and what is on record is numbered. So a mark
closes a letter that was handed over beyond doubt, and a failed send is of one that is not closed. One case for each action names the step of `Mailbox` that it is. TLC checked `Way` on the instance of the run with one crash first.

*SessionRuntime.* `IInv` is `TypeOK` with two groups. On calls: `Solo` (one load per session),
`Kept`, `Mine` (the in-flight slot is its load's), `Torn` and `Doomed` (whose runtime a teardown or
an eviction may drop). On files: `Apart` (registered runtimes are alive and of their session),
`Absent`, `Pointed`, `Noted`, `Own` and `Written` (a live runtime is registered or held by the load
that made it). `OneWriter` follows from the second group. `Discipline` is `Overlap # "any" /\
~SlowTeardown`: the run `runtime_ghost` refutes `OneWriter` without the first part. `IInv` was checked
by TLC on the instance of `runtime_writers`, and on one session with three calls, before it was proved.

`TurnsKeepTheirRuntime` and `StopsAreFinal` assume the same `Discipline` and nothing else: every operation, any size of the cache, any number
of calls. `TInv` says that a turn's runtime, if it lives, is the one its session has (`Aboard`); that a
prompt in preparation holds the abort controller of its session until it is aborted and has its runtime until it is stopped (`Preparing`,
`Controlled`); that a turn which runs has its runtime until it is halted, and that a stop finds it by that runtime and not by a controller
(`Running`); and that a teardown in progress takes the runtime of no turn that runs, a hibernation's also of none that is prepared
(`Resting`). Each of these has the marks for exceptions, where the code lets it fail; `Live`, which follows from `IInv`, says that what is registered lives. One lemma for the
steps that start, stop and halt no turn (`TurnsGoOn`) leaves those of the turns themselves and the stops. Where the focus is has no theorem: the code does not keep it (section 5).

*SessionLoop.* `AlarmIsArmed` speaks of running loops only and is not inductive: a resumed loop would
take over the slot of a paused one. `IInv` adds that a paused loop has an empty slot, which holds because
every way to pause goes through `Ended`, and that a sleeping wake has tries left, on which the type of
the next one rests. `SilenceIsCaused` takes each action in turn: a step that leaves a running loop with no
alarm, no delivery, no turn and no work is one of the four causes, or found it so.

*TurnStream.* `ShownOnce` speaks of two pairs of a stream's id and an event's number, and a replay is judged by what
the window remembers of one stream only. `ShownInv` adds that one request at most is asked, on its way back or being rebuilt from (`OneRequest`), that
the messages on a connection speak of streams in the order these began (`InOrder`), and that whatever is shown is in the
session file, consumed, or of an earlier stream, which nothing will speak of again (`Consumption`). A
connection dropped during a rebuild breaks `OneRequest`: the rebuild goes on and asks for itself while the reconnection
asks too. For `MarkHonest` a message on the wire is read as what it will make of the mark. `Honest` says that the last status or reply on
its way to the window (or, if there is none, the mark, or the reply it rebuilds from) is true of the run,
as long as no request is on its way to the server; that a status which ends another stream than the marked one, and so leaves
the mark as it is, is followed by a reply, which ends whatever is marked (`Matches`); and that without replies, which a lost
connection does not repeat to an unmarked window, no run would be taken for ended (`Stands`).

`HoleIsBeingClosed` and `TranscriptComplete` follow from `JourneyInv`, which holds for as long as no harm is done and
follows every event to the screen. An event is *due* when its turn is in the session file or its stream still
keeps it; what is due and not shown is *coming* (`Coming`): on the wire, newer than what the window has seen while the
connection is down and the window marked, asked for, or in a reply on its way that replays it or makes the window rebuild
(`Arriving`). That taking a message leaves the rest coming needs the order of things on the wire (`Sorted`): streams in the
order they began, within a stream events and replies by the last number they tell, all above what the
window has consumed and below the store's next number. So a number is consumed only when everything below it in its
stream is shown, or is being asked for. A rebuild reads the session file, and what the file does not yet hold must
come otherwise: from a live stream the window asks again; for a stream that is finished the reply is followed on the wire
by the status that starts every newer stream, before any event of it (`Announced`). Neither property is inductive
without all of these. An earlier form of the model
had no name for the background outcome that nobody asks for; TLC refuted the property as soon as two outcomes
were allowed, and the harm `outcome_unseen` was added for what the code does. The invariants were checked by TLC on
instances with streams of one and two events before they were proved.

*Automations.* `OneExecution` and `StartsWhatIsDue` rest on the lock: it is the execution in progress, of which there is at most
one (`LockTells`). That an edit stands and that nothing runs again without a cause need the revisions: the one awaited
is the one on file or an earlier one, and an earlier one if an edit is to stand (`RevAwaited`); a cursor that was run and
that nothing disturbed is run just now, at the revision on file (`RunOnce`).

*AgentReview.* `HoldsTheSession` rests on `EntryIsSafe`: while the review that holds the session has met no late
release, nobody but itself has one still to come. With it go
`SlotIsHeld` (a submission of a review is by one that is submitting) and `EarlyAndHeard` (a review stopped early
stays cancelled and has not been heard), and what `stopping` counts.

*TaskRegistry.* The invariant says of the active tasks what `ActiveCanBeStopped` says, in memory and in the
file, from which a restart takes them; of the schedules that without a cause a run in flight is the only one and no timer is
armed beside it (`RunsAlone`), that what has run once has no timer and no next run
unless its run is still in flight (`RunsNoMore`), and that a removed one has no record, no timer and no
run that could put it back (`NoOrphan`).

*SubagentRuns.* Each run knows the one before it and the chain the last, and nothing the whole line. The invariant says
that the runs of each thread can be numbered (`Line`, an existential statement) such that of any two in flight the
greater waits for one that is not below the smaller, and the chain holds the greatest; a reply extends the
numbering, an end in the middle leaves it. Of a thread that is copied, all in line wait (`Copied`). That at most one
works follows. What the stores say is `ToldAlike`, in two halves. `Agrees` is of memory: at each stage of a run, what deferred result, run record and task say, and of a run
that was stopped that neither says "resolved". `Trails` is of the files: each says what its store says or what it said before, so that a crash takes a run back and never
to a success that was stopped; a stop that finds a flush to come ("pending" reloaded beside "resolved") is of a run that `Lost` has put
into `torn`, and counts as no stop before its end. `Saves` says where the run store's file is up to date, `Filed` that the file of the threads would be as good a
state as the threads are, which is what a crash needs. `Begun`, `Threaded` and `ClosedIsQuiet` are what a thread may say of its runs. The exceptions `torn`, `stuck` and `late`
are given by the action that causes them, and `StoppedNeverSucceeds` has none. TLC checked the invariant on three runs with
up to three upsets, over 1.3 million states, before it was proved.

*SessionBranches.* The line of an entry is a recursive function of the file, and the library's induction theorems, which
take an operator, are out of reach. What is needed is proved from a counterexample
instead: the set of entries without the fact has a least member (`LeastOf`, from `WFMin`), which the entry before it
refutes (`Reaches`). So it is known that a line exists, is the entry with the line before it, stays below it and holds the
lines of its entries (`LineExists`, `LineIs`, `LineBelow`), and that a file that grows leaves its lines as they were (`Longer`,
`LineAppend`). `BranchShape` gives the types and says that a runtime with a turn knows the last entry and that what a retry
discards is off the branch it goes back to, which is the runtime's below its leaf (`PlanFits`). `FencedIsDiscarded` speaks of
the runtime, which after a crash comes from the head or the file's end: `CleanBranches` says the same of every place the session may go on from.
`CallsHeld` says that an outcome still to be told has its call on the runtime's branch, or on the one shown while there is
no runtime, or went astray; `OutcomesMeetTheirCall` is then a property of the step that tells. `BranchShown` says how the head and the
runtime differ: the head names the leaf and has seen the whole file, or the runtime went on from the head's branch and what
lies between is on its own (`Followed`); after an undone or torn retry less is known, and that is named. The reopening is computed
from the head and the file, and each case of `Followed` gives the conversation. The four were checked by TLC with six entries and
two mishaps before they were proved. `TypesOK` is of both components of `MCSessionBranches`, and `Beside` says that a
behaviour of the pair is one of each.

Model-checked only: every liveness property (`RestoreFinishes`, `OutcomeReachesParent`, `JoinedReleased`, `ThinkingEnds`,
`DueIsServed`, `DueIsRun`, `SessionReleased`, `RunsSettle`), and what the violating runs check (`OneWriter` without `Discipline`, `FocusKept`, `NeverStuckThinking`), which the code breaks.
Liveness under fairness and `ENABLED` are out of the prover's reach. Every safety property that a passing run checks is stated by a theorem, of the
specification or under the assumptions named above. No module has a recursive operator.

## 5. Findings

Each violating run checks one statement of the repository against what its code does; `PROJECT.json`
("findings") quotes the statement and the line.

| run | what the code does |
|---|---|
| `runtime_ghost` | a switch during a background load of the same session makes a second writer of its file |
| `runtime_refocus` | a background load that ends, or fails, puts back the focus it found, also when a switch to another session has moved it meanwhile |
| `stream_thinking` | a status that arrives during a rebuild is thrown away, the end of the run included, and the window goes on saying "thinking" |

The code does more that its comments, tests or callers do not expect, met while it was modelled or read. No run is
kept for it: where a property would fail, its statement names the cause or the assumptions of section 3 leave it out.

Data epochs:

- *A restore out of order* (`core/data-epoch-restore.ts:432`): a restore does not compare its checkpoint with
  the stamp, and can leave a store in another epoch's format (`InOrder = FALSE` refutes `RunningReadsOwnFormat`).
- *Restore of a store of unchanged size* (`core/data-epoch-restore.ts:288`): a restore that skips a
  migrated store because names and sizes match fails its own byte comparison, on every rerun
  (`SizeOf` not injective).
- *A build of epoch 1 in the middle of a restore* (`server/index.ts:330`): `mustBlock` is false when
  the stamp shows no higher epoch, so the kernel starts. `GateHonoursJournal` and `RestoreFinishes`
  say so in their statements.
- *A restore beside a migrating kernel* (`core/data-epoch-restore.ts:151`): the probe knows a kernel by
  `server-info.json`, which is written after transition and boot (`Serial = FALSE`).
- *A transition that dies before its checkpoint* (`core/data-epoch-coordinator.ts:433`) blocks the home,
  and no restore can take it over.
- *A restore that dies between audit line and receipt* (`core/data-epoch-restore.ts:545`) logs itself twice
  (`trail.logged = 2`).

Deferred results:

- *A retry in the middle of a delivery* (`lib/deferred-result-store.ts:221`): the old delivery marks the
  new attempt, whose outcome is never told (`RetryMidDelivery = TRUE` refutes `MarkedMeansTold`).
- *A delivery that never returns* (`lib/deferred-result-coordinator.ts:93`) blocks the outcomes behind it in
  every later flush.
- *The fallback beside the coordinator* (`lib/extensions/deferred-result-ext.ts:52`): the scan may tell what a
  delivery that waits for a turn to end is about to tell.
- *A bridge's cache* (`lib/bridge/bridge-manager.ts:2312`, `:2329`): a task retried within ten minutes is answered from
  the cache, and a send that fails is not tried again.
- *The second before a flush* (`lib/deferred-result-store.ts:510`): a crash in it loses what changed;
  `OutcomeReachesParent` starts from what is on disk.
- *A session closed within half a second of its start* (`lib/extensions/deferred-result-ext.ts:81`) is sent
  the outcomes of other sessions (`scan = "stray"`).

Sessions:

- *The eviction of a cache that is full* (`core/session-coordinator.ts:2666`) compares a session id with a path and does
  not recognise the focused session.
- *A second prompt of a session* (`core/session-coordinator.ts:4963`) overwrites the abort controller of the first,
  and a stop misses one of them (the mark `bare`).
- *An archive during a load* (`core/session-coordinator.ts:5862`) moves a file that the load is about to open.
- *A turn starts on a runtime that is being hibernated* (`core/session-coordinator.ts:5773`) when a
  shutdown handler awaits: `TurnKeepsRuntime` fails with `SlowTeardown`.
- *A stop during the preparation of a submission* (`core/session-coordinator.ts:5175`) leaves a background
  turn of the session running (the mark `beside` of `StopIsFinal`).
- *A runtime is taken from under a prompt that is being prepared* by an eviction or a discard, and from under a turn by a
  reload, none of which asks whether a prompt is there (the mark `robbed` of `TurnKeepsRuntime`).

Session branches:

- *An undone retry that reopening does not show* (`core/session-turn-actions.ts:624` says the rollback marker has the effect that "reopening
  the append-only JSONL cannot select the failed branch"): a marker that cannot be written throws past the head's rollback
  (`:343`), and a head that cannot be written leaves the rewound one; a user's prompt repairs both in its `finally`.
- *A turn after the undone retry of a custom message*: the head rests on the leaf below its marker, with the marker as
  the last entry seen; what follows continues a tail that counts as discarded, so a turn that is cut is dropped on reopening.
- *A runtime let go of while a retry awaits its media* (`core/session-turn-actions.ts:250`): the commit rewinds the manager of
  the old runtime, and the prompt runs on the new one, which is not rewound; the tasks are fenced though their calls
  are still on the branch.
- *A turn that runs while a retry awaits its media*: it is discarded with the rest, but the tasks it starts are
  neither fenced nor cancelled (`:268` reads them before), and their outcomes are told where nobody asked.
- *A death between the head and the fences* (`:293`, `:309`), or within the second before these are saved: the turn is discarded
  and its outcomes come all the same.
- *A fork takes the branch of the last entry* (`core/session-coordinator.ts:3518`): it opens the file without applying the head, which
  `continueDeletedAgentSession` (`:4189`) does apply, and looks for its node where the last append was made.

Session loops:

- *A running loop that nothing wakes* (`lib/loop/loop-controller.ts:6` calls it a hard guarantee that a
  running loop has an alarm or live background work): the first delivery of a start or a resumption that fails or finds the session busy
  (`:89`, `:117`), a bridge run that fails before its first turn and is taken for delivered
  (`core/bridge-session-manager.ts:1492`), a desktop turn that ends while the session still streams
  (`lib/loop/loop-controller.ts:219`), background work whose result never comes. These are the causes
  `SilenceHasACause` names.
- *A stopped loop that ends up paused* (`lib/loop/loop-controller.ts:167`): a wake that is suppressed because
  its loop was stopped or completed uses up its retries and then pauses it, which makes it resumable.
- *A turn of a stopped loop* (`core/engine.ts:872`): a desktop wake does not look at the loop again once
  its session is loaded.
- *A spent budget that resuming does not renew* (`lib/loop/loop-controller.ts:310`): a pause on top of the
  budget's replaces the reason, and `resume` resets the turns for that reason only (`:114`); the next
  counted turn pauses the loop again.
- *A user's turn that counts* (`lib/loop/loop-controller.ts`, `onTurnStart`): a pending mark is taken up by
  the next turn, whoever started it.


The stream to the window:

- *A background outcome in an idle session* (`server/session-stream-store.ts`) begins a stream that says it is live though no
  turn is under way.
- *A reset that does not say what is missing*: the reply to a request for another stream says `truncated: false`
  also when its beginning was trimmed; the window rebuilds in either case.
- *A finished stream is deleted* when the last client leaves, when the store is full and at a restart; the reply is
  then empty, and a status that names no stream is ignored by a window that has one.

Automations:

- *A failed `at` job* (`lib/desk/cron-store.ts`) is disabled, and the time of its next try that is computed for it
  is never used: switching it on again clears it. An update with `enabled: true` instead runs it then.
- *A log line that cannot be written* after a run that went right marks the run as failed; if that write fails too, the
  check ends and the jobs behind wait for the next one.

The task registry:

- *A schedule changed during its run* (`lib/task-registry.ts:470`): the end of the run writes its old record back. What
  was unscheduled is there again, what was scheduled anew has its old time.
- *A schedule or a handler registered during a run* arms a timer, and a second run starts beside the first.
- *A time more than 24.8 days away*: the timer is cut to that and runs the schedule when it fires, due or not.
- *A firing without a runner* drops the timer until a handler is registered.
- *A task that is updated after its abort* is active again and answers `already_aborted` to every further one.

Agent reviews (`lib/agent-review/turn-coordinator.ts`):

- *Entries are deleted without a look at whose they are* (`:260`, `:286`): the end of a cancelled review, or the second of two cancels, releases
  the session from under the next review. This is the exception of `HoldsTheSession`.
- *An abort that throws* leaves the entry, and the session takes no review until a restart.
- *A stop during the review's own turn* is answered as accepted and stops nothing.
- *A plain submission* is not kept away by a pending review: the review's own then fails, after it was announced as completed.

Subagents:

- *After a restart* the deferred result and the run record of a run that was cut stay pending and its task "recovering", until the session
  is stopped. Until then forks (`core/session-coordinator.ts:991`), edits of turns
  (`core/session-turn-actions.ts:38`) and a loop's conservation check (`core/engine.ts:862`) see live work.
- *The second before a flush* (`lib/deferred-result-store.ts:505`): the run store is written at once and the deferred results a second
  later. A process that dies in between finds "pending" beside "resolved" when it is back, tells the parent nothing, and
  a later stop writes "aborted" beside "resolved".
- *A write that throws in a settlement* (`lib/tools/subagent-tool.ts:599`): the deferred result is resolved and can be settled once only, the `.catch`
  writes "failed" to the run store all the same. The two differ without any crash.
- *A run store that cannot be written when a run is registered*: the tool throws, the deferred result and the run are
  on record as pending, and nobody runs or settles them.
- *A write that fails twice in a settlement* leaves the thread pending, as if something ran; the next restart calls it
  failed and opens it, also when it was closed meanwhile (the exception `stuck`).
- *A stop while a child session is made* (`lib/subagent-thread-store.ts:248`): the end of the run puts the thread back that the stop removed, and the
  file of that child may be deleted under it. This is the exception of `PutAwayStaysAway`.
- *The next run of a thread begins before the one before it is settled*, so that the thread can say the outcome of the one
  while the other runs, and after a crash it goes on saying so.
- *The runs of a deleted agent* go on; a reply is not counted against the limit per session.

Beside these, `core/data-epoch-restore.ts:35` says that no CLI command calls the restore yet;
`cli/data.ts` does.

## 6. Limits

The models say nothing of message contents, prompts, model output, display, file formats inside a
store, performance, or of what other programs do to the files. Bounds on epochs, transitions,
registrations, crashes, calls, commands, limits and cache size are those of section 3; the theorems of section 4 have none
except where a constant is itself the bound.

## 7. Plan

*Not modelled yet*, most consequential first; each would be a module of its own, or a part of `MCBackground`
where it is small and stands alone.

1. The life of session files (`core/session-manifest/`): ids and locators while files are archived, moved and loaded; forks
   of a session, which copy what `SessionBranches` has. It composes with `SessionRuntime` and `DeferredResults`.
2. Confirmations and drafts (`lib/confirm-store.ts`, `lib/approval-gateway.ts`, `lib/session-collab/`): settled exactly
   once; a half-applied draft is not applied again.
3. Compaction (`core/session-compactor.ts`): turns while a model is awaited.
4. Workflows (`lib/workflow/`): a finished step is not run again after a restart.
5. Bridges (`lib/bridge/`): order of a chat's messages across debouncing and reconnects.
6. MCP connections, memory, resource watches: counts and cursors against retries.

*Not modelled on purpose.* What is left out in the inventory is configuration, transport, display, generated data, or a projection
of the state modelled here. Most of the source is of that kind (the desktop client, its styles and shared
schemas, model catalogues, prompts, tools whose work is done by other programs), and a model of it
would repeat its text without a question to ask of it. Migrations are the edges of `DataEpoch`; what each of
them rewrites is data.

*Abstract specifications.* A lock per session file for `SessionRuntime`. A transcript that only grows for `TurnStream`. A tree of turns with one current leaf for `SessionBranches`.

*Theorems.* The refinement of each of these, from the invariants of section 4.
