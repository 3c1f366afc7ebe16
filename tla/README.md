# TLA+ specifications of ptygrid

ptygrid runs command-line agents in a grid of terminal panes and lets them work
together. Its backend (`src-tauri/src`) is a handful of managers that run on
threads of their own, call each other without a common lock, and are changed
from outside by agents, by the operator and by processes that exit; a window
(`src/`) shows what they do. This directory holds the specifications of that
system, their model-checking configurations and the proofs about them. Paths
below are relative to `src/src-tauri/src/` unless they say otherwise.

| Module | What it is | Checked by | Proved in |
| --- | --- | --- | --- |
| `WorkflowDef` | a declared workflow and every decision taken on a run's rows alone: joins, retries, conditions, fail-fast, the verdict | runs of `Workflow` | `WorkflowProof` |
| `Workflow` | the DAG driver, launch and cancel of a run, against panes, statuses and replies that change at any time | `race`, `wedge`, `siblings`, `cancel_race` (`MCWorkflow`) | `WorkflowProof` |
| `Recovery` | `Workflow` with the table of runs behind it, a stop of the application anywhere, resume and abandon | `recovery` (`MCRecovery`) | `WorkflowProof` |
| `Streams` | streaming fan-out: a step that answers many times, a copy per answer | `streams` (`MCStreams`) | `StreamsProof` |
| `Schedules` | workflows that start by the wall clock | `schedules` (`MCSchedules`) | `SchedulesProof` |
| `PaneTable` | abstract: what the session manager promises about a pane | `sessions` | `SessionsProof` |
| `Sessions` | the session manager, one action per lock section | `sessions` (`MCSessions`) | `SessionsProof` |
| `AgentStatus` | the detector of what an agent is doing, on a `PaneTable` | `schedules` (`MCSchedules`) | `SchedulesProof` |
| `Teams` | the Agent Teams host: split-window, hooks, fallback, transcripts | `teams` | `TeamsProof` |
| `Mailbox` | the inbox of the Queen store and the callers that wait on it | `store` (`MCStore`) | `QueenProof` |
| `Records` | pins and notes, guarded by a revision | `store` | `QueenProof` |
| `QueenStore` | the history of runs, in memory and in the store | `store` | `QueenProof` |
| `Hub` | the life of the Queen server | `config` (`MCConfig`) | `ConfigProof` |
| `Declarations` | what `config.rs` accepts, one operator per rule | `config` | |
| `Config` | the life of `ptygrid.yml`; composes `Declarations` and `Hub` | `config` | `ConfigProof` |
| `Presets` | the launch of a team preset by two callers, on a `PaneTable` | `grid` (`MCGrid`) | `GridProof` |
| `Window` | what the window shows and saves, on a `PaneTable` | `grid` | `GridProof` |

Operators under a comment `Mutant:` are wrong variants of the definition that
follows them: each makes a property of a run fail, which shows that the property
depends on that definition.

## Inventory

Each entry gives the state a component keeps, its operations, whom it talks to,
what is hard about it, and what makes it correct.

**Workflow driver** (`orchestrator.rs`; `Workflow`, partly). State: `WorkflowRegistry`, a
mutexed map from run id to the run's `step_outcomes`. One thread wakes every
200 ms and calls `advance_run` for each active run: a clone of the run is taken
out, some ten passes change it, and it is put back. It calls the session manager
(spawn, restart, kill, list), the inbox (deliver, acknowledge, retire), the status
view and the notifications. Hard: no lock is held between get and put, so commands
interleave; rows are indexed by copies that appear during the run; a tick decides
on samples of the grid and of the clock that are stale by the time they are used.
Correct: no step starts early or twice, attempts are bounded, a pane has one owner,
a skip and a verdict are never wrong, a failure is announced once, every run with
timeouts ends. Left out: the texts handed on.

**Workflow commands** (`spawn_workflow`, `cancel_workflow`, `resume_workflow`,
`abandon_workflow`, `load_config`'s offer; `Workflow` and `Recovery`, modelled). They
run on a command or MCP thread, call the helpers of the driver, and put whole runs.
Hard: they race the driver and one another. Correct: a terminal run stays so.

**Workflow persistence** (`persist_run`, the `workflow_runs` table; `Recovery`,
`QueenStore`, partly). A snapshot of the run after every put, in the same thread and
with nothing held in between; pruning of finished rows. Hard: a stop between a put
and its snapshot, and what a row does not serialize. Correct: no skip and no verdict
is wrong after a resume, a run with a row can be offered, what was handed on is kept,
what is shown is stored. Left out: the refusal of `onEach` workflows at resume and the
re-adoption of surviving panes.

**Streaming fan-out** (`mint_stream_copies`, `close_stream_targets`, the reply scan;
`Streams`, partly). Copies appear one by one as an upstream agent replies. Hard: a scan
with a limit over mail others never acknowledge, replies after the end, copies that
find no cell. Correct: every reply becomes one copy of every consumer in order or is
noted, the scan never goes deaf, the run ends, and green means done.

**Workflow declarations** (`config.rs`; `Declarations`, modelled): names, steps, joins,
cycles, conditions, streams, schedules, presets. Correct: what is accepted can be run.

**Configuration and reload** (`config.rs`, `commands.rs`, the window's listener; `Config`,
modelled). The manager's loaded file, its watcher, the event, the reload. Hard: an edit
between the read and the watch, the replaced watcher, the throttle of the window.
Correct: as long as the file in force is not as the operator last heard of it, word of it
is on its way.

**Schedules** (`tick_schedules`; `Schedules`, modelled). A row per schedule: its
declaration, next time, streak, stop. Hard: clock changes, a machine asleep, edits, a
run that ends between two ticks. Correct: one fire or skip a day, nothing due passes
in silence, only a success ends a streak.

**Session manager** (`session.rs`, `pty.rs`, `remote.rs`; `Sessions`, modelled). A mutexed
map of slots, each with a generation, a phase and restart counters. Operations: spawn,
kill, restart, end of a reader, delayed autorestart and ssh reconnection. Hard: a
reader of an old generation, a delayed respawn and an operator's restart or kill meet
on one slot, and nothing slow is done under the lock. Correct: no process is
forgotten, no slot stranded, respawns end, and the others see `PaneTable`.

**Queen store** (`queen_store.rs`; `Mailbox`, `Records`, `QueenStore`, modelled). SQLite
tables for messages, pins, notes and runs, and one wake-up channel per mailbox. Hard:
a message between the look and the wait; the last waiter drops a channel another is
about to use; an id or key used again after a deletion. Correct: nobody sleeps through
mail, no channel leaks, a matching revision means the content that was read.

**Queen server** (`queen.rs`; `Hub`, partly). `apply` starts, moves and stops a local MCP
server; every start is a task with an epoch. Hard: a stop before the bind, a bind on a
port the old server has not left. Correct: no stray server, an enabled hub is served or
says why not. The tools are calls to the other components.

**Agent status** (`agent_status.rs`, `ansi.rs`; `AgentStatus`, partly). Marks, a task that
ticks, a tracker per pane. Hard: marks that meet a reload, events told after their
unlock. Correct: nothing goes unjudged, Done decays. The regular expressions and the
rendering of a screen are left out.

**Agent Teams host** (`teams_host.rs`, `teams_hooks.rs`, `transcript.rs`; `Teams`, partly).
Two hooks and a split-window request per teammate are correlated by a guess with a
window. Hard: requests and watchers are threads; the lead exits and comes back. Correct:
nobody is given up for nothing, nothing follows a stop, an exit that a poll sees is told. `capture`,
`write`, `list`, `focus` and several leads are left out.

**Team presets** (`team_presets.rs`; `Presets`, partly). Hard: the count of the grid and
the opening of a pane are two lock sections, and two callers launch at once. Correct:
the overshoot is bounded. Where `init.rs` writes is in `Config`.

**Frontend** (`src/src/App.svelte`, `stores.svelte.ts`, `terminals.ts`; `Window`, partly).
Hard: threads tell of a pane after they have unlocked the map, their events and the
replies to commands are not ordered with each other, and every await gives way. Correct: what is shown is the state, no terminal leaks, the saved
layout is the open one. Layout, menus and panels are left out.

**Remote panes** (`decide_reconnect` is in `Sessions`), **transcripts and pane context**
(the tail is in `Teams`), **notifications** (how often the driver tells them is in
`Workflow`): the rest is command lines and text. **MCP compatibility**, the **Teams
backend shim**, **worktrees and git**, **settings, trust and tokens**, the **resource
monitor** and the **application shell** are not modelled; `PROJECT.json` gives the reason
for each, and lists the hazards of this code one by one, at their lines.

## The workflow model

### State

| Variable | Code |
| --- | --- |
| `reg` | `WorkflowRegistry`: state and rows of each run |
| `pane` | the session manager's slots: live, dying (killed, not reaped), exited with success or not, gone |
| `done` | the panes whose last event in `StatusView` is Done |
| `mail` | the kickoff thread of each copy in the inbox |
| `notified` | calls of the notification layer |
| `pc`, `cur`, `loc`, `changed` | the driver: pass, run, its clone, its dirty flag |
| `due`, `over` | the clock sampled at the start of a tick: rows whose timeout or backoff has elapsed, rows that waited too long for a pane |
| `todo`, `budget`, `claimed` | the loops of `fire_due_retries` and `spawn_ready` and what each read before its loop |
| `launch`, `snap` | `spawn_workflow` in progress; the clone a `cancel_workflow` holds |

A step is its position in the declaration, a row is indexed by a copy `<<s, k>>`
(the code's `"s#k"`, or the bare `"s"` for `k = 1` where there is one copy or the
step is not expanded yet). Rows are a total function: a row that does not exist is
`"absent"`. Minting, retrying and deferring are then updates of one function.

### Actions

One action per pass, in the order of `advance_run`:

| Action | Code |
| --- | --- |
| `Tick` | the registry read and the clock |
| `DetectReplyCompletions` | `detect_reply_completions` |
| `DetectCompletions` | `detect_completions` |
| `CheckTimeouts` | `check_timeouts` |
| `CancelStragglers` | `cancel_stragglers` |
| `FireDueRetries`, `RestartInPlace`, `RespawnFresh`, `PostponeRetry` | `fire_due_retries`, one action per outcome of one retry |
| `DecidePasses` | `arm_retry_backoff`, `condition_targets`, `failfast_targets`: they touch the clone only |
| `SpawnReady`, `DeferStep` | one step of `spawn_ready` |
| `Finish` | the second arming, `take_escalations`, `finalize_state`, put and announcement |
| `LaunchBegin`, `LaunchRoot`, `LaunchDeferred`, `LaunchEnd` | `spawn_workflow` |
| `CancelRead`, `CancelWrite` | `cancel_workflow` |
| `Environment` | exits, reaping, statuses, replies, the operator, panes of others |

A pass, and one iteration of the two loops, is atomic: within one the code reads
and changes the clone, which nobody else sees, and calls each of its neighbours
at most once per row. Between two passes anything may happen.

### What is abstracted

- Time. The code compares a clock sampled once per tick with deadlines. The model
  chooses, at the start of a tick, which of the running timers have elapsed; a
  longer wait is a later tick that chooses differently.
- Replies have three values: none, one a condition accepts, another. Later replies
  on a thread replace the recorded one, as they do in the code.
- Text (details, errors, titles, bodies handed to a dependent step) is left out.
  Whether a deferred step counts as changed depends on the text of its message,
  which quotes the occupancy of the grid: the model lets it be news or not.
- A slot is its phase and the agent it runs, as in `PaneTable`. The generations behind
  a phase are in `Sessions`.
- `SpawnReady` reads the panes once for a step, the code twice in a row
  (`orchestrator.rs:3764-3765`), and `CancelWrite` kills the panes (1521) in the step that
  puts the run (1546).
- What may fail is a parameter: `SpawnFails` and `KickoffFails` name the steps whose
  start or whose kickoff delivery may fail, `Operator` what the operator does,
  `Cancels` whether runs are cancelled.

### Properties

| Property | Says |
| --- | --- |
| `NoEarlyStart` | no attempt before every join upstream is satisfied and a condition matched |
| `RetryBudget` | at most `retry.max + 1` attempts; backoffs armed only with budget left |
| `RowsAdvance` | in the registry attempts never fall, results never change, an armed retry goes only into its attempt or a cancelled race |
| `OneOwner` | two steps that run, or will restart in place, hold different panes |
| `ToldOnce` | a failed run is announced, nothing twice |
| `Termination` | every run whose steps have timeouts ends |
| `SkipJustified` (`recovery`) | a skip is explained by the step's condition or by a join that can never be met |
| `VerdictExact` (`recovery`) | a run is green exactly when every join is met or excused by a declined condition, against a definition without the recursion of `mod verdict` |
| `TerminalOnce`, and others under Findings | what comments in the code promise and the code does not keep |

`NoEarlyStart`, `RetryBudget` and `OneOwner` are stated of every clone of a run in
memory, not only of the registry: a stale clone may be put back.

## The other models

**`Recovery`** extends `Workflow`. `db` is `workflow_runs`, `writing` the snapshot each
thread has put and is about to persist, `offered` the runs the operator is asked about.
`Crash` loses panes, marks, registry and the fields of a row that are not serialized;
inbox and table survive, and pane ids start again at one. `LoadConfig` offers the rows the
table calls running; `ResumeWorkflow` refuses, collapses and puts as the code does;
`AbandonWorkflow` marks. `FinishAndPut`, `LaunchAndPut` and `CancelAndPut` are the
actions of `Workflow` that put, followed by the `PersistRun` of their thread.

**`Streams`** is one stream step, its consumers and a step that joins them. A tick is five
actions in the order of `advance_run` (`Scan`, `Mint` once per unit, `Detect`, `Retry`,
`DecideAndSpawn`), because agents write and end between any two passes. A message is
its position in the mailbox, a kickoff thread the length of the mailbox when it was
sent. `Page` is `list_inbox` with `INBOX_REPLY_SCAN_LIMIT`. `Retry` leaves out a restart in
place that errs and a refused kickoff (`orchestrator.rs:4340-4386`); in `Workflow` a kickoff may be refused.

**`Sessions` and `PaneTable`.** `slot` is the mutexed map; `spawner` and `reader` are the
threads that work on a slot, indexed by the generation they left with; `hand` is what
a thread took out of the map. Every lock section is an action, and what is done
without the lock (fork, wait, emit) falls between two. `PaneTable` has one variable
and seven arrows. `KeepsTheTable` is the refinement: the status of a pane is read off
the slot, so `INSTANCE PaneTable WITH status <- ...` maps a lock section to one arrow or a
stutter. What is emitted after an unlock is a step of its own (`TellExit`, `Reap`), and `told`
is what the frontend heard last. A remote pane brings itself back without end when its
`max_reconnects` is 0, as `remote.rs:220, 233` says (`ReconnectCap = 0`). `AgentStatus`,
`Presets` and `Window` are written over an instance of `PaneTable`, so what they are shown to keep holds of any session manager that
implements it. The pane of `Workflow` has the same phases (`"dying"` is `"closing"`).

**`AgentStatus`**: `marking`, `queue` and `todo` are a mark on its way through
`mark_dirty`, the channel and the drain; `tracker` is the tracker of a pane, `badge` and
`view` what the window and the driver were told. Text is what the tail of the screen
is classified as.

**`Schedules`** counts half hours; a zone maps an instant to an offset, so local time
skips and repeats. `Tick` is the whole of `tick_schedules`: rebuild, re-anchoring,
overlap, grid and grace checks, streak, stop. `Pass`, `Disturb`, `Edit`, `Undeclare`,
`RunEnds` and `ByHand` are what may happen between two ticks. The calendar is
tabulated once (`FireTable`).

**`Teams`**: `asking` is a split-window request on its task, `hook` a SubagentStart handler
between its two steps, `watcher` the thread that looks one window later, `tail` the
thread that follows a transcript, `monitor` the poll of the panes. `RestartPane` is the button
in the header of a pane (`App.svelte:2025-2030`): `restart_session` refuses transcripts only, so
a teammate that exited may run again (`Respawn`) before the next poll.

**`Mailbox`** has two locks: writers keep the connection until they have notified
(`writer`), `channel` is the table of waiters behind a lock of its own. A waiter is read,
select, leave, drop, as `await_inbox` and the drop of its subscription are.
**`Records`**: every operation is one immediate transaction, so one action; `copy` is
what an agent has read. **`QueenStore`** adds the history of runs and its pruning.

**`Hub`**: `hub` is the status, `task` one record per epoch: binding, bound, serving,
draining. `HubSpec` lets any settings arrive at any time; in `Config` they arrive by a load.
`Bind` looks at all ports at one instant, where the code tries them one after the other
(`queen.rs:252-261`).
**`Declarations`** has one operator per rule of `config.rs`; text is what a rule reads of
it; an explicit 0 (`fanOut`, `timeoutMs`) is not told from a field that is not set.
**`Config`** is a load step by step (read, watch, replace), the watcher's burst, the
event, the window's throttle, and the hub each load reconfigures; a file
is numbered by its last save, `known` is the save the operator last heard of; `LoadedIsRunnable`
discharges `ValidWorkflow`, which `Workflow` assumes, for whatever `WorkflowOk` lets in.

**`Presets`**: `start_team` member by member, each look, count and opening a step of its
own, by the window and by a tool. **`Window`**: a thread that changed a pane tells of it after
the unlock, message by message (`unsent`, `Emit`); the next thread of the pane goes to work
when that one has told, because a reader is spawned after `spawn_into_slot` has emitted and a
delayed respawn is scheduled after `handle_eof` has. A restart by hand waits for nobody: what
the overtaken thread has to tell becomes `late` and arrives whenever it does (`EmitLate`), also
after the news of the restart. `events` and `replies` are not ordered with each other; commands
run one at a time in the order they were invoked; every await is a place where the other
handlers run. A tombstone expires at any time; there may be no configuration, and then there
is no snapshot; a save may fail.

## Runs

| Run | Properties | Distinct states | Setting and bounds |
| --- | --- | --- | --- |
| `race` | `NoEarlyStart`, `RetryBudget`, `RowsAdvance` | 65 thousand | lead, two racing copies with one retry, lead again; 3 cells; starts of the racers may fail |
| `wedge` | `ToldOnce`, `Termination` | 17 thousand | a counted fan-out and a retried reply step on 2 cells, one of which somebody else may take for ever; refused kickoffs |
| `siblings` | `OneOwner` | 464 thousand | two steps of one agent on one cell; the operator closes, restarts and cancels |
| `recovery` | `SkipJustified`, `VerdictExact`, `Recoverable`, `CarryKept` | 274 thousand | a condition, a step behind it, a step joining both that is handed a reply; one stop of the application; discards |
| `streams` | `NothingSwallowed`, `NeverDeaf`, `RunEnds` | 300 thousand | 3 replies and 1 foreign message against a window of 2 and a limit of 2 units; 2 cells; a retried consumer |
| `sessions` | `NoOrphan`, `NotStranded`, `RespawnsBounded`, `Settles`, `KeepsTheTable` | 122 thousand | one remote pane, 4 generations, both limits 1 |
| `schedules` | `OnceADay`, `NeverSilent`, `StreakStands`, `UnseenIsMarked`, `DoneDecays` | 799 thousand | a daily schedule over two days of three hours, three zones, one edit, one of each disturbance; or the detector over one pane with one reload |
| `teams` | `NotGivenUpForNothing`, `StoppedIsQuiet`, `ExitTold` | 684 thousand | one agent, two pane ids, a grid with room for one, one exit of the lead, panes restarted by hand |
| `store` | `NoteRevisionNamesContent`, `PinRevisionNamesContent`, `ShownIsStored`, `NoLostWakeup`, `NoLeak`, `Woken` | 642 thousand | two agents, a pin, two notes, three writes; or four runs of two projects; or two waiters, two mailboxes, pages of one |
| `config` | `ChangeIsOnItsWay`, `LoadedIsRunnable`, `NoStrayServer`, `ServedUnlessOvertaken` | 1.46 million | two places, 3 edits and a load, 2 servers; and a corpus of 27,000 declarations, each an initial state |
| `grid` | `OvershootBounded`, `ShownTruth`, `NoListenerLeak`, `SavedIsCurrent` | 5.26 million | three members launched twice on a grid of one; or the window with one pane through its life, without a configuration; or with two opened and closed, a saved session and a configuration that may come; at most two events of a pane and one save on their way |

and `cancel_race`, which finds a violation (see Findings). `race` has no condition, so of
`NoEarlyStart` it checks the joins; that a condition matched is proved (`StepsInOrder`). It
cancels nothing, because `RowsAdvance` is false of a cancel: `TerminalOnce` is the property
that the lost update breaks.

`store`, `schedules` and `grid` each check components that share nothing: a variable
`part`, chosen initially, says which of them moves, so their states add up and are not
multiplied. `schedules` has `schedules` and `detector`; `store` has `records`, `runs` and
`mailbox`; `grid` has `preset`, `pane` and `panes`.

The bounds follow from the code. Two copies, callers, agents or mailboxes are the
least that can race; a third repeats a role. One retry has a first attempt, a retry and
an exhausted state, and limits of one or two are met and passed. Grids of one to three
cells are full, short by one, or sufficient. Four generations let a pane be created,
brought back, restarted by hand and brought back again. Two days and both clock changes
are what a daily time can be skipped or passed twice in. A window of two with one foreign
message is one short of deaf. `MaxForeign`, `MaxMail`, `MaxNoise`, `MaxEdits`,
`MaxLoads`, `MaxReloads`, `MaxAsked`, `MaxTurns`, `MaxLeadExits`, `MaxCrash`, `MaxGen`,
`MaxEpoch`, `MaxUnseen`, `MaxSaves` and the like are bounds in guards; they say how often something outside the
code may happen. There is no state constraint and no symmetry. The runs do not check for
deadlock: a system in which every run has ended and nothing moves has stopped, and the
liveness properties show that it does not stop before.

### Fairness

- `wedge`: a tick that has begun is finished (`WF` on `DriverStep`), `spawn_workflow`
  returns, and, strongly, every run has a tick past any clock that is not reset
  (`SF` on `TickPast`): the driver visits every active run every 200 ms for the life of the
  application, and each tick disables the next until it has finished. Nothing is assumed
  of agents or of the operator.
- `streams`: the driver ticks on, agents come to an end, time passes. Nobody has to
  answer, and nobody has to send the sentinel.
- `sessions`: a thread that works on a slot goes on, and a process that was signalled
  dies. Nothing is assumed of the operator or of processes left alone.
- `store`: a writer that has committed goes on to notify, and a waiter that can run is run
  by the async runtime. Nothing says that a message is sent or that a deadline comes first.
- `teams`: the monitor goes on polling (a loop with a sleep); everybody else may stop.
- `schedules` (the detector): the task ticks, time passes, and a thread that holds an
  event or a mark delivers it.

## Findings

`cancel_race` (`TerminalOnce`) is a run that ends in a counterexample: `advance_run` and
`cancel_workflow` both get, change and put a run with no lock over the three. A cancel
inside a tick is undone, and a tick inside a cancel is. The quoted lines are in
`PROJECT.json`.

The configurations below are not among the runs. Each refutes properties that state
what a comment or a document says and the code does not do; where one lists several,
leave the one whose trace is wanted.

| Configuration (module) | Property | What the code does |
| --- | --- | --- |
| `partial_fan` (`MCWorkflow`) | `FanAllOrNothing`, `VerdictExact` | a fan-out that gives up waiting is one failed placeholder row; with retries it returns as a single copy (`orchestrator.rs:871`, against 3645 "never a partial fan"), and a run whose one copy succeeds is green though its join counts two |
| `sibling_gaps` (`MCWorkflow`) | `OneOwner` | a reply step whose kickoff the store refuses keeps its pane and has no retry armed yet; the next step of that agent adopts the pane, and the retry restarts it (`orchestrator.rs:1114`, against 2662-2664) |
| | `AdoptsLivePane` | a pane killed by a timeout counts as alive until it is reaped (`orchestrator.rs:512`, against 676-677) |
| | `RetriesSpent` | a launch whose every root fails to start stores a failed run that no tick visits (`orchestrator.rs:1328`, against 3986-3988) |
| `chain_gaps` (`MCWorkflow`) | `NoInheritedDone` | the Done event of a step may reach the view after the mark was dropped, and completes the next step in that pane (`orchestrator.rs:1936`, against 1933-1935) |
| | `RunsApart` | the panes other runs claim are read once, while a launch claims on another thread (`orchestrator.rs:4679`, against 408-415) |
| `false_green` (`MCRecovery`) | `VerdictExact`, `SkipJustified` | a copy of a fan-out failed, the step behind it was skipped, and another copy was running at the stop: a resume runs the whole fan-out anew (`orchestrator.rs:1760`), which may succeed, and the skipped step stays skipped in a run that ends green (against 2374-2375 "also catches a step that never got the chance to run") |
| `resume_gaps` (`MCRecovery`) | `CarryKept` | a consumer whose retry was armed at the stop is let through without the reply it is to be handed (`orchestrator.rs:1652`, against the comment from 1623) |
| | `RestartsOwnPane` | a resumed run keeps the session ids of armed rows, and ids start again at one (`session.rs:456`): a due retry restarts a pane that is not its own (`orchestrator.rs:4281`, against 4221 "reuses a slot this run already holds") |
| `recovery_gaps` (`MCRecovery`) | `CancelStays` | the snapshot of a tick that overlaps a cancel is persisted after the cancel's, and the row of a cancelled run says running (against `orchestrator.rs:1547-1548`) |
| | `DiscardsTheDead` | `load_config` offers every row that says running, runs of this process included, and one of them can be abandoned (`commands.rs:92`) |
| `streams_gaps` (`MCStreams`) | `PastLimitFails` | a stream that closed before its limit was passed has succeeded (around 3491, against 71 "Past it the stream step is FAILED") |
| | `EveryReplyCut`, `GivenUpToOthers` | replies that come when the stream has closed stay unread in a green run; a copy gives up waiting though only panes of its own step hold the grid |
| `schedules_gaps` (`MCSchedules`) | `OwnFailures` | a run the old declaration started counts against the new one (around 5364) |
| | `OnMeansWatched`, `NoStaleBadge`, `BadgeIsKnown` | a mark that meets a detection that is off is dropped (`agent_status.rs:365`, against "take effect immediately"); a badge may land after the state that clears it (`stores.svelte.ts:318`, against "so stale badges never linger") |
| `sessions_gaps` (`MCSessions`) | `ToldTruth` | a thread that has decided tells after the unlock, and a restart by hand may have told before it (`session.rs:1743`, against 767-768 "emits nothing") |
| | `NoGhost` | a reader at the end of file has taken the process out of the slot: a kill then finds none and drops the slot, and a process that gave up its terminal and runs on is told nothing (`session.rs:759-762`, against 737-738) |
| | `NothingDropped` | a restart overtakes the creation of a pane; the creator, superseded, removes the slot with the process the restart has put there (`session.rs:633`, against 629 "nothing else can have re-generated a brand new slot") |
| `stale_pin` (`MCStore`) | `StaleDeleteFails` | revisions of a key start again at one after a deletion (`queen_store.rs:519`, against `queen.rs:988`) |
| `teams_gaps` (`Teams`) | `RestartedExitTold` | a teammate that exits and is restarted between two polls is never told, and one that was told is not told again (`teams_host.rs:629-646`, which clears no mark, against "broadcast teammate exits") |
| | `PaneForEach` | the watchers compare the instant of the last spawn with their hook's, so one pane answers for two teammates (`teams_host.rs:717`, against "neither a host nor an observe pane") |
| | `ActiveUntilStop`, `TranscriptsInGrid`, `EveryExitTold` | a transcript created after the stop of its agent stays active (`session.rs:1234`); the grid's room is checked before the pane is opened (`teams_hooks.rs:38`); a pane that comes and goes between two polls is never told (`session.rs:1393`) |
| `config_gaps` (`MCConfig`) | `EnabledIsServed` | a hub stopped and started while its server came up may end unserved without an error (`queen.rs:213`) |
| | `NoEditLost` | a save between the read of the file and its watch is neither loaded nor announced (`config.rs:2128`, 2138, against 2133-2134 "so edits to the loaded file are detected") |
| | `ToastOutlivesLoad` | word of an edit that comes in while a load is under way is cleared when the load returns, though it did not read that edit (`App.svelte:976`) |
| | `NothingMasked`, `ConditionsUnambiguous`, `InitOverwritesNothing` | the throttle takes an edit of somebody else for an echo (`stores.svelte.ts:40`); a condition on a step with a copy per reply is accepted (`orchestrator.rs` around 2792); `init` checks, then renames (`init.rs`) |
| `grid_gaps` (`MCGrid`) | `NoDuplicates` | two launches look before either has opened (`team_presets.rs:92`, against `userguide.en.md:745`) |
| | `ShownInTheEnd` | a reader that has decided may tell after the restart that overtook it, and the window goes on showing what was (`session.rs:1743-1749`, against 767-768 "The old reader thread is staled via the generation bump and emits nothing") |
| | `LayoutDurable` | without a configuration nothing is saved (`App.svelte:652-653, 673`), and a save that fails is not tried again (680-682, against 668-669 "keep pane/layout changes durable") |
| | `MaxHolds`, `ClosedStaysClosed`, `GoneIsShown`, `FailedStays` | the window opens a tenth pane (`stores.svelte.ts` around 51, "max 9"), resurrects a closed one (BUG-2), goes on showing one that was removed silently (`session.rs:737`), and closes by a timer one whose state came back but whose exit code did not (`App.svelte:1157`) |

`config.rs:596-602` says that `any` and `count` joins do not cancel the copies that are left,
and `cancel_stragglers` does: the model follows the code.

## Proofs

Eight modules hold the theorems; each proves them for every value of the constants its
module's assumptions admit, so for any workflow, any number of panes, agents, callers,
waiters or schedules, any limits and any environment. TLC evaluates the assumptions in
every run.

| Theorem (module) | States |
| --- | --- |
| `TypeCorrect`, `RetriesBounded`, `StepsInOrder`, `EachFailureToldOnce` (`WorkflowProof`) | `TypeOK`, `RetryBudget`, `NoEarlyStart`, `ToldOnce` |
| `EverySkipIsJustified` (`WorkflowProof`) | `SkipJustified`, in one life of the application |
| `VerdictIsExact` (`WorkflowProof`), when no join counts more than one copy of a retried step | `VerdictExact`, in one life of the application |
| `EveryPaneHasOneOwner` (`WorkflowProof`), when the store refuses no kickoff of a reply step with retries | `OneOwner` |
| `OutcomesOnlyAdvance` (`WorkflowProof`), when nobody cancels a run | `RowsAdvance` |
| `NoRunIsLost`, `RetriesBoundedAcrossStops` (`WorkflowProof`), of `RecoverySpec` | `Recoverable`, `RetryBudget` |
| `TypeCorrect`, `TheDriverHears`, `NoReplyIsLost`, `CopiesFollowReplies`, `GreenMeansDone` (`StreamsProof`) | `TypeOK`, `NeverDeaf`, `NothingSwallowed`, `InArrivalOrder`, `GreenRan` |
| `TypeCorrect`, `NobodyIsForgotten`, `NobodyIsStranded`, `RespawnsEnd`, `ImplementsTable` (`SessionsProof`) | `TypeOK`, `NoOrphan`, `NotStranded`, `RespawnsBounded`, `KeepsTheTable` |
| `NothingDueIsDropped`, `OnlySuccessEndsTheStreak`, `NothingGoesUnjudged` (`SchedulesProof`) | `NeverSilent`, `StreakStands`, `UnseenIsMarked` |
| `EveryDateOnce` (`SchedulesProof`), in a sane calendar | `OnceADay` |
| `TypeCorrect`, `HostedMeansHosted`, `NothingAfterTheStop` (`TeamsProof`) | `TypeOK`, `NotGivenUpForNothing`, `StoppedIsQuiet` |
| `NotesAreSafe`, `PinsAreSafeInOneLife` (`QueenProof`) | `NoteRevisionNamesContent`, `PinRevisionNamesContent` |
| `MailTypeCorrect`, `NobodySleepsThroughMail`, `NoChannelLeaks` (`QueenProof`) | `MailTypeOK`, `NoLostWakeup`, `NoLeak` |
| `WhatIsShownIsStored` (`QueenProof`) | `ShownIsStored` |
| `WhatIsLoadedRuns` (`ConfigProof`) | `LoadedIsRunnable` |
| `ConfigDrivesTheHub`, `NoServerIsLost`, `EnabledMeansServed`, `ChangesAreAnnounced` (`ConfigProof`) | `HubSpec`, `NoStrayServer`, `ServedUnlessOvertaken`, `ChangeIsOnItsWay` |
| `PresetsFitTheGrid`, `TheWindowIsTrue`, `NoTerminalIsLeft`, `TheLayoutIsKept` (`GridProof`) | `OvershootBounded`, `ShownTruth`, `NoListenerLeak`, `SavedIsCurrent` |

`InArrivalOrder` and `GreenRan` are proved and not among the run's properties, which are
kept for what the proofs do not reach.

### Workflow

`RetryBudget` is not inductive: it speaks of rows, and whether
the next attempt of a row is within its budget depends on who asks for it.
`IInv` adds two things. `Sound` says of every clone that only a placeholder is
pending; `DecideSound` needs it, because the passes that skip or fail a waiting
step write to the placeholder, and if that could be a row with an armed retry
they would leave a backoff armed on a row that has not failed. `StillArmed` says that while
retries are taken one by one, those still to come are armed; their attempt is then
within the budget whatever the earlier ones did to the rows and to the grid. Each
action preserves `IInv` by a lemma of its own, which rests on lemmas about the
operators it uses: the three decision passes (`DecideSound`), a spawn
(`SpawnStepSound`), the grid (`KillType`, `OpenedPanesType`, `BudgetType`) and the
choice of the next row (`FirstMember`, by well-foundedness of `<` on `Nat`).

`NoEarlyStart` says what was true when a step started and must stay true of every
clone ever after, so its invariant (`Order`, on top of `IInv`) is about what a step may
do to the rows. `Onward` is the relation every pass but a spawn keeps: a success is
final together with its reply, a missing copy stays missing, nothing is attempted
for the first time. Under it a satisfied join stays satisfied (`JoinLasts`), also a
join on all copies, which new copies could break. A spawn does add copies, so
`Orderly` also says that a step with a waiting row has no other copy, and its join is
therefore not satisfied yet (`SpawnStepOrder`). The guard itself, `ready_steps`, is
evaluated once before the spawn loop: `Order` carries "cleared" for every step still
to come while earlier spawns change the rows. That a ready condition step matched is
`DecideOrder`: the condition pass has skipped or failed every step whose upstream
reply is missing or different, and fail-fast, which runs after it, makes no join
satisfied. Roots are launched without any check, and `Order` says that what a launch
attempts is a root.

`ToldOnce` compares counters with rows, and the rows of a run under tick are the
driver's clone: `Told` says that what has been told is what the clone says has been told
(`Counts`), from the tick's beginning to its end, and of the registry's rows only while
the run is running, because a cancel may put back rows from before an escalation. That
an escalated row is never escalated again after a retry needs that it is out of retries
(`Calm`), that attempts only grow (`Advances`, one lemma for every pass) and that a retry
that is still armed has not been told of (`RetryNotTold`). `RowsAdvance` follows from the
same relation, row by row, from the registry to the clone (`Ahead`) and from the clone to
what is written back. It assumes that nobody cancels: `cancel_workflow` reads, then
writes, and what it writes may be older than what it overwrites, so with `Cancels` the
property is false, as `TerminalOnce` is.

`SkipJustified` is a claim about verdicts that must not turn. `dep_unsatisfiable` gives a
join up while rows are still running, so the invariant (`Justified`) is stated with `Lost`:
too few copies are left that have succeeded or still may (`Hopeful`). `Lost` implies what the
property says (`LostIsUnsatisfiable`, by counting copies) and lasts under
every pass, a retry included, because a row with a retry left is still hopeful (`LostLasts`).
`Upstream` is defined by recursion along the dependencies; `UpstreamFacts` derives, by induction
on the rank that makes the graph acyclic, that the recursion has a value and obeys its law.

`VerdictExact` compares two global readings of the rows, so its invariant (`Telltale`, on top
of all the above) says what each row tells of the rows around it: a step that ran was attempted, one
that failed was due, one that was cancelled was no longer needed (`Earned`). After the
straggler pass no failed step that somebody may still need has a satisfied join (`NoStragglers`), which
is what `finalize_state` reads the rows under. Green then means satisfied or excused
(`DropsAreExcused`), and red that a failure is neither (`FailureCounts`); both rest on
`ReachedThroughSuccess`, that every join upstream of a step that may run is satisfied, by
induction along the dependencies (`DependencyInduction`), and `DeclinedFacts`, that the set of declined
steps, a greatest fixed point, exists. `FinalizeExact` puts the two together.

The theorem assumes `CountsOnce`: no join counts more than one copy of a step with retries. A
fan-out that gave up waiting for panes is one row, its retry runs that row alone, and
a count of two is then never met by a run that succeeds: without the assumption the property is
false (`partial_fan`).

`OneOwner` is not inductive, because a failed row without an armed retry holds no pane and may
arm one later in the same tick. `Apart` says it of every row that may still come to hold its
pane (`Claimant`). Most passes only give claims up (`Yields`). The arming pass comes before the
spawns, so that an adoption, which looks at the rows that hold a pane, sees every claim
(`InPlace`, `ArmInPlace`); that it looks only at rows of its own agent is enough because the pane
a row names belongs to that agent (`Housed`), and panes are never renamed (`NextGrows`). A
fan-out's new panes are distinct by counting (`RankFacts`). The assumption
`RefusalsAreFinal` excludes the one way into a claim behind `InPlace`: a reply step whose kickoff is
refused while the spawn loop still runs (`sibling_gaps`).

### Recovery

`RecoverySpec` is `Workflow` with a table behind the registry, so every step of the
program is one of `Workflow`'s and keeps `IInv` (`WorkflowSteps`). `Durable` says of the
table and of the snapshots on their way to it what `Sound` says of the clones: what
`persist_run` writes (`SerializedSound`) and what a resume makes of it (`CollapseSound`) is
within its attempts. `RetriesBoundedAcrossStops` follows; it bounds what a row counts, and a
step that was running at the stop counts from zero.

`Recoverable` alone is not inductive: the last write of a run may be older than the
one before it. `Backed` says what a stale write can and cannot do. A run is launched before the
table knows it, and from then on it is in the table or a thread is about to write it; a snapshot
that says succeeded or failed is only ever of a run that is over and that no tick has in hand
(`Settled`), which nothing puts back (`SettledLasts`). A write that lands late can then hide
a cancel, which is the finding `recovery_gaps`, and not a run that is still under way.

### Streams

`StreamsInv` says that messages only become acknowledged and are never taken away
(`MailOK`), that a row is within its attempts and waits for a retry only with one left
(`RowsOK`), that the copies of a step are numbered without a gap (`Gapless`) and that
what a tick holds are positions of the mailbox (`TickOK`). All passes but the mint
rewrite the rows there are (`RowsFollow`): none appears, goes or changes its unit. That is why the
three properties about replies need an argument for two actions only.

- `NothingSwallowed` is not inductive between the cut of a page and its
  acknowledgement: `CutIsKept` says it of the replies already cut.
- `InArrivalOrder` rests on what the tick holds. While it mints, `units` lists the open
  replies before any other (`Listed`), every copy is of a reply before all open ones
  (`Behind`) and the copies' units rise (`Rising`). The scan establishes the list; that a page
  sorted by rank is sorted by position is `InOrderSorts`, by counting. A reply that
  arrives meanwhile is later than everything in the list.
- `NeverDeaf` needs no history: the oldest waiting reply of the live thread has only
  foreign messages before it, and `FS_Subset` counts them.
- `GreenRan` needs that a skip is the work of a row that has failed for good
  (`SkipsHaveCause`), that such a row stays (`EndStays`), and that after the first arming
  pass every failure is for good (`PassedArming`): the skips are decided before the second.

### Sessions

`IInv` says what generations are for. A generation not drawn yet names no process and no
thread (`Fresh`); the creator of a pane is the only thread of generation 0 (`Creator`); a
generation that named a process respawns only when its reader is through (`OneThread`);
a process to be installed is in one hand and read by nobody (`Hands`); and the phase of a
slot fits the threads of its own generation (`Slots`). `NoOrphan` is inductive with these.
`Counted` bounds the respawns by the counters in the slot, which `decide_reconnect` and
`decide_eof` bound one by one; of a remote pane whose reconnections have no limit
`RespawnsBounded` says nothing.

`ImplementsTable` maps every lock section to an arrow of `PaneTable` or a stutter. The slot
of a pane is what `PaneTable` sees; `opened` and `present` tell an id that was never handed
out from one that is gone. The cases with an argument are those in which a thread
comes back to the map: an install is a `Start` because the slot of its generation is
starting or restarting, which `Slots` says; an end of file is an `End` or a `Closed`
because a slot whose reader decides has no live parts.

### Schedules and AgentStatus

The properties of the scheduler are about single steps, and one tick does up to six things
to a row. `RowOf` is the row a tick starts from once it is rebuilt, re-anchored and
counted, and the lemmas follow it through the checks; `Rows` is the invariant they
need: rows are rows, and a workflow that was removed has no streak. These lemmas never look
into the calendar, so they hold of any.

`EveryDateOnce` does look into it. `SaneCalendar` is its hypothesis: the shifts of a zone add
up to less than a day, a reading that was skipped is not shown later on, what is skipped in
one go is of the date it ends on (a zone that skips from 23:00 to midnight has no 23:30 to
fire at, and the code fires on the next date), and three things about the constants. The
module of the run assumes it of its zones, so TLC evaluates it. The proof has three parts.
`Resolve` comes to the first instant at which the clock has reached a reading, shown or
skipped (`ResolveReaches`), so the times of the dates come in the order of the dates.
`FirstFire` is a recursive function, the walk of `next_fire_at`; `WalkEnds` shows that one
exists and that it stands still once it has found its candidate, and `NextFireIsNext` that
it does so after at most two steps, at the next time of any date. `OnTime` is then the
invariant of the table: while the clock ticks on, the scheduler has looked at every instant
but perhaps this one, and the row of a standing daily schedule is at its next time with
exactly the earlier ones as entries.

`DetectorOK` says what the detector may hold
in each of its phases; with it `UnseenIsMarked` is inductive.

### Teams

A request records its spawn after its pane is up, so the instant the watchers read is one
at which a pane was there (`Answered`): the order of the two statements in `spawn_agent` is
what `NotGivenUpForNothing` rests on. The property compares instants, as the code does: one pane
may answer for several teammates (`PaneForEach`). A transcript of the first generation is one whose
agent has not been stopped (`FirstRuns`); the pane of an agent that stopped may be restarted by the
operator, and its tail then has the wrong generation.

### Queen: records, mailbox, runs

A copy an agent holds of a note is never ahead of it and equals it where revisions agree
(`Behind`), which needs that ids only grow (`Young`); of pins the same holds in one life
(`PinBehind`, `Lives`).

For the mailbox: `Held` says what a call holds at each of its steps, `OneBox` that a channel
serves one mailbox, `Bound` that a receiver listens to the channel that is in the table for
its mailbox. A message that is committed is followed by its notification before the
connection is free, so a caller that sleeps has a change pending or the writer still at work.

For the runs: the store prunes by what is in the store and the registry by what is in memory,
and the two orders could part. `RunsInv` says why they do not. A finished run the registry let
go is older than all it still shows (`Passed`), also when its row is written late, so a
row that a prune counts as newer than a shown run is shown as well, or its run is live. There
are at most `ShownCap + MaxLive` of those. That the store's cap covers them is the theorem's
assumption: it is 500 against 100 shown, so it says that fewer than 400 runs are ever live at
once, which the grid sees to in practice and no line of the code states.

### Config and Hub

For the hub: epochs to come have no task (`Unborn`), whoever could still serve is the
current task of an enabled hub that holds its token (`Tokened`), and the status is true of
the current task unless that was overtaken (`StatusTrue`). `HubSpec`
lets any settings arrive at any time; `ConfigDrivesTheHub` shows that whatever
`Config` does is that, and the hub's invariants are inherited.

For the edits: `HeardInv` says that the watcher is on the file in force, and of the watcher a load
has begun and not yet stored what `ChangeIsOnItsWay` says of the one in force
(`NewIsOnItsWay`): a change since it began is in its burst or on its way. So a load may fail
or be overtaken at any step, and the old watcher keeps what it was to tell. Only a load that
succeeds replaces it, and what it read counts as what the operator knows from then on; that a
save between its read and its watch is not in what it read is `NoEditLost`, which is false.

`WhatIsLoadedRuns` is where the two halves of the project meet: what the proofs about
`Workflow` assume of a declaration (`ValidWorkflow`) is proved of every declaration that
`validate_workflows` lets through, whatever its size. The state invariant is small
(`Readied`: the text that is read and watched was accepted); the rest is about the rules.
- `detect_cycle` is a recursion that threads its colours through a loop, so that it ends is
  itself a claim. `Left` counts what a search has left to do: white ids, and ids still in the
  loop. The prover has no induction over data, so each induction is a least counterexample on
  `Left` (`SmallestNumber`). `Went` is what a search tells: fewer white ids, and, if no cycle
  was found, every id it was sent for is black and the black ones are closed under
  `dependsOn` and free of cycles (`Well`). `SearchExists` builds the function from
  approximations, and needs `Went` first: that the rest of a loop is shorter than the loop
  depends on what the search of its head did to the colours. `NoCycle` is the result.
- `RankExists` turns it into the rank of `ValidWorkflow`, `UpstreamExists` into the closure the
  driver uses. Positions and ids are the same thing because ids are unique (`OwnIndex`).
- `FanFacts` needs two rules that are far apart in the code: `joinOn: n` is compared with the
  raw `fanOut`, and is within the copies only because `fanOut: 1` is refused later.
- A handoff is one line (`LineOfSteps`) because every step but the root is handed to
  (`HandedTo`, from the walk that must cover all steps) by the one step it waits for.
- The defaults of a schedule, applied after the validation, take none of it back (`SameSteps`).

### Presets and Window

At the count there is room, so the calls after the first are all that can be too many:
`Bounded` counts the calls between their count and their opening together with the
panes.

`WindowInv` is what threads that tell late, and events and replies that cross, leave certain.
`Coming` is what the window has yet to hear of a pane, the events on their way and after them
what the thread at work is still to tell. Its last word is true (`LastWord`), a launched pane
the window does not know is about to be announced by its first (`FirstWord`), and where
nothing is coming what the window knows is true (`Knows`). The reply to a launch "tracks" a
session only if no event did, and `FirstWord` is why that cannot put an old state over a newer
one. A thread that was overtaken is not in `Coming`: `Overtaken` says that it only speaks of
panes in `raced`, which is why they are excepted. `Making` does the same for terminals:
what is created for a closed pane is canceled, or its pane was opened again (`revived`).
`NewestSnapshot` does it for the snapshots, of which the newest is in the timer, last in the queue
of commands, on disk or the one that failed.

### Only model-checked

- Liveness (`Termination`, `RunEnds`, `Settles`, `ExitTold`, `Woken`, `DoneDecays`): temporal
  reasoning under fairness, with `ENABLED`, is out of the prover's reach.
- `CarryKept` is false of consumers with an armed retry (`resume_gaps`), and is about what a
  resume makes of the rows of several steps; `recovery` checks it of the others.
- `SkipJustified` and `VerdictExact` are proved for one life of the application. Across stops
  they are false of fan-outs (`false_green`); `recovery` checks them, across a stop, of
  steps with one copy.

## Not modelled, and what is left

Left out on purpose: text (prompts, templates, titles, notices, screens), process and file
I/O behind a manager, the translation of protocols (`queen_compat`, `teams-backend`), git,
settings and tokens, and the layout of the window. Of the modelled files the map of
`PROJECT.json` names the lines each definition stands for; about half of `orchestrator.rs`,
`config.rs`, `session.rs` and `queen_store.rs` are tests, and much of the rest of the window is markup.

What is left to prove: `SkipJustified` and `VerdictExact` of `RecoverySpec` for steps of one copy
(a resume forgets attempts, which the invariants of one life speak of).
