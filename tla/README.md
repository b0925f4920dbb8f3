# Orca: models and proofs

Orca is a desktop application (and a headless server, `orca serve`) in which
coding agents run in terminals, each in a git worktree of its own. One process,
the *runtime*, owns the terminals, an SQLite file through which the agents are
orchestrated, and the JSON-RPC methods that the CLI, the agents and the mobile
app call. A second process, the *daemon*, owns the ptys, so that shells survive
a restart of the window.

This directory models four parts of it: which agent works on what (the
orchestration store, the coordinator's loop and everything that races with
them), how a message gets to an agent, how a terminal session lives and ends
across the app and the daemon, and how automations are started on schedule. All
paths below are relative to the repository's root; `db.ts`, `coordinator.ts` and
`types.ts` are in `src/main/runtime/orchestration/`, `orchestration.ts` and
`orchestration-gates.ts` in `src/main/runtime/rpc/methods/`, `orca-runtime.ts` in
`src/main/runtime/`, `session.ts`, `terminal-host.ts` and the `daemon-*.ts` in
`src/main/daemon/`, `service.ts` in `src/main/automations/`.

    tlasany M.tla                          parse a module
    tlc -config X.cfg M.tla                check one run (section 3 names the module)
    tlapm OrchestrationProofs.tla          check proofs (also DispatchProofs, RunProofs,
                                          WorkProofs, BoardProofs, MessageProofs,
                                          TerminalProofs, AutomationProofs)

## 1. Inventory

### Modelled

**The orchestration store** (`db.ts`, `types.ts`). State: the tables `tasks`
(status, dependencies), `dispatch_contexts` (one row per attempt to have a
terminal work on a task, with a failure count), `decision_gates`, `messages` and
`coordinator_runs`. Operations: create a task, set its status (completing it
promotes its dependents and closes its dispatch), create, complete and fail a
dispatch, create and resolve a gate, open and close a run, reset. Called by the
loop, by the RPC methods and by the exit of a terminal. Every method is
synchronous; every SQL statement is a transaction of its own. Correct when: a
terminal never has two active dispatches, a task never two workers, a dispatched
task always has one, dependencies order the work, the circuit breaker counts
attempts and is final, a gate holds its task.

**The coordinator's loop** (`coordinator.ts`). State: a run status, the stop
flag, the failures seen, and within a tick the ready tasks, free terminals and
slots left. One tick handles the unread messages (`worker_done`, `escalation`,
`decision_gate`), blocks gated tasks again, dispatches ready tasks and looks for
convergence; then it sleeps. It awaits `listTerminals`, `createTerminal`, the
drift probe and `sendTerminal` of each dispatch, so that every RPC call and
every exit can come between the choice of a task and its dispatch. Correct when:
what it takes from before an await does no harm after it; a late, repeated or
foreign message changes nothing; a run ends when its work does or when it is
told to, and its verdict is true.

**The orchestration RPC methods** (`orchestration.ts`,
`orchestration-gates.ts`). State: the module variable `activeCoordinator`, and
one awaited injection per `dispatch --inject`. They change the same tables as
the loop. Correct when: one loop runs at a time and the one that runs can be
stopped.

**The terminals, as orchestration sees them** (`orca-runtime.ts`): a terminal is
created, accepts or rejects an injected preamble, exits; an exit fails its
dispatch and tells the coordinator. Correct when: no dispatch stays active on a
terminal that is gone.

**Message delivery** (`orca-runtime.ts` 2465-2491, 4654-4690, 11622-11715 and
12158-12223, `orchestration.ts` 158-306 and 511-581). State: the `messages`
table with its two independent bits, `read` and `delivered_at`; one-shot waiters
per handle; the last agent status of each terminal; Enter keys that are due.
Operations: send (to a handle or a group), reply, check with `--wait` and
`--types`, ask, reset; push on idle, which types the text and 500 ms later presses
Enter. Correct when: no message is stamped that the agent has not had, put in a
prompt twice, returned to two readers, or forgotten; nobody who waits sleeps beside
what he waits for.

**The terminal daemon** (`session.ts`, `post-ready-flush-gate.ts`,
`pty-subprocess.ts`, `terminal-host.ts`, `daemon-server.ts`). State: per session
the shell-ready state, the queue of early input, the flush gate's two timers, the
kill timer, the attached client and the child; the table of sessions. Operations:
create or attach, write, kill, the marker and the prompt, a natural exit, dispose
and its two forced forms. Correct when: input is neither lost nor reordered, no
child outlives its session, each session tells of its end once, a kill ends.

**The daemon's client** (`daemon-pty-adapter.ts`, `client.ts`, `daemon-init.ts`).
State: the ids it believes active, its tombstones, its connection (two sockets).
Operations: spawn, write, shutdown, reconnection, `restartDaemon`. Correct when:
it agrees with the daemon once it has read everything, and a terminal that was
closed stays closed.

**The automation scheduler** (`service.ts`, `src/main/persistence.ts`,
`src/shared/automation-schedules.ts`; in the renderer
`useAutomationDispatchEvents.ts` and `AutomationsPage.tsx`). State: automations
with the time of their next run, their runs and statuses, both in the store;
whether a renderer is ready; the renderer's handler of each run. Operations: the
tick (create the run, write its status, write the next time), run-now, edits,
`markDispatchResult` by the handler and by the page, reload, close, end of the
process. Correct when: each occurrence has one run and starts one agent, none is
lost, a result stands, a dispatch settles.

**How they interact.** Agents call the RPC methods, which write the store and wake
waiters; the runtime pushes messages into terminals whose agent is idle; the
coordinator reads its inbox from the same table; the exit of a terminal, which the
daemon reports, fails its dispatch and writes an escalation. The modules share no
variables. Where one depends on another it makes its own, more general, choice: in
`Orchestration` a message is in the inbox or not, in `Messages` a terminal exits
at any moment, in `AutomationScheduler` an agent ends at any moment after it was
launched.

### Not modelled

| Component | State and operations | Why not |
|---|---|---|
| crash of the daemon, cold restore, checkpoints, launch, health probes | checkpoint and history files, generations | process and file I/O; the data that is restored is a screen |
| SSH relay and multiplexer (`src/relay/`, `src/main/ssh/`) | channels, pending requests, reconnection | the next candidate: loss of the connection with requests in flight |
| runtime RPC server, pairing, encryption (`runtime-rpc.ts`, `device-registry.ts`, `e2ee-keypair.ts`) | tokens, subscriptions | transport and cryptography are not state that TLC can tell apart |
| mobile presence (`orca-runtime.ts`) | which client drives a terminal, its size | a candidate: take-over and give-back with timers |
| rate limits and accounts, agent hooks, git, browser, speech, updater, providers | caches over other programs' files and services | I/O and parsing |
| renderer, mobile app, CLI, native helpers | user interface | no state that the rest depends on; the two parts of the renderer that automations need are modelled |

## 2. Modules

| Module | What it is |
|---|---|
| `OrchestrationDb` | the tables and one operator per method of `db.ts` that writes them |
| `Coordinator` | the loop, one action per stretch between two awaits |
| `Orchestration` | the loop composed with RPC calls, workers, exits, restarts; all properties |
| `MCOrchestration` | the small sets, and the symmetry, of the runs |
| `OrchestrationProofs` | type correctness and the dispatch lock, proved; the lemmas about the store's methods |
| `TaskBoard` | the abstract specification of a run: what its users rely on |
| `OrchestrationBoard` | the refinement mapping from `Orchestration` to `TaskBoard` |
| `Messages`, `MCMessages` | the messages table, waiters and push on idle; two handles |
| `TerminalSession` | one session: a record, and an operator per method |
| `TerminalDaemon` | the table of sessions, their timers and children, and the app's view of them |
| `AutomationScheduler` | schedules, the tick, the store's rows, the renderer's handler and page |
| `DispatchProofs` | a dispatched task has an active dispatch, and that on a terminal that is there, proved |
| `RunProofs` | loops never overlap and can be stopped, proved |
| `WorkProofs` | one worker per task, gates, the concurrency limit and who completes a task, proved |
| `BoardProofs` | the breaker, the dependencies, the verdict and the refinement of `TaskBoard`, proved |
| `MessageProofs` | delivery: stamped means entered, nothing twice, answers to one's own question, proved |
| `TerminalProofs` | input order, no orphan child, one exit per session, and the app's agreement with the daemon, proved |
| `AutomationProofs` | occurrences have one run, are not lost, start once and keep their result, proved |

### Orchestration

**Threads.** The runtime is one JavaScript thread; what interleaves are the
stretches between two awaits. The variable `thread` names the loop instance in
the middle of such a stretch. Handling a batch of messages is several actions
(one per message, `at` counts them) with the thread held, and everything outside
the loop requires it free. This keeps every intermediate state visible to the
invariants and to a crash, and allows no interleaving the event loop does not.

**Ids.** A task or dispatch id is random and never issued again. A reset
therefore marks rows `"deleted"` in place: a message sent before the reset
can still name the id, and is not found. The index of a row in `ctx` and
`gate` is its rowid and its id.

**The state and the code.** `status`, `deps`, `ctx`, `gate`, `inbox` and `run`
are columns of the tables. `pc`, `todo`, `slots`, `free`, `cur` and
`failedSeen` are the local variables of `executeLoop`, `dispatchReadyTasks` and
`dispatchTask`; `stopped` is the field of the class; `active` is
`activeCoordinator`; `live` is what `listTerminals` would report as connected
and writable; `gone` keeps exited handles from being used again; `rpcSend` holds
the injections that `orchestration.dispatch` awaits. `byHand` is history: the tasks
that were last dispatched by a call and not by the loop.

**The actions and the code.**

| Action | Code |
|---|---|
| `ProcessMessage`, `HandlerThrows` | `processMessages` and its three handlers; an exception in one ends the run and leaves the whole batch unread |
| `ScanReady` | `markAsRead`, `processDecisionGates`, and `dispatchReadyTasks` up to its first await |
| `ListTerminals`, `CreateTerminal` | `getAvailableTerminals`, `createTerminal` |
| `DispatchNext` | drift probe, then `createDispatchContext` and the call of `sendTerminal`, which fails at once when the terminal is gone |
| `SendSettles` | `sendTerminal` settles; a rejection fails the dispatch |
| `Converge`, `Wake` | `checkConvergence`, the end of the sleep, the close of the run's row |
| `Run`, `RunStop`, `Dispatch`, `DispatchSettles`, `TaskCreate`, `TaskUpdate`, `GateCreate`, `GateResolve`, `Reset`, `MessagesGone` | the RPC methods; `MessagesGone` is also `check` by the agent that owns the coordinator's handle |
| `WorkerSends` | a worker sends `worker_done`, `escalation`, `decision_gate` or an unreadable message about any dispatch whose preamble it got, as late and as often as it likes, and with any `--from` |
| `Exit`, `ExitHeadless` | `onPtyExit`, with and without an adopted leaf |
| `Restart`, `TornWrite` | the process ends between two stretches, or between two statements of one method |

The terminals of `Worker` are those of the coordinator's worktree, which the
listing is limited to. A message is kept only if it is unread and addressed to the coordinator. The
drift probe's outcome, a failing terminal list, a failing `createTerminal` and a
rejected injection are nondeterministic. Heartbeats, stamps, results and texts
are left out: no decision reads them (`getStaleDispatches` only logs).

`Ops` names the operations that may happen besides the loop's own. A run that
allowed everything at once could only check what survives everything; with
`Ops`, each property is checked under the widest use of the system in which it
holds, and a `violation` run or section 6 says what breaks it.

**The board.** `TaskBoard` knows neither dispatch contexts nor messages, ticks or
terminals: a task is absent, waiting, offered, taken by one worker that has no
other, done, or given up, and both of the last for good. `OrchestrationBoard` maps
`status` to the place, the terminals of its active dispatches to the holder and the
greatest failure count, at most three, to the failures. Run `Workers` checks
`ImplementsBoard`, that is every step of loop, workers, exits and messages against
the board, among them that a completed or failed task stays so. Two things show in
the board because the code does them: a failure can be counted twice (an offered
task `Fail`s), and all tasks a finished one releases are offered in the same step.
It holds while
only the loop dispatches and tasks are created before the first dispatch; the
findings say what the other operations break.

### Messages

A row has the two bits, `state` for read and `stamped` for `delivered_at`, and
three history fields: where its text is, how many checks returned it, and which
question's ask returned it. `call` holds the calls that wait. `woken` is the set of
waiters whose promise was resolved: their continuations are microtasks, so every
other action waits until `woken` is empty.

| Action | Code |
|---|---|
| `Send`, `Reply`, `Ask`, `Check` | the methods up to their return or their first await; group addresses are the sets of handles they resolve to |
| `Resume`, `TimesOut`, `Abort` | what a waiting call does when it is notified, when its timer fires, when its socket closes |
| `BecomesIdle`, `BecomesBusy` | an OSC title changes the agent's status; `deliverPendingMessages` when it turns idle |
| `Enter` | the timer that presses Enter and stamps |
| `Exits` | the terminal goes; with a dispatch, its escalation is written |
| `ResetMessages` | `reset --messages` |

### Terminals

`TerminalSession` has no variables: a session is a record and a method an operator
on it, so that `TerminalDaemon` can hold several in a sequence, disposed ones
included. Timers are not fields: the ready timer runs exactly while the shell is
`"pending"`, the kill timer exactly while `terminating`. `sent` and `received`
number the input. A child that has ended is `"gone"` until its exit callback has
run, which is how a kill and a natural exit race.

| Action | Code |
|---|---|
| `Spawn` | `doSpawn` and `createOrAttach`: attach to a live session that is not being killed, or dispose of what is there and create, or fail |
| `Input`, `Shutdown` | `write`, with its synthetic exit for a session that is gone; `shutdown` and `kill` |
| `Output`, `ReadyTimeout`, `GateTimer` | the shell-ready marker, its timeout, the flush gate |
| `ChildEnds`, `ExitCallback`, `KillTimer` | the child's end, its callback, the forced kill |
| `Deliver` | the app reads a reply or an exit |
| `Reconnect` | both sockets close and are made again |
| `RestartBegins`, `RestartStops`, `RestartEnds` | `restartDaemon`: the panes are told, the daemon is stopped, a new adapter takes over; between them panes may still spawn through the old adapter |

Requests need no queue of their own: they are handled in the order they are sent,
and sending one changes nothing in the app. Replies come on one socket and exits on
the other, each in order; nothing orders the two, so `MayRead` allows the oldest
message of either. `raced` is history: the ids of which an exit and a reply were
read out of the order they were written in, since their last spawn. A write or a
shutdown needs no active pane, as the adapter asks for none. Left out: that
`restartDaemon` and a pane can both find the daemon down and launch one each.

### Automations

Each store method flushes before it returns, and a tick awaits nothing but
microtasks, so the only thing that comes between two writes of a tick is the end
of the process: `tick` holds its place, and every action but `AppEnds` waits for
it. A schedule is a phase of a period, a zone a shift of it; this keeps what
matters of a calendar, which occurrence is the latest and which the next.

| Action | Code |
|---|---|
| `TickBegins`, `Creates`, `NoOccurrence`, `Skips`, `Dispatches`, `Settles` | `evaluateDueRuns` and `evaluateAutomation`, a write at a time |
| `RunNow`, `CreateAutomation`, `Reschedule`, `Toggle`, `DeleteAutomation` | the IPC calls |
| `Throws`, `Passes`, `Refuses`, `LaunchFails`, `Launches`, `MarkDispatched`, `Replied` | the renderer's handler between its awaits; `Throws` is an await outside its `try` that rejects |
| `AgentDone`, `AgentExits` | what the handler hears of the agent, kept in `pending` until "dispatched" is answered |
| `PageReads`, `PageCompletes` | the page's effect that completes runs it shows as dispatched |
| `Collected` | the usage has been collected, and is written with the status |
| `Mounts`, `Reloads`, `WindowCloses`, `WindowOpens`, `AppEnds`, `AppStarts`, `Clock` | the window, the process, time |

`base`, `torn` and `started` are history: when the next run was last computed,
which runs had their tick cut short, how many agents each run started.

## 3. Runs

The runs of orchestration check `MCOrchestration`, `Messages` checks `MCMessages`,
`Terminals` and `TwoSockets` check `TerminalDaemon`, `Automations` checks
`AutomationScheduler`.

`MaxCtx` bounds the dispatches ever made, `MaxGates` the gates, `MaxInbox` the
unread messages, `MaxFails` the failure count above which the environment makes
no task ready by hand. None of them bounds the loop.

| Run | Question | Instance, and why it is enough |
|---|---|---|
| `Store` | do the tables stay well-formed and terminals exclusive under every operation, reset, restart and torn write (by hand, only the status `completed` is set)? | 1 task, 2 terminals, 1 loop, 2 dispatches, 1 gate, 1 unread message. Exclusivity is about two dispatches; torn writes and resets act on one task. The theorems cover every larger instance. |
| `Workers` | with the loop alone making dispatches and workers finishing, escalating and dying: one worker per task, breaker and verdicts final, dependency order, and `TaskBoard` as a whole | every dependency graph of 3 tasks, 2 terminals, 3 dispatches in all, so that one task can use all three and trip the breaker, or three tasks one each; `maxConcurrent` 1 against 2 terminals |
| `Rpc` | do dispatches by hand, a stop, a second run, an exception, exits and `check` leave a dispatched task without a worker, complete it wrongly, leave two loops or none, or make the loop give out more than its limit? | 2 tasks, 2 terminals, 2 loops, 2 dispatches: a first loop that is stopped or throws and a second one started meanwhile; `maxConcurrent` 1, so that a slot too many shows |
| `Gates` | does one gate per task hold its task at any moment of the loop, of an injection or of an exit? | 2 tasks, 2 terminals, 1 gate |
| `Live` | does a stopped loop end, does work run out? | 2 tasks with every dependency between them, 1 terminal, 6 dispatches: the breaker can use three on each, so the bound never stops the loop |
| `Messages` | is each message delivered, read and answered once, and does every wait end? | 2 handles of which one is a watched terminal, 2 waiting calls with a filter that leaves questions out, 2 messages, so a question and its answer, or a question and a distraction, or two messages of which one comes while the other waits for Enter; 2 Enter keys, so that one text can be typed twice. |
| `Terminals` | does input keep its order and get through, does each session end once, does a kill end, and does the app learn of it? | 1 pane, 2 sessions (one and its successor), 2 inputs (one held back, one after it). Calls wait until no message is on its way; a call that replaces a session writes an exit and a reply, which can change places, and exits come at any time. 1 reconnection or 1 restart, with calls before, during and after it. Sessions of different panes share nothing but the connection. |
| `Automations` | is each occurrence run once, across edits, zone changes, reloads and the end of the process? | 1 automation, a period of 3, grace 1 and a clock up to 2: a tick can be in time, late within grace and too late; 2 runs, so a scheduled and a manual one or two scheduled; 2 edits or changes of the zone, of which there are 2: enough to make a handled occurrence the latest once more (section 6). Automations share nothing but the tick. |
| `LateTask`, `ExitCountsTwice`, `LateRejection`, `TwoSockets` | what the code does where it says otherwise (section 5) | the smallest instance that shows it |

`CHECK_DEADLOCK FALSE`: each of the systems may stop, when all runs, calls and
sessions have ended and every bound is used.

**Fairness.** `LoopFairness` is weak fairness of each loop: its timers fire and
the calls it awaits settle (`writeTerminalAction` after its delay,
`createTerminal` within its timeout). `StopEndsRun` needs no more. `WorkRunsOut`
needs the environment as well. `ResourceFairness`: strong fairness of finding a
terminal and of a dispatch that is made, as a terminal is not missing and a
worktree not behind its base every single time. `WorkerFairness`: while workers
hold tasks, again and again one of them reports on the dispatch it has, as the
preamble tells it to. Strong, because the inbox can be full or the loop
busy whenever a worker turns to it. No fairness is assumed of calls, exits or
restarts. `WorkRunsOut` says of a loop that goes on that it settles every task
that can be worked on; a task behind a failed one is not such a task (section 6).

In `Messages`, `WaitEnds` rests on promises being continued and timers firing.
`Delivered` needs the agent as well: whose terminal lives turns idle again and
again (strong fairness of a push that does something, as turning idle may find
nothing to push), and its terminal takes Enter again and again (strong fairness of
`Enter(TRUE)`). In `TerminalDaemon`, timers fire, a child that was sent SIGKILL ends
and its end is noticed (one weak fairness for all of them: each happens finitely
often); nothing makes a shell get ready, a user type or a child
obey SIGHUP, so `InputFlushed` rests on the timeouts and `KillEnds` on the kill
timer. In `AutomationScheduler`, the interval ticks, a tick goes on and the
promises of the handlers settle (one weak fairness for the handlers together, of
which each takes finitely many steps); no fairness is assumed of windows, agents or the
process.

**Mutants.** Each property of a passing run has a mutant: an operator beside a
definition that changes it the way a plausible mistake would (`"mutants"` in
`PROJECT.json`), under which TLC finds the property violated in the same run.

## 4. Proofs

Every invariant and action property that a run checks, and the refinement of
`TaskBoard`, is also a theorem. `OrchestrationProofs`, `DispatchProofs`,
`RunProofs`, `WorkProofs` and `BoardProofs` prove, for any finite set of tasks, any
terminals, any coordinator instances, and any bounds:

| Theorem | Statement | For which `Ops` |
|---|---|---|
| `Typing` | `Spec => []TypeOK` | all |
| `Exclusivity` | `Spec => []TerminalExclusive`, the dispatch lock | all, resets, restarts and torn writes included |
| `Served` | `Spec => []DispatchedHasActiveContext` | all but `torn-write`, and no `"dispatched"` among `ManualStatuses` |
| `SingleLoop` | `Spec => []OneLoop` | all but `reset` |
| `Stoppable` | `Spec => []RunIsStoppable` | all but `restart`, `torn-write` |
| `DeathNoticed` | `Spec => []NoOrphanedDispatch` | all but `dispatch-manual`, `exit-headless`, `restart`, `torn-write` |
| `Authority` | `Spec => CompletionAuthority` | all but `torn-write`, and no `"completed"` by hand |
| `Limited` | `Spec => []OwnLimit` | all but `reset`, and no `"dispatched"` among `ManualStatuses` |
| `OneWorker`, `GatesHoldTasks`, `BlockedAreIdle` | `Spec /\ GatesOneByOne => []OneWorkerPerTask`, `[]GateHoldsTask`, `[]BlockedHasNoWorker` | all but `dispatch`, `dispatch-manual`, `reset`, `torn-write`; only `"completed"` by hand |
| `BrokenForGood`, `DepsDone` | `Spec => []BrokenStaysBroken`, `[]ReadyMeansDepsDone` | `Alone`: in addition no `task-update`, `gate-create`, `decision_gate` |
| `NoneStranded`, `VerdictHolds`, `Implementation` | `Spec => []NoStrandedTask`, `[]VerdictStands`, `Spec => ImplementsBoard` | `Alone`, and no `task-create-late` |

The operations left out do break the property (section 6 and the findings; for
`Served` a `createDispatchContext`, `failDispatch` or `createGate` that is cut off
after its first statement, or a task-update to `dispatched`). In particular a
dispatch by hand brings back `LateRejection`, and a gate resolved by hand makes a
task ready that still waits for its dependencies.

`GatesOneByOne` says that no gate is resolved twice, or while another gate of its
task is pending. The run `Gates`, with one gate, cannot see that it is needed;
the proof attempt did: with two gates TLC shows that the first to be resolved makes
the task ready, and it is dispatched before the next tick blocks it again. A gate
that is resolved once more makes a task ready that is being worked on, which ends
`OneWorkerPerTask`.

Assumptions: `CoordinatorAssumption` (tasks are finitely many, as rows of a table
are; `maxConcurrent` is positive; `Nobody` is not an instance or a terminal) and
`OrchestrationAssumption` (the types of the bounds, `Ops` and
`ManualStatuses`). TLC evaluates both in every run.

*The inductive invariant.* `TypeOK` alone is not inductive: it says that `at`,
the position in the batch, lies within the inbox, and a reset or a `check`
empties the inbox. It does so only when the thread is free, so `TypeInv` adds
`BatchInv`: only a loop that holds the thread in `"messages"` is in the middle
of a batch.

*The argument.* Each method of the store either keeps the rows of
`dispatch_contexts` (`Kept`: the same rows, no owner or task changes, none becomes
active again) or adds an active one on a terminal that had none (`Grown`). There
is one lemma per method, then one lemma per action that the step keeps `TypeInv`
and is a `RowsStep`, that is `Kept` or `Grown`. `RowsKeepExclusive` shows that
either form keeps the lock; it never looks at who made the call, which is why
the lock survives every interleaving. Half-done methods (`TornStep`) are
`RowsStep`s too.

`Served` classifies steps once more: after a `ServedStep` a task that shows as
dispatched either was so before and its rows are `Untouched`, or is `JustGiven`
the last row. The property is then inductive together with `TypeInv`; what takes
the work is that completing, failing or gating one task leaves the rows of every
other alone and moves its own task away from `dispatched`.

`OneLoop` is not inductive, as a loop knows nothing of other loops. `RunInv` says
what links them: a loop that is on has a `running` row, and one row at a time is
`running`. Every step is `Onward` (no loop starts, no row changes), `Ended(c)` or
`Started(c)`, the last only when no row is running. The converse link, a running
row has a loop, is not needed and fails after a restart; `Stoppable` proves it for
the uses without one.

`NoOrphanedDispatch` leaves out a dispatch that is being injected. `Attended` is
stronger: the terminal of an active dispatch is there, unless a loop that holds the
thread has just chosen it and its call fails at once, in the same stretch. So an exit,
which needs the thread, finds every active dispatch on a terminal that is there, and
with the dispatch lock it fails the only one on its own.

`WorkProofs` counts first. Only a dispatch gives a task the status `dispatched`
(`NoneGains` lists what the other methods do), and a loop dispatches only out of
its `slots`: `LimitInv` is the sum of both, the tasks the loop itself has dispatched
and its slots left. A dispatch by hand moves its task to `byHand`, also one the loop
gave out before, and so never adds to the sum. For one
worker per task `WorkInv` joins what the store says (`StoreInv`: `OneWorkerPerTask`; a
task with a pending gate has no active dispatch; no dispatch is of a task that was not
created), what the loop holds in its hand (`HandInv`: the dispatch whose injection it
awaits is the latest of its task, which is off the list), what is on its list
(`TodoInv`: a task to try that has a pending gate is not ready, which `DispatchNext`
finds out), and what an unread message may be about (`MsgInv`).

`BoardProofs` leaves the coordinator alone with its workers and shows that then
every step is one of the `Events` of the tasks: nothing, a task created, given,
reported or failed. `TasksInv` adds what the breaker needs (`DispatchCounts`: the latest dispatch of a task
carries its failures, a task that is offered has fewer than three, one that was
given up three), what the dependencies need (`WaitsInv`: whatever no longer waits has
its dependencies completed), and that the task of the injection a loop awaits is not
completed (`Sending`). From there the breaker, the dependencies,
`NoStrandedTask` and the verdict each take one lemma over the five events, and so
does each action of the board.

`TerminalProofs` proves the five invariants of the terminal daemon for any panes,
any number of sessions, inputs and connections, with the two sockets read in any
order and no assumption but the types of the bounds. None of them is inductive. `SessionInv` says what they leave out of one session: there is a
queue only while the barrier or the flush gate will flush it (otherwise a
keystroke would overtake it), the gate is armed only after the barrier (otherwise
the ready timeout would disarm it), a running session has a client and nobody has
been told, and one that has ended undisposed has had its exit callback. `Table`
adds that a running session is at its id in the table. Each method of the session
has a lemma that it `Follows`: it keeps `SessionInv` and the id, starts nothing
again, and tells exactly when it ends the session. `Dispose` does so only of a
session that is not attachable, which is where `createOrAttach` calls it. Four
lemmas then move the table: a session in it changes, an id is forgotten, a
session is created, the daemon is stopped. `TerminalAgreement` says that a race of
the two sockets is all that can make app and daemon disagree. `OnlyRacesDisagree` speaks
of the moments when `net` is empty; its inductive form says of every moment and every
id that has not raced what the app will hold once it has read `net` (`Shown`: the last
message about a pane decides). Each method `Moves` a session so that it tells its client
when it stops being attachable by itself, and each call sends one message last that
agrees with what it did. Reading a message that no other one of its id precedes
changes nothing that is `Shown` (`ReadAway`); reading one that overtakes another
of its id puts the id among the `raced`, until its next spawn.

`MessageProofs` proves every property of `Messages` but the liveness
(`MessagesTypeOK`, `MessagesStamped`, `MessagesReadOnce`, `MessagesAnswers`,
`MessagesWakeup`), from `MessagesAssumption`: handles are
finitely many, terminals and senders are among them. `RowStep` says what a step may
make of a row: its addresses and thread stay, read and deleted are for good, a check
takes it only while it is unread, its stamp and its text agree, and only an unread,
unstamped row gets typed. That relation composes (`RowStepTwice`), so an action
that writes the table twice needs nothing new. The stamp is set half a second
after the text, by a timer that looks at nothing but its list; `TimerOK` is what
makes that right: each message on the list has been typed to that terminal since, or
was reset away, and no timer is for a Cursor agent. `ValidCall` is its counterpart
for ask: the thread a waiting ask names is a message that its caller sent. `Asleep`
is `NoLostWakeup` without `First`, so that it is inductive: rows only stop being what
a call looks for, and a new row is for a caller that is notified or is an escalation.
`Least`, every set of naturals has a least member, carries it back to `First`.

`AutomationProofs` proves every property of the automations but the liveness, from
`SchedulerAssumption`: automations are finitely many, a period is positive, the
machine's zones are shifts of less than a period. `SingleRun` (`OneRunPerOccurrence`):
every step either `Keeps` the runs (it may change a status or delete rows, never
the occurrence a row stands for) or `Adds` one, which was made by hand or for an
occurrence that had none; ids are never beyond `made`, so a new run overwrites none.
`TypesHold` needs what a tick refers to: its automation and its run are there
and it is due (`TickOK`), as nothing but the end of the process comes between its
writes. The other three rest on the arithmetic of occurrences, which are a period
apart (`Division`, `Apart`): `NextIsFirst`, nothing matches between an instant and the
next occurrence after it, and `LatestIsOne`. `NothingLost`: `Kept` says of every
instant of the zone that the schedule was last computed in what `NoOccurrenceLost` says
of the latest one, and so survives the clock. `StartedOnce`: once the tick of a run has
settled, the next run is at least a period after its occurrence (`Handled`), until
the schedule is edited, and a run that is not handled has started nothing, and its
handler has been asked only if its tick is about to advance. `FinalForGood`: a handler
that may still start an agent is of a run that is "dispatching", what the page shows
has got further, and what is being collected is final (`Finals`).

*What the proofs corrected.* `StartsOnce` and `FinalStands` used to be stated for all
runs and held in their run, whose period was too short to show otherwise. The proof
of `Handled` failed for an edit: computed anew in another zone, the schedule can make
an occurrence that has its run the latest once more, and the run is dispatched a
second time. Both now exempt these runs (`Superseded`), section 6 describes the
behaviour, and the run's bounds reach it.

*Only model-checked.* The liveness properties, which are outside this prover's reach,
as are ENABLED and fairness: `StopEndsRun`, `WorkRunsOut`, `WaitEnds`, `Delivered`,
`InputFlushed`, `KillEnds`, `DueIsHandled`, `LaunchSettles`. The `violation` runs show
what is false, and have nothing to prove.

## 5. Findings

Each is a run with `expect: violation`, and quotes the text it contradicts in
`PROJECT.json`.

- `LateTask`: a task created after its dependencies have completed is never
  promoted.
- `ExitCountsTwice`: the exit of a worker fails its dispatch and also sends an
  escalation that fails it again: the breaker trips after two dispatches.
- `LateRejection`: an injection that is rejected after the exit of its terminal
  already failed the dispatch fails it again, and a task that has been dispatched
  again meanwhile is offered to a second worker.
- `TwoSockets`: a session is made in the place of one that is being killed; the exit of
  the old one, on the stream socket, is read after the reply about the new one, and
  the app drops the new one.

## 6. Observations without a run

Other behaviours met while modelling, all of them in the model. Where a property is
said to fail with an operation, TLC shows it when that is added to the run's `Ops`.

- `ReadyMeansDepsDone` fails with `gate-create` and `gate-resolve`: `resolveGate`
  (db.ts:736) makes a task ready that was waiting for dependencies.
- `GateHoldsTask` and `BlockedHasNoWorker` fail with two gates on one task:
  resolving one makes the task ready, and the loop then blocks a dispatched task
  without completing its dispatch (coordinator.ts:464). Resolving a gate twice makes
  a task ready that is being worked on (db.ts:736): `OneWorkerPerTask` fails.
- `OneLoop` fails with `reset`: the running row is deleted and the loop goes on
  (db.ts:858; orchestration-gates.ts:8 says the row's check enforces it).
- `RunIsStoppable` fails with `restart`: the row outlives the loop
  (orchestration-gates.ts:94).
- `NoStrandedTask` fails with `torn-write`: the promotion is not in the
  transaction of the completion (db.ts:516, against the comment at db.ts:524).
- `NoOrphanedDispatch` fails with `exit-headless`: `onPtyExit` calls
  `failActiveDispatchOnExit` for leaves only (orca-runtime.ts:3580).
- With `dispatch` and `exit` together, `ImplementsBoard`,
  `BrokenStaysBroken`, `ReadyMeansDepsDone` and `VerdictStands` fail as well, all
  for the reason of `LateRejection`.
- The loop counts the dispatched tasks once a tick, "to enforce concurrency limit"
  (coordinator.ts:476), and then awaits. A task that `orchestration.dispatch` gives out
  meanwhile is not counted, and the loop gives out one more: dispatched in all are more
  than `maxConcurrent`. `OwnLimit` says what the count does ensure.
- The comment at coordinator.ts:655 has `checkConvergence` "detect stuck state", tasks
  left but none ready or dispatched; the code counts pending tasks as active, so it
  does not notice that the remaining tasks wait for a failed one, and the loop goes on.
- A `worker_done` of a worker that failed counts as a completion; an escalation
  fails the newest dispatch, whichever it is about.
- A handler that throws leaves its batch unread: the next run handles the earlier
  messages again and throws on the same one.
- Comments at coordinator.ts:408 and orca-runtime.ts:4653 say that a failed task
  goes back to `pending`; it goes to `ready`.

Messages:

- The escalation of an exit wakes no waiter and is pushed to nobody
  (orca-runtime.ts:4677): a coordinator in `check --wait` sleeps beside it until
  its timeout. `NoLostWakeup` exempts this row only. `reply` pushes nothing either.
- A push types every row that is not stamped, and the stamp comes 500 ms after the text,
  with its Enter (orca-runtime.ts:12172, 12208). A push in between, for a second
  message to an idle agent or one that turned busy and idle again, types the first
  message once more, and so does one after an Enter that was refused. The comment at
  db.ts:322 says that each row is auto-pushed at most once.
- `check --wait --types` is woken by a message of any type and returns empty
  (a waiter's `typeFilter` is never read); so does the second of two waiters that
  one message wakes.
- `ask` sends a `decision_gate` without a task id, which the coordinator's loop
  drops (orchestration.ts:536): only a human or an agent that checks can answer.
- The comment at orca-runtime.ts:2484 says that a change from permission to idle
  is excluded; the code beside it pushes then as well.

Terminals:

- The race of `TwoSockets` has a second form: the exit overtakes the reply it follows,
  and the app holds a session for active that has ended. `OnlyRacesDisagree` exempts
  both.
- The tombstone of a closed terminal is set after the reply of `kill` and looked up
  before `createOrAttach` is sent (daemon-pty-adapter.ts:106, 278): a spawn in
  between makes the terminal again, which the comment at line 62 is afraid of.
- A session keeps the exit closure of the connection it was attached on
  (daemon-server.ts:282). After a reconnection a session that is not attached
  again ends without the app hearing of it; `OnlyRacesDisagree` speaks of sessions
  attached on the present connection.
- A session spawned between the synthetic exits of `restartDaemon` and the
  shutdown of the daemon is lost without an exit (daemon-init.ts:429). One that is
  spawned through the old adapter while the daemon is down starts a daemon that goes
  on, and the new adapter does not know it (daemon-init.ts:481).
- That a pid is signalled only while its child has not been reaped (session.ts:148) is
  in the guards of the code and of the model, and no property states it again.

Automations:

- The handler and the page can mark one run completed on the same status update;
  both then collect its usage, as `run.usage` is set only after the await, and the
  second can rewrite what the first had found (service.ts:124-128, against the
  comment at service.ts:120).
- The write of the usage also writes the status taken before the await
  (service.ts:128).
- The `try` of the renderer's handler begins at useAutomationDispatchEvents.ts:142. A
  rejected await before it (lines 80, 93 and 125, for one a precheck whose `spawn`
  throws) marks nothing, and the run stays `dispatching` (`Throws`). `LaunchSettles`
  speaks of what comes after, of a handler inside its `try`.
- A failure after the agent has taken the prompt is marked `dispatch_failed` although
  the agent works on it (useAutomationDispatchEvents.ts:416).
- A request sent while the renderer reloads has no listener, and its run stays
  `dispatching` (service.ts:286; a reload does not reset `rendererReady`).
- A tick while no window is open skips the occurrence for good, also within its
  grace period (service.ts:271).
- The end of the process between the status and the next time dispatches the same
  run again, and may turn a skipped run into a dispatched one: the exception of
  `FinalStands`. An end within `runNow` leaves a run `pending`.
- An occurrence is dispatched a second time when it has run, the user then edits
  the schedule and the machine comes back in another zone, in which it is again the
  latest: `createAutomationRun` returns the run it has (persistence.ts:2607), and
  `evaluateAutomation` (service.ts:262) requests its dispatch without a look at its
  status, which goes from final back to `dispatching`. `StartsOnce` and `FinalStands`
  exempt such runs (`Superseded`).
- A schedule that fails to parse would abort the tick for every later automation
  (service.ts:215). It is not in the model: creating and updating an automation compute
  its next run from the same schedule, and throw before it is saved
  (persistence.ts:2528, 2585).
- Enabling an automation again runs the occurrence it missed while disabled;
  deleting one does not stop a handler that is launching its agent.

## 7. Plan

1. *(done)* `OrchestrationDb`, `Coordinator`, `Orchestration`; typing, the lock,
   `Served` and `SingleLoop`.
2. *(done)* `TaskBoard` and the refinement; `Messages`; `TerminalSession` and
   `TerminalDaemon`; `AutomationScheduler`.
3. *(done)* `MessageProofs`, `TerminalProofs`, `AutomationProofs`.
4. *(done)* `WorkProofs` and `BoardProofs`, with the refinement of `TaskBoard`; the
   agreement of app and daemon; the other properties of the automations.
5. Wider uses in the theorems: which of the events of `BoardProofs` remain when tasks
   have gates, and what the app can rely on for sessions that were attached on an
   earlier connection or spawned while the daemon restarts.
6. The SSH relay's channels across a reconnection; who drives a terminal between
   the desktop and mobile clients.
