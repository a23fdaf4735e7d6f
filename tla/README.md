# Verification of e-agent

TLA+ modules of the parts of e-agent in which several actors, failures or restarts meet,
the TLC runs that check them on small instances, and proofs, checked by TLAPS, of what holds for
every instance. Paths are relative to the repository (`src/` in `PROJECT.json`); line numbers
are those of the commit in the tree. `PROJECT.json` maps every definition to the lines it models.

- [1 The system](#1-the-system)
- [2 Modules](#2-modules)
- [3 How state and actions correspond to the code](#3-how-state-and-actions-correspond-to-the-code)
- [4 Runs](#4-runs)
- [5 Bounds](#5-bounds)
- [6 Fairness](#6-fairness)
- [7 Proofs](#7-proofs)
- [8 Where the code departs from its documents](#8-where-the-code-departs-from-its-documents)
- [9 What is not modelled](#9-what-is-not-modelled)
- [10 Plan](#10-plan)

## 1 The system

| Component | State it keeps | Operations | Hard parts |
|---|---|---|---|
| Session (`e-agent-core/src/session/mod.rs`) | status, started, shutdown_emitted, run, cancellation token, locals of a run | prompt (`run_one_trun`), `run_queued`, `resume_pending`, `close`, and inside them run, turn, stream, tool, persist, fatal | steers and aborts arrive while a method awaits; every hook and write may fail |
| Message queue (`session/queue.rs`) | messages, idle, closed | push, pop_steer, pop_follow_up, close | shared with the clients; what becomes of an accepted message |
| Handle and actor (`session/handle.rs`) | an unbounded channel of commands with one-shot answers | prompt, steer, follow_up, abort, close; the receive loop | message and Wake are two steps; commands left behind a close |
| Event bus (`event.rs`) | broadcast channel | publish, subscribe | order, the last event, lagging observers |
| Session store (`session/store.rs`) | a JSONL file and the messages in memory | open (read, filter by goal, repair), append | crashes, torn lines, dangling tool uses |
| Hooks, tools, providers (traits in `hooks.rs`, `tool/`, `provider/`) | staged host actions | observers, input, tool, finalizing hooks; calls; streams | may fail, block, never end, stage messages |
| UI broker (`e-agent-tui/src/broker.rs`) | pending, modal, owned, coalesced, polls under a lock; a bounded channel | request_until, cancel, unload, reply, reply_input, Drop | registration and sending are two steps; deadlines race answers; late envelopes |
| Terminal event loop (`e-agent-tui/src/lib.rs`, `reducer.rs`, `runner.rs`) | AppState: dialog, custom editor, notifications, contributions | serve an envelope, an input event, a session event; shut down | waits for the session that waits for extension code that waits for it |
| Terminal driver (`e-agent-tui/src/terminal.rs`) | flags: raw mode, alternate screen, mouse; where start or stop failed | start, stop, drop of session and terminal | a start that fails half way, a stop that fails, both drops |
| Extension library (`e-agent-extension/src`) | process-wide: cancelled flag and its signal, slot of the current session, state per session; tasks of calls | call, cancel, reset, drop_session | the flag is read before the signal is subscribed to; calls outlive the program that made them |
| Pi compatibility (`e-agent-pi-compat/src`) | a JavaScript thread with a channel of commands, staged host actions, the lock NODE, closed, call_sequence | execute, call, hooks, shortcuts, drop_session | one thread for everything; timeouts that leave JavaScript running |
| PTC executor (`e-agent-tool-ptc/src`) | a process-wide lock | call | its pump; superseded by Pi compatibility in the CLI |
| OpenAI provider (`e-agent-provider-openai/src`) | the blocks of the response being streamed | stream, to_input_items | every way a stream can end; the history sent back |
| Node runtime: bridge and pumps (`e-agent-node-runtime/src/runtime.rs`) | tracker of pending calls, their timers, request queue, streams, JavaScript timers; loop of a pump | make a call, drain, complete (value, error, chunk), cancel, time out, tick; drain-dispatch-complete-tick loops | outcome, timeout and cancellation race; chunks out of order; a full queue; one tick per outcome |
| Node runtime: extension scopes and tasks (`runtime.rs`) | the scope whose code runs and its leases; tasks, handlers, pending calls, timer callbacks | start a task, run its handlers, call the host, set a timer, wait for the task | a scope stays held while its handler awaits; what another task left behind |
| Node runtime: node:fs (`runtime.rs`) | an overlay of files, directories and links over the host's files; descriptors, and the streams and handles that own them | write, copy, make, link, unlink, remove, rename; open, write, close | descriptors that outlive their file, streams that outlive their descriptor, links in the middle of a path, operations that fail half way |
| Node runtime: node:child_process (`runtime.rs`) | a registry of children by pid, their events, the callback of `exec` | spawn, exec, kill, a chunk, a result | kills by the program and by listeners in the middle of a chunk, against result, error and timeout |
| Node runtime: node:stream (`runtime.rs`) | ends and pipes of readables, transforms and writables; an iterator's queue and waiters; a pipeline's promise | push, pipe, write, end, destroy, iterate, pipeline | functions of the script that answer late, failures in the middle, two readers of one source |
| Node runtime: scheduler and reactor (`scheduler.rs`) | timers, macrotasks, sequence numbers; lanes of shards; slabs | set/clear timeout, enqueue, tick; enqueue and drain lanes; allocate, free | wrap-around of ids, cancelled entries in the heap, order over lanes, stale handles |
| Node runtime: hostcall queue and policies (`hostcall_queue.rs`, `hostcall_s3_fifo.rs`) | ring, overflow lane, tenant counts, ghosts, epochs, retired nodes; windows of the contention policy | push, drain, pin, reclaim, clear, fall back; observe a window; access a key | admission at the limits, early reclamation, counts that drift |
| Node runtime: repair planning (`runtime.rs`) | none (pure functions over a list of proposals) | rank, resolve conflicts, choose, validate | ties, conflicts in chains, independence of the order |
| CLI, macros, renderer, tools, lane policy, JavaScript libraries | little or none | conversion, I/O, code generation, decision functions nobody calls | — |

How they interact. `main` opens the store, builds the session around Pi compatibility, calls
`resume_pending`, then attaches: the actor task owns the session. The terminal's event loop holds a
`SessionHandle` (commands), an event receiver and the broker's server. A session awaits hooks and
tools; those run JavaScript; JavaScript may await the broker; the broker is served by the event
loop, and by nobody before it started or after it was left.

JavaScript runs on a single-threaded engine embedded by the node runtime: a host call of a script
becomes a request in the bridge's queue; a *pump* on the Rust side drains the queue, performs the
request (a native extension call, a process, a file), and enqueues its outcome as a macrotask
of the scheduler, which a tick hands to the promise. Hostcall queue, reactor mesh, slabs and
policies are libraries of the same crate.

What makes each component correct, briefly: no accepted message is lost or doubled; every call is
answered; every tool use is answered once before the provider is asked; the events tell the truth
in order and end with the shutdown; a closed session does nothing any more; what was announced as
stored can be read again; the broker's tables agree and no waiter is forgotten; the screen never
goes back; the program can be left; a host call settles once and its chunks arrive in order; timers
fire when due and not after they were cleared; queues are FIFO over all their lanes; counts by
which admission is decided are exact; a handle that was freed frees nothing; sessions do not see each
other's state; the terminal is given back as it was.

## 2 Modules

| Module | Models | Uses |
|---|---|---|
| `Session` | session, queue, host actions, one step per stretch between two awaits | |
| `SessionActor` | clients, command channel, actor; composes them with `Session`; the properties | `Session` |
| `SessionEvents` | the abstract specification: which event may follow which, and that the store grows with `message_end`; `SessionActor!EventOrder` is the refinement | |
| `SessionStore` | file, memory, open, append, crashes, and the order in which a session appends | |
| `UiBroker` | broker, event loop as far as it serves the broker, the program's start and end | |
| `NodeRuntime` | host calls from JavaScript to the settled promise: tracker, queue, timeouts, streams, cancellation, user timers | `Scheduler` |
| `ExtensionScopes` | several extensions in one JavaScript runtime: scopes, tasks with their handlers, host calls, timer callbacks, the loop that waits for one task | |
| `ExtensionRegistry` | what extensions register, in their own tables and in the indexes; loading; whom a tool call, command, shortcut or event reaches | |
| `ChildProcess` | child processes: the call of each, its chunks, events, callback and registry entry | `NodeRuntime` |
| `VirtualFiles` | node:fs: the overlay, resolution of links, descriptors, streams and handles | |
| `NodeStream` | node:stream: a pipeline of source, transform and sink, and a reader beside it | |
| `NodePump` | the two loops that drive a program and an extension task, composed with the bridge | `NodeRuntime` |
| `Scheduler`, `SchedulerLoop` | the scheduler's methods as operators; a machine that calls every one of them | |
| `ReactorMesh`, `Placement` | lanes, routes, the global drain; the plan that binds shards to cores | |
| `NumaSlabPool` | slabs, free lists, generations, handles | |
| `HostcallQueue` | the two lanes, admission, ghosts, fall-back, epochs and reclamation | `BoundedFifo` |
| `BoundedFifo` | the abstract specification of the queue | |
| `ContentionPolicy`, `S3FifoPolicy` | the window policy of the lock; the stand-alone S3-FIFO policy | |
| `RepairPlanning` | how repair proposals are ranked, resolved and validated | |
| `PiRuntime` | the JavaScript thread, its channel and its clients | |
| `ExtensionCalls` | programs, the lock, calls as tasks, the cancelled flag, the slot and the states per session | |
| `ProviderStream` | a response stream to provider events, to a message, to the next request's items | |
| `TerminalModes` | the terminal driver and the session around it | |
| `Selection` | what `retain`, `filter` and `flat_map` leave of a sequence, as recursive functions | used by `SessionStore`, `UiBroker`, `S3FifoPolicy`, `ProviderStream` |
| `SequenceLemmas` | induction along a sequence, what the operators of `Selection` keep, join and leave out, and listing a set in an order | `Selection`, `TLAPS` |
| `Scheduler_proofs` | what each method of the scheduler keeps; two of the following rest on it | `Scheduler`, `SequenceLemmas` |
| `SessionActor_proofs`, `UiBroker_proofs` | theorems about the module of that name and their lemmas | that module, `TLAPS` |
| `NodeRuntime_proofs` | theorems about `NodeRuntime` and `ChildProcess` | `ChildProcess`, `Scheduler_proofs` |
| `SessionStore_proofs` | theorems about `SessionStore` and `VirtualFiles` | these, `SequenceLemmas` |
| `DataParts_proofs` | theorems about `HostcallQueue`, `ContentionPolicy`, `NumaSlabPool`, `SchedulerLoop`, `S3FifoPolicy` and `RepairPlanning` | these, `Scheduler_proofs` |
| `HostParts_proofs` | theorems about `ExtensionCalls`, `ExtensionScopes`, `ExtensionRegistry`, `PiRuntime`, `ProviderStream` and `TerminalModes` | these, `SequenceLemmas` |
| `MCSessionActor`, `MCUiBroker` | model values and symmetry sets for TLC | |
| `MCNodeRuntime` | the programs of `NodeRuntime` in two halves: with timers of their own, or with plain calls | `NodeRuntime` |
| `MCDataParts`, `MCHostParts` | several parts side by side for one run: a variable `subject`, chosen initially, says which part moves, the others stand still | the parts |

Definitions whose comment begins with "Mutant:" are plausible bugs: each stands
before the definition it is a variant of, is used by no specification, and shows that a property
is violated when the code had that bug.

Where modules meet. `SessionStore` is separate from `Session`: the session needs of its store only
whether an append succeeded (`Persist`), the store of the session only the order of appends
(`Prompt`, `Reply`, `ToolResult`, `Steer`). Likewise `UiBroker` needs of the session only that it
waits for extension code again and again (`script`). `NodePump` extends `NodeRuntime`, which
uses the operators of `Scheduler`: the pump's ticks are the scheduler's ticks, and what the program is
told is what the bridge settled. `PiRuntime` abstracts a script to "runs, then settles"; how
it settles is `NodePump`'s question, and what a call does meanwhile `ExtensionCalls`'.

## 3 How state and actions correspond to the code

**Session.** `at` is the await at which the public method `op` is suspended; an action runs from
one such point to the next. Between two awaits the code's single task is atomic, but clients, the
provider, tools and extensions act at every `at`. Observers awaited inside `emit` are part of the
step that emits: an observer can only stage host actions, which `StageAction` does at any time.
`published` holds the events of the last step; `result` what the running method returns; `fate`
is a history variable that says what became of each input text, for the properties only. A message
is `[role, run, turn, body]`; `body` is the user's text, the number of tool uses (assistant) or the
number of the call answered (result); a message `before_agent_start` injects has the body `NoInput`, since no
input text is in it. `Persist` is `persist` with both outcomes and `fatal`;
`EmitThen` is `emit` followed by `apply_actions` with every outcome (a failing observer, a failing
action, the rest of the batch dropped).

**SessionActor.** A client's input text is used once and names the call, so `reply[m]` is what the
call with text `m` returned. `Enqueue` is `SessionClient::enqueue` (push, then the Wake); `Receive`
takes a command when no method runs; `Respond` answers it, and after a close drops the channel with
what it holds. `Attach` is `main` between `resume_pending` and the event loop.

**SessionStore.** `lines` are the lines of the file, `Bad` one that is no JSON; `newline` says
whether the last line is terminated. An append has four outcomes: written, nothing written, a part
of the entry, the entry without its newline; after any of them the process may be dead or may see
the error. `Open` reads and filters, `Repair` answers dangling tool uses one append at a time.

**UiBroker.** `requests` lists every request made, its index being its id; `answers` what the
one-shot of each was sent. `Register` is the part of `request_until` under the lock, `Send` the
`try_send`, `Answered`/`Expire`/`CancelExpired` the wait; `Busy` and `Closed` refusals change
nothing and are the guards of `Register`. Between `Expire` and `CancelExpired` an answer can come.
`Receive` is the event loop's envelope branch with the reducer and the effects; `KeyToPoll` and
`KeyToDialog` its input branch; `Exit`/`FinishClose`/`DropServer` the way out. The Drop of the
server and of its receiver are one step: no caller can register or send in between with a different
outcome than before or after it.

**NodeRuntime.** One runtime is one thread: a step of JavaScript, a method the host calls and a tick with
the microtasks it leaves are each one action. `rt` holds the tables of the Rust side (`pending`, `cancelled`,
timers with their owners, request queue, the scheduler) and of the JavaScript side (streams, listeners);
`result` and `got` are what the program was told. `Register` is the registration in
`enqueue_hostcall_request_with_backpressure`, `Call` the whole of it; `Completed` is `on_complete`;
`HostcallComplete` and `TimerFired` are the two branches of `handle_macrotask`; `TickRuntime` is
`tick`. Chunks are numbers; `Sentinel` is the last chunk `cancel` makes up.

**ExtensionScopes.** `frames` are the asynchronous scopes opened by handlers and timer callbacks, `jobs` the
JavaScript that can run on (always before anything else), `stage` where `wait_extension_task` stands. A call notes
whose scope it was made in; its outcome enters that scope again (`DeliverOutcome`), or is refused it, which fails
the wait (`RefuseOutcome`). A timer is due at any moment after it was set.

**ExtensionRegistry.** `own` and `index` are the extensions' maps and the `__pi_*_index` maps, a record being its number;
`handlersOf` and `hookIndex` the lists of one event. `active` is the extension whose code runs: a factory
(`LoadExtension` to `FinishLoad` or `FailLoad`), or what a call, a command, a shortcut or a dispatch runs, and
only that code registers. `listed` and `jsCommands` are what the host took down when it loaded. Code
that runs on behind a call is `ExtensionScopes`' matter.

**ChildProcess.** A child is a call of the bridge; `children` is the registry, `child[c]` its events in the order in
which the program heard them (`heard`), its flags and what its callback was called with. A tick of the bridge may bring a chunk
(`Chunks`), whose parts JavaScript then emits one after the other (`Emit`, before anything else happens; a
listener may kill the child between them), or an end (`SettleChild`). `KillChild` is `child.kill`, which
closes the child at once.

**VirtualFiles.** A path is a sequence of names, one step is one call of node:fs, and a call that throws before it changed anything is
none. `Resolution` is `resolvePathDetails`, with no result for a loop or more than forty links; `EnsureDir` is `ensureDir`, which leaves the directories it made
when it then throws. `hostTree` is what the host has, looked at and never changed. `owners` are the streams and handles made of descriptors;
`opened` and `renamed` are history, for the properties only. Contents and positions in files are left out.

**NodeStream.** A chunk is a number; one step is one turn of JavaScript, so that `Feed` is a push with all it sets off: the
transform, its push, the sink's write. `slow` says which of the script's three functions answer in a later step (`TransformReturns`,
`WriteReturns`, `FinalReturns`); each may also fail. An end is two steps, because `push(null)` queues its event. `piped` is whether the pipe from
the transform to the sink is still attached. `pause` and `drain` have no effect in the code and none here.

**NodePump.** `pc` walks through the loop of `execute_program_with_hostcalls` or `wait_extension_task`: drain,
dispatch one request, complete it, tick, let JavaScript run, go round. The program makes up to
`Width` calls at a time. `Disturbed` says whether anything but those calls is scheduled.

**Scheduler.** Every operator is one method, a function from the scheduler's record (and the time)
to the record it leaves; `SchedulerLoop` keeps in `fate` what became of each timer. **ReactorMesh**:
an envelope is a call's completion or an event with its two sequence numbers; `route[c]` is the
lane a call hashes to, any lane. `Bind` and `Plan` are `from_core_node_pairs` and the manifest's plan.
**NumaSlabPool**: `held` are the handles callers hold, `returned` those that were freed.

**HostcallQueue.** A request is the tenant that made it. `PushFast`, `PushOverflow` and `PushRefused` are
the three ways through `push_back`; `drain_all` is `StartDrain`, `PopFront` until both lanes are
empty, `EndDrain`, because a reader on another thread may drop its pin between two pops. `Admission` is
`allow_main_admission`; ghosts are the two maps `order` and `lookup`. A retired node is `old` when
the epoch has moved on; `TryReclaim` drops the old front or gives up epochs.
**ContentionPolicy**: one action, a window with its sample; `Classify` is the signature.
**S3FifoPolicy**: `Access` is `access`, with `Decide` and the signal window; `Bypass` its path in the fallback.
**RepairPlanning**: the list of candidates grows by any proposal; everything is checked of the list.

**PiRuntime.** `commands` lists every command ever sent with what became of its reply; the thread takes the
first of the channel, runs (`StageHostAction`), and settles. `TimeOut` is a client's, and leaves the command.
**ExtensionCalls.** A call is a task with a place: spawned, started, flag checked, subscribed, ended;
`lock` is NODE; `slot` is the current session the library would give the call. A program ends without
waiting for its calls when it was aborted or did not await them.

**ProviderStream.** The server is external and streams items; `Yield` is the stream's translation, `EndTurn` every
end of a stream with the stop reason the session sees, `ToInputItems` is `to_input_items`. A piece of text is a
number no other piece has. **TerminalModes**: `tty` is what is on, `driver` the flags; a
terminal command may fail with or without effect; `mishap` records that the terminal itself failed
to switch something off.

## 4 Runs

| Run | Question | Instance |
|---|---|---|
| `session_lifecycle` | What do fatal and closed mean, and what becomes of accepted messages, when store, provider, hooks, commands and drop_session may fail anywhere? | 3 texts, 1 close, 1 staged message, no tools |
| `session_turns` | Are tool uses answered, aborted runs ended and events in order with two tools a turn, two turns, steers between results, hooks that rewrite the assistant message? | 2 texts, no close, no store failure |
| `session_requests` | Is every call answered, does every accepted message run, and do the events of an open session keep their order under close and store failures? | 2 texts, 2 closes, 1 tool |
| `ui_tables` | Do the five tables agree under two callers, two extensions, unload and shutdown? | 3 requests, channel of 1 |
| `ui_program` | With the program's one JS runtime: can every waiter be answered, is the screen true, does the exit complete? | 3 requests, channel of 2, with and without deadline |
| `node_runtime` | Outcome, timeout, cancellation, chunks and user timers in every order: do the tables agree, are streams sound, is every call on its way to an end? | 2 calls, one a stream of up to three chunks, all other limits 1 |
| `data_parts` | The store under crashes between any two steps, torn and failing writes, goals, repairs that crash; what extensions register; the files of node:fs; the libraries of the node runtime, each alone: queue, scheduler, mesh and placement, slabs, contention and S3-FIFO policies, repair planning | section 5 |
| `host_parts` | The parts around JavaScript, each alone: both pumps, child processes, pipelines of node:stream, the Pi thread, the scopes of two extensions, extension calls, the provider's stream, the terminal | section 5 |
| `fatal_events`, `torn_lines`, `lost_hostcalls`, `denied_scopes` | the disagreements of section 8 | |

`CHECK_DEADLOCK FALSE` in all of them: the actor ends, files get full at the bound, the program exits.

Where several statements are about one component's state and break together, they are conjuncts of one
property, and the parts are named definitions of the module:

| Property | Says | Parts |
|---|---|---|
| `InputsAreAccountedFor` | a text is at exactly one place (queue, store, a run's local, dropped with a report) at every await, and `Ok` means it was answered | `AcceptedInputsAreKept`, `OkPromptsWereAnswered` |
| `EndedIsQuiet`, `NothingNewRevivesFatal`, `ClosedIsFinal` | exactly how dead a dead session is: a closed one is; a fatal one can be revived, but only by a Wake sent before it failed | |
| `DropsAreReported` | a message is dropped only by a step that publishes an error or ends the session | |
| `ToolUsesAnswered`, `AbortedRunsEnd`, `EventOrder` | the provider's well-formedness; an abort ends a run although provider and tools hang; refinement of `SessionEvents` | |
| `RequestsAreAnswered`, `AcceptedMessagesRun`, `EventOrderWhileOpen` | liveness of calls and messages; the refinement as long as the session is open | |
| `HistoryIsSound`, `FileOnlyGrows` | what was announced can be read by the next process; memory against file, and uses against results, across crashes of the repair itself; no line changes | `MessageEndRecoverable`, `MemoryIsOnFile`, `EveryUseAnswered`, `ResultsFollowTheirUse` |
| `BrokerIsSound` | no interleaving of registering, sending, answering, expiring, unloading leaves a stale entry or a forgotten caller | `TablesAgree`, `NobodyWaitsInVain` |
| `ScreenIsFaithful`, `WaitsAtTheScreenEnd` | every waiter can be answered, the screen follows the answers; a request with a deadline returns, one without is the only thing that can hold up the exit | `WaitersCanBeAnswered`, `AcknowledgedIsShown`, `TimedRequestsReturn`, `ExitWaitsOnlyForUntimed` |
| `CallsAreSound` | tracker, cancelled set, timers, owners, listeners of calls in all six tables agree; each pending call has something under way that will settle it | `CallTablesAgree` (`TrackerAgrees`, `TimersHaveOwners`, `ListenersAreTracked`), `CallsWillEnd` |
| `StreamsAreSound` | chunks in order and a watched buffer when full; nothing after a cancel | `ChunksInOrder`, `FullStreamsAreWatched`, `CancelledIsQuiet` |
| `ChildrenAreSound` | a pid is known exactly while its child lives; error, exit and close come once, in order, after the output; the callback of `exec` is called once, truthfully; a child that lives will be closed | `RegistryIsOfTheLiving`, `EventsAreInOrder`, `CallbackIsCalledOnce`, `ChildrenWillClose` |
| `FilesAreSound` | every directory and link can be reached from the root; a file without a directory or a path of two kinds comes from a descriptor or a rename only; a stream or handle never meets another's descriptor under its number | `EntriesAreReachable`, `OnlyDescriptorsStray`, `PathsHaveOneKind`, `DescriptorsAreOwned` |
| `ScopesAreSound`, `TaskWaitsEnd` | the scope belongs to the handlers that have not ended; only detached code runs as somebody else; what a handler awaits is performed, until an outcome is refused; every wait for a task ends as long as nothing but outcomes is scheduled | `ScopesAgree`, `OnlyDetachedCodeStrays`, `PerformedUntilRefusal`, `WaitsLeaveNoScope` |
| `AdmittedInOrder`, `QueueIsSound` | the lanes refine a bounded FIFO; backlogs, ghosts, retirement and pins | `BacklogIsExact`, `GhostTablesAgree`, `RetiredIsBounded`, `PinnedNodesStay` |
| `SchedulerKeepsTime` | macrotasks and timers in order, ids never shared, each timer fires once when due or was cleared, equal deadlines as set | `SchedulerInOrder`, `SchedulerIdsAgree`, `TimersMeetTheirFate`, `FateIsFinal`, `TimersAreStable` |
| `MeshKeepsOrder` | order within lanes, per call, in the global drain; balanced binding | `LanesInOrder`, `CallsKeepTheirOrder`, `PlacementIsBalanced`, `GlobalOrder` |
| `SlabIsSound` | free lists, holders, stale handles | `FreeListsAgree`, `HandlesAreExclusive`, `StaleHandlesFreeNothing` |
| `WindowsAreServed` | a bias ends, a starved writer is heard, a recovery lasts | `ReadBiasIsBounded`, `StarvationIsAnswered`, `RecoveryIsServed` |
| `PolicyIsSound` | each key in one place, counts exact, fall-back justified by the window | `EachKeyInOnePlace`, `CountsAreExact`, `PolicyGhostsAgree`, `FallbackIsJustified` |
| `RepairIsSound` | who is dropped has a better rival; the result does not depend on the order of generation; what is applied is within policy | `ResolutionIsJustified`, `ChoiceIgnoresOrder`, `BestSurvives`, `AppliedIsWithinPolicy` |
| `CallsGetThrough` | every call the program waits for is in somebody's hands, the loop keeps up with the scheduler, the program ends | `NoCallIsLost`, `LoopKeepsUp`, `ProgramsEnd` |
| `PiIsSound`, `PiWaitsEnd` | replies, staged actions, call ids; tool calls return, hooks return if scripts settle | `NoReplyIsForgotten`, `ActionsInOrder`, `CallIdsDiffer`, `ToolCallsReturn`, `HooksReturnIfScriptsDo` |
| `RegistryIsSound` | what an index finds is what its extension has, of several the first tool and the last shortcut; a tool that was offered stays the same one; a listed command is found; a tool is drawn by its own extension; handler lists agree through subscriptions and their ends | `IndexesAgree`, `OfferedToolsStay`, `ListedCommandsAreFound`, `RendererIsItsOwn`, `HooksAgree` |
| `SessionsAreApart`, `CancelReachesCalls` | one program at a time, private states, dropped is dropped; a cancel misses only the gap | `OneProgram`, `StatesArePrivate`, `DroppedStaysDropped` |
| `TurnsAreFaithful` | the answer is what was streamed, its stop reason honest, the replay in order and every call with an output | `AnswerIsWhatWasStreamed`, `StopReasonsAreHonest`, `ReplayKeepsOrder`, `CallsHaveOutputs` |
| `PipelinesAreSound` | chunks reach sink and reader in order and once; a pipeline that resolves has written all it should; nothing flows behind a failure; pipelines and readers come to an end | `SinkIsServedInOrder`, `ResolvedMeansWritten`, `ReaderMissesNothing`, `FailureStopsThePipe`, `StreamsSettle` |
| `TerminalIsRestored` | whatever failed, what was switched on is off after stop or drop | |

## 5 Bounds

- `Inputs`, `Closers`: finite sets of calls, each made once. Three texts give a prompt that runs, one
  queued behind it and one that arrives during either; two suffice where tools or liveness make
  the state space large.
- `MaxTurns`, `MaxCalls`: after `MaxTurns` turns the provider uses no tools any more; the code has
  no such limit. Two turns show what one leaves to the next; two calls show the gap between results.
- `MaxActions`: one staged message at a time in the runs; `AppliedCounts` is written, and the types
  are proved, for any number.
- `MaxEntries`: 6 entries are a run with two tools, a second run, a crash in each, and repairs that crash.
- `MaxRequests`, `QueueCapacity`, `NotificationCapacity`: three requests against a channel of one or two
  reach a full channel, a superseded update, a late envelope and a second dialog. The code's
  capacities (`QUEUE_CAPACITY`, 32 notifications) are constants of the module.

- `node_runtime`: two calls, the first a stream of up to two chunks and a last one; queue, buffer, stall timeout and
  user timers limited to 1, a timeout of 2 in a clock of 2. A call is refused when the other is queued, a stream's
  buffer is full after one chunk, a full stream stalls and is cancelled before it times out (so that a chunk already on its
  way is left out and the last one still heard), a timeout races a chunk, and 12 timer ids never run out. `MCNodeRuntime`
  splits the programs in two, because together they are more than TLC explores: those that set no timer of their own, and
  those that do and make only their stream.
- `data_parts`: two extensions, one name of each kind, two functions, three registrations and three loads (a load
  that fails, another extension's, and the first again); two names below the root, one inside the other, over a host that has a file at one or the other, three
  entries and two descriptors (a link to a directory with a file in it; a descriptor number given out again); two tenants, a ring of 1, an overflow lane of 2 (so a tenant budget of 1), one ghost, streaks and
  samples of 2, generations that start over after 3, one pin; three timer ids on a clock of 2 and five sequence
  numbers, so that ids wrap around; two shards with lanes of 2 and four envelopes; two nodes with slabs of 2 slots and three ids a caller
  may name, two generations; contention windows of 0, 1, 4 or 5 acquires around the minimum of 4, at most 3
  biased and 2 recovering windows; S3-FIFO with four keys, two owners, three live, one of them small, one ghost,
  a budget of 2, a window of 2; repair with eight proposals of which three are candidates.
- `host_parts`: three calls, two chunked, one an exit, for both pumps (one call at a time for a program, two for an extension task) on a clock
  of 4 with a timeout of 3; one child process, killed, fed and ended in every order (the queue has room for the calls, so that none is refused here); three commands to the Pi thread, one staged action; two extensions, two tasks, two host calls and one timer (one task's leftovers meet the next one); two sessions with two native calls; three pieces of
  text and three items a response; two chunks through a pipeline, with every choice of
  slow functions.
- The limits the code fixes (queue sizes, 60 seconds, u64 generations and ids) are CONSTANTS.

## 6 Fairness

- `Scheduling`: tokio polls the actor's task and hooks return. A hook that never returns stops a
  session, and the code has no timeout for it.
- `Responsive` (`session_requests`): providers end their streams and tools return; the client library's
  and the tools' own timeouts are outside the repository's core.
- `Cancellable` (`session_turns`): only that a cancelled `select!` wakes; provider and tools may hang.
- `UiBroker!Fairness`: each caller's task and the event loop run; deadlines pass (`Expire`); extension code
  that waits for nothing returns (`EndScript`; `MaxRequests` bounds how often it asks); and, strongly
  fair, a session that comes to its next hook again and again also comes to its end
  (`Attach`, `FinishClose`), since a run has finitely many hooks. No fairness on keys, on `Exit`, on
  unloading or on failures: a user may never answer a dialog.
- `PumpSpec`: the loop of the pump goes on; its dispatch returns (`CallsGetThrough`). Nothing on JavaScript
  beyond that it runs when the loop lets it.
- `ScopesFairness`: the thread's loop goes on, and JavaScript that can run does; that scripts are finite is in the bounds.
- `NodeStreamFairness`: an iterable ends or throws, microtasks run, a `final` function answers, a loop over the source goes on.
  Nothing on transforms and writes: a pipeline settles without them.
- `PiFairness`: the thread takes its commands, timeouts pass, clients whose reply has come go on. Nothing on
  scripts: `HooksReturnIfScriptsDo` has "scripts settle" as its hypothesis.

## 7 Proofs

Each theorem holds for every value of the constants that satisfies the module's named assumptions.

| Module | Theorem | Statement |
|---|---|---|
| `SessionActor_proofs` | `TypeCorrect` | `Spec => []ActorTypeOK` |
| | `EndedSessionsAreQuiet` | `Spec => []EndedIsQuiet` |
| | `ClosedForGood` | `Spec => ClosedIsFinal` |
| | `OnlyOldWakesRevive` | `Spec => NothingNewRevivesFatal` |
| | `InputsAccounted` | `Spec => []InputsAreAccountedFor` |
| | `DropsReported` | `Spec => DropsAreReported` |
| | `ToolUses` | `Spec => []ToolUsesAnswered` |
| `SessionStore_proofs` | `StoreSound` | `StoreSpec => []HistoryIsSound` |
| | `FileGrows` | `StoreSpec => FileOnlyGrows` |
| | `FilesSound` | `FilesSpec => []FilesAreSound` |
| `UiBroker_proofs` | `BrokerSound` | `Spec => []BrokerIsSound` |
| | `ScreenFaithful` | `ASSUME OneCaller PROVE Spec => []ScreenIsFaithful` |
| `NodeRuntime_proofs` | `CallsSound` | `Spec /\ []IdsSuffice => []CallsAreSound` |
| | `StreamsSound` | `Spec /\ []IdsSuffice => StreamsAreSound` |
| | `ChildrenSound` | `ChildSpec /\ []IdsSuffice => []ChildrenAreSound` |
| `HostParts_proofs` | `ScopesSound` | `ScopesSpec => []ScopesAreSound` |
| | `RegistrySound` | `RegistrySpec => []RegistryIsSound` |
| | `ExtTypeCorrect`, `ProgramsTakeTurns`, `SlotSuffices`, `DroppedIsGone` | types of `ExtensionCalls` and the parts of `SessionsAreApart` |
| | `SessionsApart`, `CancelIsSeen` | `[]SessionsAreApart`, `[]CancelReachesCalls` |
| | `PiSound` | `PiSpec => []PiIsSound` |
| | `TurnsFaithful` | `StreamSpec => []TurnsAreFaithful` |
| | `FlagsAreRight`, `TerminalRestored` | `[]FlagsTellTheTruth`, `[]TerminalIsRestored` |
| `DataParts_proofs` | `QueueTypeCorrect`, `BacklogExact`, `RetiredBounded`, `PinsProtect` | the parts of `QueueIsSound` |
| | `QueueSound` | `QueueSpec => QueueIsSound` |
| | `QueueImplementsFifo` | `QueueSpec => AdmittedInOrder`: refinement of `BoundedFifo` |
| | `ContentionTypeCorrect`, `BiasEnds`, `WritersAreHeard`, `RecoveryLasts` | the parts of `WindowsAreServed` |
| | `BothSidesServed` | `ContentionSpec => WindowsAreServed` |
| | `SlabSound` | `SlabSpec => []SlabIsSound` |
| | `TimeIsKept` | `SchedulerSpec => SchedulerKeepsTime` |
| | `PolicySound` | `PolicySpec => []PolicyIsSound` |
| | `RepairSound` | `RepairSpec => []RepairIsSound` |

*SessionActor.* `ActorTypeOK` is inductive; it includes which places hold an input text, without which `Persist`
could store nothing. The proof goes bottom up: what `ApplyActions`, `Emit`, `Persist` and `Pop`
return, then one step per action. `EndedIsQuiet` was strengthened until it was inductive given the types:
it says of a fatal session not just that its queue is closed but at which awaits it can be (idle,
returning, or draining an old Wake), of `close` that only the running actor executes it, and of a closed
session that its actor has stopped or is about to. `ClosedForGood` and `OnlyOldWakesRevive` are
action properties that follow from one step under that invariant: in each of those places every
other action is disabled.

`InputsAreAccountedFor` speaks of the answers clients get; what makes it inductive is where a text is meanwhile,
`InputInv`. `QueueHolds`: the queue holds exactly the texts whose fate is "queued", each once, and
`StagedHolds` the same of the host actions not applied yet. `ChannelHolds`: a prompt in the channel was sent, its caller
waits, and it is none of those served before. `HandHolds`: from taking a message to storing it the running method has its
text in hand. `StoreHolds`: the store has every taken text once, except the one in hand and the one a failing store did not
take. `PromptsHold`: an accepted prompt is answered in the store, or with an error, or is under way.
`ToolUsesAnswered` is a statement about the moment the provider is asked; `ToolInv` says how far the answers have come
at any other: those of earlier turns and runs are complete (`TurnsHold`), those of the current turn go up to
the call that runs now (`AnswersHold`).

*SessionStore.* `HistoryIsSound` says that what was announced can be read, that memory and file agree, and that the
history sent to the provider is well formed. It is not inductive: what a repair writes depends on which uses memory
finds unanswered, and a crash may separate the two at any write. `StoreInv` therefore has `FileHolds` (a line without newline is at
the end, and only after a torn write; a file that can be read ascends, has each result after its use and none twice, and
without goals ends each turn before the next assistant message),
`MemoryHolds` (the same of memory, and the uses it leaves unanswered are those still to be repaired or those of the turn under way), and `LinkHolds`
(memory is a part of the file, and what is unanswered in memory is unanswered there). The lemmas about filtering and
joining come from `SequenceLemmas`.

*UiBroker.* `BrokerInv` states the agreement of the tables by their members, which is inductive where the cardinalities of
`TablesAgree` are not (`Tables`), and that channel and callers name requests that exist (`Known`). `ScreenIsFaithful` is
proved for one caller, as the program has (all its extensions share one JavaScript runtime): `ScreenInv` adds that the channel
ascends, that all in it is newer than what the screen shows, and that the caller's own request is the newest of all.
With more callers TLC finds an envelope that overtakes another.

*ExtensionScopes.* `ScopeInv` has eight parts: types; that each index of a task, handler, call or callback names one (`Linked`);
of the outcomes a pump took, which are still to be handed over (`BatchHolds`); that at most one piece of JavaScript can run, and as whom
(`JobHolds`); the held scope against the open handlers (`ScopesAgree`); that a handler which waits does so for an open call of its own, made
in its own scope (`WaitersHold`), which is why the outcome a task awaits is refused only after another refusal; one handler per task,
and until a refusal no pending task but the awaited one (`TasksHold`); and that an open call is in the queue, in the
batch, scheduled, or late (`WayHolds`). The proof has a lemma per part and action.

*Scheduler.* `Sched` says when a scheduler is in order: the tasks ascend and lie below the next number, the heap is finite
and has each number and each id once, the id tables agree. `Scheduler_proofs` shows of every method that it keeps `Sched` and
what it makes of the live timers (`SetTimeoutKeeps`, `ClearTimeoutKeeps`, `MoveDueKeeps`, `TickKeeps`). `MoveDueKeeps` needs that
`InOrder`, which lists the due timers by deadline, lists each of them once: `InOrderLists`, an instance of `OrderLists`, which proves
that of any strict total order of a finite set from the rank of a member (how many are before it), by counting. `TimeIsKept` then holds for any number of ids: ids wrap around and
are given out again, since it is enough that no two timers of the heap share one.

*NodeRuntime.* `NodeInv` has the runtime's tables (`RtInv`) and the host's side (`HostInv`: who is queued has been sent, who is tracked
or listened for was made). `RtInv` consists of `Sched`; `Fresh` (an id below the next one is used up, and what has fired is not in
the heap); `Timed` (the tracker's two tables are inverse, on active calls); `Owners` (whatever has an owner is alive or
waits to run, whatever is alive has one, and no timer has two); `Stalls` (a stream's stall timer and its callback
name each other); `Ends` (a cancelled call has its end among the tasks); `Deadlines` (a pending call that may time out has its timer).
Between the steps of a tick two of these fail for a moment: the timer at the head is taken but still has an
owner, and the end at the head is taken but its call is still tracked. `RtInv(r, lost, ended)` names such exceptions, and the lemmas
about `TimedOut`, `Completed` and `CallbackTaken` discharge them. Operations on a stream are proved by what they leave
alone (`StreamStep`, `Pushed`), so that their several forms compose. The theorem supposes `IdsSuffice`, that the ids of timers (2^64 in the code)
are not used up: when they start over, a new timer may get the id of one that has fired and whose task still waits, and
that task then runs the new timer's callback. The hypothesis holds in every state that `node_runtime` explores.

For the streams, `FlowInv` says of each call that what its reader was told followed by what is buffered, `FlowOf`, is one sequence in
order, which reading does not change (`FlowMoves`) and which an item only ever joins at the end (`StreamTakes`). While JavaScript listens and the
reader has not left, that sequence is complete up to `lastSeq` (`Heeds`), and the chunks the scheduler still holds for an active call are exactly those
from there to what the host has sent, in this order (`Lined`, with `InLine` of the scheduler's tasks): so an active call's next chunk is the next
number. Only the last chunk `cancel` makes up comes out of line, and it ends the sequence (`CompleteEnds`). `Guarded` and `Orderly`
relate a full buffer to its timer, which is why the theorem holds for `StallTimeout = 0` too. What a step does to another call is nothing (`Aside`).

*ChildProcess.* A step of a child is a step of the runtime, so `NodeInv` carries over; `ChildInv` adds three parts. `Story` says what became of
one child: until it is done only output was heard, nobody killed it and its callback was not called; then there is one place where it exits, and what
may stand before and after that place follows (`EndsAt`), from which the four statements of `EventsAreInOrder` are counted. `Attended`: JavaScript
listens for the call of every child that is not closed, and no promise it listens for has settled. `Voiced`: of a chunk whose child has been
closed half way only the errors are left, of a child that was killed. What a tick may tell comes from the runtime's side: `Heeded` (nothing, or one outcome
to one call) and `Fits` (the last chunk of a call with a promise is empty), which the host's outcomes and a cancelled call's end obey; so no tick brings a chunk and an end
together (`Told`), and a child whose call is released is closed in that tick.

*ProviderStream.* `TurnInv` relates three things that the property looks at one at a time. `Tracks`: block by block, what the session
has assembled is what the server's items have said so far (an item that said nothing may have no block, an unfinished call has none), so at any time
the message would be the answer. `UsesAreNew`: no two calls of a response share an id, and while they arrive the history lacks their ids.
`HistoryHolds` says of the items of the next request what `ReplayKeepsOrder` and `CallsHaveOutputs` need, at every moment: ids below
the next one, one call and one output of each, no empty message, the same words as the history in the same order, and each call with its output
behind it unless its result is still due (`Settled`, `Due`). `to_input_items` joins the text of neighbouring blocks, so what it makes of a message is
proved along its content (`Gathering`, `BlockGathers`): items gathered so far and text not flushed yet say together what the blocks said. One
message more is then one list of items more (`HistoryGrows`), of a turn (`TalkAppended`) or a result (`ResultAppended`).

*SequenceLemmas.* What a recursive function computes is proved by induction along the sequence, but the library's
induction theorems take a predicate as a parameter. The set of indices at which a statement fails is a set, though, and
that one without a least member is empty follows from the well-foundedness of strict inclusion over the intervals `1..n`, for which
`WellFoundedInduction` has a theorem without such a parameter. `Without` keeps the order and exactly the others,
`Joined` has the members of its parts, and the parts of two sequences joined are the one's and then the other's (`JoinedOfConcat`).

*HostcallQueue.* The invariant is `QueueInv`: the lanes' types and lengths, the retirement list with its bound and
its emptiness in the fallback mode, the other types, and that in the active mode each backlog is the
cardinality of the tenant's places in the overflow lane. Two lemmas count those places under `Append` (one more)
and `Tail` (a bijection that shifts indices). The ghosts are proved apart: `GhostsAgree` (the maps are inverse,
nothing is newer than the generation, at most the capacity) is kept by each operation of the
policy; the eviction needs that an oldest ghost exists, the minimum of a set of naturals. The refinement maps both
lanes, concatenated, to the abstract queue; only `HeadOfLanes` and the two concatenation lemmas are needed.

*S3FifoPolicy.* `PolicyInv` says of the policy that it is `InPlace` (each queue has exactly the keys of its tier, once;
whoever has a key in a queue is counted for it; the ghosts' maps are inverse, no ghost is newer than the generation or in a
queue), `Fits` its capacities and is `InBudget`, and of the window that it has as many signals as accesses were `seen`, up to its size. Between the
parts of a decision capacities fail by one key, so `InPlace` leaves them out: `Rearranged` says once what any change to queues,
tiers, owners and counts has to satisfy, and admission (`KeyAdmitted`), eviction (`KeyDropped`) and promotion (`KeyAgain`) are cases of it. That a
key leaving a queue makes room for one is `LengthWithoutOne`: a sequence without repetitions is as long as it has members.

*RepairPlanning.* The state is any list of proposals, so everything is about the functions. `Before` is a strict weak order (`BeforeIsOrder`), which
the place in the list makes a total one (`SoonerIsOrder`); so the sort lists each candidate once (`RankedLists`, from `OrderLists`). `Greedy` says
which candidates the pass keeps without mentioning the pass: those that conflict with no sooner one that is kept. Justification follows, and
that the best allowed one is kept: whatever is sooner is at most as risky, hence allowed too. Without ties between different proposals the same
holds with `Before` for the order of the list (`KeptIsGreedy`), and two sets of proposals that both satisfy it are equal: of the candidates in one
of them only, the soonest would be in both (`KeptIgnoresOrder`).

*VirtualFiles.* `FilesInv` is `TreeInv` (the parts of the property that speak of paths; nothing is a file or a link at the root; every
descriptor's path is in `opened`) and `FdInv` (the owners' numbers are below the next one, so what is opened next is nobody's). The
step that needs most is the smallest: that what a path resolves to has no link on it, without which a write
could make a file at the path of a link. `Resolving` follows links until none is left, and that such a function exists at all has to be proved
(`ResolutionExists`): each round leaves one link less to follow, so the function is built by a recursion over the number of
links (`Recursion`, from `SequenceLemmas`) and agrees with itself from there on. One lemma about `ensureDir` (`EnsureDirFacts`) and one about
what a step may add (`EnsuredStep`, `SameDirs`) carry the operations.

*ExtensionRegistry.* `RegistryInv` adds that nothing is from an extension nobody loaded (`Known`): so an extension that loads for the
first time registers its tools after all that are listed (`LoadedIsLater`), and of the listed ones with a tool of one name, one the
index finds was listed first or failed before (`FirstDraws`). Without the failed loads that is false: a second attempt finds the tools of the first.
`HitsOfAppend` and `HitsOfRemoved` count a handler's places; that the list's first occurrence exists when the index loses an entry follows from the equal counts.

*ContentionPolicy.* `ContentionInv` relates the mode's counters to history: recovery windows left plus windows
served make the number promised. *NumaSlabPool.* `SlabInv` adds to the property that a slot's generation covers every
handle ever issued for it; so a freed handle's generation is never current again. *ExtensionCalls.* The
invariant ties the lock to the one running program, its calls to its session and, while no
call is left behind, the slot to that session. *PiRuntime.* `PiInv` adds `Order` and `Ids`:
numbers ascend along the channel, what is in it comes after what runs, and that after everything staged or
applied, so that a late action of an abandoned call cannot overtake; both counters are ahead of every id they could
collide with, and a program's call waits only while the session runs that program. `Counts` follows an append by
`PlacesOfAppend`. *TerminalModes.* Flags are what is on, unless the terminal itself failed.

Only model-checked: `ReactorMesh`, `NodePump` and `NodeStream`; the refinements `EventOrder` and
`EventOrderWhileOpen` (the grammar is folded over the events of a step with the community modules' folds, whose recursion is a
`CHOOSE`d function); and all liveness: there are no rules for `WF`, `SF` and `ENABLED` that the installed provers support.

## 8 Where the code departs from its documents

Four are runs that TLC refutes; `PROJECT.json` quotes the lines.

- `fatal_events`: a Wake in the channel when persistence fails is served afterwards. `run_queued` does not
  look at the status, so what is left in the queue runs, events follow the shutdown, and `run_agent`
  sets the status back to idle, after which the fatal session accepts prompts again
  (`session/mod.rs:165`, `:475`; against `docs/e-agent-event-driven-implementation-plan.md:235` and
  `docs/e-agent-event-driven-architecture.md:368`).
- `torn_lines`: entry and newline are two writes. After a crash between them the file opens, the next
  entry continues the line, and from then on the file does not open.
- `lost_hostcalls`: the program pump takes all queued requests and keeps the first (`runtime.rs:17368`). A
  program that makes two calls before the pump looks waits for the second for ever.
- `denied_scopes`: while a handler awaits, its extension's scope is held; an outcome that belongs to another
  extension (of a call a continuation made, or one an earlier task left) is refused, the tick fails, the wait
  with it, and the requests drained so far are dropped (`runtime.rs:17879`). Their callers wait for ever
  and their scope stays held, so that every later task of another extension is refused.

Others, met while modelling, have no run:

- Tools named by an aborted or failed assistant message are executed (or blocked, or cancelled) one by one
  (`session/mod.rs:646`); the documented sequence goes from `message_end` to `turn_end`
  (`docs/e-agent-event-driven-architecture.md:334-340`).
- On exit the event loop awaits `close()` while the broker is no longer served and not yet dropped
  (`e-agent-tui/src/lib.rs:163`): a script in a request without deadline keeps the program from ending.
- `AgentSettled` is published after every run, also with follow-ups queued (`session/mod.rs:476`;
  `docs/e-agent-event-driven-architecture.md:514` says "after queues/continuations stop").
- A session whose first command is a steer or follow-up runs before it publishes `SessionStart`
  (`session/mod.rs:165`; `docs/e-agent-lifecycle-pi-extension-plan.md:158`). `session_turns` therefore
  starts from `resume_pending`, as the program does.
- A message an extension sends while no run is active waits in the queue until somebody else wakes the
  actor (`session/mod.rs:231`; `docs/e-agent-lifecycle-pi-extension-plan.md:171`).
- Under an active goal a reopened session lacks the tool uses and results the closed one had
  (`session/store.rs:84`; `docs/e-agent-lifecycle-pi-extension-plan.md:176`).
- The interface drops its oldest notification whatever its severity (`e-agent-tui/src/reducer.rs:170`;
  `.trellis/tasks/08-18-replaceable-tui-architecture/design.md:459`).
- A custom editor takes every key before a dialog does (`e-agent-tui/src/lib.rs:122`; `design.md:232`).
- `detect_conflict`'s comment says any overlap of two proposals is a conflict (`runtime.rs:1203-1206`); `ops_conflict`
  compares only operations of the same kind. `check_approval_requirement`'s comment names `AutoStrict`
  and three operations (`runtime.rs:1627-1633`); the code asks in any mode. And the best candidate may be one
  `validate_proposal` refuses, the empty proposal ranking highest.

- `ctx.ui.custom` "replaces the editor with your component until `done()` is called" (`extensions.zh-CN.md:2702`). Its code asks for a key
  before it draws its first frame (`runtime.rs:21993`); the extension's pump performs requests one after the other
  (`runtime.rs:17879`), and the first, the key, has no deadline: the component appears after the first key was pressed.
  From then on its timers (the next frame, the next poll, the pause of 16 ms) are due only in a tick, and the pump ticks once per
  outcome, so that a component whose user is slower than its timers stops and the JavaScript thread with it.

What the code does, contradicted by nothing, but good to know; the properties are stated around it:

- A pump ticks once per outcome and never otherwise: JavaScript's own timers fire only when a host call
  completes, and after a timeout or a cancel outcomes lag one tick behind.
- A call refused because the queue is full never settles (`runtime.rs:4835`): `Refused` in `CallsWillEnd`.
- node:fs: renaming a file to its own name loses it, and a rename looks neither at what is at the new name nor through links
  (`runtime.rs:12417`); a descriptor writes to its path also after the file was removed (`:12600`); removing an overlay's file makes the
  host's file of that name visible again (`:12338`); `mkdir` of a directory that is there succeeds (`:12436`).
- node:child_process: `kill` reports the process as closed although the host runs it to its end, or even starts it afterwards
  when its request was still queued (`runtime.rs:10691`); when a listener of its output kills a child, the errors of the same
  chunk are heard after `close` (`:10716`); a process that died of a signal has no code and is reported as code 0
  (`:10751`, `e-agent-pi-compat/src/lib.rs:1528`).
- node:stream: a transform that answers late loses the chunks it still holds when the source ends (`Transform.end` waits for none,
  `runtime.rs:14682`), and a sink's `end` does not wait for writes under way (`:14492`), so that a pipeline can resolve before they are
  done; a failed write rejects the pipeline and stops nothing; destroying the sink resolves it; `pause` stops nothing and what `read` would
  return is never dropped (`:14221`); an iterator made after the end, or whose stream is destroyed, waits for ever (`:14299`).
- A streaming iterator whose call ends with a plain value never ends (`runtime.rs:22723`).
- Each chunk beyond the limit arms the stall timer again, so a slow reader's buffer is unbounded (`:22596`).
- A cancel before the first chunk numbers its sentinel from that moment; the reader may skip a chunk.
- The JavaScript thread is sequential and hooks have no timeout: an unsettled script blocks every
  later command and the shutdown.
- Calls an aborted program left behind use the next program's session or make a dropped state again;
  `set_cancelled(true)` is called by nothing under `src/`.
- `closed` is read before NODE is waited for (`e-agent-pi-compat/src/lib.rs:993`); program call ids start again with each program (`:1053`).
- What an extension registered in a load that failed stays in the JavaScript runtime, its handlers included; loaded again it
  is refused the tool it has already, and its tool may keep another extension's from being drawn. Tools
  registered after the load are never offered. The program ends on a failed load, so that this is a
  matter of other hosts.
- `load_extension` awaits `setKeybindings`, a request without deadline, before anybody serves the broker
  (`e-agent-pi-compat/src/lib.rs:912`); its pairs are (key, command) where the interface reads (command, key)
  (`e-agent-tui/src/reducer.rs:269`).
- OpenAI: a connection lost after some content ends the turn with stop reason stop; a length limit is
  overridden by tool use in the session.
- The "pin to overflow" guard of the queue is redundant: `drain_all` always empties both lanes.

Because of the first finding, `EventOrder` is checked in `session_turns`, where the store does not fail, and
under store failures as `EventOrderWhileOpen` (`session_requests`).

## 9 What is not modelled

In the modelled parts: the contents of messages and what hooks rewrite in them (a finalizing hook may
change a `tool_use_id`, which the repair would then not find); message ids; stop reasons other than stop,
length, tool use, error and abort; lagging subscribers of the event bus (capacity 16384); more than one message
injected by `before_agent_start`; the broker's generations, diagnostics, raw input subscribers
and its notify queue (which nobody fills); paste, overlay, theme, keybinding, clipboard and
capability requests, answered by the reducer at once or refused by default. With goals, a repair after a
second restart can put a result behind later assistant messages, so `ResultsFollowTheirUse` excepts
them. Of the scheduler: telemetry, huge pages, thread affinity. Of the hostcall bridge: which capability a call
needs, hashing for replay, console and trace.

Parts left out: see `components` in `PROJECT.json`. Terminal drawing, ANSI parsing, HTTP and request
parameters are I/O or text; the macros run at compile time; the lane policy
(`hostcall_io_uring_lane.rs`) is a set of decision functions nothing calls. More than half of the
lines of `e-agent-node-runtime` are tests (`runtime.rs` from line 25286), and most of the rest JavaScript
libraries in string literals (path, url, buffer, crypto, os, zlib, net, Pi's own API tables), which compute values and keep no state
other code depends on. That is why the mapped share of all lines stays low although each stateful part of the
program's own core is modelled.

## 10 Plan

Done: the session, its actor and events; the store; the broker and its event loop; the hostcall
bridge and both pumps; extension scopes and registrations; child processes, node:fs and node:stream; scheduler, mesh, slabs, queue and policies; repair planning; the Pi thread,
extension calls, the provider's stream, the terminal. Theorems about eighteen of them: `SessionActor`, `SessionStore`, `UiBroker`, `NodeRuntime`, `ChildProcess`, `Scheduler`, `VirtualFiles`,
`ExtensionScopes`, `ExtensionRegistry`, `ExtensionCalls`, `PiRuntime`, `HostcallQueue`, `S3FifoPolicy`, `ContentionPolicy`, `NumaSlabPool`, `RepairPlanning`, `ProviderStream`, `TerminalModes`.

Next:

1. `EventOrderWhileOpen`, with the grammar as a recursive function.
2. A bounded event bus with lagging observers; message ids across restarts.
3. The Pi thread composed with the pump and extension calls, so that a script's settling is no
   hypothesis any more.
