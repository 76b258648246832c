# A verification project for harnessclaw-engine

The engine is a Go server that runs LLM agents for chat clients. A client opens
a WebSocket and sends messages into a session; the main agent ("emma") calls
models, runs tools, dispatches sub-agents and asks the user for permissions and
answers, and everything it does comes back as a stream of cards. Sessions,
their statistics and the questions still open survive a restart in SQLite.

Paths below are under `src/internal/` unless they say otherwise. Contents:
1 the system, 2 the modules, 3 the runs, 4 bounds and fairness, 5 the proofs,
6 where the code and its documents disagree, 7 what is not modelled, 8 the plan.

## 1. The system and its parts

How a message travels: a connection (`channel/websocket/conn.go`) puts it into
the channel's queue; one consumer goroutine (`src/cmd/server/main.go`) routes it to
`emma.ProcessMessage`, which loads the session from the manager and starts a
query goroutine. The query alternates `llmcall.CallLLM`, which reaches a model
through retrier, stats wrapper, manager, failover and adapter, and
`toolexec.ExecuteBatch`. What it does is sent on a bounded Go channel to the
translator, which turns events into cards on the wire. A call that needs the
user waits in the session's `Awaits`; the reply comes in through a connection,
past the translator's live entry and the `pending_waits` table, into the same
queue. A tool may run a sub-agent: a second loop with a channel of its own,
whose events the scheduler's strategy forwards to its parent's. Beside all this
a management API changes models, agents and tools, and a signal stops the
process.

| Part | State | Operations | What is hard | What makes it correct |
|------|-------|------------|--------------|-----------------------|
| Pending answers `engine/session/awaits.go` | maps id -> one-slot channel, one mutex | Push, Resolve (send and close outside the mutex), Forget, AbortAll (close under it) | an answer, a cancellation and AbortAll at once | one owner per channel; an answer that was accepted is read; waits end |
| Query engine `engine/agent/emma` | one cancel function per session, allowed keys, the queries' goroutines | ProcessMessage, AbortSession, Submit*, requestPermissionApproval | the entry is kept by session, not by query; select with two cases ready | consent before a tool runs; stop ends the query; no call outlives its query |
| Persist workers `engine/session/{persist,stats_persist}.go` | dirty slot, timer, flush queue, stop and done channels | MarkDirty, loop, Flush, Stop | one-slot signal, changes during a save, flush and stop timeouts | no lost wake-up; an ack means saved; nothing after Stop |
| The process `src/cmd/server/main.go` | what is open and registered, queries, workers, requests | the start, with every failure that ends or degrades it; the stop under a deadline | registration in four stages beside literals in palettes; fixed sleeps for things still going on | a palette's tools are there; an orderly stop leaves nothing behind |
| Session manager and store `engine/session/manager.go`, `persistence/sqlite`, `metric/sessionstats` | live objects, the row, the metrics | GetOrCreate, AddMessage, CleanupIdle, SaveSession, RestoreFrom | eviction beside queries, crash, two writers of one row | no message overwritten; an evicted session is on disk, as far as the store takes writes |
| Prompt recovery `channel/websocket`, `humanloop`, `engine/agent/emma/resume` | prompts awaited, the table, connections, the queue | issue, reply, forget, resume, sweep, crash | live entry and row are two lookups; several connections; restart between two steps | what was shown can be answered; answered once |
| Connections and the way in `channel/websocket`, `services/api/router` | registry, buffers, readers, the channel of messages | register, session.create, publish, interrupt, Reply, Close | a connection outlives the query and a query the connection; Close beside readers | only one's own session's events; the registry names the living; nobody waits for a client |
| History and compaction `engine/loop/loop.go`, `engine/compact` | the messages, the circuit breaker | append, compact, sanitize, abort | the cut falls inside a batch; failures half-way; two queries | requests pair every call with its result |
| Request and stream `provider/bifrost` | the converted messages; accounts of calls, usage, end | convert, sanitize, mark, consume | chunks in any order; histories that were cut | a request is in the providers' protocol when the history can be brought there; a message that ends is whole |
| Accounts `provider/stats`, `metric/sessionstats` | trackers in three layers | wrap, record, drop | the context ends beside the stream; idle trackers dropped | each call counted once in each layer |
| Failover `provider/failover` with the adapter, the stats wrapper and the first-byte watchdog | health of each provider | Chat, Err, probe | concurrent calls end after others changed the record | served when a provider works; the primary comes back |
| Model configuration `provider/manager`, `services/api/*mgmt`, `config` | live configuration, dispatcher, adapter cache, the file | every change, rebuild, load-edit-save, start | rebuild that fails half-way; requests at once; calls in flight | calls meet living adapters of the configured chain; the file keeps up |
| Model call `engine/loop/llmcall/call.go`, `provider/retry` | attempt, buffers, heartbeat, shared counter | dial, stream, retry, replay | five ways out of an attempt; full channel | a cut stream is no answer; the text shown is the last attempt's; it returns if it is read |
| Sub-agent runs `engine/scheduler`, `loop/runtime` | task table, streams, strategies | start, forward, ask, answer, stop | streams close in another order than runs end; lossy texts beside lossless requests | a result is whole; requests get up; the user's stop gets down |
| Tool batches `engine/loop/toolexec`, `engine/permission` | segments, calls, approvals | check, ask, run, answer, cancel | parallel and serial groups, approvals while others ask, late answers | consent, one at a time where needed, one result per call |
| Prompts and pools `engine/prompt`, `loop/runtime/llm.go` | sections, budget, pool | build for emma, for a sub-agent | the window is nearly full; definitions change | sections have their room; a described tool can be called |
| Plan and task files `workspace`, `tools/{plan,meta,file,submit,promote}*` | plan file, writer, directories | update, write, close, submit, promote, StopAll | idle stop beside a caller; StopAll beside a query; a failure between two files, and of the clean-up after it | an answer tells what happened; all delivered or, but for failed removals, nothing |
| Skills, task list, agent definitions, media | trackers, tables, registries | load, unload, create, update, delete, poll | compaction, restarts, concurrent requests | what was told stays; what is used is what is stored |
| Browser, shell, web, file search | binding, working directory, pages | a call and its result | results out of order, processes left behind, limits | a tool acts on what the results before said |
| Cards `channel/emit/v2`, `channel/websocket/translator.go`, events of `loop`, `toolexec`, `sync_` | cards tracked, stacks of emitters, prompts' holds, tools announced | every event of a query, the sweep | watchdog beside heartbeats and prompts; lost events; retries | watched cards are closed, and others unless an end was lost; alive cards stay open; frames name their parent |

`PROJECT.json` lists every component with its sources and how far it is
modelled; section 7 says what is left out.

## 2. The modules

Each module translates the code in atomic steps: a critical section, a channel
operation, a database statement, a system call or a send is one action; what is
read before an unlock and used after it is state of the goroutine. Goroutines
are functions over a constant set, as `waiter[w]`, `query[q]`, `caller[c]`.

Waiting and running:

- `Awaits`: registry (`entry`), channels (`chan`), waiters, resolvers. The four
  maps are one function, since an id occurs in one of them. Sending on or
  closing a closed channel sets `panicked`.
- `AwaitPromise`: the abstract specification: a request is asked once and
  settled once, by an answer, by giving up, or with all others by AbortAll.
- `EmmaEngine` extends `Awaits`: queries, the cancel entry, the two halves of
  AbortSession, approvals. A call that needs an answer is an awaiter whose
  context is its query's, so the composition is by conjunction of actions.
- `Scheduler`: a tree of runs under the query, each with its bounded stream,
  the strategy that forwards it (`fwd`, `carried`), the task table, requests for
  permission going up stream by stream and answers coming straight down.
- `LLMCall`: one call; `texts` and `uses` count what the attempt has received (a
  piece is the attempt and its number), `todo` is what the call has still to
  send, `chan` the bounded channel, `shown` and `announced` what the reader
  displays, and `After` what one event does to it.
- `ToolBatch`: the state of each call from pre-check to result; `agent` holds
  the settings the permission checkers read, a tool is a record of what the
  executor asks of it.
- `Prompt`: one run as it is set up: pool, window, sections with their minimum
  and maximum, and the budget that is divided between them.

What is kept:

- `PersistWorker`: the loop of both workers; content is a version number, time
  a tick that passes only when the worker has nothing to do at once.
  `WriteBehind` is what it promises: the row is a version memory had and never
  goes back.
- `Server`: the stages of main in order, what each opens or registers, what may
  be broken (`broken`) or switched off (`off`), and the stop, while queries end,
  windows pass and a request saves the file. PersistAll and the sleeps count
  against the deadline.
- `SessionStore`: objects, the row, the tracker and the cleaner, crash and
  reload. The store may refuse any write (`MaxRefusals`), which nobody is told:
  the worker acknowledges the flush and the cleaner goes on. The debounce is left
  to `PersistWorker`: a save begins at some moment.
- `PromptRecovery`: one session's prompts, connections, rows, queue, resumer.
- `ModelConfig`: providers, endpoints and chain in memory and in the file, the
  adapter cache, the dispatcher; a request is its change under the mutex, the
  reading back, and the unlocked load, edit and save. A chain entry keeps its
  textual form (`dot`), since the code compares forms. A server whose file names
  an endpoint that does not resolve does not start (manager `New`, fatal in main).
- `PlanWriter`: callers, the writers a session has had (`loop[i]`, `queue[i]`),
  the plan with statuses, frozen tasks and directories. `StopAll` empties the
  registry at shutdown and waits for the writers one by one, while a query that
  still runs may be given another writer of the same file; from the moment two
  are at work (`raced`) the model only goes on, and claims nothing of the file.
- `TaskFiles`: the files of tasks, meta.json, the deliverables; a write empties
  a file first (write and edit may take meta.json too), a promotion creates,
  fills and closes one file after another and rolls back, and each step of the
  file system may fail, the removals of the rollback included.
- `TaskList`, `Skills`, `AgentDefs`, `MediaJobs`: store and callers; tracker,
  listing and conversation; table and registry; jobs, files and what was told.

What goes in and out:

- `Socket`: readers, buffers, registry, the goroutine that takes the messages,
  Reply and Close; a query is only what it sends and whether it asks.
- `Conversation`: the history as a sequence of shapes (role, ids), on which
  compaction and the sanitizer are modelled exactly.
- `ModelAdapter`: the request the adapter makes of a history, for every
  configuration of the endpoint, by operators on sequences, while the history
  grows by any message the engine stores, a reply without content included; and
  the stream that answers: the
  chunks of the SDK, the adapter's accounts, its channel, the wrapper and the
  caller. `StatsLayers`: trackers of a session, the one above it and the root.
- `Failover`: chain, health, cooldowns in ticks, the dispatcher's loop, and
  what the layers above and below make of a cancellation.
- `Cards`: agents and calls of one query given by constants (`Calls`,
  `Spawns`), the translator's maps, the tracker's, the watchdog. An event is
  translated where it is sent (one FIFO, one consumer that never blocks); that
  a non-blocking send is lost on a full channel is `Lost`.
- `Emitter`: the stacks of open cards that the builder takes parents from,
  across queries of a connection.
- `Browser`: the client's sessions, results in any order, the binding updated
  by segment and by turn. `Shell`: the shared directory, processes and time
  limits. `LookupTools`: answers of servers and the text of a page; patterns,
  exit codes, pages of a file.

`MC*.tla` give the constants values; `*_proofs.tla` hold the proofs. In every
module the operators after the heading "Properties" are what is claimed, and
`PROJECT.json` maps every other definition to its lines of the source.

Components that hand each other results but share no state are checked by one
MC module, each by an INSTANCE with its constants: the variable `part` says which
of them a behaviour is of, and the others stay as they start. Properties of a
run are then conjunctions of the components' own; fairness that a component at
rest could not meet is conditional on `part`. Components that do share state
are composed inside a module (`EmmaEngine` with `Awaits`; the agents, the
translator and the watchdog in `Cards`; connections, router and queries in
`Socket`).

## 3. The runs

| Run | Module | What it shows |
|-----|--------|---------------|
| awaits | MCAwaits: `Awaits`, `Scheduler` | A client tool and a permission, two answers, cancellation and AbortAll in every order: each channel has one owner, accepted answers are read, the registry implements `AwaitPromise`. A worker that runs a helper in the foreground or background: the table tells what became of the runs, a caller gets the whole result, a request for permission is never lost on its way up. Waits that are released end, and after the user's stop every foreground call returns. |
| emma_engine | MCEmmaEngine: `EmmaEngine` | Two queries, one after the other, a client tool and two permission calls with one key: tools run only with consent, calls are joined before their query leaves, stop ends the query it found, and the engine uses the registry only as `Awaits` allows. |
| persist_worker | MCPersistWorker: `PersistWorker`, `Server` | Three changes, a PersistAll and a Stop: no change is lost, an acknowledged flush is on disk, a quiet session is saved within the window, Stop ends and nothing is written after it; implements `WriteBehind`. The process with one thing amiss: every tool of a palette is registered before a query runs, a signal ends the process, and an orderly stop leaves nothing behind. |
| store | MCSessionStore: `SessionStore`, `PromptRecovery`, `Failover` | Evictions, a crash and two refused writes: no save loses messages, an evicted session is on disk as far as the store took the last writes, and so are its metrics. Two prompts, two connections, failing saves, the janitor and a restart: what was shown can be answered, once. Two calls over two providers: no outage is reported while a provider works, and the primary comes back. Messages reach the disk and answers the engine. |
| surroundings | MCSurroundings: `ModelConfig`, `TaskList`, `Skills`, `AgentDefs`, `MediaJobs`, `Browser`, `Shell`, `LookupTools` | Two overlapping requests, a call, and one fault: the dispatcher is the one configured and never holds an adapter that was shut down; without overlaps or faults the file reproduces the live configuration. What tools keep and reach: answered updates stay, also over restarts; files the client was told of are there; the registry is the table; tracker and conversation agree on skills; browser commands go where the results before say; the shell's directory is kept; pages, patterns and ranges give what is meant. |
| turn | MCTurn: `LLMCall`, `Conversation`, `ModelAdapter`, `StatsLayers` | A call with one retry returns unless its reader leaves it before a full channel, and what the reader shows is the answer (about a million states, most of them of these interleavings). Requests pair calls and results whatever was aborted or compacted. Of any history the adapter makes a request without the failures it sanitizes (`WireAccepted` lists them), and one in the providers' whole protocol if only orphaned results were wrong. A message that ends is whole, with its usage, and each call is counted once in every layer. |
| cards | MCCards: `Cards`, `Emitter` | A query with an agent, a concurrent call, a failed model call, a prompt, one lost event and an interrupt at any time: heartbeats and the prompt keep what is alive open, every watched card is closed, and a lost event leaves at most one card open or addressed before it was added. Every frame names the card it was added under, whoever else opened or closed cards since. |
| socket | MCSocket: `Socket` | Two connections, two sessions, clients that stop reading, leave and come back, an interrupt, a shutdown at any moment: a client is shown its own session only, the registry names living readers of that session, answers get through, no query waits for a client, Close reaches everybody. |
| workspace | MCWorkspace: `PlanWriter`, `TaskFiles` | Two callers, two writers and a shutdown: until two writers are at one file, what a caller is told is what happened, and the file changes by whole operations of callers that wait for them. A sub-agent writing beside two promotions and two failures: all is delivered, as it was reviewed, or nothing but what could not be removed, and what was delivered stays. |
| tools | MCToolBatch: `ToolBatch`, `Prompt` | Every kind of tool, mode and agent, answers and cancellation at any time: tools run alone unless safe in parallel and with consent, each call has its result, and a cancelled batch ends. A prompt's sections have their room and describe only tools the run can call. |
| scheduler_background | MCAwaits, MCAwaitsRuns.cfg | Violation: a helper in the background sends its next event to the stream of the run that started it, which has ended and closed it, and the process panics. |

Each property of a passing run has a mutant in `PROJECT.json`: a plausible bug
in one mapped definition under which TLC finds the property violated.
`CHECK_DEADLOCK FALSE` stands only where the modelled system may stop: all
queries done, the worker gone, the process exited, or nothing left to deliver.

What a run takes for granted is a Boolean constant of its module: `Overlap` (does
the client send while a turn is open), `LongWaits` (does a query wait longer than
idle_timeout), `LoadFails` (of the row, or of the metrics in it), `StoreFails`,
`SaveFails`, `AnswersOverlap`, `Notes`, `Contract`. Section 6 says what happens
when one is changed. What a property leaves out instead says its own text, by a
premise (`ConfigIsKept`) or a ghost (`raced` of `PlanWriter` and `AgentDefs`).

## 4. Bounds and fairness

Bounds are constants, most named `Max...`; actions guard on them, so nothing is
cut off by a state constraint.

- Actors: two is the least number with a race and is used where a race is
  pairwise (resolvers, calls, connections, requests, callers, promotions,
  queries that follow each other); `SessionStore` has three queries, one for
  each of: before an eviction, during it, after the reload. Objects are one more
  than crashes.
- `MaxRefusals = 2`: both flushes of one eviction, or one write in a row with
  another. `MaxFailures = 2` of `TaskFiles`: a copy and the removal after it.
- `MaxCrashes = 1`: what a crash leaves is the row or the table; a second crash
  starts from a state the first can leave already.
- Buffers have size one (`Socket`, `PlanWriter`, `Scheduler`, the recovery's
  queue) or two (`LLMCall`, `ModelAdapter`), so each is met full, and in the
  second case also half full.
- `PersistWorker`: `MaxVersion = 3`, one change saved, one being saved, one not
  seen by the save; `MaxAge = 4` is beyond the window of 2 plus the tick of a
  save. `Server`: two queries, so that one ends before and one after PersistAll
  lists the workers; one thing amiss at a start; the deadline (3)
  is beyond the grace (2) and the window (1), as the code's are.
- `Scheduler`: a chain of two runs: the middle one is both started and starting,
  so every relation of a tree of runs occurs; one text each.
- `Conversation`: `MaxLength = 11` messages with two calls per reply: beyond the
  cut of both kinds of compaction, which keep half, with a batch on either side.
- `ModelAdapter`: histories of three messages over two ids hold a reply, its
  results and what may stand between or be missing; each may carry images
  that are marked, so the limit of four breakpoints is passed. Four chunks over
  two calls, so that pieces interleave and the finish reason and the usage come
  in either order. `StatsLayers`: three levels, as many as the code has.
- `Failover`: `Cap` is reached by the second trip, so further trips repeat.
- `ModelConfig`: two changes and one fault; three endpoints of two providers, one
  named in the older form in half of the starts.
- `Cards`: limits in units of several heartbeats, in the order of the code's
  (tool and message below agent and turn); a retry, a prompt, a lost event and
  an interrupt once each, together.
- `ToolBatch`: batches of two or three calls that put every kind of tool beside
  one it must wait for; `Prompt`: windows and conversations on either side of
  each threshold of the budget.
- `TaskFiles`: three writes, one more than a write and its correction.
- Symmetry is used in MCSurroundings and MCWorkspace only, where no liveness is
  checked; requests, callers, texts and promotions are interchangeable there.
  MCSessionStore checks liveness and takes messages, queries, objects, prompts
  and connections, which are interchangeable as well, in one order instead
  (`InOrder`, `PromptsInOrder`).

Fairness: goroutines that can run do (weak fairness per goroutine; in
`EmmaEngine` of all that is due together, which is weaker and cheaper to check),
a select with a ready case takes one, timers fire. Nothing is assumed of users,
clients, providers, the operator or the database's outcome. In detail:

- `Scheduler`: each run and its forwarder go on, the root's reader reads (the
  translator never blocks) and the root query ends once it may.
- `Server`: main's stop goes on, time passes, a window that is over is used and a
  write to a local file ends; nothing of queries, requests or the operator.
- `Socket`: readers, the consumer, Reply and Close go on; clients need not read,
  answer or leave.
- `ToolBatch`: the run, its tools and the reader of its events go on; the user
  and the client need not.
- `SessionStore` and `PromptRecovery`: the workers, a cleanup that has begun,
  the readers that serve a frame, and the consumer.
- `Failover` assumes that calls keep coming and that `Connected` is strongly
  fair: a provider that is up answers some dial, or "works again" would mean
  nothing. `LLMCall` assumes strong fairness of a blocked send, since Go keeps
  blocked senders in a queue and heartbeats cannot overtake them for ever, and
  nothing of its reader: a sub-agent's leaves with its context (sync.go:65). A
  reader that goes on makes the call return, since the channel it reads does not
  stay full. `EmmaEngine` lets a model call end once its context is cancelled
  (`LLMCall` shows that calls return, and the translator reads emma's) and never
  otherwise.

## 5. The proofs

TLAPS proves the following for all values of the constants that satisfy the
modules' named assumptions; the runs evaluate these assumptions. Each inductive
invariant was first checked by TLC. A theorem about a module that an MC module
instantiates beside others is about that module's own `Spec`.

- `EmmaEngine_proofs`, first part: the registry. The invariant `Ownership` is inductive as it stands: the
  registry, the resolvers and nobody else own channels, disjointly, and only an
  owner sends or closes. A weaker statement, that no send panics, is not
  inductive, because nothing in it says that a resolver between unlock and send
  is the last holder. From it: no panic (`ChannelsNeverPanic`), a finished wait is
  forgotten, accepted answers are kept, and, with distinct ids, refinement of
  `AwaitPromise` (`Refinement`): init maps to init and each action to a step or
  a stutter. The distinctness of ids is an assumption of this theorem only; the
  invariants hold with shared ids as well.
- `EmmaEngine_proofs`, second part. The engine is an `Awaits` (`EngineIsAwaits`), so that
  everything above holds in it without a second proof. `EngineInvariant` is
  types, the agreement of queries, batches, abort and waiters, and
  `EntryIsLive`; `NoCallIsLeftBehind` needs it, since only it ties a waiter to
  a turn that waits for it. `ConsentIsNeeded`: a call runs only if the user
  answered or its key was approved for the session; approvals only grow.
- `PersistWorker_proofs`. `WorkerInvariant` is types, the order of the versions,
  and that the save under way covers what the flush it serves has asked for. It
  is not inductive alone: a request could be served before it was made, or the
  worker run after Stop. `IInv` adds that only who has asked is queued or served
  (`ServedHaveAsked`) and that a joined Stop means an exited loop
  (`StoppedMeansExited`). From it `AcksAreSaved`, `NoWakeupIsLost` (with the lemma
  `SaveKeepsSignal`; both for a store that works), `StopIsFinal` and the
  refinement of `WriteBehind`.
- `Socket_proofs`, for any number of connections, sessions, users and messages
  and any size of the buffers. A connection is shown only frames of its session
  because whoever writes into its buffer knows the session: the reader by what
  it opened, Reply by what its query is of. `SInv` therefore adds to the types
  and the two invariants that a reader that publishes holds a message
  (`PublishesSomething`), that a query and its Reply know their session
  (`QueriesHaveSessions`), and that Reply writes to a connection of that session,
  also when it has gone (`RepliesToItsSession`). From it `SocketTypes` with the
  bound of the buffers, `OnlyItsSessionIsShown`, and `TheRegistryIsAlive`, also
  across a shutdown.
- `SessionStore_proofs`, for any number of objects, queries, messages and
  crashes. `OneWorkerWrites`: one worker per bound session, with what ties a
  running query to its object (`RunningQueriesHold`) and the object in memory to
  its row, tracker and worker (`ActiveIsBound`). `RowOnlyGrows`: no save loses
  messages, since row, copy being written and live history form a chain
  (`CopiesGrow`); its hypothesis `LoadFails = FALSE` is what section 6 shows to
  be needed. `EvictionIsSafe` and `QueriesStayActive`: what an evicted session had
  is on disk, except for what the store refused in the last write of it
  (`refused`), and nobody holds the session. Between the cleaner's steps the invariant is
  `CleanupOwns`: nobody works on the session, and from its first flush on the
  history is in the row or in the copy on its way there, or was refused. Both
  need `LongWaits = FALSE` (no query outlasts idle_timeout), and the first, for
  the metrics, `LoadFails = FALSE`; that the store takes every write is not
  assumed.
- `ToolBatch_proofs`, for any tools, agents, batches and capacity of the channel.
  `ToolsRunWhenAllowed`: a tool runs only if the agent's pool has it, with
  consent where the rules ask for it, alone unless it is safe in parallel, and
  at the end every call has its result. That nothing runs beside a serial call
  is not inductive: `SegmentsInOrder` and `SerialIsLast` say that a serial call
  starts when what precedes it is done, `StagesFit` what is known of a call at
  each stage, among it that only an "ask" waits for the user.
- `PlanWriter_proofs`, for any tasks, callers, operations, writers, queues and
  faults, StopAll included. `OnlyTheShutdownRaces`: before a shutdown no two
  writers are at the file. As long as none are (`~raced`), the invariant
  `WriterInv` says that only one writer saves, the registry's or the one StopAll
  waits for (`OneWriter`), that its draft is made of the file as it still is
  (`DraftIsFresh`), that a change is in one hand at a time (`OnceInHand`) and a
  caller waits exactly as long as it is there (`WaitersArePending`); the first
  two are what makes writers that overlap while one winds down harmless. From it
  `CallersAreToldTheTruth`: a caller told "ok" has its change in the file once, one
  told of a failure has it not, and the file is a valid plan; and
  `NoChangeIsLost`: the file changes by one whole operation of a caller that
  waits for it. Section 6 has what a race at shutdown does. `PlansAssumption`,
  that a plan found at the start is valid, is what `LoadPlan` checks before a
  writer is made.
- `LLMCall_proofs`, for any number of retries, capacity and length of streams.
  `SuccessIsWhole`: what section 3 says of a call that succeeds, in every
  interleaving with heartbeat, reader, limits and the other callers of the
  retrier. What the reader will show depends on a queue, so the invariant speaks
  of its future: `Leaves(q, s, t)` says that who shows `s` and reads the events
  of `q` shows `t`, witnessed by the texts in between, and `TextArrives` that
  channel and then `todo` leave the text of the moment (`Target`): the first
  attempt's while it streams, nothing after a reset, in the end the text of the
  attempt that succeeded. `LeavesTail`, `LeavesAppend` and `LeavesConcat` are the
  lemmas for read, send and replay; `ToolCallsArrive` is the same for the tool
  calls announced; `StepsAreJoined` and `EndsAreJudged` say that nothing of an
  attempt runs or waits to be sent when it is judged.
- `ModelConfig_proofs`, for any number of providers, endpoints, overlapping
  requests, changes and faults. `AdaptersStayLive`: new calls are never given an
  adapter that a rebuild has shut down, whichever rebuild fails and however often
  the server starts anew. It is not inductive alone, since the next rebuild may
  dispatch whatever the cache holds: `AdaptersInv` says that what is cached is as
  alive as what is dispatched, and that no id is used twice (all are at most
  `built`; `FreshIds` and `RebuiltIds` give new ones above it). That what is
  dispatched is as configured (`ServedAsConfigured`) is only model-checked: the
  effective chain drops duplicates by counting what precedes an entry, which needs
  induction over the chain.

Model-checked only: the other modules, and every liveness property. Out of the
prover's reach: liveness under fairness and ENABLED; induction over data, so what
the folds and selections of the compactor, the adapter, the prompt's budget or
the effective chain compute for every input; modules with RECURSIVE operators
(there are none here). Holds only as bounded: `HeldWhileAsked` of `Cards`
with one prompt at a time (section 6), so no theorem states it.

## 6. Where the code and its documents disagree

One run checks a statement of the repository that TLC refutes
(scheduler_background). The others met while modelling are kept as properties of
their modules without a run. To reproduce one, change the named constants (in
the module's config, or in the `INSTANCE ... WITH` of its MC module), give the
component's specification as SPECIFICATION, and name the property alone.

| Module, property | Constants changed | The code, and what it is measured by |
|---|---|---|
| EmmaEngine `AbortedPermissionIsDenied` | none | approval.go:72 dereferences a response that AbortAll closed; the call ends in the executor's recovery. common/permission.go:98: "treat as denial". |
| EmmaEngine `NoActiveQueryIsTrue` | none | agent/emma/core.go:437 deletes the session's entry after the done event, whoever's it is by then: a query started on that event cannot be stopped. engine.go:43: "AbortSession cancels any in-flight processing for a session." |
| PersistWorker `AccumulatesAtMostDebounce` | none | persist.go:150 restarts the timer at each signal, so a steady stream of changes is not saved. persist.go:11: "the maximum time we accumulate session changes". |
| PersistWorker `AckMeansSaved` | StoreFails = TRUE | persist.go:168 swallows the store's error and acknowledges the flush. persist.go:78: "to guarantee on-disk state is current". |
| SessionStore `MetricsSurvive` | none | sqlite.go:142 is INSERT OR REPLACE without metrics_json, and resets it. CHANGELOG.md:261: "survives service restart". |
| SessionStore `SavesLoseNothing` | LoadFails = TRUE | manager.go:90 ignores a failed read and saves an empty session over the row. CHANGELOG.md:450: "Session persistence across server restarts". |
| SessionStore `EvictedIsOnDisk` | none (MaxRefusals >= 2) | persist.go:168 swallows the refusal and acknowledges the flush, and manager.go evicts the session: it is neither in memory nor in the row. persist.go:78, as before. |
| SessionStore `MetricsGoOn` | LoadFails = TRUE | manager.go:188 begins with an empty tracker when the metrics cannot be read, and the next save replaces them. CHANGELOG.md:261, as before. |
| SessionStore `HeldSessionsStayActive` | LongWaits = TRUE | manager.go:273 evicts a session whose query waits for the user longer than idle_timeout; its later messages are not saved. docs/protocols/websocket.md:126: prompts live 15 days. |
| PromptRecovery `AnsweredOnce` | AnswersOverlap = TRUE, SaveFails = FALSE | conn.go:585: a second connection misses the live entry, finds the row and resumes with the same answer. docs/protocols/websocket.md:1165: a repeated answer resumes only once. |
| PromptRecovery `AcceptedIsRecoverable` | SaveFails = FALSE | conn.go:502 deletes the wait when the answer is queued. humanloop/prompter.go:110: "once an answer has been fully processed by the engine". |
| PromptRecovery `WaitingCallsAreSeen` | SaveFails = FALSE | channel.go:190 binds a query to one connection; others are shown nothing. README.md:45: "multi-connection fan-out". |
| Socket `ClosesGracefully` | none | channel.go closes the channel of messages after Close has swapped the registry; a reader between its frame and its send then panics. channel.go:166: "graceful shutdown". |
| Conversation `RequestsPair` | Notes = TRUE, Contract = FALSE | A message that load_skill adds between two results is sent as it stands, and the second result no longer follows its call. adapter.go:1119, as below. |
| Conversation `NothingIsDropped` | Notes = TRUE, Contract = FALSE, MaxTurns = 3, MaxLength = 14 | compactor.go:214 stops at the message load_skill added and keeps results whose call is gone. compactor.go:211: "so we sanitize here". |
| Conversation `OneResultPerCall` | none | common/hooks.go:189 adds a result for a call that has one. adapter.go:1119: "a tool_use_id that never appeared". |
| Conversation `RequestHasQuestion` | Contract = FALSE, MaxCalls = 4, MaxTurns = 3, MaxLength = 14 | compactor.go:201: with a large batch at the end only the first message is left. compactor.go:194: "keeps only the first message and the most recent half". |
| Conversation `RequestsPair` | Overlap = TRUE, Contract = FALSE, MaxCalls = 1, MaxLength = 10 | loop.go:195: two queries append to one history. README.md:45: "Thread-safe session state". |
| Conversation `CompactionLosesNothing` | as before | loop.go:75 writes back a history read before a model call. README.md:45, as before. |
| ModelAdapter `OffSendsNoReasoning` | none | adapter.go:710 turns the field on for an endpoint that needs it and with it the old reasoning. adapter.go:713: "only emits "" content, not the actual reasoning history". |
| ModelAdapter `ResultsFollowCalls` | none | adapter.go:1152 compares sets of ids and leaves the last reply alone: one whose calls nothing answered, before a prompt, is sent so. adapter.go:1134: "must be the immediate response to an assistant message". |
| ModelAdapter `NothingEmptyIsSent` | none | A reply without content is stored and sent (its message has a role only). loop.go:139 says so: it "cannot be sent back to Anthropic". |
| ModelAdapter `EndMeansFinished` | none | A stream that closes before its finish reason is ended as a complete message; a tool call may be cut in its arguments. |
| ModelAdapter `AdapterReturns` | none | stats/stream_wrapper.go leaves when the context is done; the adapter's goroutine then blocks on a full channel for good. |
| Failover `OnlyFaultsTrip` | MaxChanges = 0 | adapter.go:502 drops the cause, so a dial the user cancelled trips the whole chain. classifier.go:29: "Caller-initiated cancellation never crosses providers". |
| Failover `OnlyServiceRecovers` | MaxAborts = 0 | stats/stream_wrapper.go:53 closes early, Err reads nil, and a provider that sent no byte is taken back. failover/stream.go:10: "after the events channel has drained". |
| ModelConfig `DeletedLeavesChain` | none | manager.go:859 compares chain entries as text: one in the form "provider.endpoint" stays, and the rebuild and all later ones fail. manager.go:844: "auto-removed from the chain". |
| ModelConfig `InFlightKeepsAdapter` | none | A rebuild shuts down adapters that calls still stream from. manager.go:5: "in-flight requests continue against the snapshot they were dispatched with". |
| ModelConfig `CacheMatchesConfig` | none | A change whose rebuild fails has dropped or replaced adapters of the cache before the failure. |
| ModelConfig `FileMirrorsMemory` | none | providersmgmt/handler.go:582: two requests load, edit and save the file at once, and the later save undoes the earlier. |
| PlanWriter `EnqueuedWillExecute` | none | plan_writer.go:266: a change may enter the queue after the writer has drained it for the last time. plan_writer.go:246: "Contract: once a mutation is enqueued it WILL execute." |
| PlanWriter `NeverRaced` | none | plan_writer.go:96 (StopAll, main.go:899) replaces the registry while queries still run: one is given a second writer of the plan.json, and of its .tmp, beside the one StopAll waits for. plan_writer.go:20: "within a single session every Apply goes through a single consumer goroutine so the on-disk plan.json is never raced". |
| PlanWriter `TasksHaveDirectories`, `FrozenKeepsFiles` | none | plantool/plan_update.go empties or makes the directory outside the writer's change, before or after it. Its description (line 317): "原子捆绑 mkdir task 目录", and "frozen task 拒绝". |
| TaskFiles `FailedLeavesNothing` | none | promote.go:198, 280 and 283 ignore a removal that fails, and files of a failed promotion stay. promote.go:193: "全成功 or 全不动". |
| TaskFiles `AcceptedIsWhole` | none | submit accepts a structured result without a meta.json, and write or edit may overwrite an accepted one. metatool/meta_write.go:2: "Writes {taskDir}/meta.json exactly once". |
| TaskFiles `MetaCanBeFinished` | none | meta_write.go:131 refuses whenever meta.json exists, also when its write had failed half-way: the tool meant for it can never finish it (write could). "meta_write is single-shot". |
| AgentDefs `BuiltinsStay` | none | A row that replaced a definition of the code takes it out of the registry when it is deleted. IsBuiltin: "a system built-in that cannot be deleted". |
| Skills `UnloadedIsIgnored` | none | When the compactor has dropped the note of unloading, the body in the system prompt is the last word on the skill. skills/tracker: "unloaded (still in messages history, but L3 instructed to ignore)". |
| Browser `FinalCanBeAccepted` | none | The run's loop is configured without a contract while the final result is checked against a contract's schema: it is always refused. The agent's prompt asks for a final result. |
| Shell `CwdIsKept` | none | One instance keeps one directory for all conversations. bash/prompt.go:7: "工作目录在多次调用之间保持". |
| Shell `NotRunIsTold`, `TimeoutCaps` | none | A command whose directory went away between the check and the start reports exit 0; a child in a process group of its own that holds the output keeps the call past its limit. The description gives the limit as one on the call. |
| LookupTools `CodeDecides` | none | websearch.go:337: "v2 success criterion: err_code == "0""; an answer without the code passes. |
| LookupTools `FindsAllThatIsMeant`, `GrepNotRunIsTold` | none | glob.go matches "src/**/*.ts" against one level only, while line 215 gives it as an example; when rg is missing the answer looks like a search that found nothing. |
| Prompt `DescribedIsAlwaysCallable` | none | With an empty pool the prompt falls back to the tools of the registry. llm.go:165: what is seen and cannot be called leads the model to max_turns. |
| Prompt `NoOtherIsEmma` | none | A definition without a display name gets no identity of its own. llm.go:137 wants emma's out of every sub-agent. |
| Prompt `NamedDirectoryIsTheTasks` | none | llm.go:145 names the directory of the sub-agent's own session. llm.go:143: "sub-agent 自己的 task_dir". |
| Prompt `DateLast` | none | Sections of the same place follow the date. prompt/profile.go:46: "放最后是为了 prompt cache 命中". |
| Emitter `TurnIsRoot` | FrameQueries = 2 | A turn begun while a card of the last one is still on the stack hangs under it. docs/protocols/websocket.md:261: the parent of a turn is the root. |
| Cards `AncestorsHeldWhileAsked` | all bounds 0, `MaxPrompts = 1`; Main runs s, which asks | A sub-agent's own card times out while the user reads its prompt. docs/protocols/websocket.md:468: all ancestors pause during a prompt. |
| Cards `HeldWhileAsked` | Main runs a and b at once through s, each with one tool; all limits 2; MaxPrompts = 2, MaxRetries, MaxDrops, MaxAborts = 0 | lifecycle.go:247 does not count holds: the first answer lets go of the turn while the second prompt is open. docs/protocols/websocket.md:468, as before. |
| Cards `AllAreClosed` | MaxAborts = 1, the rest 0, Concurrent = {} | translator.go:447: cards of queued calls have no limit, and a skipped call has no end. lifecycle.go:13: "every *.add is matched by a *.close". |
| Cards `NothingStray` | Main only dispatches s (call d), which uses u; MaxDrops = 1 | llmcall/call.go:408 may lose ToolQueued after ToolPlanning was noted, and ToolStart then sets a card that was never added. translator.go:487: "ToolQueued 已开卡". |
| Cards `AddedOnce` | MaxRetries = 1, the rest 0, Concurrent = {} | translator.go:459: one agent's retract forgets the queued calls of all, and a card is added again. translator.go:493: a started call is not to be retracted. |
| Cards `AwaitedSurvive` | s runs an agent a of its own, all bounds 0 | translator.go:444 hangs every queued card under emma, so an inner agent's heartbeats miss the one that waits for it. translator.go:1277: "any heartbeat anywhere in that subtree refreshes the tool card". |
| Cards `FinishedIsNotFailed` | Main only dispatches s, all bounds 0 | main_hook.go:101: only emma ends her messages; a sub-agent's are closed by the watchdog as failed. pkg/types/event.go:52. |
| Cards `TurnSurvivesModelCalls` | Main only dispatches s, MaxRetries = 1, the rest 0 | translator.go:953 closes the card the later attempts' heartbeats are reported on. pkg/types/event.go:56: "Keeps the lifecycle watchdog from synthesising a failed close". |
| LLMCall `ShowsFinalText` | none | call.go:280 may lose TextReset, and the final text is appended to the failed attempt's. call.go:362: "the FINAL successful attempt's content". |
| LLMCall `Returns` | none | call.go:379, 382, 615 and 629 send without a way out, and the reader of a sub-agent leaves with its context (sync.go:65). scheduler/runtime/runtime.go:16: "ctx 取消 → 实现必须在合理时间 close channel". |
| LLMCall `OwnOverloads` | none | retry.go:159: all agents share the count, without a lock or a reset. retry.go:31: "the number of consecutive 529 errors". |

(In the table the bounds of `Cards` are `MaxMessages = 2`, or 3 with a retry.)

Also seen while reading, without a property:

- Stops and failures. A run that was abandoned blocks on its full stream, while
  the contract of a runtime (runtime/runtime.go:16) wants the channel closed in reasonable
  time. Browser and freelance agents report the user's stop as a failed
  dependency. Cancellation and a provider's failure arrive as one error
  (adapter.go:502), and a stream that was plainly cancelled counts as a good,
  shorter answer (`OkMeansWhole` excepts it). A background row reads "completed"
  when the run's terminal is an error.
- The process. A port in use never reaches `channelErrCh` (main.go:836); "Wait for
  in-flight queries" (main.go:879) is a sleep of two seconds; `StopAll` (plan_writer.go:96) ignores
  its context, which main.go:897 relies on; the provider manager's Shutdown has no caller; the
  consumer may start queued queries after Close.
- The wire. The router's rate limit is only logged, while main.go:732 says the
  router has emitted an error event; publish blocks on a full channel although
  its comment (channel.go:251) says it returns an error; an interrupt overtakes the message before
  it (conn.go:284); a message with text and content loses the text; a writer that
  fails leaves its connection registered; a synthetic close may follow the real
  one (lifecycle.go:317).
- Permissions. The step that reports checks is never reached, a tool's own
  "allow" passes over deny rules, an inherited permission compares tool names with
  approval keys, and "cd /tmp && make test" is identified as "cd".
- Plans and files. `EnsureSession` has no caller, so plan_update fails where
  plan.json is missing; submit promises to validate output paths; ids of deleted
  tasks are used again after a restart, and after one whose reading of the ids
  failed (sqlite_store.go:68) creations fail until the count has passed the ids
  that are taken; an update of a deleted row is answered as
  done; reading past the end of a file says that the file is empty.
- Models and agents. `FallbackModel` is never passed on; environment overrides of
  the configuration never match (config.go:872); a converted message carries its
  first tool result only; the converted schema drops `required` when it is decoded
  JSON; a definition that was deleted for good comes back with the next import; a
  media task is queried at the provider configured now.
- Without callers: `StartSubAgent` and `FinishSubAgent`, SearchGapDetector, the
  contract enforcer's hooks, `Allocate`, `Overrides.Timeout`.

## 7. What is not modelled

- Mentions, commands, the HTTP requests that only read (sessions, models,
  responses), the channel interface, the provider registry and its test provider,
  the storage interface, shared types and constants: pure functions, tables or
  declarations without behaviour of their own.
- Data: the wording of texts and payloads, the conversion of attachments, the
  media providers' adapters, the bodies of files and messages. What a tool does
  outside the process is an arbitrary result.
- Time is counted in ticks; kept are the order of events and on which side of a
  limit they fall. In `Cards` a tool ends before the limit of its card unless the
  user is asked. Tokens are not counted: compaction may be asked for at any time.
- The Go scheduler and memory model: access under a mutex is atomic, and the
  retrier's counter, which is read and written without one, may hold anything. A
  SQLite statement is atomic and durable, and one that fails changes nothing.
- The parts that are only partly modelled say in `PROJECT.json` what they leave
  out.

## 8. What is left

- Proofs: `ModelConfig` (`ServedAsConfigured`, for which the operators on the
  chain have to be stated without counting), `PromptRecovery`, `Failover`, `Scheduler`, then `TaskFiles`, `Cards` and
  `Conversation`, whose invariants are about the shape of a history.
- Compositions: `Conversation` with `ToolBatch`, so that histories come from the
  batches themselves; `Scheduler` with `EmmaEngine`.
- Mentions, and the fallback of the adapter to a call without streaming.
