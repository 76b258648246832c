------------------------------- MODULE Server -------------------------------
(***************************************************************************)
(* The process (cmd/server/main.go): what it opens and registers from its  *)
(* start to "service is ready", and how it stops, while queries, requests  *)
(* of the management API and the persist workers go on.                    *)
(*                                                                         *)
(* A query is of a session of its own.  Its messages, and its counters,    *)
(* are on disk or wait for their worker's window (PersistWorker); time is  *)
(* counted in ticks, as there.  What a message goes through on its way to  *)
(* the engine is Socket's, and the writing of a plan PlanWriter's.         *)
(***************************************************************************)
EXTENDS Integers, Sequences, FiniteSets

CONSTANTS
  Queries,
  Faults,    \* what may be broken when the process starts
  Switches,  \* what the configuration may switch off
  MaxAmiss,  \* bound: faults and switches of one start
  Window,    \* the workers' debounce, in ticks
  Grace,     \* the two seconds given to queries
  Deadline,  \* gracefulShutdownTimeout: longer than Grace and Window
  Off        \* no timer

VARIABLES
  broken, off,  \* of this start
  stage,        \* where main is
  code,         \* how the process exited
  opened,       \* what main opened and deferred the close of, in order
  registered,   \* names in the tool registry
  signals,      \* SIGINT and SIGTERM so far
  clock,        \* ticks since shutdownCtx was made
  grace,        \* ticks of grace left
  query,        \* where the query is
  msg, stat,    \* ticks until its messages, its counters are saved, or Off
  toPersist,    \* sessions PersistAll has yet to flush
  request,      \* a change through the management API: made in memory, not in the file
  plan,         \* a mutation of a plan.json
  before,       \* queries that had ended at the first signal
  settled       \* queries that had ended when PersistAll listed the workers

start  == <<broken, off>>
bootVars == <<opened, registered>>
times  == <<clock, grace>>
work   == <<query, msg, stat, plan>>
ghosts == <<before, settled>>
beside == <<start, stage, code, bootVars, signals, times, toPersist, request, ghosts>>
vars == <<start, stage, code, bootVars, signals, times, work, toPersist, request, ghosts>>

Booting == {"config", "logger", "storage", "tools", "models", "engine", "stores", "agents",
            "router", "channels"}
Stopping == {"close", "console", "grace", "persist", "plans", "defers"}

TypeOK ==
  /\ broken \subseteq Faults /\ off \subseteq Switches
  /\ stage \in Booting \cup Stopping \cup {"ready", "exited"}
  /\ code \in {"none", "ok", "failed"}
  /\ code = "none" <=> stage # "exited"
  /\ signals \in 0 .. 2
  /\ clock \in 0 .. Deadline /\ grace \in 0 .. Grace
  /\ query \in [Queries -> {"none", "queued", "running", "ended"}]
  /\ msg \in [Queries -> 0 .. Window \cup {Off}] /\ stat \in [Queries -> 0 .. Window \cup {Off}]
  /\ toPersist \subseteq Queries
  /\ request \in {"none", "changed"}
  /\ plan \in {"idle", "writing", "late"}

Init ==
  /\ \E amiss \in SUBSET (Faults \cup Switches) :
       /\ Cardinality(amiss) <= MaxAmiss
       /\ broken = amiss \cap Faults /\ off = amiss \cap Switches
  /\ stage = "config" /\ code = "none"
  /\ opened = <<>> /\ registered = {}
  /\ signals = 0
  /\ clock = 0 /\ grace = Grace
  /\ query = [q \in Queries |-> "none"]
  /\ msg = [q \in Queries |-> Off] /\ stat = [q \in Queries |-> Off]
  /\ toPersist = {} /\ request = "none" /\ plan = "idle"
  /\ before = {} /\ settled = {}

-----------------------------------------------------------------------------
(* The start.  os.Exit and logger.Fatal run no deferred call.              *)

\* One step of the start that ends the process when one of faults has happened.
Boot(from, faults, to) ==
  /\ stage = from
  /\ IF broken \cap faults # {}
     THEN stage' = "exited" /\ code' = "failed"
     ELSE stage' = to /\ UNCHANGED code
  /\ UNCHANGED <<start, signals, times, work, toPersist, request, ghosts>>

\* Load and Validate.  A configuration that was looked for and not found is no fault, one
\* that was named on the command line is; a value that Validate refuses is.
LoadConfig == Boot("config", {"unreadable", "invalid"}, "logger") /\ UNCHANGED bootVars

\* An unknown level is no fault, a directory that cannot be made is.
InitLogger ==
  /\ Boot("logger", {"log"}, "storage")
  /\ opened' = <<"log">>
  /\ UNCHANGED registered

\* The session store: its directory, its connection, its table, its added column.
OpenStorage ==
  /\ Boot("storage", {"storage"}, "tools")
  /\ opened' = Append(opened, "storage")
  /\ UNCHANGED registered

HasHome == "home" \notin broken
On(switch, names) == IF switch \in off THEN {} ELSE names

BrowserTools == {"browser_session_create", "browser_session_state", "browser_session_close",
                 "browser_ask_human", "agent_browser_command", "browser_skill_reference",
                 "browser_agent_final_result"}

\* The tools that need nothing of the engine.  The two searches are always registered, and
\* enabled later through the management API; the files of a task need the home directory.
RegisterTools ==
  /\ Boot("tools", {}, "models")
  /\ registered' =
       UNION {On("bash", {"bash"}), On("files", {"read", "edit", "write", "grep", "glob"}),
              On("web_fetch", {"web_fetch"}), On("browser", BrowserTools),
              {"web_search", "tavily_search", "ask_user_question", "submit_task_result"},
              {"skill", "search_skill", "load_skill", "unload_skill", "list_loaded_skills"},
              IF HasHome THEN {"plan_update", "plan_read", "meta_write", "promote"} ELSE {}}
  /\ UNCHANGED opened

\* The model chain is built (ModelConfig), then the tools that use its providers' keys.
InitModels ==
  /\ Boot("models", {"manifest"}, "engine")
  /\ registered' = registered \cup
       (IF HasHome THEN {"image_generate", "video_create", "video_query"} ELSE {})
  /\ UNCHANGED opened

\* The session manager, its clean-up and the engine, then the tools that dispatch to it.
NewEngine ==
  /\ Boot("engine", {}, "stores")
  /\ registered' = registered \cup {"freelance", "dispatch"} \cup On("browser", {"browser_agent"})
  /\ UNCHANGED opened

\* The task store falls back to memory, the definitions' does not.
OpenStores ==
  /\ Boot("stores", {"agents"}, "agents")
  /\ opened' = opened \o (IF "tasks" \in broken THEN <<>> ELSE <<"tasks">>) \o <<"agents">>
  /\ UNCHANGED registered

\* The definitions of the agents (AgentDefs), then the tools over the task store.
LoadAgents ==
  /\ Boot("agents", {}, "router")
  /\ registered' = registered \cup {"task_create", "task_get", "task_list", "task_update"}
  /\ UNCHANGED opened

\* Router and websocket channel; the store of the awaited prompts is in the session store.
NewRouter == Boot("router", IF "websocket" \in off THEN {} ELSE {"waits"}, "channels") /\ UNCHANGED bootVars

\* Start returns before it listens, so a port that is taken is only logged; the same holds
\* for the console.
StartChannels == Boot("channels", {}, "ready") /\ UNCHANGED bootVars

Start == LoadConfig \/ InitLogger \/ OpenStorage \/ RegisterTools \/ InitModels \/ NewEngine
         \/ OpenStores \/ LoadAgents \/ NewRouter \/ StartChannels

-----------------------------------------------------------------------------
(* What goes on beside main.                                               *)

Alive == stage \notin Booting /\ stage # "exited"
Listens == stage = "ready" /\ "websocket" \notin off /\ "wsPort" \notin broken
Open(store) == \E i \in DOMAIN opened : opened[i] = store

\* A message comes in; the consumer's loop takes it, also after Close, until the process ends.
Receive(q) ==
  /\ Listens /\ query[q] = "none"
  /\ query' = [query EXCEPT ![q] = "queued"]
  /\ UNCHANGED <<msg, stat, plan>>

Begin(q) ==
  /\ Alive /\ query[q] = "queued"
  /\ query' = [query EXCEPT ![q] = "running"]
  /\ msg' = [msg EXCEPT ![q] = Window]
  /\ UNCHANGED <<stat, plan>>

\* A query adds messages and counts calls, until it notices that it is cancelled.
Work(q) ==
  /\ Alive /\ query[q] = "running"
  /\ \/ msg' = [msg EXCEPT ![q] = Window] /\ UNCHANGED stat
     \/ stat' = [stat EXCEPT ![q] = Window] /\ UNCHANGED msg
  /\ UNCHANGED <<query, plan>>

\* A tool changes a plan: its writer's goroutine holds the mutation.  The writers that
\* StopAll has not taken hold of are new ones.
ChangePlan(q) ==
  /\ Alive /\ query[q] = "running" /\ plan = "idle"
  /\ plan' = IF stage \in {"plans", "defers"} THEN "late" ELSE "writing"
  /\ UNCHANGED <<query, msg, stat>>

End(q) ==
  /\ Alive /\ query[q] = "running"
  /\ query' = [query EXCEPT ![q] = "ended"]
  /\ UNCHANGED <<msg, stat, plan>>

\* A worker's window is over.  A store that is closed refuses the write: nothing is saved.
SaveMessages(q) ==
  /\ Alive /\ Open("storage") /\ msg[q] = 0
  /\ msg' = [msg EXCEPT ![q] = Off]
  /\ UNCHANGED <<query, stat, plan>>

SaveCounters(q) ==
  /\ Alive /\ Open("storage") /\ stat[q] = 0
  /\ stat' = [stat EXCEPT ![q] = Off]
  /\ UNCHANGED <<query, msg, plan>>

PlanWritten ==
  /\ Alive /\ plan # "idle"
  /\ plan' = "idle"
  /\ UNCHANGED <<query, msg, stat>>

Query(q) == Receive(q) \/ Begin(q) \/ Work(q) \/ ChangePlan(q) \/ End(q)
Save(q) == SaveMessages(q) \/ SaveCounters(q)

Beside ==
  /\ (\E q \in Queries : Query(q) \/ Save(q)) \/ PlanWritten
  /\ UNCHANGED beside

\* A request of the management API changes memory, then loads, edits and saves the file.
Serves == stage \in {"ready", "close"} /\ "console" \notin off /\ "consolePort" \notin broken

ApiRequest ==
  /\ \/ Serves /\ request = "none" /\ request' = "changed"
     \/ Alive /\ request = "changed" /\ request' = "none"
  /\ UNCHANGED <<start, stage, code, bootVars, signals, times, work, toPersist, ghosts>>

Down(n) == IF n \in {0, Off} THEN n ELSE n - 1

\* The workers are prompt: no window is over.
Tick ==
  /\ Alive
  /\ Open("storage") => \A q \in Queries : msg[q] # 0 /\ stat[q] # 0
  /\ msg' = [q \in Queries |-> Down(msg[q])] /\ stat' = [q \in Queries |-> Down(stat[q])]
  /\ clock' = IF stage = "ready" \/ clock = Deadline THEN clock ELSE clock + 1
  /\ grace' = IF stage = "grace" THEN Down(grace) ELSE grace
  /\ UNCHANGED <<start, stage, code, bootVars, signals, query, plan, toPersist, request, ghosts>>

-----------------------------------------------------------------------------
(* The stop.                                                               *)

Late == clock = Deadline
Ended == {q \in Queries : query[q] = "ended"}

Exit(c) == stage' = "exited" /\ code' = c

\* The first signal begins the stop once main listens for it and kills the process before
\* that; the second one ends it at once, wherever it is.
Signal ==
  /\ stage # "exited" /\ signals < 2
  /\ signals' = signals + 1
  /\ IF stage = "ready"
     THEN stage' = "close" /\ before' = Ended /\ UNCHANGED code
     ELSE Exit("failed") /\ UNCHANGED before
  /\ UNCHANGED <<start, bootVars, times, work, toPersist, request, settled>>

MainStep(from, to) ==
  /\ stage = from /\ stage' = to
  /\ UNCHANGED <<start, code, bootVars, signals, times, work, request, before>>

\* Bug: stopping only when the queries that are running have ended.
CloseWhenIdle ==
  /\ \A q \in Queries : query[q] # "running"
  /\ MainStep("close", "console")
  /\ UNCHANGED <<toPersist, settled>>

\* channelCancel, and Close on every channel; the queries' contexts are cancelled, and
\* nobody waits for their end.
CloseChannels == MainStep("close", "console") /\ UNCHANGED <<toPersist, settled>>

\* Shutdown waits for the requests that are served, at most until the deadline.
StopConsole ==
  /\ request = "none" \/ Late
  /\ MainStep("console", "grace")
  /\ UNCHANGED <<toPersist, settled>>

\* Bug: no time for what is still going on.
NoGrace ==
  /\ MainStep("grace", "persist")
  /\ toPersist' = {q \in Queries : query[q] \in {"running", "ended"}}
  /\ settled' = Ended

\* Two seconds, or the deadline.  PersistAll then lists the workers there are.
GraceOver ==
  /\ grace = 0 \/ Late
  /\ MainStep("grace", "persist")
  /\ toPersist' = {q \in Queries : query[q] \in {"running", "ended"}}
  /\ settled' = Ended

\* A flush is waited for as long as the deadline allows (PersistWorker, AckMeansSaved); past
\* it the worker was asked and saves when it is scheduled.
Persist(q) ==
  /\ stage = "persist" /\ q \in toPersist
  /\ toPersist' = toPersist \ {q}
  /\ \/ msg' = [msg EXCEPT ![q] = Off]
     \/ Late /\ msg[q] # Off /\ msg' = [msg EXCEPT ![q] = 0]
  /\ UNCHANGED <<start, stage, code, bootVars, signals, times, query, stat, plan, request, ghosts>>

PersistDone ==
  /\ toPersist = {}
  /\ MainStep("persist", "plans")
  /\ UNCHANGED <<toPersist, settled>>

\* Every writer is told to stop and joined; the context StopAll is given is not looked at.
StopPlans ==
  /\ plan # "writing"
  /\ MainStep("plans", "defers")
  /\ UNCHANGED <<toPersist, settled>>

\* The deferred closes, the last one first.
CloseNext ==
  /\ stage = "defers"
  /\ IF opened = <<>>
     THEN Exit("ok") /\ UNCHANGED opened
     ELSE opened' = SubSeq(opened, 1, Len(opened) - 1) /\ UNCHANGED <<stage, code>>
  /\ UNCHANGED <<start, registered, signals, times, work, toPersist, request, ghosts>>

Stop == CloseChannels \/ StopConsole \/ GraceOver \/ (\E q \in Queries : Persist(q))
        \/ PersistDone \/ StopPlans \/ CloseNext

Next == Start \/ Beside \/ ApiRequest \/ Tick \/ Signal \/ Stop

Spec == Init /\ [][Next]_vars

\* main runs, time passes, windows end, and a write to a local file ends.  Nothing is asked
\* of the queries, of the requests or of the operator.
Fairness ==
  /\ WF_vars(Stop) /\ WF_vars(Tick)
  /\ WF_vars(PlanWritten /\ UNCHANGED beside)
  /\ WF_vars((\E q \in Queries : Save(q)) /\ UNCHANGED beside)

-----------------------------------------------------------------------------
(* Properties                                                              *)

\* The tools each agent is given (engine/agent/builtin, emma's DefaultEmmaConfig).
EmmaPalette == {"dispatch", "web_search", "tavily_search", "ask_user_question", "promote", "browser_agent"}
FreelancerPalette ==
  {"read", "edit", "write", "glob", "bash", "web_fetch", "web_search", "tavily_search", "meta_write",
   "search_skill", "load_skill", "unload_skill", "list_loaded_skills", "submit_task_result"}
CreatorPalette ==
  {"image_generate", "video_create", "video_query", "read", "edit", "write", "glob", "grep", "bash",
   "web_search", "tavily_search", "web_fetch", "meta_write", "submit_task_result"}
PlanPalette ==
  {"read", "glob", "grep", "write", "edit", "web_search", "tavily_search", "web_fetch", "meta_write",
   "submit_task_result"}
Palettes == {EmmaPalette, FreelancerPalette, CreatorPalette, PlanPalette, BrowserTools}

\* When a query runs, every tool of an agent's palette is registered, unless the
\* configuration switched something off or there is no home directory: registration is
\* spread over four stages of main, and a palette names its tools by literals.
PalettesAreRegistered ==
  (\E q \in Queries : query[q] = "running") /\ off = {} /\ HasHome
    => UNION Palettes \subseteq registered

\* When the process stops in order: the messages of the queries that had ended when PersistAll
\* listed the workers are on disk (past the deadline, of those that had ended at the signal),
\* and so are their counters, which nobody flushes; a change through the API that memory has
\* is in the file unless the deadline cut it off; and no change of a plan is lost in the hands
\* of a writer that StopAll joins.  One of a writer begun after that may be: the file is
\* replaced by a rename, so it is whole all the same (PlanWriter).
LeavesNothingBehind ==
  code = "ok" =>
    /\ \A q \in IF Late THEN before ELSE settled : msg[q] = Off
    /\ \A q \in before : stat[q] = Off
    /\ Late \/ request = "none"
    /\ plan # "writing"

=============================================================================
